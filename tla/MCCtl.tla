------------------------------- MODULE MCCtl --------------------------------
(***************************************************************************)
(* A small instance of Ctl: logs of up to three pages of two, a limit that *)
(* is reached in the middle of the second page.                            *)
(***************************************************************************)
EXTENDS Ctl

NoneOrThree == {0, 3}
=============================================================================
