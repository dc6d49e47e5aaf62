---------------------------- MODULE MCSupervisor ----------------------------
(***************************************************************************)
(* Small instances of Supervisor for TLC.                                  *)
(***************************************************************************)
EXTENDS Supervisor

\* Dead at once, within the window, outside it.
SomeLives == {0, 3, 7}
ThreeVersions == {1, 2, 3}
NewestOfThree == {3}
=============================================================================
