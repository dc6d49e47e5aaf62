------------------------------ MODULE MCKernel ------------------------------
(***************************************************************************)
(* Small instances of Kernel for TLC.                                      *)
(***************************************************************************)
EXTENDS Kernel

\* A front whose step calls the model and the deterministic one.
TwoFronts == {"project", "thoughts"}
RankOfTwo == [project |-> 0, thoughts |-> 1]
OneModelFront == {"project"}
AnyFailure == {"bad", "transient", "error"}
NoFailure == {}
=============================================================================
