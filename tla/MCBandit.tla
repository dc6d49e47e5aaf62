------------------------------ MODULE MCBandit ------------------------------
(***************************************************************************)
(* The three fronts of domain.Fronts for TLC.                              *)
(***************************************************************************)
EXTENDS Bandit

AllFronts == {"project", "thoughts", "self"}
CanonicalRank ==
  [f \in AllFronts |-> CASE f = "project" -> 0 [] f = "thoughts" -> 1 [] f = "self" -> 2]
FirstFront == {"project"}
LastFront == {"self"}
=============================================================================
