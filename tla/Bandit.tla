------------------------------- MODULE Bandit -------------------------------
(***************************************************************************)
(* Who gets the next cycle: internal/core/bandit.go under Kernel.Cycle, as *)
(* the hunger of the fronts.  The hunger of a front is the number of       *)
(* cycles since its last pick, Kernel.cycle - LastPickCycle; all of        *)
(* Bandit.Pick's justice rule depends on that difference, so the counters  *)
(* themselves are left out.  The UCB1 score, which decides when no front   *)
(* is starved, is a free choice.                                           *)
(*                                                                         *)
(* A cycle that ends well records its pick in memory and in its changeset. *)
(* One that fails burns a cycle number all the same, and if it fails after *)
(* Bandit.Record its pick stays in memory only, until the next changeset   *)
(* carries it along or a restart forgets it.  A restart that cannot read   *)
(* one of the two counters goes on as if it had never been written.        *)
(***************************************************************************)
EXTENDS Integers, FiniteSets

CONSTANTS
  Front,     \* domain.Fronts
  Rank,      \* position of a front in the canonical order
  JusticeK,  \* banditJusticeK
  Failing,   \* fronts whose cycles always fail (say, on a row they cannot read)
  MayFail,   \* may any other cycle fail?
  MayCrash,  \* may the process restart?
  MayMisread,\* may a restart fail to read kernel.cycle or bandit.state?
  Limit,     \* bound: hunger is counted up to here
  Depth      \* bound: and from here, below 0, after a restart that misread

ASSUME BanditAssumption ==
  /\ IsFiniteSet(Front) /\ Front # {}
  /\ Rank \in [Front -> Nat]
  /\ \A f, g \in Front : Rank[f] = Rank[g] => f = g
  /\ Failing \subseteq Front
  /\ MayFail \in BOOLEAN /\ MayCrash \in BOOLEAN /\ MayMisread \in BOOLEAN
  /\ JusticeK \in Nat /\ Limit \in Nat /\ Depth \in Nat

VARIABLES
  hunger, \* [Front -> Int], by the counters in memory
  saved   \* the same by the persisted ones, kernel.cycle and bandit.state

bvars == <<hunger, saved>>

\* k.cycle++.
Tick(h) == [f \in Front |-> IF h[f] < Limit THEN h[f] + 1 ELSE h[f]]

\* A front picked in a cycle the counter has yet to reach again.
Floored(n) == IF n < -Depth THEN -Depth ELSE n

\* Bandit.Record.
Fed(h, f) == [h EXCEPT ![f] = 0]

\* Mutant: the floor counts from more than K.
ChoiceBeyondK(h) ==
  LET S == {f \in Front : h[f] > JusticeK + 1}
  IN  IF S = {} THEN Front
      ELSE {f \in S : \A g \in S : Rank[f] <= Rank[g]}

\* Mutant: the last starved front in canonical order.
ChoiceLast(h) ==
  LET S == {f \in Front : h[f] >= JusticeK}
  IN  IF S = {} THEN Front
      ELSE {f \in S : \A g \in S : Rank[f] >= Rank[g]}

\* Bandit.Pick: the first starved front in canonical order, else by UCB1.
Choice(h) ==
  LET S == {f \in Front : h[f] >= JusticeK}
  IN  IF S = {} THEN Front
      ELSE {f \in S : \A g \in S : Rank[f] <= Rank[g]}

Init ==
  /\ hunger = [f \in Front |-> 0]
  /\ saved = hunger

\* A cycle that commits.
Serve ==
  \E f \in Choice(Tick(hunger)) \ Failing :
    /\ hunger' = Fed(Tick(hunger), f)
    /\ saved' = hunger'

\* A cycle for f that returns an error before Record ran.
FailOn(f) ==
  /\ f \in Choice(Tick(hunger))
  /\ hunger' = Tick(hunger)
  /\ UNCHANGED saved

Fail == \E f \in Front : (MayFail \/ f \in Failing) /\ FailOn(f)

\* A cycle whose changeset fails after Record ran.
FailLate ==
  \E f \in Choice(Tick(hunger)) \ Failing :
    /\ MayFail
    /\ hunger' = Fed(Tick(hunger), f)
    /\ UNCHANGED saved

\* The process restarts: NewKernel and NewBandit hydrate.
Restart ==
  /\ MayCrash
  /\ hunger' = saved
  /\ UNCHANGED saved

\* A restart that takes a read error (or a value it cannot decode) for a key
\* never written: the counter starts at 0, below the arms by all of the saved
\* kernel.cycle c, or the arms at 0, below the counter, or both.
RestartBlind ==
  /\ MayMisread
  /\ \E c \in 0 .. Limit :
       /\ \A f \in Front : saved[f] <= c
       /\ hunger' \in {[f \in Front |-> Floored(saved[f] - c)],
                      [f \in Front |-> c], [f \in Front |-> 0]}
  /\ UNCHANGED saved

Cycle == Serve \/ Fail \/ FailLate
Next == Cycle \/ Restart \/ RestartBlind

Safe == Init /\ [][Next]_bvars

\* The ticker of core.Run goes on for as long as the process lives.
Spec == Safe /\ WF_bvars(Cycle)

-----------------------------------------------------------------------------
TypeOK ==
  /\ hunger \in [Front -> (-Depth) .. Limit]
  /\ saved \in [Front -> (-Depth) .. Limit]

\* Only the cycles of the fronts that always fail still do.
Calm == Serve \/ \E f \in Failing : FailOn(f)

\* However many cycles failed, and whatever picks failures and restarts left in
\* only one of memory and store: once such accidents stop, every front that can
\* work is served again and again, whatever UCB1 prefers.  A failing cycle brings
\* down the attempt, never the loop.
EveryoneServed ==
  <>[][Calm]_bvars => \A f \in Front \ Failing : []<>(saved[f] = 0)

\* And then the justice floor is what the code makes it: such a front is picked
\* at least once in any K + (number of fronts) - 2 cycles in a row.  (D26 and the
\* comment on banditJusticeK say K cycles; with three fronts two of them can be
\* starved in the same cycle.)
JusticeFloor ==
  <>[][Calm]_bvars =>
    <>[](\A f \in Front \ Failing : hunger[f] <= JusticeK + Cardinality(Front) - 3)
=============================================================================
