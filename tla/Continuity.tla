----------------------------- MODULE Continuity -----------------------------
(***************************************************************************)
(* What the kernel promises about the work of a front, whatever its store, *)
(* its scheduler and its crashes do: tasks form lines of succession.  A    *)
(* line is opened once; a task in it is tried as often as needed, ends     *)
(* once at most and only while it is being tried, and by ending leaves     *)
(* exactly one heir in the same step.  A line therefore never stops        *)
(* (docs/ARCHITECTURE.md, invariants 1 and 3; C1 in kernel.go).            *)
(***************************************************************************)
EXTENDS Naturals

CONSTANTS
  Front,   \* the fronts
  MaxGen   \* bound: tasks per front

TaskId == Front \X (1 .. MaxGen)

VARIABLES
  begun,    \* tasks that exist
  busy,     \* those being tried, or left behind by a process that tried them
  ended,    \* those that are over
  recorded, \* those whose microturn is on record
  origin    \* number of the task a task is heir of, 0 for one opening a line

cvars == <<begun, busy, ended, recorded, origin>>

TypeOK ==
  /\ begun \subseteq TaskId
  /\ busy \subseteq begun
  /\ ended \subseteq begun
  /\ recorded \subseteq ended
  /\ origin \in [TaskId -> 0 .. MaxGen]

\* Task numbers are handed out in order: u is the next one of its front.
IsNext(u) ==
  /\ u \in TaskId
  /\ \A t \in TaskId : t[1] = u[1] => (t \in begun <=> t[2] < u[2])

Init ==
  /\ begun = {} /\ busy = {} /\ ended = {} /\ recorded = {}
  /\ origin = [t \in TaskId |-> 0]

\* A new line of work.
Open(u) ==
  /\ IsNext(u)
  /\ begun' = begun \cup {u}
  /\ origin' = [origin EXCEPT ![u] = 0]
  /\ UNCHANGED <<busy, ended, recorded>>

\* One task is taken up.
Try(t) ==
  /\ t \in begun \ (busy \cup ended)
  /\ busy' = busy \cup {t}
  /\ UNCHANGED <<begun, ended, recorded, origin>>

\* Tasks are given back, unfinished: one by a retry, many by a boot.
GiveBack(S) ==
  /\ S # {} /\ S \subseteq busy
  /\ busy' = busy \ S
  /\ UNCHANGED <<begun, ended, recorded, origin>>

\* A task ends, with or without its microturn on record, and u is its heir.
End(t, u) ==
  /\ t \in busy /\ IsNext(u) /\ u[1] = t[1]
  /\ begun' = begun \cup {u}
  /\ busy' = busy \ {t}
  /\ ended' = ended \cup {t}
  /\ recorded' \in {recorded, recorded \cup {t}}
  /\ origin' = [origin EXCEPT ![u] = t[2]]

Next ==
  \/ \E u \in TaskId : Open(u)
  \/ \E t \in TaskId : Try(t)
  \/ \E S \in SUBSET busy : GiveBack(S)
  \/ \E t, u \in TaskId : End(t, u)

Spec == Init /\ [][Next]_cvars

IsHeir(u, t) == u \in begun /\ u[1] = t[1] /\ origin[u] = t[2]

\* A task that ended has exactly one heir, one that did not has none, and an
\* heir is younger than the task it continues.
Succession ==
  /\ \A t \in ended : \E u \in TaskId : IsHeir(u, t)
  /\ \A t \in ended : \A u, v \in TaskId : IsHeir(u, t) /\ IsHeir(v, t) => u = v
  /\ \A t \in TaskId \ ended : \A u \in TaskId : ~IsHeir(u, t)
  /\ \A u \in begun : origin[u] < u[2]

\* What is over stays over, as it was recorded.
History == [][ended \subseteq ended' /\ recorded' \cap ended = recorded]_cvars
=============================================================================
