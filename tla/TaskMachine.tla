---------------------------- MODULE TaskMachine ----------------------------
(***************************************************************************)
(* The task state machine of internal/domain/loop.go: the statuses, the    *)
(* terminal ones, the transition table and CanTransition, the one test     *)
(* every write of a task row goes through (Kernel.transition).             *)
(***************************************************************************)
EXTENDS Naturals, Sequences

\* The statuses a row can hold (domain.TaskStatus).
Status ==
  {"NEW", "READY", "RUNNING", "VERIFYING", "SUCCEEDED", "WAITING_TIME",
   "WAITING_EVENT", "WAITING_OPERATOR", "THROTTLED", "BLOCKED", "EXHAUSTED",
   "REPLANNING", "FAILED", "CANCELLED"}

\* taskTerminal: the statuses without a way out.
Terminal == {"SUCCEEDED", "FAILED", "CANCELLED"}

\* taskTransitions, as a set of pairs.
Transitions ==
  ({"NEW", "WAITING_TIME", "WAITING_EVENT", "WAITING_OPERATOR", "THROTTLED",
    "BLOCKED", "REPLANNING"} \X {"READY", "CANCELLED"})
  \cup ({"READY"} \X {"RUNNING", "CANCELLED"})
  \cup ({"RUNNING"} \X
        {"VERIFYING", "WAITING_TIME", "WAITING_EVENT", "WAITING_OPERATOR",
         "THROTTLED", "BLOCKED", "EXHAUSTED", "REPLANNING", "FAILED",
         "CANCELLED"})
  \cup ({"VERIFYING"} \X {"SUCCEEDED", "FAILED", "REPLANNING", "CANCELLED"})
  \cup ({"EXHAUSTED"} \X {"CANCELLED"})

\* domain.CanTransition: cancelling is legal from any live status, a
\* terminal status is frozen, anything else is looked up in the table.
CanTransition(from, to) ==
  /\ from \notin Terminal
  /\ to = "CANCELLED" \/ <<from, to>> \in Transitions

\* A run of transitions written by one changeset is accepted iff each of its
\* steps is: the first refused one fails the changeset and rolls it back.
LegalChain(chain) ==
  \A i \in 1 .. Len(chain) - 1 : CanTransition(chain[i], chain[i + 1])

\* The row's status once the changeset commits.
EndOf(chain) == chain[Len(chain)]
=============================================================================
