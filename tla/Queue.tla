-------------------------------- MODULE Queue --------------------------------
(***************************************************************************)
(* The queue of one front as internal/core/kernel.go works it and          *)
(* internal/storage/repos.go orders it: by created_at, in whole seconds of *)
(* a clock that may step back, then by id, compared as text.               *)
(*                                                                         *)
(* Kernel has the tables and the changesets; here are the order and the    *)
(* waits they leave out, so that it can be asked whether every task gets   *)
(* its turn.  The cycles of the other fronts do not touch this queue.      *)
(*                                                                         *)
(* Abstractions: time is counted from now, so a task carries how long its  *)
(* not_before is still away and how far its created_at is ahead of the     *)
(* clock; what ended leaves the queue; one task, any, is marked, to follow *)
(* it.                                                                     *)
(***************************************************************************)
EXTENDS Integers, Sequences, FiniteSetsExt

CONSTANTS
  RetryDelay,     \* throttleRetryDelay
  Backoff,        \* transientBackoff
  ReviveBatch,    \* reviveBatch
  ReconcileBatch, \* reconcileBatch
  MaxLines,       \* bound: tasks not ended, and so outcomes that may be lost
  MaxSkew,        \* bound: seconds the clock may step back
  MaxAhead        \* bound: seconds a created_at is seen to be ahead

ASSUME QueueAssumption ==
  /\ {RetryDelay, Backoff, MaxSkew, MaxAhead, ReviveBatch, ReconcileBatch} \subseteq Nat
  /\ MaxLines \in Nat \ {0}
  /\ MaxSkew <= MaxAhead + 1

VARIABLES
  queue,  \* the front's live tasks in queue order
  pc,     \* where the process is, as far as this front goes
  hand,   \* place of the claimed task, 0 if none
  chosen  \* a task has been marked

vars == <<queue, pc, hand, chosen>>

NotSet == -1  \* not_before is NULL
Earlier == -1 \* created in an earlier second
MaxWait == Max({RetryDelay, Backoff}) + MaxSkew

Task == [status : {"READY", "RUNNING", "THROTTLED"},
         wait   : NotSet .. MaxWait,
         ahead  : Earlier .. MaxAhead,
         mark   : BOOLEAN]

Places == DOMAIN queue

\* The first n of a set of places.
FirstOf(S, n) == {i \in S : Cardinality({j \in S : j < i}) < n}

WithStatus(s) == {i \in Places : queue[i].status = s}

\* Mutant: the youngest task whose wait is over.
NextReadyYoungest ==
  LET S == {i \in WithStatus("READY") : queue[i].wait <= 0}
  IN  {i \in S : \A j \in S : j <= i}

\* TaskRepo.NextReady.
NextReady == FirstOf({i \in WithStatus("READY") : queue[i].wait <= 0}, 1)

\* Mutant: a RUNNING task counts as work that waits.
HasWaitingRunning == Places # {}

\* Mutant: a READY task whose wait is not over does not.
HasWaitingThrottledOnly == WithStatus("THROTTLED") # {}

\* Kernel.hasWaiting, once nothing is ready.
HasWaiting == WithStatus("READY") \cup WithStatus("THROTTLED") # {}

\* TaskRepo.Put of a task created now: behind the older tasks, before those
\* whose created_at is ahead of the clock; among those of the same second the
\* ids decide, and t-p-100000 comes before t-p-99999.
Enqueue(q, t) ==
  {SubSeq(q, 1, n) \o <<t>> \o SubSeq(q, n + 1, Len(q)) :
     n \in {m \in 0 .. Len(q) : /\ \A i \in 1 .. m : q[i].ahead <= 0
                                /\ \A i \in m + 1 .. Len(q) : q[i].ahead >= 0}}

\* newStubTask, NEW then READY in the changeset that creates it.
Create(q) ==
  \E m \in {FALSE, ~chosen} :
    /\ queue' \in Enqueue(q, [status |-> "READY", wait |-> NotSet, ahead |-> 0,
                              mark |-> m])
    /\ chosen' = (chosen \/ m)

SetStatus(S, s) ==
  [i \in Places |-> IF i \in S THEN [queue[i] EXCEPT !.status = s] ELSE queue[i]]

Init == queue = <<>> /\ pc = "down" /\ hand = 0 /\ chosen = FALSE

-----------------------------------------------------------------------------
\* Kernel.Bootstrap: orphans are READY again, in their old place.
Boot ==
  /\ pc = "down" /\ pc' = "idle"
  /\ queue' = SetStatus(FirstOf(WithStatus("RUNNING"), ReconcileBatch), "READY")
  /\ UNCHANGED <<hand, chosen>>

\* A cycle for this front begins: Kernel.reviveThrottled.
Turn ==
  LET S == FirstOf(WithStatus("THROTTLED"), ReviveBatch)
  IN  /\ pc = "idle" /\ pc' = "queue"
      /\ queue' = [i \in Places |->
                     IF i \in S
                     THEN [queue[i] EXCEPT !.status = "READY", !.wait = RetryDelay]
                     ELSE queue[i]]
      /\ UNCHANGED <<hand, chosen>>

\* Kernel.workTask: the claim.
Claim ==
  /\ pc = "queue" /\ pc' = "act"
  /\ \E i \in NextReady :
       /\ queue' = SetStatus({i}, "RUNNING")
       /\ hand' = i
  /\ UNCHANGED chosen

\* The outcome when the task ends: it leaves the queue, its child joins.
End ==
  /\ pc = "act" /\ pc' = "idle" /\ hand' = 0
  /\ Create(SubSeq(queue, 1, hand - 1) \o SubSeq(queue, hand + 1, Len(queue)))

\* The outcome when the quota is gone.
Throttle ==
  /\ pc = "act" /\ pc' = "idle" /\ hand' = 0
  /\ queue' = SetStatus({hand}, "THROTTLED")
  /\ UNCHANGED chosen

\* The outcome of a transient failure.
Retry ==
  /\ pc = "act" /\ pc' = "idle" /\ hand' = 0
  /\ queue' = [queue EXCEPT ![hand].status = "READY", ![hand].wait = Backoff]
  /\ UNCHANGED chosen

\* Kernel.emptyQueue: work is waiting.
Wait ==
  /\ pc = "queue" /\ NextReady = {} /\ HasWaiting
  /\ pc' = "idle"
  /\ UNCHANGED <<queue, hand, chosen>>

\* Kernel.emptyQueue: the queue is empty.
Replenish ==
  /\ pc = "queue" /\ NextReady = {} /\ ~HasWaiting
  /\ pc' = "idle"
  /\ Create(queue)
  /\ UNCHANGED hand

\* Time passes.  A cycle reads the clock when it begins, and what waits is
\* compared with that.
Elapse ==
  /\ pc # "queue"
  /\ \E i \in Places : queue[i].wait > 0 \/ queue[i].ahead > Earlier
  /\ queue' = [i \in Places |->
                 [queue[i] EXCEPT !.wait = IF @ > 0 THEN @ - 1 ELSE @,
                                  !.ahead = IF @ > Earlier THEN @ - 1 ELSE @]]
  /\ UNCHANGED <<pc, hand, chosen>>

-----------------------------------------------------------------------------
\* Accidents: a changeset fails (or the replenisher does) and the loop goes on;
\* a claimed task stays RUNNING.
Derail ==
  /\ \/ pc = "queue"
     \/ pc = "act" /\ Len(queue) < MaxLines
  /\ pc' = "idle" /\ hand' = 0
  /\ UNCHANGED <<queue, chosen>>

Crash ==
  /\ pc # "down" /\ pc' = "down" /\ hand' = 0
  /\ UNCHANGED <<queue, chosen>>

\* The clock steps back by d: what is away gets further, the youngest tasks,
\* from the k-th on, come to lie ahead, and a wait that is over may be so no
\* longer.
ClockBack ==
  /\ pc # "queue"
  /\ \E d \in 1 .. MaxSkew, k \in 1 .. Len(queue), e \in 0 .. MaxSkew :
       /\ e <= d
       /\ queue' = [i \in Places |->
            [queue[i] EXCEPT
               !.wait = IF @ = NotSet THEN @ ELSE IF @ = 0 THEN e
                        ELSE Min({@ + d, MaxWait}),
               !.ahead = IF @ # Earlier THEN Min({@ + d, MaxAhead})
                         ELSE IF i < k THEN @ ELSE d - 1]]
  /\ UNCHANGED <<pc, hand, chosen>>

Outcome == End \/ Throttle \/ Retry
Work == Boot \/ Turn \/ Claim \/ Outcome \/ Wait \/ Replenish
Calm == Work \/ Elapse
Next == Calm \/ Derail \/ Crash \/ ClockBack

\* The supervisor boots the core, the ticker gives cycles and Bandit gives each
\* front its share of them, no step of a cycle blocks, and time passes.
Spec == Init /\ [][Next]_vars /\ WF_vars(Work) /\ SF_vars(Elapse)

-----------------------------------------------------------------------------
\* Types, and what a queue is: sorted by age, one mark at most, the claimed task
\* RUNNING.  The lines of work grow by lost outcomes alone.
TypeOK ==
  /\ queue \in Seq(Task) /\ Len(queue) <= MaxLines
  /\ pc \in {"down", "idle", "queue", "act"}
  /\ chosen \in BOOLEAN
  /\ hand \in 0 .. Len(queue) /\ (hand # 0 <=> pc = "act")
  /\ hand # 0 => queue[hand].status = "RUNNING"
  /\ \A i, j \in Places : i <= j => queue[i].ahead <= queue[j].ahead
  /\ \A i, j \in Places : queue[i].mark /\ queue[j].mark => i = j /\ chosen

Marked == \E i \in Places : queue[i].mark
Lost == \E i \in Places : queue[i].mark /\ queue[i].status = "RUNNING" /\ i # hand
EndMarked == End /\ queue[hand].mark
EndOther == End /\ ~queue[hand].mark

\* Never a silent idle (C4): whatever storage errors, crashes and clock steps
\* left behind (orphans next to waiting and throttled tasks, waits pushed out),
\* once they stop the front takes up a task again and again, even if the
\* provider refuses all of them for ever.
NeverIdle == <>[][Calm]_vars => []<>(pc = "act")

\* Nobody is overtaken for ever: once the accidents stop, and as long as what is
\* tried again and again is answered in the end, every task ends, but for the
\* one whose outcome was lost, which waits for a boot.  Retries, revivals in
\* batches, children and tasks sorted in front of it by the clock only delay it.
EveryTaskEnds ==
  <>[][Calm]_vars /\ SF_vars(EndMarked) /\ SF_vars(EndOther)
    => (<>[]Marked => <>[]Lost)
=============================================================================
