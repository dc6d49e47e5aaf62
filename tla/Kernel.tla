------------------------------- MODULE Kernel -------------------------------
(***************************************************************************)
(* The serial multicycle loop of internal/core/kernel.go over its SQLite   *)
(* store: boot, crash reconciliation, one cycle at a time.                 *)
(*                                                                         *)
(* A changeset (port.Unit) is one SQLite transaction, so each action that  *)
(* commits one writes all of its rows at once; the process can die, be     *)
(* cancelled, or meet a storage error between any two of them, and a       *)
(* changeset that fails leaves no row behind.                              *)
(*                                                                         *)
(* Abstractions:                                                           *)
(*   - a task is <<front, n>>, n the kv counter gen.<front> its id is made *)
(*     of; title, hashes, reasons and durations are left out, and so is    *)
(*     the attempt counter, which no guard reads;                          *)
(*   - not_before is the flag due: FALSE while the local wait lasts;       *)
(*   - the bandit keeps its pick counters and last-pick cycles; the UCB1   *)
(*     score is a free choice among the fronts, the justice floor is not;  *)
(*   - the event log keeps what the crash-replay test reads out of it for  *)
(*     kernel.cycle: how many there are, per front, the last number, and   *)
(*     how often a number was not above the one before;                    *)
(*   - cancelling the context makes every later Begin fail, which ends the *)
(*     process with the same rows as a crash: both are Crash.              *)
(***************************************************************************)
EXTENDS TaskMachine, Integers, FiniteSets

CONSTANTS
  Front,          \* domain.Fronts
  Rank,           \* position of a front in the canonical order
  ModelFront,     \* fronts whose step calls the provider (StepKindOf = model)
  JusticeK,       \* banditJusticeK
  ReviveBatch,    \* reviveBatch
  ReconcileBatch, \* reconcileBatch
  Quota,          \* microturns the fake provider can pay in one process life
  Injected,       \* what a provider other than the fake one may also answer
  ReplenishFails, \* may Deps.Replenisher fail?
  MaxGen,         \* bound: tasks per front
  MaxCycle,       \* bound: cycle numbers
  MaxEvents,      \* bound: kernel.cycle events
  MaxFaults,      \* bound: storage errors met by the running process
  MaxErrors       \* bound: those, and the keys boots misread

ASSUME KernelAssumption ==
  /\ IsFiniteSet(Front) /\ Front # {}
  /\ Rank \in [Front -> Nat]
  /\ \A f, g \in Front : Rank[f] = Rank[g] => f = g
  /\ ModelFront \subseteq Front
  /\ JusticeK \in Nat /\ ReviveBatch \in Nat /\ ReconcileBatch \in Nat
  /\ Quota \in Nat /\ MaxGen \in Nat /\ MaxCycle \in Nat /\ MaxEvents \in Nat
  /\ MaxFaults \in Nat /\ MaxErrors \in Nat
  /\ Injected \subseteq {"bad", "transient", "error"}
  /\ ReplenishFails \in BOOLEAN

TaskId == Front \X (1 .. MaxGen)
NoTask == <<"none", 0>>
NoFront == "none"

\* The keys NewKernel and NewBandit hydrate from.
Key == {"kernel.cycle", "bandit.state"}

\* Outcomes of a microturn as workTask tells them apart: a reply the verifier
\* accepts or refuses, ErrQuotaExceeded, ErrTransient, any other error.
Reply == {"ok", "bad", "quota", "transient", "error"}

VARIABLES
  \* rows of the store
  mission,   \* the stub mission exists
  status,    \* [TaskId -> Status \cup {"ABSENT"}]
  due,       \* [TaskId -> BOOLEAN], FALSE while not_before is in the future
  parent,    \* [TaskId -> Nat], n of the task in derived_from, 0 for "gen:"
  steps,     \* [TaskId -> Nat], step rows (each with its step.recorded event)
  gen,       \* [Front -> Nat], kv gen.<front>
  kv,        \* the persisted Ledger: kv kernel.cycle and bandit.state
  log,       \* kernel.cycle events
  \* memory of the core process
  pc,        \* where the process is
  mem,       \* the Ledger in memory: Kernel.cycle and Bandit.state
  quota,     \* microturns the provider can still pay
  cur,       \* locals of the running cycle
  \* bookkeeping of the model
  faults,    \* storage errors met so far
  misread    \* [Key -> Nat], boots so far that took a written key for a new one

rows == <<mission, status, due, parent, steps, gen, kv, log>>
process == <<pc, mem, quota, cur>>
vars == <<rows, process, faults, misread>>

Ledger == [cycle : Nat, picks : [Front -> Nat], last : [Front -> Nat]]
FreshLedger ==
  [cycle |-> 0, picks |-> [f \in Front |-> 0], last |-> [f \in Front |-> 0]]
Errors == faults + misread["kernel.cycle"] + misread["bandit.state"]
NoMisread == [k \in Key |-> 0]
NoRun == [front |-> NoFront, task |-> NoTask, reply |-> "none"]

-----------------------------------------------------------------------------
(***************************************************************************)
(* Queries                                                                 *)
(***************************************************************************)

\* The k oldest members of a set of tasks of one front: ORDER BY created_at,
\* id LIMIT k, ids being handed out in creation order.
Oldest(S, k) == {t \in S : Cardinality({u \in S : u[2] < t[2]}) < k}

WithStatus(f, s) == {t \in TaskId : t[1] = f /\ status[t] = s}

\* TaskRepo.ListByStatus.
ListByStatus(f, s, limit) == Oldest(WithStatus(f, s), limit)

\* TaskRepo.NextReady: the oldest READY task whose wait is over, if any.
NextReady(f) == Oldest({t \in WithStatus(f, "READY") : due[t]}, 1)

\* Mutant: a wait that is not over is taken for an empty queue.
HasWaitingThrottledOnly(f) == ListByStatus(f, "THROTTLED", 1) # {}

\* Kernel.hasWaiting: a READY task (its wait not over) or a THROTTLED one.
HasWaiting(f) ==
  \/ ListByStatus(f, "READY", 1) # {}
  \/ ListByStatus(f, "THROTTLED", 1) # {}

\* Mutant: the floor counts from more than K.
StarvedBeyondK(l, c) == {f \in Front : c - l.last[f] > JusticeK}

\* Bandit.Pick, first rule: the fronts not picked for K cycles or more.
Starved(l, c) == {f \in Front : c - l.last[f] >= JusticeK}

\* Bandit.Pick: the first starved front in canonical order, or else the front
\* with the highest UCB1 score, which may be any.
Pick(l, c) ==
  LET S == Starved(l, c)
  IN  IF S = {} THEN Front
      ELSE {f \in S : \A g \in S : Rank[f] <= Rank[g]}

\* Bandit.Record on the ledger in memory.
Record(l, f) ==
  [cycle |-> l.cycle,
   picks |-> [l.picks EXCEPT ![f] = @ + 1],
   last  |-> [l.last EXCEPT ![f] = l.cycle]]

-----------------------------------------------------------------------------
(***************************************************************************)
(* Parts of a changeset                                                    *)
(***************************************************************************)

\* The event log with the kernel.cycle event of the cycle under way.
Logged(f) ==
  [n     |-> log.n + 1,
   last  |-> mem.cycle,
   falls |-> IF mem.cycle > log.last THEN log.falls ELSE log.falls + 1,
   front |-> [log.front EXCEPT ![f] = @ + 1]]

\* Mutant: the counter is not written with the event.
SettleWithoutCounter(f) ==
  /\ mem' = Record(mem, f)
  /\ kv' = [mem' EXCEPT !.cycle = kv.cycle]
  /\ log' = Logged(f)

\* Mutant: the arms are written before the pick is counted.
SettleStaleArms(f) ==
  /\ mem' = Record(mem, f)
  /\ kv' = mem
  /\ log' = Logged(f)

\* Kernel.settle: the kernel.cycle event, the arm's record (made in memory,
\* then written) and the cycle counter.
Settle(f) ==
  /\ mem' = Record(mem, f)
  /\ kv' = mem'
  /\ log' = Logged(f)

\* Mutant: the counter is read where the previous advance is not seen yet.
NewTaskStale(f) == <<f, IF gen[f] = 0 THEN 1 ELSE gen[f]>>

\* newStubTask: the id made of the counter read and advanced in the changeset.
NewTask(f) == <<f, gen[f] + 1>>

\* Replenisher / Kernel.child: a task is born NEW and made READY by the
\* changeset that creates it; st is what the changeset did to the rows before.
Create(f, from, st) ==
  LET t == NewTask(f)
      birth == <<"NEW", "READY">>
  IN  /\ gen[f] < MaxGen
      /\ LegalChain(birth)
      /\ gen' = [gen EXCEPT ![f] = @ + 1]
      /\ status' = [st EXCEPT ![t] = EndOf(birth)]
      /\ due' = [due EXCEPT ![t] = TRUE]
      /\ parent' = [parent EXCEPT ![t] = from]

\* Mutant: success stops at the verification.
ChainUnfinished ==
  [ok        |-> <<"RUNNING", "VERIFYING">>,
   bad       |-> <<"RUNNING", "VERIFYING", "FAILED">>,
   error     |-> <<"RUNNING", "FAILED">>,
   quota     |-> <<"RUNNING", "THROTTLED">>,
   transient |-> <<"RUNNING", "REPLANNING", "READY">>]

\* The transitions the outcome changeset writes on the claimed task.
Chain ==
  [ok        |-> <<"RUNNING", "VERIFYING", "SUCCEEDED">>,
   bad       |-> <<"RUNNING", "VERIFYING", "FAILED">>,
   error     |-> <<"RUNNING", "FAILED">>,
   quota     |-> <<"RUNNING", "THROTTLED">>,
   transient |-> <<"RUNNING", "REPLANNING", "READY">>]

\* Mutant: only tasks caught in verification are seen as orphans.
OrphansVerifyingOnly ==
  UNION {ListByStatus(f, "VERIFYING", ReconcileBatch) : f \in Front}

\* Kernel.Bootstrap's list of orphans, front by front and status by status.
Orphans ==
  UNION {ListByStatus(f, s, ReconcileBatch) :
           f \in Front, s \in {"RUNNING", "VERIFYING"}}

-----------------------------------------------------------------------------
Init ==
  /\ mission = FALSE
  /\ status = [t \in TaskId |-> "ABSENT"]
  /\ due = [t \in TaskId |-> FALSE]
  /\ parent = [t \in TaskId |-> 0]
  /\ steps = [t \in TaskId |-> 0]
  /\ gen = [f \in Front |-> 0]
  /\ kv = FreshLedger
  /\ log = [n |-> 0, last |-> 0, falls |-> 0, front |-> [f \in Front |-> 0]]
  /\ pc = "down"
  /\ mem = FreshLedger
  /\ quota = 0
  /\ cur = NoRun
  /\ faults = 0 /\ misread = NoMisread

\* What is in memory after a boot that takes some keys for ones never written.
Hydrated(unread) ==
  LET arms == IF "bandit.state" \in unread THEN FreshLedger ELSE kv
  IN  [cycle |-> IF "kernel.cycle" \in unread THEN 0 ELSE kv.cycle,
       picks |-> arms.picks,
       last  |-> arms.last]

\* NewKernel and NewFakeProvider: hydrate the counter and the bandit, each from
\* a key of its own.  A key that cannot be read or decoded is taken for one that
\* was never written, and the process goes on.
Boot ==
  /\ pc = "down"
  /\ \E unread \in SUBSET Key :
       /\ unread # {} => kv # FreshLedger /\ Errors + Cardinality(unread) <= MaxErrors
       /\ mem' = Hydrated(unread)
       /\ misread' = [k \in Key |-> IF k \in unread THEN misread[k] + 1 ELSE misread[k]]
  /\ pc' = "boot" /\ quota' = Quota
  /\ UNCHANGED <<rows, cur, faults>>

\* Kernel.Bootstrap: the mission if absent, every listed orphan back to READY.
\* If it fails the process exits: that is a Crash.
Bootstrap ==
  /\ pc = "boot"
  /\ \A t \in Orphans : LegalChain(<<status[t], "REPLANNING", "READY">>)
  /\ mission' = TRUE
  /\ status' = [t \in TaskId |-> IF t \in Orphans THEN "READY" ELSE status[t]]
  /\ pc' = "idle"
  /\ UNCHANGED <<due, parent, steps, gen, kv, log, mem, quota, cur, faults, misread>>

\* Kernel.Cycle up to the bandit's choice.
PickFront ==
  /\ pc = "idle"
  /\ mem.cycle < MaxCycle /\ log.n < MaxEvents
  /\ mem' = [mem EXCEPT !.cycle = @ + 1]
  /\ \E f \in Pick(mem, mem'.cycle) : cur' = [NoRun EXCEPT !.front = f]
  /\ pc' = "revive"
  /\ UNCHANGED <<rows, quota, faults, misread>>

\* Kernel.reviveThrottled: THROTTLED tasks of the front are READY again, with
\* a local wait. With none listed no changeset is opened.
Revive ==
  LET S == ListByStatus(cur.front, "THROTTLED", ReviveBatch)
  IN  /\ pc = "revive"
      /\ LegalChain(<<"THROTTLED", "READY">>)
      /\ status' = [t \in TaskId |-> IF t \in S THEN "READY" ELSE status[t]]
      /\ due' = [t \in TaskId |-> IF t \in S THEN FALSE ELSE due[t]]
      /\ pc' = "queue"
      /\ UNCHANGED <<mission, parent, steps, gen, kv, log, mem, quota, cur, faults, misread>>

\* Kernel.workTask, first changeset: READY to RUNNING, committed on its own.
Claim ==
  \E t \in NextReady(cur.front) :
    /\ pc = "queue"
    /\ LegalChain(<<status[t], "RUNNING">>)
    /\ status' = [status EXCEPT ![t] = "RUNNING"]
    /\ cur' = [cur EXCEPT !.task = t]
    /\ pc' = "act"
    /\ UNCHANGED <<mission, due, parent, steps, gen, kv, log, mem, quota, faults, misread>>

\* What the step of a front may answer: reflect never fails; the fake provider
\* pays until its quota is gone, other providers may also fail.
Answers(f) ==
  IF f \in ModelFront
  THEN {IF quota = 0 THEN "quota" ELSE "ok"} \cup Injected
  ELSE {"ok"}

\* Mutant: the step is recorded as soon as the answer is there, in a changeset
\* of its own.
MicroturnRecorded ==
  /\ pc = "act"
  /\ \E r \in Answers(cur.front) :
       /\ cur' = [cur EXCEPT !.reply = r]
       /\ quota' = IF cur.front \in ModelFront /\ r = "ok" THEN quota - 1 ELSE quota
  /\ steps' = [steps EXCEPT ![cur.task] = @ + 1]
  /\ pc' = "outcome"
  /\ UNCHANGED <<mission, status, due, parent, gen, kv, log, mem, faults, misread>>

\* The microturn, outside any transaction.
Microturn ==
  /\ pc = "act"
  /\ \E r \in Answers(cur.front) :
       /\ cur' = [cur EXCEPT !.reply = r]
       /\ quota' = IF cur.front \in ModelFront /\ r = "ok" THEN quota - 1 ELSE quota
  /\ pc' = "outcome"
  /\ UNCHANGED <<rows, mem, faults, misread>>

\* Mutant: a task that fails without an answer gets no replacement.
EndTaskHeirless ==
  LET t == cur.task
      chain == Chain[cur.reply]
  IN  /\ pc = "outcome" /\ cur.reply \in {"ok", "bad", "error"}
      /\ LegalChain(chain)
      /\ IF cur.reply = "error"
         THEN /\ status' = [status EXCEPT ![t] = EndOf(chain)]
              /\ UNCHANGED <<due, parent, gen>>
         ELSE Create(cur.front, t[2], [status EXCEPT ![t] = EndOf(chain)])
      /\ steps' = IF cur.reply = "error" THEN steps
                  ELSE [steps EXCEPT ![t] = @ + 1]
      /\ Settle(cur.front)
      /\ pc' = "idle" /\ cur' = NoRun
      /\ UNCHANGED <<mission, quota, faults, misread>>

\* Kernel.workTask, second changeset, when the task ends (succeedTask,
\* failTask): the step if there was an answer, the end, the child, telemetry.
EndTask ==
  LET t == cur.task
      chain == Chain[cur.reply]
  IN  /\ pc = "outcome" /\ cur.reply \in {"ok", "bad", "error"}
      /\ LegalChain(chain)
      /\ Create(cur.front, t[2], [status EXCEPT ![t] = EndOf(chain)])
      /\ steps' = IF cur.reply = "error" THEN steps
                  ELSE [steps EXCEPT ![t] = @ + 1]
      /\ Settle(cur.front)
      /\ pc' = "idle" /\ cur' = NoRun
      /\ UNCHANGED <<mission, quota, faults, misread>>

\* The same changeset when the task goes back to wait: for the quota to come
\* back (revived later), or for the transient failure to pass.
ReleaseTask ==
  LET t == cur.task
      chain == Chain[cur.reply]
  IN  /\ pc = "outcome" /\ cur.reply \in {"quota", "transient"}
      /\ LegalChain(chain)
      /\ status' = [status EXCEPT ![t] = EndOf(chain)]
      /\ due' = IF cur.reply = "transient" THEN [due EXCEPT ![t] = FALSE] ELSE due
      /\ Settle(cur.front)
      /\ pc' = "idle" /\ cur' = NoRun
      /\ UNCHANGED <<mission, parent, steps, gen, quota, faults, misread>>

\* Kernel.emptyQueue, work is waiting: telemetry only (finishCycle).
Wait ==
  /\ pc = "queue"
  /\ NextReady(cur.front) = {} /\ HasWaiting(cur.front)
  /\ Settle(cur.front)
  /\ pc' = "idle" /\ cur' = NoRun
  /\ UNCHANGED <<mission, status, due, parent, steps, gen, quota, faults, misread>>

\* Kernel.emptyQueue, the queue is empty: one replenishing task.
Replenish ==
  /\ pc = "queue"
  /\ NextReady(cur.front) = {} /\ ~HasWaiting(cur.front)
  /\ Create(cur.front, 0, status)
  /\ Settle(cur.front)
  /\ pc' = "idle" /\ cur' = NoRun
  /\ UNCHANGED <<mission, steps, quota, faults, misread>>

\* Kernel.emptyQueue, the replenisher fails: rollback, then blockedEpisode.
Blocked ==
  /\ pc = "queue" /\ ReplenishFails
  /\ NextReady(cur.front) = {} /\ ~HasWaiting(cur.front)
  /\ Settle(cur.front)
  /\ pc' = "idle" /\ cur' = NoRun
  /\ UNCHANGED <<mission, status, due, parent, steps, gen, quota, faults, misread>>

\* A storage error before the changeset in hand reached Bandit.Record: it is
\* rolled back, Cycle returns the error and Run goes on with the next tick.
Derail ==
  /\ pc \in {"revive", "queue", "outcome"} /\ faults < MaxFaults /\ Errors < MaxErrors
  /\ faults' = faults + 1
  /\ pc' = "idle" /\ cur' = NoRun
  /\ UNCHANGED <<rows, mem, quota, misread>>

\* The same after Bandit.Record changed the arm in memory.
DerailLate ==
  /\ \/ pc = "outcome"
     \/ pc = "queue" /\ NextReady(cur.front) = {}
  /\ faults < MaxFaults /\ Errors < MaxErrors
  /\ faults' = faults + 1
  /\ mem' = Record(mem, cur.front)
  /\ pc' = "idle" /\ cur' = NoRun
  /\ UNCHANGED <<rows, quota, misread>>

\* The process dies (kill -9, SIGTERM and its cancelled context, a failed
\* Bootstrap): the open changeset and the memory are gone.
Crash ==
  /\ pc # "down"
  /\ pc' = "down"
  /\ mem' = FreshLedger /\ quota' = 0 /\ cur' = NoRun
  /\ UNCHANGED <<rows, faults, misread>>

\* A local wait ends. Cycle reads the clock once, so within a cycle it is as
\* if no time passed.
Elapse ==
  /\ pc \in {"down", "idle"}
  /\ \E t \in TaskId :
       /\ status[t] = "READY" /\ ~due[t]
       /\ due' = [due EXCEPT ![t] = TRUE]
  /\ UNCHANGED <<mission, status, parent, steps, gen, kv, log, process, faults, misread>>

Next ==
  \/ Boot \/ Bootstrap
  \/ PickFront \/ Revive \/ Claim \/ Microturn \/ EndTask \/ ReleaseTask
  \/ Wait \/ Replenish \/ Blocked
  \/ Derail \/ DerailLate \/ Crash \/ Elapse

Spec == Init /\ [][Next]_vars

-----------------------------------------------------------------------------
(***************************************************************************)
(* Properties                                                              *)
(***************************************************************************)

Running == {t \in TaskId : status[t] = "RUNNING"}
Ended(t) == status[t] \in Terminal
Live(t) == status[t] \notin Terminal \cup {"ABSENT"}
Heirs(t) == {u \in TaskId : u[1] = t[1] /\ status[u] # "ABSENT" /\ parent[u] = t[2]}

\* Types of the rows and of the process. A committed row is never in a status
\* that a changeset only passes through (NEW, VERIFYING, REPLANNING).
RestStatus == {"ABSENT", "READY", "RUNNING", "THROTTLED", "SUCCEEDED", "FAILED"}
TypeOK ==
  /\ mission \in BOOLEAN
  /\ status \in [TaskId -> RestStatus]
  /\ due \in [TaskId -> BOOLEAN]
  /\ parent \in [TaskId -> 0 .. MaxGen]
  /\ steps \in [TaskId -> Nat]
  /\ gen \in [Front -> 0 .. MaxGen]
  /\ kv \in Ledger
  /\ log \in [n : Nat, last : Nat, falls : Nat, front : [Front -> Nat]]
  /\ pc \in {"down", "boot", "idle", "revive", "queue", "act", "outcome"}
  /\ mem \in Ledger
  /\ quota \in Nat
  /\ cur \in [front : Front \cup {NoFront}, task : TaskId \cup {NoTask},
              reply : Reply \cup {"none"}]
  /\ faults \in 0 .. MaxFaults /\ misread \in [Key -> Nat]

\* C1, "the queue never depends on luck": whatever crashes and storage errors
\* fall between claim, microturn and outcome, a task that ended left exactly
\* one heir and a task that did not end left none; so the work of a front
\* never stops once it started, and is never duplicated by a retry.
OneHeir ==
  \A t \in TaskId :
    /\ Ended(t) => \E u \in Heirs(t) : Heirs(t) = {u}
    /\ ~Ended(t) => Heirs(t) = {}

\* The microturn of a task may run many times (crash after the model answered,
\* a derailed outcome, retries), yet it is recorded once at most, together
\* with the end of the task, and a success is always recorded.
StepOnce ==
  \A t \in TaskId :
    /\ steps[t] <= 1
    /\ steps[t] = 1 => Ended(t)
    /\ status[t] = "SUCCEEDED" => steps[t] = 1

\* The inductive form of the facts about rows: ids are handed out densely, and
\* from the claim to the outcome the task in hand is the RUNNING row of the
\* front the cycle works for.
Inductive ==
  /\ TypeOK
  /\ \A t \in TaskId : status[t] # "ABSENT" <=> t[2] <= gen[t[1]]
  /\ pc \in {"revive", "queue", "act", "outcome"} => cur.front \in Front
  /\ pc \in {"act", "outcome"} =>
       /\ cur.task \in TaskId
       /\ cur.task[1] = cur.front
       /\ status[cur.task] = "RUNNING"
  /\ pc = "outcome" => cur.reply \in Reply
  /\ StepOnce

\* kernel.go's header and ARCHITECTURE.md: stopping in the middle leaves one
\* RUNNING orphan at most.
AtMostOneRunning == Cardinality(Running) <= 1

\* A front with one task at work or waiting is not an empty queue (C4): the
\* replenisher never opens a second line of work next to a live one.
OneLinePerFront ==
  \A f \in Front : Cardinality({t \in TaskId : t[1] = f /\ Live(t)}) <= 1

\* With storage errors a derailed outcome hides its RUNNING task from
\* hasWaiting and the replenisher opens one more line, but one per error.
LinesBounded ==
  \A f \in Front : Cardinality({t \in TaskId : t[1] = f /\ Live(t)}) <= 1 + faults

\* And the rows left RUNNING are one for each such error, next to the one at
\* work: neither crashes nor retries nor reconciliation ever add to them.
RunningBounded == Cardinality(Running) <= 1 + faults

\* Between them they bound what storage errors cost in rows: what one of them
\* leaves behind is taken back or worked off, and never breeds more.
RowsBounded == LinesBounded /\ RunningBounded

\* Counters and log are written together, and memory alone gets ahead of them:
\* each storage error of the running process leaves one number and one unlogged
\* pick in the counters at most, a crash none, whatever boots misread.  And what
\* is in the log is missing from the counter, or from the arms, only if a boot
\* took that very key for one never written.
TelemetryBounded ==
  /\ kv.cycle <= log.n + faults
  /\ misread["kernel.cycle"] = 0 => log.n <= kv.cycle
  /\ \A f \in Front :
       /\ kv.picks[f] <= log.front[f] + faults
       /\ misread["bandit.state"] = 0 => log.front[f] <= kv.picks[f]

\* Crash-replay assertion A: the persisted cycle counter is the number of
\* kernel.cycle events.
CounterMatchesLog == kv.cycle = log.n

\* The persisted bandit counts, arm by arm, exactly the cycles in the log:
\* a decision and its effect are one changeset (D03/D26).
PicksMatchLog == \A f \in Front : kv.picks[f] = log.front[f]

\* The numbers of the kernel.cycle events only go up, across derailed cycles
\* (which burn a number) and crashes (which give it back): they fall back, and
\* so are used twice, once at most for each boot that misread the counter.
CycleNumbersAdvance == log.falls <= misread["kernel.cycle"]

\* After a boot the store holds no RUNNING row: nothing that was in flight in
\* an earlier process life is lost to the queue.
BootLeavesNoOrphan == [][pc = "boot" /\ pc' = "idle" => Running' = {}]_vars

\* The inductive form of the facts about the ledgers.  Whatever boots misread,
\* the counter is the number of the last event, and a cycle under way works for
\* the front the bandit gave it.  Memory is behind the store only after a boot
\* that misread the counter, until it commits; and no pick is later than the
\* counter unless a boot misread one of the two.
InCycle == pc \in {"revive", "queue", "act", "outcome"}
Behind == \/ pc \in {"boot", "idle"} /\ mem.cycle < kv.cycle
          \/ InCycle /\ mem.cycle <= kv.cycle
LedgerInductive ==
  /\ kv.cycle <= MaxCycle /\ log.last = kv.cycle
  /\ \A f \in Front : kv.last[f] <= MaxCycle
  /\ pc # "down" =>
       /\ mem.cycle <= MaxCycle
       /\ \A f \in Front : mem.last[f] <= MaxCycle
  /\ InCycle => mem.cycle > 0 /\ cur.front \in Pick(mem, mem.cycle)
  /\ log.falls <= misread["kernel.cycle"]
  /\ Behind => log.falls < misread["kernel.cycle"]
  /\ misread = NoMisread =>
       /\ \A f \in Front : kv.last[f] <= kv.cycle
       /\ pc # "down" => \A f \in Front : mem.last[f] <= mem.cycle
       /\ InCycle => \A f \in Front : mem.last[f] < mem.cycle

\* The kernel implements the abstract succession of tasks.
Begun == {t \in TaskId : status[t] # "ABSENT"}
Over == {t \in TaskId : Ended(t)}
Recorded == {t \in TaskId : steps[t] > 0}
Lines == INSTANCE Continuity WITH
  begun <- Begun, busy <- Running, ended <- Over, recorded <- Recorded,
  origin <- parent

\* Every step of the kernel, crashes and derailed cycles included, is a step of
\* the succession or leaves it alone: no task is tried twice at once, ended
\* without an heir, ended again, or given back unless it was being tried.
KeepsLines == Lines!Spec

\* The kernel schedules as Bandit says: hunger by the counters in memory while
\* the process lives (a cycle under way not counted yet), else by the saved.
Hunger ==
  [f \in Front |->
     IF pc = "down" THEN kv.cycle - kv.last[f]
     ELSE IF pc \in {"boot", "idle"} THEN mem.cycle - mem.last[f]
     ELSE mem.cycle - 1 - mem.last[f]]
Justice == INSTANCE Bandit WITH
  Failing <- {}, MayFail <- TRUE, MayCrash <- TRUE, MayMisread <- TRUE,
  Limit <- MaxCycle, Depth <- MaxCycle,
  hunger <- Hunger,
  saved <- [f \in Front |-> kv.cycle - kv.last[f]]

\* Every step of the kernel is a cycle, a failed cycle or a restart of Bandit, one
\* that misread included, or leaves the hunger of the fronts alone: a pick is
\* recorded if and only if its changeset commits, but for the one a failed
\* changeset leaves in memory, and the front that worked is the one the justice
\* rule gave the cycle to.
KeepsJustice == Justice!Safe

\* The justice floor as the code makes it, as long as no boot misread a counter:
\* no front is ever left without a pick for K + (number of fronts) - 2 cycles in
\* a row, and a storage error costs one cycle more at most, whatever UCB1 prefers
\* and wherever the process dies.  (A boot that misreads one of the two counters
\* makes fronts wait by all of the other; Bandit says what is left then.)
FloorKept ==
  misread = NoMisread =>
    \A f \in Front : Hunger[f] <= JusticeK + Cardinality(Front) - 3 + faults
=============================================================================
