---------------------------- MODULE KernelProofs ----------------------------
(***************************************************************************)
(* Theorems about the kernel loop, for all fronts, bounds and providers:   *)
(*   - rows: types, steps recorded once;                                   *)
(*   - the refinement of Continuity, one heir per ended task;              *)
(*   - counter and arms, the refinement of Bandit;                         *)
(*   - the justice floor;                                                  *)
(*   - storage errors: ledgers against the log, RUNNING rows, lines;       *)
(*   - what is left of that without storage errors.                        *)
(* The invariants: Inductive for the rows, LedgerInductive for the         *)
(* counters, FloorInv for the fronts' waits, LedgerSlack and RowSlack for  *)
(* the errors.                                                             *)
(***************************************************************************)
EXTENDS Kernel, FiniteSetTheorems, WellFoundedInduction, TLAPS

\* The queue queries only return task rows with the status asked for.
LEMMA ListedRows ==
  ASSUME NEW f \in Front
  PROVE  /\ \A s, k : \A t \in ListByStatus(f, s, k) :
              t \in TaskId /\ t[1] = f /\ status[t] = s
         /\ \A t \in NextReady(f) :
              t \in TaskId /\ t[1] = f /\ status[t] = "READY" /\ due[t]
BY DEF ListByStatus, NextReady, WithStatus, Oldest

\* An orphan is a RUNNING or a VERIFYING row.
LEMMA OrphanRows ==
  \A t \in Orphans : t \in TaskId /\ status[t] \in {"RUNNING", "VERIFYING"}
BY ListedRows DEF Orphans

\* The id made for a new task is an id, and no row has it.
LEMMA NewTaskIsFresh ==
  ASSUME NEW f \in Front, Inductive, gen[f] < MaxGen
  PROVE  NewTask(f) \in TaskId /\ NewTask(f)[1] = f
         /\ NewTask(f)[2] = gen[f] + 1 /\ status[NewTask(f)] = "ABSENT"
<1>1. gen[f] \in Nat /\ gen[f] + 1 \in 1 .. MaxGen
  BY KernelAssumption DEF Inductive, TypeOK
<1>2. NewTask(f) \in TaskId /\ NewTask(f)[1] = f /\ NewTask(f)[2] = gen[f] + 1
  BY <1>1 DEF NewTask, TaskId
<1>3. QED
  BY <1>1, <1>2 DEF Inductive, TypeOK

\* Recording a cycle keeps the ledger a ledger.
LEMMA RecordType ==
  ASSUME NEW l \in Ledger, NEW f \in Front
  PROVE  Record(l, f) \in Ledger /\ Record(l, f).cycle = l.cycle
BY DEF Record, Ledger

\* The telemetry part of every changeset that ends a cycle.
LEMMA SettleType ==
  ASSUME NEW f \in Front, TypeOK, Settle(f)
  PROVE  /\ kv' \in Ledger /\ mem' \in Ledger
         /\ log' \in [n : Nat, last : Nat, falls : Nat, front : [Front -> Nat]]
<1>1. mem.cycle \in Nat
  BY DEF TypeOK, Ledger
<1>2. Logged(f) \in [n : Nat, last : Nat, falls : Nat, front : [Front -> Nat]]
  BY <1>1 DEF Logged, TypeOK
<1>3. QED
  BY <1>1, <1>2, RecordType DEF Settle, TypeOK

\* Back to idle: no task, no front, no reply.
LEMMA NoRunType ==
  NoRun \in [front : Front \cup {NoFront}, task : TaskId \cup {NoTask},
             reply : Reply \cup {"none"}]
BY DEF NoRun

\* Nothing at all has happened at first.
LEMMA InductiveInit == Init => Inductive
<1> SUFFICES ASSUME Init PROVE Inductive
  OBVIOUS
<1>0. FreshLedger \in Ledger
  BY DEF FreshLedger, Ledger
<1>1. TypeOK
  <2>1. parent \in [TaskId -> 0 .. MaxGen] /\ gen \in [Front -> 0 .. MaxGen]
    BY KernelAssumption DEF Init
  <2>2. /\ status \in [TaskId -> RestStatus] /\ faults \in 0 .. MaxFaults
        /\ misread \in [Key -> Nat]
    BY KernelAssumption DEF Init, RestStatus, NoMisread
  <2>3. QED
    BY <1>0, <2>1, <2>2, NoRunType DEF Init, TypeOK
<1>2. \A t \in TaskId : status[t] # "ABSENT" <=> t[2] <= gen[t[1]]
  BY DEF Init, TaskId
<1>3. StepOnce
  BY DEF Init, StepOnce, Ended, Terminal
<1>4. QED
  BY <1>1, <1>2, <1>3 DEF Init, Inductive

\* What a boot makes of the persisted ledger.
LEMMA HydratedFields ==
  ASSUME NEW unread
  PROVE  /\ Hydrated(unread).cycle = IF "kernel.cycle" \in unread THEN 0 ELSE kv.cycle
         /\ Hydrated(unread).picks = IF "bandit.state" \in unread
                                     THEN [f \in Front |-> 0] ELSE kv.picks
         /\ Hydrated(unread).last = IF "bandit.state" \in unread
                                    THEN [f \in Front |-> 0] ELSE kv.last
BY DEF Hydrated, FreshLedger

\* The steps of a boot, one by one: which keys it takes for new ones, and what it
\* then remembers.
LEMMA BootReads ==
  ASSUME Inductive, Boot
  PROVE  /\ pc = "down" /\ pc' = "boot" /\ UNCHANGED <<rows, cur, faults>>
         /\ quota' \in Nat /\ mem' \in Ledger /\ misread' \in [Key -> Nat]
         /\ \E unread \in SUBSET Key :
              /\ mem'.cycle = IF "kernel.cycle" \in unread THEN 0 ELSE kv.cycle
              /\ mem'.picks = IF "bandit.state" \in unread
                              THEN [f \in Front |-> 0] ELSE kv.picks
              /\ mem'.last = IF "bandit.state" \in unread
                             THEN [f \in Front |-> 0] ELSE kv.last
              /\ \A k \in Key : misread'[k] = IF k \in unread THEN misread[k] + 1
                                              ELSE misread[k]
<1>1. PICK unread \in SUBSET Key :
        /\ mem' = Hydrated(unread)
        /\ misread' = [k \in Key |-> IF k \in unread THEN misread[k] + 1 ELSE misread[k]]
  BY DEF Boot
<1>2. kv \in Ledger /\ misread \in [Key -> Nat]
  BY DEF Inductive, TypeOK
<1>3. mem' \in Ledger
  BY <1>1, <1>2 DEF Hydrated, FreshLedger, Ledger
<1>4. misread' \in [Key -> Nat]
  BY <1>1, <1>2
<1>5. quota' \in Nat
  BY KernelAssumption DEF Boot
<1>6. QED
  BY <1>1, <1>3, <1>4, <1>5, HydratedFields DEF Boot

LEMMA BootStep == Inductive /\ Boot => Inductive'
  BY BootReads DEF Inductive, TypeOK, rows, StepOnce, Ended

LEMMA BootstrapStep == Inductive /\ Bootstrap => Inductive'
  BY OrphanRows
  DEF Inductive, TypeOK, Bootstrap, StepOnce, Ended, Terminal, RestStatus

LEMMA PickFrontStep == Inductive /\ PickFront => Inductive'
  BY DEF Inductive, TypeOK, PickFront, rows, StepOnce, Ended, Pick, Starved, Ledger, NoRun

LEMMA ReviveStep == Inductive /\ Revive => Inductive'
<1> SUFFICES ASSUME Inductive, Revive PROVE Inductive'
  OBVIOUS
<1> DEFINE S == ListByStatus(cur.front, "THROTTLED", ReviveBatch)
<1>1. cur.front \in Front
  BY DEF Inductive, Revive
<1>2. \A t \in S : t \in TaskId /\ status[t] = "THROTTLED"
  BY <1>1, ListedRows
<1>3. /\ status' = [t \in TaskId |-> IF t \in S THEN "READY" ELSE status[t]]
      /\ due' = [t \in TaskId |-> IF t \in S THEN FALSE ELSE due[t]]
      /\ UNCHANGED <<mission, parent, steps, gen, kv, log, mem, quota, cur, faults, misread>>
      /\ pc' = "queue"
  BY DEF Revive
<1> HIDE DEF S
<1>4. TypeOK'
  BY <1>3 DEF Inductive, TypeOK, RestStatus
<1>5. StepOnce'
  BY <1>2, <1>3 DEF Inductive, StepOnce, Ended, Terminal
<1>6. QED
  BY <1>1, <1>2, <1>3, <1>4, <1>5 DEF Inductive

LEMMA ClaimStep == Inductive /\ Claim => Inductive'
  BY ListedRows
  DEF Inductive, TypeOK, Claim, StepOnce, Ended, Terminal, RestStatus

LEMMA MicroturnStep == Inductive /\ Microturn => Inductive'
<1> SUFFICES ASSUME Inductive, Microturn PROVE Inductive'
  OBVIOUS
<1>1. PICK r \in Answers(cur.front) :
        /\ cur' = [cur EXCEPT !.reply = r]
        /\ quota' = IF cur.front \in ModelFront /\ r = "ok" THEN quota - 1 ELSE quota
  BY DEF Microturn
<1>2. r \in Reply
  BY KernelAssumption DEF Answers, Reply
<1>3. quota' \in Nat
  <2>1. quota \in Nat
    BY DEF Inductive, TypeOK
  <2>2. cur.front \in ModelFront /\ r = "ok" => quota # 0
    BY KernelAssumption DEF Answers
  <2>3. QED
    BY <1>1, <2>1, <2>2
<1>4. /\ cur'.front = cur.front /\ cur'.task = cur.task /\ cur'.reply = r
      /\ cur' \in [front : Front \cup {NoFront}, task : TaskId \cup {NoTask},
                   reply : Reply \cup {"none"}]
  BY <1>1, <1>2 DEF Inductive, TypeOK
<1>5. QED
  BY <1>2, <1>3, <1>4
  DEF Inductive, TypeOK, Microturn, rows, StepOnce, Ended

\* Where the outcome's transitions leave the claimed task.
LEMMA ChainEnds ==
  /\ EndOf(Chain["ok"]) = "SUCCEEDED"
  /\ EndOf(Chain["bad"]) = "FAILED"
  /\ EndOf(Chain["error"]) = "FAILED"
  /\ EndOf(Chain["quota"]) = "THROTTLED"
  /\ EndOf(Chain["transient"]) = "READY"
<1>1. EndOf(Chain["ok"]) = "SUCCEEDED" BY DEF EndOf, Chain
<1>2. EndOf(Chain["bad"]) = "FAILED" BY DEF EndOf, Chain
<1>3. EndOf(Chain["error"]) = "FAILED" BY DEF EndOf, Chain
<1>4. EndOf(Chain["quota"]) = "THROTTLED" BY DEF EndOf, Chain
<1>5. EndOf(Chain["transient"]) = "READY" BY DEF EndOf, Chain
<1>6. QED BY <1>1, <1>2, <1>3, <1>4, <1>5

\* A changeset that creates a task adds one READY row under a fresh id, and
\* ids stay dense.
LEMMA CreateStep ==
  ASSUME Inductive,
         NEW f \in Front, NEW from \in 0 .. MaxGen,
         NEW st \in [TaskId -> RestStatus],
         \A v \in TaskId : st[v] = "ABSENT" <=> status[v] = "ABSENT",
         Create(f, from, st)
  PROVE  /\ NewTask(f) \in TaskId /\ status[NewTask(f)] = "ABSENT"
         /\ status' \in [TaskId -> RestStatus]
         /\ status' = [st EXCEPT ![NewTask(f)] = "READY"]
         /\ due' \in [TaskId -> BOOLEAN]
         /\ parent' \in [TaskId -> 0 .. MaxGen]
         /\ parent' = [parent EXCEPT ![NewTask(f)] = from]
         /\ gen' \in [Front -> 0 .. MaxGen]
         /\ \A v \in TaskId : status'[v] # "ABSENT" <=> v[2] <= gen'[v[1]]
<1> DEFINE u == NewTask(f)
<1>1. gen[f] < MaxGen
  BY DEF Create
<1>2. u \in TaskId /\ u[1] = f /\ u[2] = gen[f] + 1 /\ status[u] = "ABSENT"
  BY <1>1, NewTaskIsFresh
<1>3. /\ status' = [st EXCEPT ![u] = "READY"]
      /\ due' = [due EXCEPT ![u] = TRUE]
      /\ parent' = [parent EXCEPT ![u] = from]
      /\ gen' = [gen EXCEPT ![f] = @ + 1]
  BY DEF Create, EndOf
<1> HIDE DEF u
<1>4. gen \in [Front -> 0 .. MaxGen] /\ parent \in [TaskId -> 0 .. MaxGen]
      /\ due \in [TaskId -> BOOLEAN] /\ MaxGen \in Nat
  BY KernelAssumption DEF Inductive, TypeOK
<1>5. gen' \in [Front -> 0 .. MaxGen]
  BY <1>1, <1>3, <1>4
<1>6. parent' \in [TaskId -> 0 .. MaxGen] /\ due' \in [TaskId -> BOOLEAN]
  BY <1>2, <1>3, <1>4
<1>7. status' \in [TaskId -> RestStatus]
  BY <1>2, <1>3 DEF RestStatus
<1>8. ASSUME NEW v \in TaskId
      PROVE  status'[v] # "ABSENT" <=> v[2] <= gen'[v[1]]
  <2>1. v[1] \in Front /\ v[2] \in Nat /\ v = <<v[1], v[2]>> /\ u = <<u[1], u[2]>>
    BY <1>2 DEF TaskId
  <2>2. status[v] # "ABSENT" <=> v[2] <= gen[v[1]]
    BY DEF Inductive
  <2>3. CASE v = u
    BY <1>2, <1>3, <1>4, <2>3
  <2>4. CASE v # u
    <3>1. status'[v] = st[v]
      BY <1>3, <2>4
    <3>2. CASE v[1] = f
      BY <1>2, <1>3, <1>4, <2>1, <2>2, <2>4, <3>1, <3>2
    <3>3. CASE v[1] # f
      BY <1>3, <1>4, <2>1, <2>2, <3>1, <3>3
    <3>4. QED
      BY <3>2, <3>3
  <2>5. QED
    BY <2>3, <2>4
<1>9. QED
  BY <1>2, <1>3, <1>5, <1>6, <1>7, <1>8 DEF u

\* The outcome changeset that ends a task and gives it its heir.
LEMMA EndTaskStep == Inductive /\ EndTask => Inductive'
<1> SUFFICES ASSUME Inductive, EndTask PROVE Inductive'
  OBVIOUS
<1> DEFINE t == cur.task
           f == cur.front
           u == NewTask(f)
           end == EndOf(Chain[cur.reply])
           st == [status EXCEPT ![t] = end]
<1>1. /\ f \in Front /\ t \in TaskId /\ t[1] = f /\ status[t] = "RUNNING"
      /\ cur.reply \in {"ok", "bad", "error"} /\ gen[f] < MaxGen
  BY DEF Inductive, EndTask, Create
<1>2. u \in TaskId /\ u[1] = f /\ u[2] = gen[f] + 1 /\ status[u] = "ABSENT" /\ u # t
  BY <1>1, NewTaskIsFresh
<1>3. /\ end \in {"SUCCEEDED", "FAILED"}
      /\ end = "SUCCEEDED" => cur.reply = "ok"
  BY <1>1, ChainEnds
<1>4. /\ steps' = IF cur.reply = "error" THEN steps ELSE [steps EXCEPT ![t] = @ + 1]
      /\ pc' = "idle" /\ cur' = NoRun
      /\ UNCHANGED <<mission, quota, faults, misread>>
      /\ Settle(f) /\ Create(f, t[2], st)
  BY DEF EndTask
<1> HIDE DEF t, f, end
<1>a. /\ st \in [TaskId -> RestStatus] /\ t[2] \in 0 .. MaxGen
      /\ \A v \in TaskId : st[v] = "ABSENT" <=> status[v] = "ABSENT"
  BY <1>1, <1>3 DEF Inductive, TypeOK, RestStatus, TaskId
<1> HIDE DEF st
<1>b. /\ status' \in [TaskId -> RestStatus]
      /\ status' = [st EXCEPT ![u] = "READY"]
      /\ due' \in [TaskId -> BOOLEAN]
      /\ parent' \in [TaskId -> 0 .. MaxGen]
      /\ gen' \in [Front -> 0 .. MaxGen]
      /\ \A v \in TaskId : status'[v] # "ABSENT" <=> v[2] <= gen'[v[1]]
  BY <1>1, <1>4, <1>a, CreateStep
<1> HIDE DEF u
<1>5. TypeOK'
  <2>1. steps' \in [TaskId -> Nat]
    BY <1>1, <1>4 DEF Inductive, TypeOK
  <2>2. kv' \in Ledger /\ mem' \in Ledger
        /\ log' \in [n : Nat, last : Nat, falls : Nat, front : [Front -> Nat]]
    BY <1>1, <1>4, SettleType DEF Inductive
  <2>3. QED
    BY <1>4, <1>b, <2>1, <2>2, NoRunType DEF Inductive, TypeOK
<1>7. StepOnce'
  <2>0. StepOnce /\ steps \in [TaskId -> Nat] /\ u \in TaskId /\ status[u] = "ABSENT"
    BY <1>2 DEF Inductive, TypeOK
  <2>1. steps[t] = 0
    BY <1>1, <2>0 DEF StepOnce, Ended, Terminal
  <2>2. \A v \in TaskId : v # t => steps'[v] = steps[v]
    BY <1>1, <1>4 DEF Inductive, TypeOK
  <2>3. steps'[t] \in {0, 1} /\ (end = "SUCCEEDED" => steps'[t] = 1)
    BY <1>1, <1>3, <1>4, <2>1 DEF Inductive, TypeOK
  <2>4. /\ status'[t] = end /\ status'[u] = "READY"
        /\ \A v \in TaskId : v # t /\ v # u => status'[v] = status[v]
    BY <1>1, <1>2, <1>b DEF Inductive, TypeOK, st
  <2>5. steps[u] = 0
    BY <2>0 DEF StepOnce, Ended, Terminal
  <2>6. QED
    BY <1>2, <1>3, <2>1, <2>2, <2>3, <2>4, <2>5
    DEF Inductive, TypeOK, StepOnce, Ended, Terminal
<1>8. QED
  BY <1>4, <1>5, <1>7, <1>b DEF Inductive

\* The outcome changeset that gives the task back.
LEMMA ReleaseTaskStep == Inductive /\ ReleaseTask => Inductive'
<1> SUFFICES ASSUME Inductive, ReleaseTask PROVE Inductive'
  OBVIOUS
<1> DEFINE t == cur.task
           f == cur.front
           end == EndOf(Chain[cur.reply])
<1>1. /\ f \in Front /\ t \in TaskId /\ status[t] = "RUNNING"
      /\ cur.reply \in {"quota", "transient"}
  BY DEF Inductive, ReleaseTask
<1>2. end \in {"READY", "THROTTLED"}
  BY <1>1, ChainEnds
<1>3. /\ status' = [status EXCEPT ![t] = end]
      /\ due' \in {due, [due EXCEPT ![t] = FALSE]}
      /\ pc' = "idle" /\ cur' = NoRun
      /\ Settle(f)
      /\ UNCHANGED <<mission, parent, steps, gen, quota, faults, misread>>
  BY DEF ReleaseTask
<1> HIDE DEF t, f, end
<1>4. TypeOK'
  <2>1. kv' \in Ledger /\ mem' \in Ledger
        /\ log' \in [n : Nat, last : Nat, falls : Nat, front : [Front -> Nat]]
    BY <1>1, <1>3, SettleType DEF Inductive
  <2>2. status' \in [TaskId -> RestStatus] /\ due' \in [TaskId -> BOOLEAN]
    BY <1>2, <1>3 DEF Inductive, TypeOK, RestStatus
  <2>3. QED
    BY <1>3, <2>1, <2>2, NoRunType DEF Inductive, TypeOK
<1>5. StepOnce'
  BY <1>1, <1>2, <1>3 DEF Inductive, TypeOK, StepOnce, Ended, Terminal
<1>6. QED
  BY <1>1, <1>2, <1>3, <1>4, <1>5 DEF Inductive, TypeOK

\* A cycle that only leaves telemetry.
LEMMA TelemetryStep == Inductive /\ (Wait \/ Blocked) => Inductive'
<1> SUFFICES ASSUME Inductive, Wait \/ Blocked PROVE Inductive'
  OBVIOUS
<1>1. /\ cur.front \in Front /\ Settle(cur.front) /\ pc' = "idle" /\ cur' = NoRun
      /\ UNCHANGED <<mission, status, due, parent, steps, gen, quota, faults, misread>>
  BY DEF Inductive, Wait, Blocked
<1>2. kv' \in Ledger /\ mem' \in Ledger
      /\ log' \in [n : Nat, last : Nat, falls : Nat, front : [Front -> Nat]]
  BY <1>1, SettleType DEF Inductive
<1>3. QED
  BY <1>1, <1>2, NoRunType DEF Inductive, TypeOK, StepOnce, Ended

LEMMA ReplenishStep == Inductive /\ Replenish => Inductive'
<1> SUFFICES ASSUME Inductive, Replenish PROVE Inductive'
  OBVIOUS
<1> DEFINE u == NewTask(cur.front)
<1>1. /\ cur.front \in Front /\ Settle(cur.front) /\ Create(cur.front, 0, status)
      /\ pc' = "idle" /\ cur' = NoRun /\ UNCHANGED <<mission, steps, quota, faults, misread>>
  BY DEF Inductive, Replenish
<1>2. 0 \in 0 .. MaxGen /\ status \in [TaskId -> RestStatus]
  BY KernelAssumption DEF Inductive, TypeOK
<1>3. /\ u \in TaskId /\ status[u] = "ABSENT"
      /\ status' \in [TaskId -> RestStatus]
      /\ status' = [status EXCEPT ![u] = "READY"]
      /\ due' \in [TaskId -> BOOLEAN]
      /\ parent' \in [TaskId -> 0 .. MaxGen]
      /\ gen' \in [Front -> 0 .. MaxGen]
      /\ \A v \in TaskId : status'[v] # "ABSENT" <=> v[2] <= gen'[v[1]]
  BY <1>1, <1>2, CreateStep
<1> HIDE DEF u
<1>4. kv' \in Ledger /\ mem' \in Ledger
      /\ log' \in [n : Nat, last : Nat, falls : Nat, front : [Front -> Nat]]
  BY <1>1, SettleType DEF Inductive
<1>5. TypeOK'
  BY <1>1, <1>3, <1>4, NoRunType DEF Inductive, TypeOK
<1>6. StepOnce'
  BY <1>1, <1>3 DEF Inductive, TypeOK, StepOnce, Ended, Terminal
<1>7. QED
  BY <1>1, <1>3, <1>5, <1>6 DEF Inductive

\* A derailed cycle and a crash touch no row.
LEMMA FailureStep == Inductive /\ (Derail \/ DerailLate \/ Crash) => Inductive'
<1> SUFFICES ASSUME Inductive, Derail \/ DerailLate \/ Crash PROVE Inductive'
  OBVIOUS
<1>1. UNCHANGED <<rows, misread>> /\ cur' = NoRun /\ pc' \in {"idle", "down"}
  BY DEF Derail, DerailLate, Crash
<1>2. faults' \in 0 .. MaxFaults
  BY KernelAssumption DEF Derail, DerailLate, Crash, Inductive, TypeOK
<1>3. mem' \in Ledger /\ quota' \in Nat
  <2>1. CASE Derail
    BY <2>1 DEF Derail, Inductive, TypeOK
  <2>2. CASE DerailLate
    <3>1. cur.front \in Front
      BY <2>2 DEF DerailLate, Inductive
    <3>2. QED
      BY <2>2, <3>1, RecordType DEF DerailLate, Inductive, TypeOK
  <2>3. CASE Crash
    BY <2>3 DEF Crash, FreshLedger, Ledger
  <2>4. QED
    BY <2>1, <2>2, <2>3
<1>4. QED
  BY <1>1, <1>2, <1>3, NoRunType DEF rows, Inductive, TypeOK, StepOnce, Ended

LEMMA ElapseStep == Inductive /\ Elapse => Inductive'
  BY DEF Inductive, TypeOK, Elapse, process, StepOnce, Ended

LEMMA InductiveStep == Inductive /\ [Next]_vars => Inductive'
<1> SUFFICES ASSUME Inductive, [Next]_vars PROVE Inductive'
  OBVIOUS
<1>1. CASE UNCHANGED vars
  BY <1>1 DEF vars, rows, process, Inductive, TypeOK, StepOnce, Ended
<1>2. CASE Next
  BY <1>2, BootStep, BootstrapStep, PickFrontStep, ReviveStep,
     ClaimStep, MicroturnStep, EndTaskStep, ReleaseTaskStep, TelemetryStep,
     ReplenishStep, FailureStep, ElapseStep DEF Next
<1>3. QED
  BY <1>1, <1>2

LEMMA InductiveHolds == Spec => []Inductive
  BY InductiveInit, InductiveStep, PTL DEF Spec

\* The rows and the process keep their types; in particular a committed row is
\* never NEW, VERIFYING or REPLANNING.
THEOREM TypesHold == Spec => []TypeOK
<1>1. Inductive => TypeOK
  BY DEF Inductive
<1>2. QED
  BY <1>1, InductiveHolds, PTL

\* A microturn is on record once at most, and only with the end of its task.
THEOREM StepOnceHolds == Spec => []StepOnce
<1>1. Inductive => StepOnce
  BY DEF Inductive
<1>2. QED
  BY <1>1, InductiveHolds, PTL

-----------------------------------------------------------------------------
(***************************************************************************)
(* The kernel implements the succession of tasks of Continuity.            *)
(***************************************************************************)

LEMMA LinesInit == Init => Lines!Init
  BY DEF Init, Lines!Init, Begun, Running, Over, Recorded, Ended, Terminal,
         Lines!TaskId, TaskId

\* Steps that leave the four sets and the parents alone are stuttering steps.
LEMMA LinesStutter ==
  ASSUME Begun' = Begun, Running' = Running, Over' = Over, Recorded' = Recorded,
         parent' = parent
  PROVE  UNCHANGED Lines!cvars
BY DEF Lines!cvars, Begun, Over, Recorded

\* The id a changeset creates is the next one of its front.
LEMMA NewTaskIsNext ==
  ASSUME Inductive, NEW f \in Front, gen[f] < MaxGen
  PROVE  Lines!IsNext(NewTask(f))
<1>1. NewTask(f) \in TaskId /\ NewTask(f)[1] = f /\ NewTask(f)[2] = gen[f] + 1
  BY NewTaskIsFresh
<1>2. gen[f] \in Nat /\ \A t \in TaskId : t[2] \in Nat
  BY KernelAssumption DEF Inductive, TypeOK, TaskId
<1>3. ASSUME NEW t \in TaskId, t[1] = f
      PROVE  t \in Begun <=> t[2] < gen[f] + 1
  BY <1>2, <1>3 DEF Inductive, Begun
<1>4. QED
  BY <1>1, <1>3 DEF Lines!IsNext, Lines!TaskId, TaskId, Begun

LEMMA ReplenishOpens == Inductive /\ Replenish => Lines!Next
<1> SUFFICES ASSUME Inductive, Replenish PROVE Lines!Next
  OBVIOUS
<1> DEFINE u == NewTask(cur.front)
<1>1. /\ cur.front \in Front /\ gen[cur.front] < MaxGen
      /\ Create(cur.front, 0, status) /\ steps' = steps
  BY DEF Inductive, Replenish, Create
<1>2. 0 \in 0 .. MaxGen /\ status \in [TaskId -> RestStatus]
  BY KernelAssumption DEF Inductive, TypeOK
<1>3. /\ u \in TaskId /\ status[u] = "ABSENT"
      /\ status' = [status EXCEPT ![u] = "READY"]
      /\ parent' = [parent EXCEPT ![u] = 0]
  BY <1>1, <1>2, CreateStep
<1>4. Lines!IsNext(u)
  BY <1>1, NewTaskIsNext
<1> HIDE DEF u
<1>5. /\ Begun' = Begun \cup {u} /\ Running' = Running /\ Over' = Over
      /\ Recorded' = Recorded
  BY <1>1, <1>2, <1>3 DEF Begun, Running, Over, Recorded, Ended, Terminal
<1>6. \E v \in TaskId : Lines!Open(v)
  <2>1. PICK v \in TaskId : v = u
    BY <1>3
  <2>2. Lines!Open(v)
    BY <1>3, <1>4, <1>5, <2>1 DEF Lines!Open, Begun, Over, Recorded
  <2>3. QED
    BY <2>2
<1>7. QED
  BY <1>6 DEF Lines!Next, Lines!TaskId, TaskId

LEMMA ClaimTries == Inductive /\ Claim => Lines!Next
<1> SUFFICES ASSUME Inductive, Claim PROVE Lines!Next
  OBVIOUS
<1>1. cur.front \in Front
  BY DEF Inductive, Claim
<1>2. PICK t \in NextReady(cur.front) :
        /\ status' = [status EXCEPT ![t] = "RUNNING"]
        /\ UNCHANGED <<parent, steps>>
  BY DEF Claim
<1>3. t \in TaskId /\ status[t] = "READY"
  BY <1>1, ListedRows
<1>4. /\ Begun' = Begun /\ Running' = Running \cup {t} /\ Over' = Over
      /\ Recorded' = Recorded
      /\ t \in Begun /\ t \notin Running /\ t \notin Over
  BY <1>2, <1>3 DEF Begun, Running, Over, Recorded, Ended, Terminal, Inductive, TypeOK
<1>5. Lines!Try(t)
  BY <1>2, <1>4 DEF Lines!Try, Begun, Over, Recorded
<1>6. QED
  BY <1>3, <1>5 DEF Lines!Next, Lines!TaskId, TaskId

LEMMA EndTaskEnds == Inductive /\ EndTask => Lines!Next
<1> SUFFICES ASSUME Inductive, EndTask PROVE Lines!Next
  OBVIOUS
<1> DEFINE t == cur.task
           f == cur.front
           u == NewTask(f)
           end == EndOf(Chain[cur.reply])
           st == [status EXCEPT ![t] = end]
<1>1. /\ f \in Front /\ t \in TaskId /\ t[1] = f /\ status[t] = "RUNNING"
      /\ cur.reply \in {"ok", "bad", "error"} /\ gen[f] < MaxGen
  BY DEF Inductive, EndTask, Create
<1>2. end \in {"SUCCEEDED", "FAILED"}
  BY <1>1, ChainEnds
<1>3. /\ steps' \in {steps, [steps EXCEPT ![t] = @ + 1]}
      /\ Create(f, t[2], st)
  BY DEF EndTask
<1>4. u[1] = f /\ Lines!IsNext(u)
  BY <1>1, NewTaskIsNext, NewTaskIsFresh
<1> HIDE DEF t, f, end
<1>5. /\ st \in [TaskId -> RestStatus] /\ t[2] \in 0 .. MaxGen
      /\ \A v \in TaskId : st[v] = "ABSENT" <=> status[v] = "ABSENT"
  BY <1>1, <1>2 DEF Inductive, TypeOK, RestStatus, TaskId
<1> HIDE DEF st
<1>6. /\ u \in TaskId /\ status[u] = "ABSENT"
      /\ status' = [st EXCEPT ![u] = "READY"]
      /\ parent' = [parent EXCEPT ![u] = t[2]]
  BY <1>1, <1>3, <1>5, CreateStep
<1> HIDE DEF u
<1>7. /\ status'[t] = end /\ status'[u] = "READY"
      /\ \A v \in TaskId : v # t /\ v # u => status'[v] = status[v]
  BY <1>1, <1>6 DEF Inductive, TypeOK, st
<1>8. /\ Begun' = Begun \cup {u} /\ Running' = Running \ {t}
      /\ Over' = Over \cup {t} /\ t \in Running
  BY <1>1, <1>2, <1>6, <1>7 DEF Begun, Running, Over, Ended, Terminal
<1>9. Recorded' \in {Recorded, Recorded \cup {t}}
  <2>1. CASE steps' = steps
    BY <2>1 DEF Recorded
  <2>2. CASE steps' = [steps EXCEPT ![t] = @ + 1]
    BY <1>1, <2>2 DEF Recorded, Inductive, TypeOK
  <2>3. QED
    BY <1>3, <2>1, <2>2
<1>10. \E v, w \in TaskId : Lines!End(v, w)
  <2>1. PICK v \in TaskId, w \in TaskId : v = t /\ w = u
    BY <1>1, <1>6
  <2>2. Lines!End(v, w)
    BY <1>1, <1>4, <1>6, <1>8, <1>9, <2>1 DEF Lines!End, Begun, Over, Recorded
  <2>3. QED
    BY <2>2
<1>11. QED
  BY <1>10 DEF Lines!Next, Lines!TaskId, TaskId

LEMMA ReleaseTaskGivesBack == Inductive /\ ReleaseTask => Lines!Next
<1> SUFFICES ASSUME Inductive, ReleaseTask PROVE Lines!Next
  OBVIOUS
<1> DEFINE t == cur.task
           end == EndOf(Chain[cur.reply])
<1>1. /\ t \in TaskId /\ status[t] = "RUNNING" /\ end \in {"READY", "THROTTLED"}
      /\ status' = [status EXCEPT ![t] = end] /\ UNCHANGED <<parent, steps>>
  BY ChainEnds DEF Inductive, ReleaseTask
<1> HIDE DEF t, end
<1>2. /\ Begun' = Begun /\ Running' = Running \ {t} /\ Over' = Over
      /\ Recorded' = Recorded /\ t \in Running
  BY <1>1 DEF Begun, Running, Over, Recorded, Ended, Terminal, Inductive, TypeOK
<1>3. Lines!GiveBack({t})
  BY <1>1, <1>2 DEF Lines!GiveBack, Begun, Over, Recorded
<1>4. QED
  BY <1>2, <1>3 DEF Lines!Next

\* A boot gives back what the previous process life left behind, if anything.
LEMMA BootstrapGivesBack ==
  Inductive /\ Bootstrap => Lines!Next \/ UNCHANGED Lines!cvars
<1> SUFFICES ASSUME Inductive, Bootstrap PROVE Lines!Next \/ UNCHANGED Lines!cvars
  OBVIOUS
<1>1. \A t \in Orphans : t \in TaskId /\ status[t] = "RUNNING"
  BY OrphanRows DEF Inductive, TypeOK, RestStatus
<1>2. /\ status' = [t \in TaskId |-> IF t \in Orphans THEN "READY" ELSE status[t]]
      /\ UNCHANGED <<parent, steps>>
  BY DEF Bootstrap
<1>3. /\ Begun' = Begun /\ Running' = Running \ Orphans /\ Over' = Over
      /\ Recorded' = Recorded /\ Orphans \subseteq Running
  BY <1>1, <1>2 DEF Begun, Running, Over, Recorded, Ended, Terminal
<1>4. CASE Orphans = {}
  BY <1>2, <1>3, <1>4, LinesStutter
<1>5. CASE Orphans # {}
  <2>1. Lines!GiveBack(Orphans)
    BY <1>2, <1>3, <1>5 DEF Lines!GiveBack, Begun, Over, Recorded
  <2>2. QED
    BY <1>3, <2>1 DEF Lines!Next
<1>6. QED
  BY <1>4, <1>5

LEMMA ReviveStutters == Inductive /\ Revive => UNCHANGED Lines!cvars
<1> SUFFICES ASSUME Inductive, Revive PROVE UNCHANGED Lines!cvars
  OBVIOUS
<1> DEFINE S == ListByStatus(cur.front, "THROTTLED", ReviveBatch)
<1>1. \A t \in S : t \in TaskId /\ status[t] = "THROTTLED"
  BY ListedRows DEF Inductive, Revive
<1>2. /\ status' = [t \in TaskId |-> IF t \in S THEN "READY" ELSE status[t]]
      /\ UNCHANGED <<parent, steps>>
  BY DEF Revive
<1> HIDE DEF S
<1>3. Begun' = Begun /\ Running' = Running /\ Over' = Over /\ Recorded' = Recorded
  BY <1>1, <1>2 DEF Begun, Running, Over, Recorded, Ended, Terminal
<1>4. QED
  BY <1>2, <1>3, LinesStutter

LEMMA OtherStepsStutter ==
  \/ UNCHANGED vars \/ Boot \/ PickFront \/ Microturn \/ Wait
  \/ Blocked \/ Derail \/ DerailLate \/ Crash \/ Elapse
  => UNCHANGED Lines!cvars
<1> SUFFICES ASSUME UNCHANGED <<status, parent, steps>> PROVE UNCHANGED Lines!cvars
  BY DEF vars, rows, Boot, PickFront, Microturn, Wait, Blocked, Derail,
         DerailLate, Crash, Elapse
<1> QED
  BY LinesStutter DEF Begun, Running, Over, Recorded, Ended

LEMMA KernelStepsOnLines == Inductive /\ [Next]_vars => [Lines!Next]_(Lines!cvars)
  BY OtherStepsStutter, ReviveStutters, BootstrapGivesBack, ReleaseTaskGivesBack,
     EndTaskEnds, ClaimTries, ReplenishOpens DEF Next

\* Whatever crashes, cancellations and storage errors do, tasks only move along
\* the succession: tried one at a time, ended once, with exactly one heir.
THEOREM KernelKeepsLines == Spec => KeepsLines
<1> QED
  BY KernelStepsOnLines, LinesInit, InductiveHolds, PTL DEF Spec, KeepsLines, Lines!Spec

-----------------------------------------------------------------------------
(***************************************************************************)
(* The succession of tasks, for every process that keeps to Continuity.    *)
(***************************************************************************)

\* Succession is inductive together with the types and the fact that a task is
\* not over while it is being tried.
LinesInv ==
  /\ Lines!TypeOK
  /\ Running \cap Over = {}
  /\ Lines!Succession

\* What a step may do to the lines keeps their types.
LEMMA LinesTypeStep == Lines!TypeOK /\ [Lines!Next]_(Lines!cvars) => Lines!TypeOK'
<1> SUFFICES ASSUME Lines!TypeOK, [Lines!Next]_(Lines!cvars) PROVE Lines!TypeOK'
  OBVIOUS
<1> USE KernelAssumption DEF Lines!TypeOK
<1>1. ASSUME NEW u \in Lines!TaskId, Lines!Open(u) PROVE Lines!TypeOK'
  BY <1>1 DEF Lines!Open, Lines!IsNext
<1>2. ASSUME NEW t \in Lines!TaskId, Lines!Try(t) PROVE Lines!TypeOK'
  BY <1>2 DEF Lines!Try
<1>3. ASSUME NEW S \in SUBSET Running, Lines!GiveBack(S) PROVE Lines!TypeOK'
  BY <1>3 DEF Lines!GiveBack
<1>4. ASSUME NEW t \in Lines!TaskId, NEW u \in Lines!TaskId, Lines!End(t, u)
      PROVE  Lines!TypeOK'
  BY <1>4 DEF Lines!End, Lines!IsNext, Lines!TaskId
<1>5. CASE UNCHANGED Lines!cvars
  BY <1>5 DEF Lines!cvars
<1>6. QED
  BY <1>1, <1>2, <1>3, <1>4, <1>5 DEF Lines!Next

\* A number handed out is above every number its front has used, so an heir is
\* younger than the task it continues and no two tasks share an heir.
LEMMA LinesInvStep == LinesInv /\ [Lines!Next]_(Lines!cvars) => LinesInv'
<1> SUFFICES ASSUME LinesInv, [Lines!Next]_(Lines!cvars) PROVE LinesInv'
  OBVIOUS
<1> USE KernelAssumption
<1>0. Lines!TypeOK /\ Lines!TypeOK'
  BY LinesTypeStep DEF LinesInv
<1>1. ASSUME NEW u \in Lines!TaskId, Lines!Open(u) PROVE LinesInv'
  <2>1. u \notin Begun /\ u[2] \in Nat /\ u[2] > 0
    BY <1>1 DEF Lines!Open, Lines!IsNext, Lines!TaskId
  <2>2. \A v, t \in Lines!TaskId : Lines!IsHeir(v, t)' <=> Lines!IsHeir(v, t)
    BY <1>0, <1>1, <2>1 DEF Lines!Open, Lines!IsHeir, Lines!TypeOK, Lines!TaskId
  <2>3. \A v \in Begun' : parent'[v] < v[2]
    BY <1>0, <1>1, <2>1 DEF LinesInv, Lines!Open, Lines!Succession, Lines!TypeOK
  <2>4. Lines!Succession'
    BY <1>0, <1>1, <2>2, <2>3
    DEF LinesInv, Lines!Open, Lines!Succession, Lines!TypeOK
  <2>5. QED
    BY <1>0, <1>1, <2>4 DEF LinesInv, Lines!Open
<1>2. ASSUME NEW t \in Lines!TaskId, Lines!Try(t) PROVE LinesInv'
  BY <1>0, <1>2 DEF LinesInv, Lines!Try, Lines!Succession, Lines!IsHeir
<1>3. ASSUME NEW S \in SUBSET Running, Lines!GiveBack(S) PROVE LinesInv'
  BY <1>0, <1>3 DEF LinesInv, Lines!GiveBack, Lines!Succession, Lines!IsHeir
<1>4. ASSUME NEW t \in Lines!TaskId, NEW u \in Lines!TaskId, Lines!End(t, u)
      PROVE  LinesInv'
  <2>1. t \in Begun /\ t \notin Over /\ u \notin Begun /\ t[2] < u[2]
    BY <1>0, <1>4 DEF LinesInv, Lines!End, Lines!IsNext, Lines!TypeOK, Lines!TaskId
  <2>2. \A v, w \in Lines!TaskId :
          Lines!IsHeir(v, w)' <=> Lines!IsHeir(v, w) \/ (v = u /\ w = t)
    BY <1>0, <1>4, <2>1 DEF Lines!End, Lines!IsHeir, Lines!TypeOK, Lines!TaskId
  <2>3. \A v \in Begun' : parent'[v] < v[2]
    BY <1>0, <1>4, <2>1 DEF LinesInv, Lines!End, Lines!Succession, Lines!TypeOK
  <2>4. Lines!Succession'
    BY <1>0, <1>4, <2>1, <2>2, <2>3
    DEF LinesInv, Lines!End, Lines!Succession, Lines!TypeOK
  <2>5. QED
    BY <1>0, <1>4, <2>1, <2>4 DEF LinesInv, Lines!End
<1>5. CASE UNCHANGED Lines!cvars
  BY <1>0, <1>5 DEF LinesInv, Lines!cvars, Lines!Succession, Lines!IsHeir
<1>6. QED
  BY <1>1, <1>2, <1>3, <1>4, <1>5 DEF Lines!Next

\* The invariant holds of every succession.
LEMMA LinesInvHolds == Lines!Spec => []LinesInv
<1>1. Lines!Init => LinesInv
  BY KernelAssumption
  DEF Lines!Init, LinesInv, Lines!TypeOK, Lines!Succession, Lines!IsHeir, Lines!TaskId
<1>2. QED
  BY <1>1, LinesInvStep, PTL DEF Lines!Spec

\* A task that ended has exactly one heir, younger than itself, and a task that
\* did not end has none: a line of work never stops and never forks.
THEOREM SuccessionHolds == Lines!Spec => []Lines!Succession
<1>1. LinesInv => Lines!Succession
  BY DEF LinesInv
<1>2. QED
  BY <1>1, LinesInvHolds, PTL

\* Nothing that is over is undone, and whether its microturn is on record is
\* settled by the step that ends it.
THEOREM HistoryHolds == Lines!Spec => Lines!History
<1>1. LinesInv /\ [Lines!Next]_(Lines!cvars)
      => [Over \subseteq Over' /\ Recorded' \cap Over = Recorded]_(Lines!cvars)
  <2> SUFFICES ASSUME LinesInv, Lines!Next
               PROVE  Over \subseteq Over' /\ Recorded' \cap Over = Recorded
    OBVIOUS
  <2> USE DEF LinesInv, Lines!TypeOK
  <2>1. ASSUME NEW u \in Lines!TaskId, Lines!Open(u)
        PROVE  Over \subseteq Over' /\ Recorded' \cap Over = Recorded
    BY <2>1 DEF Lines!Open
  <2>2. ASSUME NEW t \in Lines!TaskId, Lines!Try(t)
        PROVE  Over \subseteq Over' /\ Recorded' \cap Over = Recorded
    BY <2>2 DEF Lines!Try
  <2>3. ASSUME NEW S \in SUBSET Running, Lines!GiveBack(S)
        PROVE  Over \subseteq Over' /\ Recorded' \cap Over = Recorded
    BY <2>3 DEF Lines!GiveBack
  <2>4. ASSUME NEW t \in Lines!TaskId, NEW u \in Lines!TaskId, Lines!End(t, u)
        PROVE  Over \subseteq Over' /\ Recorded' \cap Over = Recorded
    BY <2>4 DEF Lines!End
  <2>5. QED
    BY <2>1, <2>2, <2>3, <2>4 DEF Lines!Next
<1>2. QED
  BY <1>1, LinesInvHolds, PTL DEF Lines!Spec, Lines!History

LEMMA SuccessionGivesOneHeir == Lines!Succession => OneHeir
<1> SUFFICES ASSUME Lines!Succession, NEW t \in TaskId
             PROVE  /\ Ended(t) => \E u \in Heirs(t) : Heirs(t) = {u}
                    /\ ~Ended(t) => Heirs(t) = {}
  BY DEF OneHeir
<1>1. \A u \in TaskId : u \in Heirs(t) <=> Lines!IsHeir(u, t)
  BY DEF Heirs, Lines!IsHeir, Begun
<1>2. Ended(t) <=> t \in Over
  BY DEF Over
<1>3. Over \subseteq Lines!TaskId /\ TaskId = Lines!TaskId
  BY DEF Over, Lines!TaskId, TaskId
<1>4. Heirs(t) \subseteq TaskId
  BY DEF Heirs
<1>5. QED
  BY <1>1, <1>2, <1>3, <1>4 DEF Lines!Succession

\* C1: a task that ended left exactly one heir and one that did not left none.
THEOREM OneHeirHolds == Spec => []OneHeir
<1>1. Spec => Lines!Spec
  BY KernelKeepsLines DEF KeepsLines
<1>2. QED
  BY <1>1, SuccessionGivesOneHeir, SuccessionHolds, PTL

\* The kernel undoes nothing: a task that is over stays over, as it was recorded.
THEOREM KernelKeepsHistory == Spec => Lines!History
<1>1. Spec => Lines!Spec
  BY KernelKeepsLines DEF KeepsLines
<1>2. QED
  BY <1>1, HistoryHolds, PTL

-----------------------------------------------------------------------------
(***************************************************************************)
(* The cycle counter and the bandit's arms, in memory and in the store     *)
(***************************************************************************)

\* Recording a cycle moves one arm: its last pick is the cycle recorded.
LEMMA RecordFields ==
  ASSUME NEW l \in Ledger, NEW f \in Front
  PROVE  /\ Record(l, f).cycle = l.cycle
         /\ Record(l, f).last = [l.last EXCEPT ![f] = l.cycle]
         /\ \A g \in Front : Record(l, f).last[g] = IF g = f THEN l.cycle ELSE l.last[g]
BY DEF Record, Ledger

\* The same of the ledger in memory after it recorded the cycle under way.
LEMMA RecordedCycle ==
  ASSUME mem \in Ledger, cur.front \in Front, mem' = Record(mem, cur.front)
  PROVE  /\ mem'.cycle = mem.cycle
         /\ \A g \in Front : mem'.last[g] = IF g = cur.front THEN mem.cycle
                                            ELSE mem.last[g]
<1>1. /\ Record(mem, cur.front).cycle = mem.cycle
      /\ \A g \in Front : Record(mem, cur.front).last[g]
           = IF g = cur.front THEN mem.cycle ELSE mem.last[g]
  BY RecordFields
<1>2. QED
  BY <1>1

\* The counters, as numbers.
LEMMA LedgerTypes ==
  ASSUME Inductive
  PROVE  /\ MaxCycle \in Nat /\ kv.cycle \in Nat /\ mem.cycle \in Nat
         /\ log.last \in Nat /\ log.falls \in Nat /\ misread["kernel.cycle"] \in Nat
         /\ kv \in Ledger /\ mem \in Ledger
         /\ \A f \in Front : kv.last[f] \in Nat /\ mem.last[f] \in Nat
BY KernelAssumption DEF Inductive, TypeOK, Ledger, Key

\* What a cycle that ends with a changeset does to the ledgers: the number of its
\* event is above the last one, or memory was behind the store.
LEMMA SettleLedger ==
  ASSUME Inductive, LedgerInductive, InCycle,
         Settle(cur.front), pc' = "idle", UNCHANGED misread
  PROVE  LedgerInductive'
<1>1. /\ cur.front \in Front /\ mem \in Ledger /\ pc # "down"
      /\ pc \notin {"boot", "idle"}
  BY DEF Inductive, TypeOK, InCycle
<1>2. /\ mem' = Record(mem, cur.front) /\ kv' = mem' /\ log'.last = mem.cycle
      /\ log'.falls = IF mem.cycle > log.last THEN log.falls ELSE log.falls + 1
  BY DEF Settle, Logged
<1>3. /\ mem'.cycle = mem.cycle
      /\ \A f \in Front : mem'.last[f] = IF f = cur.front THEN mem.cycle ELSE mem.last[f]
  BY <1>1, <1>2, RecordedCycle
<1>4. /\ kv'.cycle <= MaxCycle /\ log'.last = kv'.cycle /\ mem'.cycle <= MaxCycle
      /\ \A f \in Front : kv'.last[f] <= MaxCycle /\ mem'.last[f] <= MaxCycle
  BY <1>1, <1>2, <1>3 DEF LedgerInductive
<1>5. log'.falls <= misread'["kernel.cycle"]
  <2>1. mem.cycle <= kv.cycle => log.falls < misread["kernel.cycle"]
    BY DEF LedgerInductive, Behind
  <2>2. log.falls <= misread["kernel.cycle"] /\ log.last = kv.cycle
    BY DEF LedgerInductive
  <2>3. QED
    BY <1>2, <2>1, <2>2, LedgerTypes
<1>6. ~ InCycle' /\ ~ Behind'
  <2>1. kv'.cycle = mem'.cycle /\ mem'.cycle \in Nat
    BY <1>2, <1>3, LedgerTypes
  <2>2. QED
    BY <2>1 DEF InCycle, Behind
<1>7. misread = NoMisread
        => \A f \in Front : kv'.last[f] <= kv'.cycle /\ mem'.last[f] <= mem'.cycle
  <2>1. misread = NoMisread => \A f \in Front : mem.last[f] < mem.cycle
    BY DEF LedgerInductive
  <2>2. QED
    BY <1>2, <1>3, <2>1, LedgerTypes
<1>8. QED
  BY <1>4, <1>5, <1>6, <1>7 DEF LedgerInductive

\* The changesets that end a cycle.
LEMMA CommitsSettle ==
  ASSUME EndTask \/ ReleaseTask \/ Wait \/ Replenish \/ Blocked
  PROVE  /\ InCycle /\ Settle(cur.front) /\ pc' = "idle" /\ UNCHANGED <<faults, misread>>
BY DEF EndTask, ReleaseTask, Wait, Replenish, Blocked, InCycle

\* The steps inside a cycle that leave both ledgers, the log and the front alone.
LEMMA InsideCycle ==
  ASSUME Inductive, Revive \/ Claim \/ Microturn
  PROVE  /\ UNCHANGED <<kv, log, mem, misread>> /\ cur'.front = cur.front
         /\ InCycle /\ InCycle' /\ pc' \notin {"down", "boot", "idle"}
         /\ pc \notin {"down", "boot", "idle"}
<1>1. CASE Revive
  BY <1>1 DEF Revive, InCycle
<1>2. CASE Claim
  BY <1>2 DEF Claim, InCycle, Inductive, TypeOK
<1>3. CASE Microturn
  BY <1>3 DEF Microturn, rows, InCycle, Inductive, TypeOK
<1>4. QED
  BY <1>1, <1>2, <1>3

LEMMA LedgerInit == Init => LedgerInductive
  BY KernelAssumption DEF Init, LedgerInductive, FreshLedger, InCycle, Behind, NoMisread, Key

\* A boot that reads both keys remembers what was committed; one that does not is
\* counted for each key it took for a new one.
LEMMA LedgerBoot ==
  Inductive /\ LedgerInductive /\ Boot => LedgerInductive'
<1> SUFFICES ASSUME Inductive, LedgerInductive, Boot PROVE LedgerInductive'
  OBVIOUS
<1>1. pc' = "boot" /\ UNCHANGED <<kv, log>> /\ ~ InCycle'
  BY BootReads DEF rows, InCycle
<1>2. PICK unread \in SUBSET Key :
        /\ mem'.cycle = IF "kernel.cycle" \in unread THEN 0 ELSE kv.cycle
        /\ mem'.last = IF "bandit.state" \in unread THEN [f \in Front |-> 0] ELSE kv.last
        /\ \A k \in Key : misread'[k] = IF k \in unread THEN misread[k] + 1 ELSE misread[k]
  BY BootReads
<1>3. "kernel.cycle" \in Key /\ "bandit.state" \in Key
  BY DEF Key
<1>4. /\ mem'.cycle <= MaxCycle
      /\ \A f \in Front : mem'.last[f] <= MaxCycle
  BY <1>2, LedgerTypes DEF LedgerInductive
<1>5. /\ misread["kernel.cycle"] <= misread'["kernel.cycle"]
      /\ mem'.cycle < kv.cycle => misread["kernel.cycle"] < misread'["kernel.cycle"]
  BY <1>2, <1>3, LedgerTypes
<1>6. /\ log.falls <= misread'["kernel.cycle"]
      /\ Behind' => log.falls < misread'["kernel.cycle"]
  <2>1. log.falls <= misread["kernel.cycle"] /\ misread'["kernel.cycle"] \in Nat
    BY <1>3, BootReads DEF LedgerInductive
  <2>2. Behind' => mem'.cycle < kv.cycle
    BY <1>1 DEF Behind, InCycle
  <2>3. QED
    BY <1>5, <2>1, <2>2, LedgerTypes
<1>7. ASSUME misread' = NoMisread
      PROVE  misread = NoMisread /\ mem'.cycle = kv.cycle /\ mem'.last = kv.last
  <2>1. \A k \in Key : misread'[k] = 0 /\ misread[k] \in Nat
    BY <1>7 DEF NoMisread, Inductive, TypeOK
  <2>2. \A k \in Key : k \notin unread /\ misread[k] = 0
    BY <1>2, <2>1
  <2>3. QED
    BY <1>2, <1>3, <2>2 DEF NoMisread, Inductive, TypeOK
<1>8. misread' = NoMisread
        => \A f \in Front : kv'.last[f] <= kv'.cycle /\ mem'.last[f] <= mem'.cycle
  BY <1>1, <1>7 DEF LedgerInductive
<1>9. QED
  BY <1>1, <1>4, <1>6, <1>8 DEF LedgerInductive

LEMMA LedgerPickFront ==
  Inductive /\ LedgerInductive /\ PickFront => LedgerInductive'
<1> SUFFICES ASSUME Inductive, LedgerInductive, PickFront PROVE LedgerInductive'
  OBVIOUS
<1>1. /\ mem.cycle < MaxCycle /\ mem' = [mem EXCEPT !.cycle = @ + 1]
      /\ UNCHANGED <<kv, log, misread>> /\ pc = "idle" /\ pc' = "revive"
  BY DEF PickFront, rows
<1>2. PICK f \in Pick(mem, mem'.cycle) : cur' = [NoRun EXCEPT !.front = f]
  BY DEF PickFront
<1>3. mem'.cycle = mem.cycle + 1 /\ mem'.last = mem.last
  BY <1>1, LedgerTypes DEF Ledger
<1>4. cur'.front \in Pick(mem', mem'.cycle) /\ mem'.cycle > 0 /\ mem'.cycle <= MaxCycle
  <2>1. cur'.front = f
    BY <1>2 DEF NoRun
  <2>2. Pick(mem', mem'.cycle) = Pick(mem, mem'.cycle)
    BY <1>3 DEF Pick, Starved
  <2>3. QED
    BY <1>1, <1>2, <1>3, <2>1, <2>2, LedgerTypes
<1>5. \A g \in Front : mem'.last[g] <= MaxCycle
  BY <1>1, <1>3 DEF LedgerInductive
<1>6. Behind' => Behind
  BY <1>1, <1>3, LedgerTypes DEF Behind, InCycle
<1>7. misread = NoMisread
        => \A g \in Front : mem'.last[g] <= mem'.cycle /\ mem'.last[g] < mem'.cycle
  <2>1. misread = NoMisread => \A g \in Front : mem.last[g] <= mem.cycle
    BY <1>1 DEF LedgerInductive
  <2>2. QED
    BY <1>3, <2>1, LedgerTypes
<1>8. QED
  BY <1>1, <1>4, <1>5, <1>6, <1>7 DEF LedgerInductive

LEMMA LedgerDerail ==
  Inductive /\ LedgerInductive /\ (Derail \/ DerailLate) => LedgerInductive'
<1> SUFFICES ASSUME Inductive, LedgerInductive, Derail \/ DerailLate
             PROVE  LedgerInductive'
  OBVIOUS
<1>1. /\ UNCHANGED <<kv, log, misread>> /\ pc' = "idle" /\ pc # "down" /\ InCycle
      /\ mem' = mem \/ mem' = Record(mem, cur.front)
  BY DEF Derail, DerailLate, rows, InCycle
<1>2. cur.front \in Front /\ mem \in Ledger
  BY <1>1 DEF Inductive, TypeOK, InCycle
<1>3. /\ mem'.cycle = mem.cycle
      /\ \A f \in Front : mem'.last[f] = mem.last[f] \/ mem'.last[f] = mem.cycle
  <2>1. CASE mem' = mem
    BY <2>1
  <2>2. CASE mem' = Record(mem, cur.front)
    BY <1>2, <2>2, RecordedCycle
  <2>3. QED
    BY <1>1, <2>1, <2>2
<1>4. ~ InCycle' /\ (Behind' => Behind)
  BY <1>1, <1>3, LedgerTypes DEF Behind, InCycle
<1>5. mem'.cycle <= MaxCycle /\ \A f \in Front : mem'.last[f] <= MaxCycle
  BY <1>1, <1>3 DEF LedgerInductive
<1>6. misread = NoMisread => \A f \in Front : mem'.last[f] <= mem'.cycle
  <2>1. misread = NoMisread => \A f \in Front : mem.last[f] <= mem.cycle
    BY <1>1 DEF LedgerInductive
  <2>2. QED
    BY <1>3, <2>1, LedgerTypes
<1>7. QED
  BY <1>1, <1>4, <1>5, <1>6 DEF LedgerInductive

LEMMA LedgerStep ==
  Inductive /\ LedgerInductive /\ [Next]_vars => LedgerInductive'
<1> SUFFICES ASSUME Inductive, LedgerInductive, [Next]_vars
             PROVE  LedgerInductive'
  OBVIOUS
<1>1. CASE UNCHANGED vars
  BY <1>1 DEF vars, rows, process, LedgerInductive, InCycle, Behind, Pick, Starved
<1>2. CASE Boot
  BY <1>2, LedgerBoot
<1>3. CASE Bootstrap
  BY <1>3 DEF Bootstrap, LedgerInductive, InCycle, Behind
<1>4. CASE PickFront
  BY <1>4, LedgerPickFront
<1>5. CASE Revive \/ Claim \/ Microturn
  <2>1. /\ UNCHANGED <<kv, log, mem, misread>> /\ cur'.front = cur.front
        /\ InCycle /\ InCycle' /\ pc # "down"
        /\ pc \notin {"boot", "idle"} /\ pc' \notin {"boot", "idle"}
    BY <1>5, InsideCycle
  <2>2. Pick(mem', mem'.cycle) = Pick(mem, mem.cycle) /\ Behind' = Behind
    BY <2>1 DEF Pick, Starved, Behind
  <2>3. QED
    BY <2>1, <2>2 DEF LedgerInductive
<1>6. CASE EndTask \/ ReleaseTask \/ Wait \/ Replenish \/ Blocked
  BY <1>6, CommitsSettle, SettleLedger
<1>7. CASE Derail \/ DerailLate
  BY <1>7, LedgerDerail
<1>8. CASE Crash
  BY <1>8 DEF Crash, rows, LedgerInductive, InCycle, Behind
<1>9. CASE Elapse
  BY <1>9 DEF Elapse, process, LedgerInductive, InCycle, Behind, Pick, Starved
<1>10. QED
  BY <1>1, <1>2, <1>3, <1>4, <1>5, <1>6, <1>7, <1>8, <1>9 DEF Next

LEMMA LedgerHolds == Spec => []LedgerInductive
<1>1. Inductive /\ LedgerInductive /\ [Next]_vars => LedgerInductive'
  BY LedgerStep
<1>2. QED
  BY <1>1, LedgerInit, InductiveHolds, PTL DEF Spec

\* Whatever crashes and storage errors fall where, the numbers of the events fall
\* back, and are used again, once at most for each boot that took the counter for
\* one never written; with none of those, no cycle number is used twice.
THEOREM CycleNumbersHold == Spec => []CycleNumbersAdvance
<1>1. LedgerInductive => CycleNumbersAdvance
  BY DEF LedgerInductive, CycleNumbersAdvance
<1>2. QED
  BY <1>1, LedgerHolds, PTL

-----------------------------------------------------------------------------
(***************************************************************************)
(* The kernel schedules as Bandit says.                                    *)
(***************************************************************************)

Saved == [f \in Front |-> kv.cycle - kv.last[f]]

\* What the fronts' hunger is in each phase, and its bounds.
LEMMA HungerNumbers ==
  ASSUME Inductive, LedgerInductive, NEW f \in Front
  PROVE  /\ Saved[f] = kv.cycle - kv.last[f] /\ Saved[f] \in (-MaxCycle) .. MaxCycle
         /\ pc = "down" => Hunger[f] = Saved[f]
         /\ pc \in {"boot", "idle"} => Hunger[f] = mem.cycle - mem.last[f]
         /\ InCycle => /\ Hunger[f] = mem.cycle - 1 - mem.last[f] /\ Hunger[f] < MaxCycle
         /\ Hunger[f] \in Int
         /\ misread = NoMisread => Saved[f] \in Nat /\ Hunger[f] \in Nat
<1>1. Saved[f] = kv.cycle - kv.last[f] /\ Saved[f] \in (-MaxCycle) .. MaxCycle
  <2>1. kv.cycle <= MaxCycle /\ kv.last[f] <= MaxCycle
    BY DEF LedgerInductive
  <2>2. QED
    BY <2>1, LedgerTypes DEF Saved
<1>2. pc = "down" => Hunger[f] = Saved[f]
  BY DEF Hunger, Saved
<1>3. pc \in {"boot", "idle"} => Hunger[f] = mem.cycle - mem.last[f]
  BY DEF Hunger
<1>4. InCycle => Hunger[f] = mem.cycle - 1 - mem.last[f]
  BY DEF Hunger, InCycle
<1>5. InCycle => Hunger[f] < MaxCycle
  <2>1. InCycle => mem.cycle <= MaxCycle
    BY DEF LedgerInductive, InCycle
  <2>2. QED
    BY <1>4, <2>1, LedgerTypes
<1>6. pc = "down" \/ pc \in {"boot", "idle"} \/ InCycle
  BY DEF InCycle, Inductive, TypeOK
<1>7. Hunger[f] \in Int
  BY <1>1, <1>2, <1>3, <1>4, <1>6, LedgerTypes
<1>8. ASSUME misread = NoMisread PROVE Saved[f] \in Nat /\ Hunger[f] \in Nat
  <2>1. Saved[f] \in Nat
    <3>1. kv.last[f] <= kv.cycle
      BY <1>8 DEF LedgerInductive
    <3>2. QED
      BY <1>1, <3>1, LedgerTypes
  <2>2. CASE pc = "down"
    BY <1>2, <2>1, <2>2
  <2>3. CASE pc \in {"boot", "idle"}
    <3>1. mem.last[f] <= mem.cycle
      BY <1>8, <2>3 DEF LedgerInductive
    <3>2. QED
      BY <1>3, <2>1, <2>3, <3>1, LedgerTypes
  <2>4. CASE InCycle
    <3>1. mem.last[f] < mem.cycle
      BY <1>8, <2>4 DEF LedgerInductive
    <3>2. QED
      BY <1>4, <2>1, <2>4, <3>1, LedgerTypes
  <2>5. QED
    BY <1>6, <2>2, <2>3, <2>4
<1>9. QED
  BY <1>1, <1>2, <1>3, <1>4, <1>5, <1>7, <1>8

\* In a cycle, the bandit chose by the hunger of the fronts.
LEMMA CycleChoice ==
  ASSUME Inductive, LedgerInductive, InCycle
  PROVE  /\ Justice!Tick(Hunger) = [f \in Front |-> mem.cycle - mem.last[f]]
         /\ cur.front \in Justice!Choice(Justice!Tick(Hunger))
<1>1. Justice!Tick(Hunger) = [f \in Front |-> mem.cycle - mem.last[f]]
  <2>1. \A f \in Front : Hunger[f] < MaxCycle /\ Hunger[f] + 1 = mem.cycle - mem.last[f]
    <3>1. \A f \in Front : Hunger[f] = mem.cycle - 1 - mem.last[f] /\ Hunger[f] < MaxCycle
      BY HungerNumbers
    <3>2. QED
      BY <3>1, LedgerTypes
  <2>2. QED
    BY <2>1 DEF Justice!Tick
<1>2. {f \in Front : Justice!Tick(Hunger)[f] >= JusticeK} = Starved(mem, mem.cycle)
  BY <1>1 DEF Starved
<1>3. Justice!Choice(Justice!Tick(Hunger)) = Pick(mem, mem.cycle)
  BY <1>2 DEF Justice!Choice, Pick
<1>4. QED
  BY <1>1, <1>3 DEF LedgerInductive

\* A cycle that commits serves the front it was given to.
LEMMA CommitServes ==
  ASSUME Inductive, LedgerInductive, InCycle, Settle(cur.front), pc' = "idle"
  PROVE  Justice!Serve
<1> DEFINE h == Justice!Tick(Hunger)
<1>1. cur.front \in Front /\ mem \in Ledger
  BY DEF Inductive, TypeOK, InCycle
<1>2. kv' = mem' /\ mem' = Record(mem, cur.front)
  BY DEF Settle
<1>3. /\ mem'.cycle = mem.cycle
      /\ \A f \in Front : mem'.last[f] = IF f = cur.front THEN mem.cycle ELSE mem.last[f]
  BY <1>1, <1>2, RecordedCycle
<1>4. h = [f \in Front |-> mem.cycle - mem.last[f]] /\ cur.front \in Justice!Choice(h)
  BY CycleChoice
<1>5. Hunger' = [f \in Front |-> mem'.cycle - mem'.last[f]] /\ Saved' = Hunger'
  BY <1>2 DEF Hunger, Saved
<1> HIDE DEF h
<1>6. Hunger' = [h EXCEPT ![cur.front] = 0]
  BY <1>1, <1>3, <1>4, <1>5, LedgerTypes
<1>7. PICK f \in Front : f = cur.front
  BY <1>1
<1>8. f \in Justice!Choice(h) \ {} /\ Hunger' = Justice!Fed(h, f) /\ Saved' = Hunger'
  BY <1>4, <1>5, <1>6, <1>7 DEF Justice!Fed
<1>9. QED
  BY <1>8 DEF Justice!Serve, h, Saved

\* A cycle that fails burns its number, and may keep its pick in memory.
LEMMA DerailFails ==
  ASSUME Inductive, LedgerInductive, Derail \/ DerailLate
  PROVE  Justice!Fail \/ Justice!FailLate
<1> DEFINE h == Justice!Tick(Hunger)
<1>1. InCycle /\ pc' = "idle" /\ UNCHANGED kv
  BY DEF Derail, DerailLate, InCycle, rows
<1>2. cur.front \in Front /\ mem \in Ledger
  BY <1>1 DEF Inductive, TypeOK, InCycle
<1>3. h = [f \in Front |-> mem.cycle - mem.last[f]] /\ cur.front \in Justice!Choice(h)
  BY <1>1, CycleChoice
<1>4. Hunger' = [f \in Front |-> mem'.cycle - mem'.last[f]] /\ Saved' = Saved
  BY <1>1 DEF Hunger, Saved
<1>5. PICK f \in Front : f = cur.front
  BY <1>2
<1> HIDE DEF h
<1>6. CASE Derail
  <2>1. Hunger' = h
    BY <1>3, <1>4, <1>6 DEF Derail
  <2>2. QED
    BY <1>3, <1>4, <1>5, <2>1 DEF Justice!Fail, Justice!FailOn, h, Saved
<1>7. CASE DerailLate
  <2>1. mem' = Record(mem, cur.front)
    BY <1>7 DEF DerailLate
  <2>2. /\ mem'.cycle = mem.cycle
        /\ \A g \in Front : mem'.last[g] = IF g = cur.front THEN mem.cycle ELSE mem.last[g]
    BY <1>2, <2>1, RecordedCycle
  <2>3. Hunger' = [h EXCEPT ![cur.front] = 0]
    BY <1>2, <1>3, <1>4, <2>2, LedgerTypes
  <2>4. f \in Justice!Choice(h) \ {} /\ Hunger' = Justice!Fed(h, f) /\ Saved' = Saved
    BY <1>3, <1>4, <1>5, <2>3 DEF Justice!Fed
  <2>5. QED
    BY <2>4 DEF Justice!FailLate, h, Saved
<1>8. QED
  BY <1>6, <1>7

\* A crash forgets what no changeset carried.
LEMMA CrashRestarts == Crash => Justice!Restart
<1> SUFFICES ASSUME Crash PROVE Justice!Restart
  OBVIOUS
<1>1. pc' = "down" /\ kv' = kv
  BY DEF Crash, rows
<1>2. Hunger' = Saved /\ Saved' = Saved
  BY <1>1 DEF Hunger, Saved
<1>3. QED
  BY <1>2 DEF Justice!Restart, Saved

\* The steps that leave the hunger of the fronts alone.
LEMMA HungerStutters ==
  ASSUME Inductive, LedgerInductive,
         \/ UNCHANGED vars \/ Bootstrap \/ PickFront
         \/ Revive \/ Claim \/ Microturn \/ Elapse
  PROVE  UNCHANGED Justice!bvars
<1>1. CASE UNCHANGED vars
  BY <1>1 DEF vars, rows, process, Justice!bvars, Hunger
<1>3. CASE Bootstrap
  BY <1>3 DEF Bootstrap, Justice!bvars, Hunger
<1>4. CASE PickFront
  <2>1. /\ pc = "idle" /\ pc' = "revive" /\ UNCHANGED kv
        /\ mem' = [mem EXCEPT !.cycle = @ + 1] /\ mem \in Ledger
    BY <1>4 DEF PickFront, rows, Inductive, TypeOK
  <2>2. mem'.cycle = mem.cycle + 1 /\ mem'.last = mem.last
    BY <2>1 DEF Ledger
  <2>3. Hunger' = [f \in Front |-> mem'.cycle - 1 - mem'.last[f]]
    BY <2>1 DEF Hunger
  <2>4. Hunger = [f \in Front |-> mem.cycle - mem.last[f]]
    BY <2>1 DEF Hunger
  <2>5. \A f \in Front : mem'.cycle - 1 - mem'.last[f] = mem.cycle - mem.last[f]
    BY <2>2, LedgerTypes
  <2>6. Hunger' = Hunger
    BY <2>3, <2>4, <2>5
  <2>7. QED
    BY <2>1, <2>6 DEF Justice!bvars
<1>5. CASE Revive \/ Claim \/ Microturn
  <2>1. UNCHANGED <<kv, mem>> /\ InCycle /\ InCycle'
    BY <1>5, InsideCycle
  <2>2. QED
    BY <2>1 DEF Justice!bvars, Hunger, InCycle
<1>6. CASE Elapse
  BY <1>6 DEF Elapse, process, Justice!bvars, Hunger
<1>7. QED
  BY <1>1, <1>3, <1>4, <1>5, <1>6

\* A boot forgets nothing more than the crash before it did, unless it takes one of
\* the two counters, or both, for one never written.
LEMMA BootRestarts ==
  ASSUME Inductive, LedgerInductive, Boot
  PROVE  /\ Saved' = Saved
         /\ Hunger' = Hunger \/ Justice!RestartBlind
         /\ misread' = NoMisread => Hunger' = Hunger
<1>1. pc = "down" /\ pc' = "boot" /\ UNCHANGED kv /\ misread' \in [Key -> Nat]
  BY BootReads DEF rows
<1>2. PICK unread \in SUBSET Key :
        /\ mem'.cycle = IF "kernel.cycle" \in unread THEN 0 ELSE kv.cycle
        /\ mem'.last = IF "bandit.state" \in unread THEN [f \in Front |-> 0] ELSE kv.last
        /\ \A k \in Key : misread'[k] = IF k \in unread THEN misread[k] + 1 ELSE misread[k]
  BY BootReads
<1>3. /\ Saved' = Saved /\ Saved = [f \in Front |-> kv.cycle - kv.last[f]]
      /\ Hunger = [f \in Front |-> kv.cycle - kv.last[f]]
      /\ Hunger' = [f \in Front |-> mem'.cycle - mem'.last[f]]
  BY <1>1 DEF Saved, Hunger
<1> DEFINE c == kv.cycle
<1>4. c \in 0 .. MaxCycle /\ \A f \in Front : kv.last[f] \in 0 .. MaxCycle
  BY LedgerTypes DEF LedgerInductive
<1>5. \A f \in Front : Saved[f] <= c
  BY <1>3, <1>4
<1>6. CASE unread = {}
  <2>1. Hunger' = Hunger
    BY <1>2, <1>3, <1>6
  <2>2. QED
    BY <1>3, <2>1
<1>7. CASE unread # {}
  <2>1. misread' # NoMisread
    <3>1. PICK k \in unread : k \in Key
      BY <1>7
    <3>2. misread'[k] = misread[k] + 1 /\ misread[k] \in Nat
      BY <1>2, <3>1 DEF Inductive, TypeOK
    <3>3. misread'[k] # 0 /\ NoMisread[k] = 0
      BY <3>1, <3>2 DEF NoMisread
    <3>4. QED
      BY <3>3
  <2>2. CASE "kernel.cycle" \in unread /\ "bandit.state" \notin unread
    <3>1. \A f \in Front : Justice!Floored(Saved[f] - c) = mem'.cycle - mem'.last[f]
      <4> SUFFICES ASSUME NEW f \in Front
                   PROVE  Justice!Floored(Saved[f] - c) = mem'.cycle - mem'.last[f]
        OBVIOUS
      <4>1. mem'.cycle = 0 /\ mem'.last = kv.last /\ Saved[f] = c - kv.last[f]
        BY <1>2, <1>3, <2>2
      <4>2. MaxCycle \in Nat /\ c \in Nat /\ kv.last[f] \in Nat /\ kv.last[f] <= MaxCycle
        BY <1>4, LedgerTypes
      <4> HIDE DEF c
      <4>3. \A i, j, m \in Nat : j <= m => (i - j) - i = 0 - j /\ ~ ((i - j) - i < -m)
        OBVIOUS
      <4>4. QED
        BY <4>1, <4>2, <4>3 DEF Justice!Floored
    <3>2. Hunger' = [f \in Front |-> Justice!Floored(Saved[f] - c)]
      BY <1>3, <3>1
    <3>3. QED
      BY <1>3, <1>4, <1>5, <2>1, <3>2
      DEF Justice!RestartBlind, Saved
  <2>3. CASE "bandit.state" \in unread
    <3>1. Hunger' = [f \in Front |-> c] \/ Hunger' = [f \in Front |-> 0]
      BY <1>2, <1>3, <1>4, <2>3
    <3>2. QED
      BY <1>3, <1>4, <1>5, <2>1, <3>1 DEF Justice!RestartBlind, Saved
  <2>4. "kernel.cycle" \in unread \/ "bandit.state" \in unread
    BY <1>7 DEF Key
  <2>5. QED
    BY <2>2, <2>3, <2>4
<1>8. QED
  BY <1>6, <1>7

\* A pick is recorded if and only if its changeset commits, but for the ones
\* failed changesets leave in memory, and cycles go to the fronts the justice
\* rule gives them to: whatever crashes, storage errors and boots that misread fall
\* where.
THEOREM KernelKeepsJustice == Spec => KeepsJustice
<1>1. Init => Justice!Init
  BY DEF Init, Justice!Init, Hunger, FreshLedger
<1>2. Inductive /\ LedgerInductive /\ [Next]_vars => [Justice!Next]_(Justice!bvars)
  <2> SUFFICES ASSUME Inductive, LedgerInductive, [Next]_vars
               PROVE  Justice!Next \/ UNCHANGED Justice!bvars
    OBVIOUS
  <2>1. CASE Boot
    BY <2>1, BootRestarts DEF Justice!Next, Justice!bvars, Saved
  <2>2. CASE ~ Boot
    BY <2>2, HungerStutters, CrashRestarts, DerailFails, CommitServes, CommitsSettle
    DEF Next, Justice!Next, Justice!Cycle
  <2>3. QED
    BY <2>1, <2>2
<1>3. QED
  BY <1>1, <1>2, InductiveHolds, LedgerHolds, PTL DEF Spec, KeepsJustice, Justice!Safe

-----------------------------------------------------------------------------
(***************************************************************************)
(* The justice floor                                                       *)
(***************************************************************************)

\* The fronts picked in the last n cycles, and the one before.
Fresh(h, n) == {g \in Front : h[g] <= n}

\* While a front waits beyond K, every cycle but e goes to another front that was
\* starved as well, so no front among the fresh ones is counted twice.
Spread(h, e) ==
  \A f \in Front :
    h[f] >= JusticeK - 1 + e =>
      Cardinality(Fresh(h, h[f] - JusticeK + 1)) >= h[f] - JusticeK + 2 - e

\* K is large enough for the fronts, and for e storage errors.
Room(e) == JusticeK >= 2 /\ JusticeK >= Cardinality(Front) + e

LEMMA FreshFinite ==
  ASSUME NEW h, NEW n
  PROVE  /\ IsFiniteSet(Fresh(h, n)) /\ Cardinality(Fresh(h, n)) \in Nat
         /\ Cardinality(Fresh(h, n)) <= Cardinality(Front)
         /\ Cardinality(Front) \in Nat
<1>1. Fresh(h, n) \subseteq Front /\ IsFiniteSet(Front)
  BY KernelAssumption DEF Fresh
<1>2. QED
  BY <1>1, FS_Subset, FS_CardinalityType

\* A front is not among the fresh ones it waits for, so they bound its wait.
LEMMA SpreadFloor ==
  ASSUME NEW h \in [Front -> Nat], NEW e \in Nat, Room(e), Spread(h, e), NEW f \in Front
  PROVE  h[f] <= JusticeK + Cardinality(Front) - 3 + e
<1> DEFINE S == Fresh(h, h[f] - JusticeK + 1)
<1>1. h[f] \in Nat /\ JusticeK \in Nat /\ Cardinality(Front) \in Nat /\ JusticeK >= 2
      /\ IsFiniteSet(Front) /\ IsFiniteSet(S) /\ Cardinality(S) \in Nat
  BY KernelAssumption, FreshFinite DEF Room
<1>2. S \subseteq Front \ {f}
  BY <1>1 DEF Fresh
<1>3. IsFiniteSet(Front \ {f}) /\ Cardinality(Front \ {f}) = Cardinality(Front) - 1
  BY <1>1, FS_RemoveElement
<1>4. Cardinality(S) <= Cardinality(Front) - 1
  BY <1>2, <1>3, FS_Subset
<1>5. CASE h[f] >= JusticeK - 1 + e
  <2>1. Cardinality(S) >= h[f] - JusticeK + 2 - e
    BY <1>5 DEF Spread
  <2>2. QED
    BY <1>1, <1>4, <2>1
<1>6. CASE ~ (h[f] >= JusticeK - 1 + e)
  <2>1. Cardinality(Front) >= 1
    BY <1>1, <1>4
  <2>2. QED
    BY <1>1, <1>6, <2>1
<1>7. QED
  BY <1>5, <1>6

\* A pick goes to a starved front, if there is one, and makes it fresh.
LEMMA PickSpreads ==
  ASSUME NEW h \in [Front -> Nat], NEW e \in Nat, Room(e), Spread(h, e),
         NEW t, t = [f \in Front |-> h[f] + 1], NEW p \in Justice!Choice(t)
  PROVE  Spread([t EXCEPT ![p] = 0], e)
<1> DEFINE u == [t EXCEPT ![p] = 0]
<1>1. /\ JusticeK \in Nat /\ Cardinality(Front) \in Nat
      /\ JusticeK >= 2 /\ JusticeK >= Cardinality(Front) + e
  BY KernelAssumption, FreshFinite DEF Room
<1>2. p \in Front /\ (\A f \in Front : t[f] >= JusticeK => t[p] >= JusticeK)
  BY DEF Justice!Choice
<1>3. /\ u[p] = 0
      /\ \A g \in Front : g # p => u[g] = h[g] + 1
      /\ \A g \in Front : t[g] = h[g] + 1 /\ h[g] \in Nat
  BY <1>2
<1> HIDE DEF u
<1> SUFFICES ASSUME NEW f \in Front, u[f] >= JusticeK - 1 + e
             PROVE  Cardinality(Fresh(u, u[f] - JusticeK + 1)) >= u[f] - JusticeK + 2 - e
  BY DEF Spread, u
<1> DEFINE n == h[f] - JusticeK + 1
           S == Fresh(h, n)
           T == Fresh(u, u[f] - JusticeK + 1)
<1>4. f # p /\ u[f] = h[f] + 1 /\ h[f] \in Nat /\ n \in Int
  BY <1>1, <1>3
<1>5. p \in T
  BY <1>1, <1>2, <1>3, <1>4 DEF Fresh
<1>6. IsFiniteSet(S) /\ IsFiniteSet(T) /\ Cardinality(S) \in Nat /\ Cardinality(T) \in Nat
  BY FreshFinite
<1>7. CASE h[f] < JusticeK - 1 + e
  <2>1. Cardinality({p}) = 1
    BY FS_Singleton
  <2>2. {p} \subseteq T
    BY <1>5
  <2>3. Cardinality({p}) <= Cardinality(T)
    BY <1>6, <2>2, FS_Subset
  <2>4. QED
    BY <1>1, <1>4, <1>6, <1>7, <2>1, <2>3
<1>8. CASE h[f] >= JusticeK - 1 + e
  <2>1. Cardinality(S) >= n + 1 - e
    <3>1. Cardinality(S) >= h[f] - JusticeK + 2 - e
      BY <1>8 DEF Spread
    <3>2. QED
      BY <1>1, <1>4, <1>6, <3>1
  <2>2. h[f] <= JusticeK + Cardinality(Front) - 3 + e
    BY SpreadFloor
  <2>3. h[p] >= JusticeK - 1
    BY <1>1, <1>2, <1>3, <1>4, <1>8
  <2>4. p \notin S
    BY <1>1, <1>2, <1>3, <1>4, <2>2, <2>3 DEF Fresh
  <2>5. S \cup {p} \subseteq T
    BY <1>1, <1>3, <1>4, <1>5, <2>4 DEF Fresh
  <2>6. IsFiniteSet(S \cup {p}) /\ Cardinality(S \cup {p}) = Cardinality(S) + 1
    BY <1>6, <2>4, FS_AddElement
  <2>7. Cardinality(S \cup {p}) <= Cardinality(T)
    BY <1>6, <2>5, FS_Subset
  <2>8. QED
    BY <1>1, <1>4, <1>6, <2>1, <2>6, <2>7
<1>9. QED
  BY <1>1, <1>4, <1>7, <1>8

\* A cycle that nobody gets costs one.
LEMMA BurntSpreads ==
  ASSUME NEW h \in [Front -> Nat], NEW e \in Nat, Spread(h, e)
  PROVE  Spread([f \in Front |-> h[f] + 1], e + 1)
<1> DEFINE t == [f \in Front |-> h[f] + 1]
<1> SUFFICES ASSUME NEW f \in Front, t[f] >= JusticeK - 1 + (e + 1)
             PROVE  Cardinality(Fresh(t, t[f] - JusticeK + 1)) >= t[f] - JusticeK + 2 - (e + 1)
  BY DEF Spread
<1>1. JusticeK \in Nat /\ h[f] \in Nat /\ t[f] = h[f] + 1
      /\ \A g \in Front : h[g] \in Nat /\ t[g] = h[g] + 1
  BY KernelAssumption
<1> HIDE DEF t
<1>2. Fresh(t, t[f] - JusticeK + 1) = Fresh(h, h[f] - JusticeK + 1)
  BY <1>1 DEF Fresh
<1>3. h[f] >= JusticeK - 1 + e
  BY <1>1
<1>4. Cardinality(Fresh(h, h[f] - JusticeK + 1)) >= h[f] - JusticeK + 2 - e
  BY <1>3 DEF Spread
<1>5. Cardinality(Fresh(h, h[f] - JusticeK + 1)) \in Nat
  BY FreshFinite
<1>6. QED
  BY <1>1, <1>2, <1>4, <1>5

\* An error that cost nothing may be counted.
LEMMA SpreadSlack ==
  ASSUME NEW h \in [Front -> Nat], NEW e \in Nat, Spread(h, e)
  PROVE  Spread(h, e + 1)
<1> SUFFICES ASSUME NEW f \in Front, h[f] >= JusticeK - 1 + (e + 1)
             PROVE  Cardinality(Fresh(h, h[f] - JusticeK + 1)) >= h[f] - JusticeK + 2 - (e + 1)
  BY DEF Spread
<1>1. JusticeK \in Nat /\ h[f] \in Nat
      /\ Cardinality(Fresh(h, h[f] - JusticeK + 1)) \in Nat
  BY KernelAssumption, FreshFinite
<1>2. Cardinality(Fresh(h, h[f] - JusticeK + 1)) >= h[f] - JusticeK + 2 - e
  BY <1>1 DEF Spread
<1>3. QED
  BY <1>1, <1>2

\* Of the counters in memory and of the persisted ones, until a boot misreads one.
FloorInv ==
  misread = NoMisread => Spread(Hunger, faults) /\ Spread(Saved, faults)

LEMMA FloorInit == ASSUME Room(0) PROVE Init => FloorInv
<1> SUFFICES ASSUME Init PROVE FloorInv
  OBVIOUS
<1>1. /\ faults = 0 /\ JusticeK \in Nat /\ JusticeK >= 2
      /\ \A f \in Front : Hunger[f] = 0 /\ Saved[f] = 0
  BY KernelAssumption DEF Init, FreshLedger, Hunger, Saved, Room
<1>2. QED
  BY <1>1 DEF FloorInv, Spread

LEMMA FloorStep ==
  ASSUME Room(MaxFaults), Inductive, LedgerInductive, FloorInv, [Next]_vars
  PROVE  FloorInv'
<1> SUFFICES ASSUME misread' = NoMisread
             PROVE  Spread(Hunger, faults)' /\ Spread(Saved, faults)'
  BY DEF FloorInv
<1>a. misread = NoMisread
  <2>1. CASE Boot
    <3>1. \A k \in Key : misread'[k] = 0 /\ misread[k] \in Nat
      BY DEF NoMisread, Inductive, TypeOK
    <3>2. \A k \in Key : misread'[k] = misread[k] + 1 \/ misread'[k] = misread[k]
      BY <2>1, BootReads
    <3>3. \A k \in Key : misread[k] = 0
      BY <3>1, <3>2
    <3>4. QED
      BY <3>3 DEF NoMisread, Inductive, TypeOK
  <2>2. CASE UNCHANGED vars \/ ~ Boot
    BY <2>2 DEF vars, Next, Bootstrap, PickFront, Revive, Claim, Microturn, EndTask,
         ReleaseTask, Wait, Replenish, Blocked, Derail, DerailLate, Crash, Elapse
  <2>3. QED
    BY <2>1, <2>2
<1>0. /\ faults \in Nat /\ Hunger \in [Front -> Nat] /\ Saved \in [Front -> Nat]
      /\ Spread(Hunger, faults) /\ Spread(Saved, faults) /\ Room(faults)
  <2>1. faults \in 0 .. MaxFaults /\ MaxFaults \in Nat /\ JusticeK \in Nat
        /\ Cardinality(Front) \in Nat
    BY KernelAssumption, FreshFinite DEF Inductive, TypeOK
  <2>2. \A f \in Front : Hunger[f] \in Nat /\ Saved[f] \in Nat
    BY <1>a, HungerNumbers
  <2>3. QED
    BY <1>a, <2>1, <2>2 DEF FloorInv, Room, Hunger, Saved
<1> DEFINE t == [f \in Front |-> Hunger[f] + 1]
<1>1. ASSUME InCycle PROVE Justice!Tick(Hunger) = t
  <2>1. /\ Justice!Tick(Hunger) = [f \in Front |-> mem.cycle - mem.last[f]]
        /\ mem.cycle \in Nat
        /\ \A f \in Front : mem.last[f] \in Nat /\ Hunger[f] = mem.cycle - 1 - mem.last[f]
    BY <1>1, CycleChoice, HungerNumbers, LedgerTypes
  <2>2. QED
    BY <2>1
<1> HIDE DEF t
<1>2. CASE EndTask \/ ReleaseTask \/ Wait \/ Replenish \/ Blocked
  <2>1. InCycle /\ Justice!Serve /\ faults' = faults
    BY <1>2, CommitsSettle, CommitServes
  <2>2. PICK p \in Justice!Choice(t) : Hunger' = [t EXCEPT ![p] = 0] /\ Saved' = Hunger'
    BY <1>1, <2>1 DEF Justice!Serve, Justice!Fed, Saved
  <2>3. Spread([t EXCEPT ![p] = 0], faults)
    BY <1>0, PickSpreads DEF t
  <2>4. QED
    BY <2>1, <2>2, <2>3
<1>3. CASE Derail \/ DerailLate
  <2>1. InCycle /\ faults' = faults + 1 /\ Saved' = Saved
    BY <1>3 DEF Derail, DerailLate, InCycle, rows, Saved
  <2>2. Spread(Saved, faults + 1)
    BY <1>0, SpreadSlack
  <2>3. Spread(Hunger', faults + 1)
    <3>1. CASE Justice!Fail
      <4>1. Hunger' = t
        BY <1>1, <2>1, <3>1 DEF Justice!Fail, Justice!FailOn
      <4>2. QED
        BY <1>0, <4>1, BurntSpreads DEF t
    <3>2. CASE Justice!FailLate
      <4>1. PICK p \in Justice!Choice(t) : Hunger' = [t EXCEPT ![p] = 0]
        BY <1>1, <2>1, <3>2 DEF Justice!FailLate, Justice!Fed
      <4>2. Spread([t EXCEPT ![p] = 0], faults)
        BY <1>0, PickSpreads DEF t
      <4>3. [t EXCEPT ![p] = 0] \in [Front -> Nat]
        <5>1. t \in [Front -> Nat]
          BY <1>0 DEF t
        <5>2. QED
          BY <5>1
      <4>4. QED
        BY <1>0, <4>1, <4>2, <4>3, SpreadSlack
    <3>3. QED
      BY <1>3, <3>1, <3>2, DerailFails
  <2>4. QED
    BY <2>1, <2>2, <2>3
<1>4. CASE Crash
  <2>1. Hunger' = Saved /\ Saved' = Saved /\ faults' = faults
    BY <1>4, CrashRestarts DEF Crash, Justice!Restart, Saved
  <2>2. QED
    BY <1>0, <2>1
<1>5. CASE \/ UNCHANGED vars \/ Boot \/ Bootstrap \/ PickFront
           \/ Revive \/ Claim \/ Microturn \/ Elapse
  <2>2. Hunger' = Hunger /\ Saved' = Saved
    <3>1. CASE Boot
      BY <3>1, BootRestarts
    <3>2. CASE UNCHANGED Justice!bvars
      BY <3>2 DEF Justice!bvars, Saved
    <3>3. QED
      BY <1>5, <3>1, <3>2, HungerStutters
  <2>3. faults' = faults
    BY <1>5 DEF vars, Boot, Bootstrap, PickFront, Revive, Claim, Microturn, Elapse
  <2>4. QED
    BY <1>0, <2>2, <2>3
<1>6. QED
  BY <1>2, <1>3, <1>4, <1>5 DEF Next

\* Until a boot misreads a counter no front waits longer than the floor says, for
\* any number of fronts, crashes and storage errors of the running process and any
\* choice of UCB1, as long as K exceeds what fronts and errors take.
THEOREM FloorHolds ==
  ASSUME JusticeK >= 2, JusticeK >= Cardinality(Front) + MaxFaults
  PROVE  Spec => []FloorKept
<1>1. Room(MaxFaults) /\ Room(0)
  BY KernelAssumption, FreshFinite DEF Room
<1>2. Init => FloorInv
  BY <1>1, FloorInit
<1>3. Inductive /\ LedgerInductive /\ FloorInv /\ [Next]_vars => FloorInv'
  BY <1>1, FloorStep
<1>4. Inductive /\ LedgerInductive /\ FloorInv => FloorKept
  <2> SUFFICES ASSUME Inductive, LedgerInductive, FloorInv, misread = NoMisread,
                      NEW f \in Front
               PROVE  Hunger[f] <= JusticeK + Cardinality(Front) - 3 + faults
    BY DEF FloorKept
  <2>1. faults \in 0 .. MaxFaults /\ Cardinality(Front) \in Nat /\ JusticeK \in Nat
        /\ MaxFaults \in Nat
    BY KernelAssumption, FreshFinite DEF Inductive, TypeOK
  <2>2. Hunger \in [Front -> Nat] /\ Room(faults)
    BY <1>1, <2>1, HungerNumbers DEF Hunger, Room
  <2>3. QED
    BY <2>1, <2>2, SpreadFloor DEF FloorInv
<1>5. QED
  BY <1>2, <1>3, <1>4, InductiveHolds, LedgerHolds, PTL DEF Spec

-----------------------------------------------------------------------------
(***************************************************************************)
(* The ledgers against the log                                             *)
(***************************************************************************)

\* How far a ledger may be ahead of the log after d storage errors, apart from
\* the number of the cycle under way, if there is one; and that it is not behind.
Ahead(l, numbers, d) ==
  /\ l.cycle <= log.n + numbers + d
  /\ \A f \in Front : l.picks[f] <= log.front[f] + d
Counts(l, numbers) == log.n + numbers <= l.cycle
Picks(l) == \A f \in Front : log.front[f] <= l.picks[f]

\* The store and, while there is one, the memory are ahead of the log by what
\* the errors so far explain, and behind it in what a boot misread alone.
LedgerSlack ==
  /\ Ahead(kv, 0, faults)
  /\ pc \in {"boot", "idle"} => Ahead(mem, 0, faults)
  /\ InCycle => Ahead(mem, 1, faults)
  /\ misread["kernel.cycle"] = 0 =>
       /\ Counts(kv, 0)
       /\ pc \in {"boot", "idle"} => Counts(mem, 0)
       /\ InCycle => Counts(mem, 1)
  /\ misread["bandit.state"] = 0 =>
       /\ Picks(kv)
       /\ pc # "down" => Picks(mem)

\* The numbers the arithmetic is about.
LEMMA SlackTypes ==
  ASSUME Inductive
  PROVE  /\ faults \in Nat /\ log.n \in Nat /\ kv.cycle \in Nat /\ mem.cycle \in Nat
         /\ \A f \in Front : log.front[f] \in Nat /\ kv.picks[f] \in Nat /\ mem.picks[f] \in Nat
         /\ mem \in Ledger
         /\ InCycle => cur.front \in Front
BY KernelAssumption DEF Inductive, TypeOK, Ledger, InCycle

\* Recording a cycle counts it for one arm.
LEMMA RecordCounts ==
  ASSUME NEW l \in Ledger, NEW f \in Front
  PROVE  /\ Record(l, f).cycle = l.cycle
         /\ \A g \in Front : Record(l, f).picks[g]
                               = IF g = f THEN l.picks[g] + 1 ELSE l.picks[g]
BY DEF Record, Ledger

LEMMA SlackInit == Init => LedgerSlack
  BY DEF Init, LedgerSlack, Ahead, Counts, Picks, InCycle, FreshLedger

\* A cycle that commits brings the store to where the memory is, and the log on
\* by the same number and the same pick.
LEMMA SlackCommit ==
  ASSUME Inductive, LedgerSlack,
         EndTask \/ ReleaseTask \/ Wait \/ Replenish \/ Blocked
  PROVE  LedgerSlack'
<1> DEFINE f == cur.front
<1>1. InCycle /\ Settle(f) /\ pc' = "idle" /\ UNCHANGED <<faults, misread>>
  BY CommitsSettle
<1>2. f \in Front /\ mem \in Ledger
  BY <1>1, SlackTypes
<1>3. /\ mem' = Record(mem, f) /\ kv' = mem'
      /\ log'.n = log.n + 1 /\ log'.front = [log.front EXCEPT ![f] = @ + 1]
  BY <1>1 DEF Settle, Logged
<1> HIDE DEF f
<1>4. /\ Record(mem, f).cycle = mem.cycle
      /\ \A g \in Front : Record(mem, f).picks[g]
           = IF g = f THEN mem.picks[g] + 1 ELSE mem.picks[g]
  BY <1>2, RecordCounts
<1>5. /\ mem'.cycle = mem.cycle
      /\ \A g \in Front : mem'.picks[g] = IF g = f THEN mem.picks[g] + 1 ELSE mem.picks[g]
  BY <1>3, <1>4
<1>6. log.front \in [Front -> Nat]
  BY DEF Inductive, TypeOK
<1>7. /\ log'.n = log.n + 1
      /\ \A g \in Front : log'.front[g] = IF g = f THEN log.front[g] + 1 ELSE log.front[g]
  BY <1>3, <1>6
<1>8. Ahead(mem, 1, faults)
  BY <1>1 DEF LedgerSlack
<1>9. Ahead(mem, 0, faults)' /\ Ahead(kv, 0, faults)'
  <2>1. Ahead(mem, 0, faults)'
    BY <1>1, <1>2, <1>5, <1>7, <1>8, SlackTypes DEF Ahead
  <2>2. QED
    BY <1>3, <2>1 DEF Ahead
<1>10. misread["kernel.cycle"] = 0 => Counts(mem, 0)' /\ Counts(kv, 0)'
  <2>1. misread["kernel.cycle"] = 0 => Counts(mem, 1)
    BY <1>1 DEF LedgerSlack
  <2>2. QED
    BY <1>3, <1>5, <1>7, <2>1, SlackTypes DEF Counts
<1>11. misread["bandit.state"] = 0 => Picks(mem)' /\ Picks(kv)'
  <2>1. misread["bandit.state"] = 0 => Picks(mem)
    BY <1>1 DEF LedgerSlack, InCycle
  <2>2. QED
    BY <1>2, <1>3, <1>5, <1>7, <2>1, SlackTypes DEF Picks
<1>12. QED
  BY <1>1, <1>9, <1>10, <1>11 DEF LedgerSlack, InCycle

\* One that fails leaves its number, and perhaps its pick, in memory: that is
\* what the error is charged with.
LEMMA SlackDerail ==
  ASSUME Inductive, LedgerSlack, Derail \/ DerailLate
  PROVE  LedgerSlack'
<1>1. /\ InCycle /\ pc # "down" /\ pc' = "idle" /\ faults' = faults + 1
      /\ UNCHANGED <<kv, log, misread>>
      /\ mem' = mem \/ mem' = Record(mem, cur.front)
  BY DEF Derail, DerailLate, rows, InCycle
<1>2. /\ mem'.cycle = mem.cycle
      /\ \A g \in Front : mem'.picks[g] \in {mem.picks[g], mem.picks[g] + 1}
  <2>1. CASE mem' = mem
    BY <2>1
  <2>2. CASE mem' = Record(mem, cur.front)
    <3>1. /\ Record(mem, cur.front).cycle = mem.cycle
          /\ \A g \in Front : Record(mem, cur.front).picks[g]
               = IF g = cur.front THEN mem.picks[g] + 1 ELSE mem.picks[g]
      BY <1>1, SlackTypes, RecordCounts
    <3>2. QED
      BY <2>2, <3>1
  <2>3. QED
    BY <1>1, <2>1, <2>2
<1>3. Ahead(mem, 1, faults) /\ Ahead(kv, 0, faults)
  BY <1>1 DEF LedgerSlack
<1>4. Ahead(mem, 0, faults)'
  BY <1>1, <1>2, <1>3, SlackTypes DEF Ahead
<1>5. Ahead(kv, 0, faults)'
  BY <1>1, <1>3, SlackTypes DEF Ahead
<1>6. misread["kernel.cycle"] = 0 => Counts(kv, 0)' /\ Counts(mem, 0)'
  <2>1. misread["kernel.cycle"] = 0 => Counts(kv, 0) /\ Counts(mem, 1)
    BY <1>1 DEF LedgerSlack
  <2>2. QED
    BY <1>1, <1>2, <2>1, SlackTypes DEF Counts
<1>7. misread["bandit.state"] = 0 => Picks(kv)' /\ Picks(mem)'
  <2>1. misread["bandit.state"] = 0 => Picks(kv) /\ Picks(mem)
    BY <1>1 DEF LedgerSlack
  <2>2. QED
    BY <1>1, <1>2, <2>1, SlackTypes DEF Picks
<1>8. QED
  BY <1>1, <1>4, <1>5, <1>6, <1>7 DEF LedgerSlack, InCycle

LEMMA SlackPickFront ==
  ASSUME Inductive, LedgerSlack, PickFront
  PROVE  LedgerSlack'
<1>1. /\ pc = "idle" /\ pc' = "revive" /\ UNCHANGED <<kv, log, faults, misread>>
      /\ mem' = [mem EXCEPT !.cycle = @ + 1]
  BY DEF PickFront, rows
<1>2. mem'.cycle = mem.cycle + 1 /\ mem'.picks = mem.picks
  BY <1>1, SlackTypes DEF Ledger
<1>3. Ahead(mem, 0, faults) /\ Ahead(kv, 0, faults)
  BY <1>1 DEF LedgerSlack
<1>4. Ahead(mem, 1, faults)' /\ Ahead(kv, 0, faults)'
  BY <1>1, <1>2, <1>3, SlackTypes DEF Ahead
<1>5. misread["kernel.cycle"] = 0 => Counts(kv, 0)' /\ Counts(mem, 1)'
  <2>1. misread["kernel.cycle"] = 0 => Counts(kv, 0) /\ Counts(mem, 0)
    BY <1>1 DEF LedgerSlack
  <2>2. QED
    BY <1>1, <1>2, <2>1, SlackTypes DEF Counts
<1>6. misread["bandit.state"] = 0 => Picks(kv)' /\ Picks(mem)'
  BY <1>1, <1>2 DEF LedgerSlack, Picks
<1>7. QED
  BY <1>1, <1>4, <1>5, <1>6 DEF LedgerSlack

\* A boot takes the ledger over from the store, but for what it misreads: that is
\* as if nothing had ever been counted.
LEMMA SlackBoot ==
  ASSUME Inductive, LedgerSlack, Boot
  PROVE  LedgerSlack'
<1>1. pc' = "boot" /\ UNCHANGED <<kv, log, faults>> /\ ~ InCycle'
  BY BootReads DEF rows, InCycle
<1>2. PICK unread \in SUBSET Key :
        /\ mem'.cycle = IF "kernel.cycle" \in unread THEN 0 ELSE kv.cycle
        /\ mem'.picks = IF "bandit.state" \in unread THEN [f \in Front |-> 0] ELSE kv.picks
        /\ \A k \in Key : misread'[k] = IF k \in unread THEN misread[k] + 1 ELSE misread[k]
  BY BootReads
<1>3. Ahead(kv, 0, faults)' /\ Ahead(mem, 0, faults)'
  <2>1. Ahead(kv, 0, faults)
    BY DEF LedgerSlack
  <2>2. QED
    BY <1>1, <1>2, <2>1, SlackTypes DEF Ahead
<1>4. \A k \in Key : misread'[k] = 0 => misread[k] = 0 /\ k \notin unread
  BY <1>2 DEF Inductive, TypeOK
<1>5. misread'["kernel.cycle"] = 0 => Counts(kv, 0)' /\ Counts(mem, 0)'
  BY <1>1, <1>2, <1>4 DEF LedgerSlack, Counts, Key
<1>6. misread'["bandit.state"] = 0 => Picks(kv)' /\ Picks(mem)'
  BY <1>1, <1>2, <1>4 DEF LedgerSlack, Picks, Key
<1>7. QED
  BY <1>1, <1>3, <1>5, <1>6 DEF LedgerSlack

\* The other steps leave the store's ledger, the log and the errors alone, and
\* memory with them or it is gone.
LEMMA SlackOther ==
  ASSUME Inductive, LedgerSlack,
         UNCHANGED vars \/ Bootstrap \/ Revive \/ Claim \/ Microturn \/ Crash \/ Elapse
  PROVE  LedgerSlack'
<1>1. UNCHANGED <<kv, log, faults, misread>>
  BY DEF vars, rows, Bootstrap, Revive, Claim, Microturn, Crash, Elapse
<1>2. CASE UNCHANGED vars \/ Elapse
  BY <1>1, <1>2 DEF vars, process, Elapse, LedgerSlack, Ahead, Counts, Picks, InCycle
<1>3. CASE Bootstrap
  BY <1>1, <1>3 DEF Bootstrap, LedgerSlack, Ahead, Counts, Picks, InCycle
<1>4. CASE Revive \/ Claim \/ Microturn
  <2>1. /\ UNCHANGED mem /\ InCycle /\ InCycle' /\ pc # "down"
        /\ pc' \notin {"down", "boot", "idle"}
    BY <1>4, InsideCycle
  <2>2. QED
    BY <1>1, <2>1 DEF LedgerSlack, Ahead, Counts, Picks
<1>5. CASE Crash
  BY <1>1, <1>5 DEF Crash, LedgerSlack, Ahead, Counts, Picks, InCycle
<1>6. QED
  BY <1>2, <1>3, <1>4, <1>5

LEMMA SlackStep == Inductive /\ LedgerSlack /\ [Next]_vars => LedgerSlack'
  BY SlackCommit, SlackDerail, SlackPickFront, SlackBoot, SlackOther DEF Next

\* Each storage error of the running process costs one cycle number and one
\* unlogged pick at most and a crash nothing, whatever boots misread; and nothing
\* in the log is missing from a counter that no boot misread: for any number of
\* errors, crashes and boots.
THEOREM TelemetryBoundHolds == Spec => []TelemetryBounded
<1>1. Inductive /\ LedgerSlack => TelemetryBounded
  BY SlackTypes DEF LedgerSlack, Ahead, Counts, Picks, TelemetryBounded
<1>2. Spec => []LedgerSlack
  BY SlackInit, SlackStep, InductiveHolds, PTL DEF Spec
<1>3. QED
  BY <1>1, <1>2, InductiveHolds, PTL

-----------------------------------------------------------------------------
(***************************************************************************)
(* The rows left RUNNING and the lines of work                             *)
(***************************************************************************)

LiveOf(f) == {t \in TaskId : t[1] = f /\ Live(t)}

\* Between cycles, and until a cycle claims, every RUNNING row was left by an
\* error; a claim, or a crash after one, adds one.  A front with no error has
\* one line of work.
RowSlack ==
  /\ Cardinality(Running) <= faults + 1
  /\ pc \in {"idle", "revive", "queue"} => Cardinality(Running) <= faults
  /\ \A f \in Front : Cardinality(LiveOf(f)) <= faults + 1

\* A set of rows has an oldest one, so that a query with a limit of at least one
\* finds some row if there is any.
LEMMA OldestExists ==
  ASSUME NEW S \in SUBSET TaskId, S # {}, NEW k \in Nat, k >= 1
  PROVE  \E t \in S : t \in Oldest(S, k)
<1> DEFINE N == {t[2] : t \in S}
<1>1. N \subseteq Nat /\ N # {}
  BY KernelAssumption DEF TaskId
<1>2. PICK x \in N : \A y \in N : ~ (<<y, x>> \in OpToRel(<, Nat))
  BY <1>1, WFMin, NatLessThanWellFounded, Zenon
<1>3. \A y \in N : ~ (y < x)
  BY <1>1, <1>2, Zenon DEF OpToRel
<1>4. PICK t \in S : t[2] = x
  BY <1>2
<1>5. {u \in S : u[2] < t[2]} = {}
  BY <1>3, <1>4
<1>6. Cardinality({u \in S : u[2] < t[2]}) < k
  BY <1>5, FS_EmptySet
<1> HIDE DEF N
<1>7. QED
  BY <1>4, <1>6 DEF Oldest

\* There are finitely many rows, so every set of them can be counted.
LEMMA FiniteRows ==
  ASSUME NEW S \in SUBSET TaskId
  PROVE  IsFiniteSet(S) /\ Cardinality(S) \in Nat
<1>1. IsFiniteSet(1 .. MaxGen)
  BY FS_Interval, KernelAssumption
<1>2. IsFiniteSet(TaskId)
  BY <1>1, FS_Product, KernelAssumption DEF TaskId
<1>3. QED
  BY <1>2, FS_Subset, FS_CardinalityType

\* One row more, one row less.
LEMMA CountRows ==
  ASSUME NEW S \in SUBSET TaskId, NEW T \in SUBSET TaskId
  PROVE  /\ T \subseteq S => Cardinality(T) <= Cardinality(S)
         /\ \A t : T \subseteq S \cup {t} => Cardinality(T) <= Cardinality(S) + 1
         /\ \A t \in S : T \subseteq S \ {t} => Cardinality(T) + 1 <= Cardinality(S)
<1>1. /\ IsFiniteSet(S) /\ Cardinality(S) \in Nat
      /\ IsFiniteSet(T) /\ Cardinality(T) \in Nat
  BY FiniteRows
<1>2. ASSUME T \subseteq S PROVE Cardinality(T) <= Cardinality(S)
  BY <1>1, <1>2, FS_Subset
<1>3. ASSUME NEW t, T \subseteq S \cup {t} PROVE Cardinality(T) <= Cardinality(S) + 1
  <2>1. /\ IsFiniteSet(S \cup {t})
        /\ Cardinality(S \cup {t}) <= Cardinality(S) + 1
    <3>1. /\ IsFiniteSet(S \cup {t})
          /\ Cardinality(S \cup {t}) = IF t \in S THEN Cardinality(S)
                                        ELSE Cardinality(S) + 1
      BY <1>1, FS_AddElement
    <3>2. QED
      BY <1>1, <3>1
  <2>2. Cardinality(T) <= Cardinality(S \cup {t})
    BY <1>3, <2>1, FS_Subset
  <2>3. Cardinality(S \cup {t}) \in Nat
    BY <2>1, FS_CardinalityType
  <2>4. QED
    BY <1>1, <2>1, <2>2, <2>3
<1>4. ASSUME NEW t \in S, T \subseteq S \ {t} PROVE Cardinality(T) + 1 <= Cardinality(S)
  <2>1. IsFiniteSet(S \ {t}) /\ Cardinality(S \ {t}) = Cardinality(S) - 1
    BY <1>1, FS_RemoveElement
  <2>2. Cardinality(T) <= Cardinality(S \ {t})
    BY <1>4, <2>1, FS_Subset
  <2>3. QED
    BY <1>1, <2>1, <2>2
<1>5. QED
  BY <1>2, <1>3, <1>4

LEMMA RowSets ==
  /\ Running \in SUBSET TaskId /\ Running' \in SUBSET TaskId
  /\ \A f : LiveOf(f) \in SUBSET TaskId /\ LiveOf(f)' \in SUBSET TaskId
BY DEF Running, LiveOf

\* The numbers the arithmetic is about.
LEMMA RowTypes ==
  ASSUME Inductive
  PROVE  /\ faults \in Nat
         /\ Cardinality(Running) \in Nat /\ Cardinality(Running') \in Nat
         /\ \A f \in Front : Cardinality(LiveOf(f)) \in Nat /\ Cardinality(LiveOf(f)') \in Nat
BY RowSets, FiniteRows, KernelAssumption DEF Inductive, TypeOK

LEMMA RowsInit == Init => RowSlack
<1> SUFFICES ASSUME Init PROVE RowSlack
  OBVIOUS
<1>1. Running = {} /\ \A f \in Front : LiveOf(f) = {}
  BY DEF Init, Running, LiveOf, Live
<1>2. faults = 0 /\ pc = "down" /\ Cardinality({}) = 0
  BY FS_EmptySet DEF Init
<1>3. QED
  BY <1>1, <1>2 DEF RowSlack

\* The steps that leave the statuses alone.  An error after a claim is what pays
\* for the RUNNING row it leaves; a crash leaves its own to the next boot.
LEMMA RowsQuiet ==
  ASSUME Inductive, RowSlack,
         \/ UNCHANGED vars \/ Boot \/ PickFront \/ Microturn \/ Wait \/ Blocked
         \/ Derail \/ DerailLate \/ Crash \/ Elapse
  PROVE  RowSlack'
<1>1. UNCHANGED status
  BY DEF vars, rows, Boot, PickFront, Microturn, Wait, Blocked, Derail, DerailLate,
         Crash, Elapse
<1>2. Running' = Running /\ \A f \in Front : LiveOf(f)' = LiveOf(f)
  BY <1>1 DEF Running, LiveOf, Live
<1>3. faults' \in {faults, faults + 1}
  BY DEF vars, Boot, PickFront, Microturn, Wait, Blocked, Derail, DerailLate, Crash, Elapse
<1>4. /\ Cardinality(Running') <= faults' + 1
      /\ \A f \in Front : Cardinality(LiveOf(f)') <= faults' + 1
  BY <1>2, <1>3, RowTypes DEF RowSlack
<1>5. pc' \in {"idle", "revive", "queue"} => Cardinality(Running') <= faults'
  <2>1. CASE Derail \/ DerailLate
    <3>1. faults' = faults + 1
      BY <2>1 DEF Derail, DerailLate
    <3>2. QED
      BY <1>2, <3>1 DEF RowSlack
  <2>2. CASE UNCHANGED vars \/ Elapse \/ PickFront \/ Wait \/ Blocked
    BY <1>2, <2>2 DEF vars, process, Elapse, PickFront, Wait, Blocked, RowSlack
  <2>3. CASE Boot \/ Microturn \/ Crash
    BY <2>3 DEF Boot, Microturn, Crash
  <2>4. QED
    BY <2>1, <2>2, <2>3
<1>6. QED
  BY <1>4, <1>5 DEF RowSlack

\* A boot gives back one orphan at least, if there is any, and so pays for the
\* task the last crash or exit left at work.
LEMMA RowsBootstrap ==
  ASSUME ReconcileBatch >= 1, Inductive, RowSlack, Bootstrap
  PROVE  RowSlack'
<1>1. /\ pc' = "idle" /\ UNCHANGED faults
      /\ status' = [t \in TaskId |-> IF t \in Orphans THEN "READY" ELSE status[t]]
  BY DEF Bootstrap
<1>2. Running' \subseteq Running \ Orphans
  BY <1>1 DEF Running
<1>3. \A t \in Orphans : t \in Running
  BY OrphanRows DEF Running, Inductive, TypeOK, RestStatus
<1>4. ASSUME NEW f \in Front PROVE Cardinality(LiveOf(f)') <= faults' + 1
  <2>1. LiveOf(f)' \subseteq LiveOf(f)
    BY <1>1, <1>3 DEF LiveOf, Live, Running, Terminal
  <2>2. Cardinality(LiveOf(f)') <= Cardinality(LiveOf(f))
    BY <2>1, RowSets, CountRows
  <2>3. QED
    BY <1>1, <2>2, RowTypes DEF RowSlack
<1>5. Cardinality(Running') <= faults
  <2>1. CASE Running = {}
    BY <1>2, <2>1, FS_EmptySet, RowTypes
  <2>2. CASE Running # {}
    <3>1. PICK t \in Running : TRUE
      BY <2>2
    <3>2. t \in TaskId /\ t[1] \in Front /\ t \in WithStatus(t[1], "RUNNING")
      BY <3>1 DEF Running, WithStatus, TaskId
    <3>3. WithStatus(t[1], "RUNNING") \in SUBSET TaskId
      BY DEF WithStatus
    <3>4. \E u \in WithStatus(t[1], "RUNNING") :
            u \in Oldest(WithStatus(t[1], "RUNNING"), ReconcileBatch)
      BY <3>2, <3>3, OldestExists, KernelAssumption
    <3>5. PICK u \in Orphans : TRUE
      BY <3>2, <3>4 DEF Orphans, ListByStatus
    <3>6. u \in Running /\ Running' \subseteq Running \ {u}
      BY <1>2, <1>3, <3>5
    <3>7. Cardinality(Running') + 1 <= Cardinality(Running)
      BY <3>6, RowSets, CountRows
    <3>8. QED
      BY <3>7, RowTypes DEF RowSlack
  <2>3. QED
    BY <2>1, <2>2
<1>6. QED
  BY <1>1, <1>4, <1>5, RowTypes DEF RowSlack

LEMMA RowsRevive ==
  ASSUME Inductive, RowSlack, Revive
  PROVE  RowSlack'
<1> DEFINE S == ListByStatus(cur.front, "THROTTLED", ReviveBatch)
<1>1. \A t \in S : t \in TaskId /\ status[t] = "THROTTLED"
  BY ListedRows DEF Inductive, Revive
<1>2. /\ pc = "revive" /\ pc' = "queue" /\ UNCHANGED faults
      /\ status' = [t \in TaskId |-> IF t \in S THEN "READY" ELSE status[t]]
  BY DEF Revive
<1> HIDE DEF S
<1>3. Running' = Running /\ \A f \in Front : LiveOf(f)' = LiveOf(f)
  BY <1>1, <1>2 DEF Running, LiveOf, Live, Terminal
<1>4. QED
  BY <1>2, <1>3 DEF RowSlack

LEMMA RowsClaim ==
  ASSUME Inductive, RowSlack, Claim
  PROVE  RowSlack'
<1>1. PICK t \in NextReady(cur.front) :
        /\ status' = [status EXCEPT ![t] = "RUNNING"]
        /\ pc = "queue" /\ pc' = "act" /\ UNCHANGED faults
  BY DEF Claim
<1>2. t \in TaskId /\ status[t] = "READY"
  BY ListedRows DEF Inductive, Claim
<1>3. Running' \subseteq Running \cup {t} /\ \A f \in Front : LiveOf(f)' = LiveOf(f)
  BY <1>1, <1>2 DEF Running, LiveOf, Live, Terminal, Inductive, TypeOK
<1>4. Cardinality(Running') <= Cardinality(Running) + 1
  BY <1>3, RowSets, CountRows
<1>5. QED
  BY <1>1, <1>3, <1>4, RowTypes DEF RowSlack

LEMMA RowsReleaseTask ==
  ASSUME Inductive, RowSlack, ReleaseTask
  PROVE  RowSlack'
<1>1. EndOf(Chain[cur.reply]) \in {"READY", "THROTTLED"}
  BY ChainEnds DEF ReleaseTask
<1>2. /\ cur.task \in TaskId /\ status[cur.task] = "RUNNING"
      /\ status' = [status EXCEPT ![cur.task] = EndOf(Chain[cur.reply])]
      /\ pc' = "idle" /\ UNCHANGED faults
  BY DEF ReleaseTask, Inductive
<1>3. /\ cur.task \in Running /\ Running' \subseteq Running \ {cur.task}
      /\ \A f \in Front : LiveOf(f)' = LiveOf(f)
  BY <1>1, <1>2 DEF Running, LiveOf, Live, Terminal, Inductive, TypeOK
<1>4. Cardinality(Running') + 1 <= Cardinality(Running)
  BY <1>3, RowSets, CountRows
<1>5. QED
  BY <1>2, <1>3, <1>4, RowTypes DEF RowSlack

\* A front with nothing waiting has no live task but those left RUNNING.
LEMMA OnlyRunning ==
  ASSUME Inductive, NEW f \in Front, ~HasWaiting(f)
  PROVE  LiveOf(f) \subseteq Running
<1> SUFFICES ASSUME NEW t \in LiveOf(f), t \notin Running PROVE FALSE
  OBVIOUS
<1>1. t \in TaskId /\ t[1] = f /\ status[t] \in {"READY", "THROTTLED"}
  BY DEF LiveOf, Live, Running, Terminal, Inductive, TypeOK, RestStatus
<1>2. t \in WithStatus(f, status[t]) /\ WithStatus(f, status[t]) \in SUBSET TaskId
  BY <1>1 DEF WithStatus
<1>3. ListByStatus(f, status[t], 1) # {}
  BY <1>2, OldestExists DEF ListByStatus
<1>4. QED
  BY <1>1, <1>3 DEF HasWaiting

LEMMA RowsReplenish ==
  ASSUME Inductive, RowSlack, Replenish
  PROVE  RowSlack'
<1> DEFINE u == NewTask(cur.front)
<1>1. /\ cur.front \in Front /\ gen[cur.front] < MaxGen /\ ~HasWaiting(cur.front)
      /\ Create(cur.front, 0, status) /\ pc = "queue" /\ pc' = "idle" /\ UNCHANGED faults
  BY DEF Inductive, Replenish, Create
<1>2. 0 \in 0 .. MaxGen /\ status \in [TaskId -> RestStatus]
  BY KernelAssumption DEF Inductive, TypeOK
<1>3. u \in TaskId /\ u[1] = cur.front /\ status' = [status EXCEPT ![u] = "READY"]
  BY <1>1, <1>2, CreateStep, NewTaskIsFresh
<1> HIDE DEF u
<1>4. /\ \A v \in TaskId : v # u => status'[v] = status[v]
      /\ status'[u] = "READY"
  BY <1>2, <1>3
<1>5. Running' \subseteq Running
  BY <1>4 DEF Running
<1>6. Cardinality(Running') <= Cardinality(Running) /\ Cardinality(Running) <= faults
  BY <1>1, <1>5, RowSets, CountRows DEF RowSlack
<1>7. ASSUME NEW f \in Front PROVE Cardinality(LiveOf(f)') <= faults + 1
  <2>1. CASE f # cur.front
    <3>1. LiveOf(f)' = LiveOf(f)
      BY <1>3, <1>4, <2>1 DEF LiveOf, Live
    <3>2. QED
      BY <3>1 DEF RowSlack
  <2>2. CASE f = cur.front
    <3>1. LiveOf(f)' \subseteq LiveOf(f) \cup {u}
      BY <1>4 DEF LiveOf, Live
    <3>2. LiveOf(f)' \subseteq Running \cup {u}
      BY <1>1, <2>2, <3>1, OnlyRunning
    <3>3. Cardinality(LiveOf(f)') <= Cardinality(Running) + 1
      BY <3>2, RowSets, CountRows
    <3>4. QED
      BY <1>6, <3>3, RowTypes
  <2>3. QED
    BY <2>1, <2>2
<1>8. QED
  BY <1>1, <1>6, <1>7, RowTypes DEF RowSlack

\* A task that ends makes room for its heir.
LEMMA RowsEndTask ==
  ASSUME Inductive, RowSlack, EndTask
  PROVE  RowSlack'
<1> DEFINE t == cur.task
           f == cur.front
           u == NewTask(f)
           end == EndOf(Chain[cur.reply])
           st == [status EXCEPT ![t] = end]
<1>1. /\ f \in Front /\ t \in TaskId /\ t[1] = f /\ status[t] = "RUNNING"
      /\ gen[f] < MaxGen /\ Create(f, t[2], st) /\ cur.reply \in {"ok", "bad", "error"}
      /\ pc' = "idle" /\ UNCHANGED faults
  BY DEF Inductive, EndTask, Create
<1>2. end \in {"SUCCEEDED", "FAILED"}
  BY <1>1, ChainEnds
<1>3. u \in TaskId /\ u[1] = f
  BY <1>1, NewTaskIsFresh
<1> HIDE DEF t, f, end
<1>4. /\ st \in [TaskId -> RestStatus] /\ t[2] \in 0 .. MaxGen
      /\ \A v \in TaskId : st[v] = "ABSENT" <=> status[v] = "ABSENT"
  BY <1>1, <1>2 DEF Inductive, TypeOK, RestStatus, TaskId
<1> HIDE DEF st
<1>5. status[u] = "ABSENT" /\ status' = [st EXCEPT ![u] = "READY"]
  BY <1>1, <1>4, CreateStep
<1> HIDE DEF u
<1>6. /\ status'[t] = end /\ status'[u] = "READY"
      /\ \A v \in TaskId : v # t /\ v # u => status'[v] = status[v]
  BY <1>1, <1>3, <1>5 DEF Inductive, TypeOK, st
<1>7. t \in Running /\ Running' \subseteq Running \ {t}
  BY <1>1, <1>2, <1>6 DEF Running
<1>8. Cardinality(Running') + 1 <= Cardinality(Running)
  BY <1>7, RowSets, CountRows
<1>9. ASSUME NEW g \in Front PROVE Cardinality(LiveOf(g)') <= Cardinality(LiveOf(g))
  <2>1. CASE g # f
    <3>1. LiveOf(g)' \subseteq LiveOf(g)
      BY <1>1, <1>3, <1>6, <2>1 DEF LiveOf, Live
    <3>2. QED
      BY <3>1, RowSets, CountRows
  <2>2. CASE g = f
    <3> DEFINE Rest == LiveOf(g) \ {t}
    <3>1. t \in LiveOf(g) /\ LiveOf(g)' \subseteq Rest \cup {u}
      BY <1>1, <1>2, <1>3, <1>6, <2>2 DEF LiveOf, Live, Terminal
    <3>2. Rest \in SUBSET TaskId /\ Rest \subseteq LiveOf(g) \ {t}
      BY RowSets
    <3> HIDE DEF Rest
    <3>3. Cardinality(Rest) + 1 <= Cardinality(LiveOf(g))
      BY <3>1, <3>2, RowSets, CountRows
    <3>4. Cardinality(LiveOf(g)') <= Cardinality(Rest) + 1
      BY <3>1, <3>2, RowSets, CountRows
    <3>5. Cardinality(Rest) \in Nat
      BY <3>2, FiniteRows
    <3>6. QED
      BY <3>3, <3>4, <3>5, RowTypes
  <2>3. QED
    BY <2>1, <2>2
<1>10. QED
  BY <1>1, <1>8, <1>9, RowTypes DEF RowSlack

LEMMA RowsStep ==
  ASSUME ReconcileBatch >= 1
  PROVE  Inductive /\ RowSlack /\ [Next]_vars => RowSlack'
BY RowsQuiet, RowsBootstrap, RowsRevive, RowsClaim, RowsReleaseTask, RowsReplenish,
   RowsEndTask DEF Next

LEMMA RowSlackHolds ==
  ASSUME ReconcileBatch >= 1
  PROVE  Spec => []RowSlack
BY RowsInit, RowsStep, InductiveHolds, PTL DEF Spec

\* kernel.go's header as far as it goes: next to the task at work there is one
\* RUNNING row for each storage error at most, however many crashes and boots.
THEOREM RunningBoundHolds ==
  ASSUME ReconcileBatch >= 1
  PROVE  Spec => []RunningBounded
<1>1. Inductive /\ RowSlack => RunningBounded
  BY RowTypes DEF RowSlack, RunningBounded
<1>2. QED
  BY <1>1, RowSlackHolds, InductiveHolds, PTL

\* C4 as far as it goes: each storage error opens one more line of work of a
\* front at most.
THEOREM LinesBoundHolds ==
  ASSUME ReconcileBatch >= 1
  PROVE  Spec => []LinesBounded
<1>1. Inductive /\ RowSlack => LinesBounded
  BY RowTypes DEF RowSlack, LinesBounded, LiveOf
<1>2. QED
  BY <1>1, RowSlackHolds, InductiveHolds, PTL

\* What storage errors cost in rows: one line and one RUNNING row each at most, on
\* the assumption that a boot takes back at least one orphan of a front.
THEOREM RowsBoundHolds ==
  ASSUME ReconcileBatch >= 1
  PROVE  Spec => []RowsBounded
<1>1. LinesBounded /\ RunningBounded => RowsBounded
  BY DEF RowsBounded
<1>2. QED
  BY <1>1, LinesBoundHolds, RunningBoundHolds, PTL

\* A query whose limit is not below the number of rows returns all of them.
LEMMA OldestOfAll ==
  ASSUME NEW S \in SUBSET TaskId, NEW k \in Nat, Cardinality(S) <= k
  PROVE  Oldest(S, k) = S
<1> SUFFICES ASSUME NEW t \in S PROVE Cardinality({u \in S : u[2] < t[2]}) < k
  BY DEF Oldest
<1> DEFINE Older == {u \in S : u[2] < t[2]}
<1>1. t[2] \in Nat
  BY DEF TaskId
<1>2. Older \in SUBSET TaskId /\ Older \subseteq S \ {t}
  BY <1>1
<1> HIDE DEF Older
<1>3. Cardinality(Older) + 1 <= Cardinality(S)
  BY <1>2, CountRows
<1>4. Cardinality(Older) \in Nat /\ Cardinality(S) \in Nat
  BY <1>2, FiniteRows
<1>5. Cardinality(Older) < k
  BY <1>3, <1>4
<1>6. QED
  BY <1>5 DEF Older

\* The boot's promise to whatever was in flight, with errors: nothing is lost to
\* the queue if a batch has room for one row per error and the task at work.
THEOREM BootHolds ==
  ASSUME ReconcileBatch > MaxFaults
  PROVE  Spec => BootLeavesNoOrphan
<1>1. ReconcileBatch \in Nat /\ MaxFaults \in Nat /\ ReconcileBatch >= 1
  BY KernelAssumption
<1>2. ASSUME Inductive, RowSlack, Bootstrap PROVE Running' = {}
  <2>1. ASSUME NEW t \in Running PROVE t \in Orphans
    <3> DEFINE S == WithStatus(t[1], "RUNNING")
    <3>1. t \in TaskId /\ t[1] \in Front /\ t \in S
      BY DEF Running, WithStatus, TaskId
    <3>2. S \in SUBSET TaskId /\ S \subseteq Running
      BY DEF WithStatus, Running
    <3> HIDE DEF S
    <3>3. Cardinality(S) <= Cardinality(Running)
      BY <3>2, RowSets, CountRows
    <3>4. Cardinality(Running) <= faults + 1 /\ faults \in 0 .. MaxFaults
      BY <1>2 DEF RowSlack, Inductive, TypeOK
    <3>5. Cardinality(S) \in Nat /\ Cardinality(Running) \in Nat
      BY <1>2, <3>2, FiniteRows, RowTypes
    <3>6. Cardinality(S) <= ReconcileBatch
      BY <1>1, <3>3, <3>4, <3>5
    <3>7. Oldest(S, ReconcileBatch) = S
      BY <1>1, <3>2, <3>6, OldestOfAll
    <3>8. QED
      BY <3>1, <3>7 DEF Orphans, ListByStatus, S
  <2>2. QED
    BY <1>2, <2>1 DEF Bootstrap, Running
<1>3. Inductive /\ RowSlack /\ [Next]_vars
        => [pc = "boot" /\ pc' = "idle" => Running' = {}]_vars
  <2> SUFFICES ASSUME Inductive, RowSlack, Next, pc = "boot", pc' = "idle"
               PROVE  Running' = {}
    OBVIOUS
  <2>1. Bootstrap
    BY DEF Next, Boot, PickFront, Revive, Claim, Microturn, EndTask, ReleaseTask, Wait,
           Replenish, Blocked, Derail, DerailLate, Crash, Elapse, process
  <2>2. QED
    BY <1>2, <2>1
<1>4. QED
  BY <1>1, <1>3, RowSlackHolds, InductiveHolds, PTL DEF Spec, BootLeavesNoOrphan

-----------------------------------------------------------------------------
(***************************************************************************)
(* Without storage errors                                                  *)
(***************************************************************************)

\* kernel.go's header: a crash in the middle leaves one RUNNING orphan at most,
\* however many crashes there are, if no storage error falls in between.
THEOREM OneRunningHolds ==
  ASSUME MaxFaults = 0, ReconcileBatch >= 1
  PROVE  Spec => []AtMostOneRunning
<1>1. TypeOK /\ RunningBounded => AtMostOneRunning
  BY DEF TypeOK, RunningBounded, AtMostOneRunning
<1>2. QED
  BY <1>1, TypesHold, RunningBoundHolds, PTL

\* C4: the replenisher never opens a second line of work next to a live one.
THEOREM OneLineHolds ==
  ASSUME MaxFaults = 0, ReconcileBatch >= 1
  PROVE  Spec => []OneLinePerFront
<1>1. TypeOK /\ LinesBounded => OneLinePerFront
  BY DEF TypeOK, LinesBounded, OneLinePerFront
<1>2. QED
  BY <1>1, TypesHold, LinesBoundHolds, PTL

\* Crash-replay assertion A and D03, each until a boot misreads its key: the
\* persisted cycle counter and the arms' picks are the kernel.cycle events, in all
\* and front by front.
THEOREM TelemetryHolds ==
  ASSUME MaxFaults = 0
  PROVE  Spec => [](/\ misread["kernel.cycle"] = 0 => CounterMatchesLog
                    /\ misread["bandit.state"] = 0 => PicksMatchLog)
<1>1. Inductive /\ TelemetryBounded
        => /\ misread["kernel.cycle"] = 0 => CounterMatchesLog
           /\ misread["bandit.state"] = 0 => PicksMatchLog
  <2> SUFFICES ASSUME Inductive, TelemetryBounded
               PROVE  /\ misread["kernel.cycle"] = 0 => CounterMatchesLog
                      /\ misread["bandit.state"] = 0 => PicksMatchLog
    OBVIOUS
  <2>1. faults = 0
    BY DEF Inductive, TypeOK
  <2>2. QED
    BY <2>1, SlackTypes DEF TelemetryBounded, CounterMatchesLog, PicksMatchLog
<1>2. QED
  BY <1>1, InductiveHolds, TelemetryBoundHolds, PTL
=============================================================================
