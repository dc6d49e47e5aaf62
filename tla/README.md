# A TLA+ model of EON's shell

EON is a self-running agent: a supervisor keeps one core process alive, the core
works through a queue of tasks in a SQLite store, one cycle at a time, a bandit
decides which of three fronts gets the next cycle, jobs run in a sandboxed worker,
and an operator looks at the event log through `eon ctl`. This directory models the
parts of it that keep state, checks them with TLC on small instances and proves their
safety properties with TLAPS for instances of any size.

## 1. The system

| Component | State | Operations | Talks to |
|---|---|---|---|
| Task state machine, `internal/domain/loop.go` | none (a transition table) | `CanTransition` | used by every write of the kernel |
| Kernel, `internal/core/kernel.go`, `core.go` | cycle counter, provider, bandit in memory; rows in the store | `NewKernel`, `Bootstrap`, `Cycle` (revive, claim, microturn, outcome, replenish), `DrainOutbox` | store (changesets), bandit, provider, replenisher |
| Bandit, `internal/core/bandit.go` | picks, rewards, last pick per front; persisted as `bandit.state` | `Pick`, `Record`, hydration | called by the kernel inside its changeset |
| Stub work, `internal/core/stubgen.go` | kv counter `gen.<front>` | `newStubTask`, `nextStubCounter` | store |
| Fake provider, `internal/core/fakeprovider.go` | quota left in this process life | `Call`, reply verification | kernel |
| Store, `internal/storage` | SQLite: missions, tasks, steps, events, outbox, kv | repositories, `Unit` (one transaction), pages of the event log | everybody |
| Outbox, `repos.go` and `DrainOutbox` | rows pending or done | `Put`, `Pending`, `MarkDone` | kernel; only tests put rows in it yet |
| Migration, `migrate.go` | `user_version`, the tables | `Migrate`, a transaction per migration | store, at every start of a core |
| Supervisor, `internal/supervisor` | target, backoff, exit window, shutdown request | spawn, wait, demote, back off, terminate | core process (exit codes, signals), artifacts on disk |
| Health, same package and `internal/statefile` | `health.json` and its temporary name | heartbeat goroutine, last snapshot, `Check`, `eon health` | readers outside the process |
| Worker, `internal/worker` | scratch directory, child process, timer, `result.json` | `Run`, `ChildMain`, `Main` | a caller over stdin and stdout |
| Sandbox, `internal/sandbox` | none | `Detect` by four probes, the seccomp program | worker, before and inside every job |
| Operator window, `internal/ctl` | none | `timeline`, `inspect` | store, read-only |
| Boundary checker, `tools/boundary` | rules, lines per package, violations of one check | `Check`, `checkImport`, exit code | the module's tree, at build time |
| Composition root, doc stubs, deployment | none | wiring | |

What is hard here, and what makes each part correct:

* **Kernel.** A cycle is two changesets with a model call between them. The process
  may be killed, cancelled, or meet a storage error between any two, and a boot may fail
  to read a counter and go on without it. Correct means:
  a task that ended has one heir (the queue never dries up, nothing is duplicated),
  a step is recorded once however often its microturn ran, no orphan survives a boot,
  counter, bandit and event log tell the same story, or are apart by what errors cost.
* **Queue.** Age is whole seconds of a clock that may step back, then ids as text;
  waits, revivals in batches, retries and lost outcomes mix. Correct means: a front
  never idles for good, no task is overtaken for ever.
* **Bandit.** Memory and store can differ after a failed changeset; a cycle that
  fails burns a number; a boot may misread a counter. Correct means: no front is
  forgotten.
* **Store.** Schema and version, an item's mark and its event, are statements of one
  transaction each; a core dies between any two; old and new binaries, and two cores
  at once, open the same file. Correct means: version tells the schema, an item is
  drained once, and in the end.
* **Supervisor.** Exits, timers, promotions, corruption and a shutdown come in any
  order. Correct means: a broken artifact is given up, none pays for another, a
  healthy core runs in the end, a shutdown ends.
* **Health.** Two writers share a temporary name, a reader has the file open, the
  process dies anywhere. Correct means: readers see whole snapshots and the verdict
  follows the core.
* **Worker and sandbox.** A timer goroutine races the end of the child; the level is
  probed before the job and used after; the filter's jumps are counted by hand. Correct
  means: the verdict says what happened, nothing runs unconfined, a level promised is
  delivered, the job has no network and everything else, `Run` returns, `result.json` is a
  result that was returned.
* **Ctl.** Pages of a log that grows. Correct means: nothing skipped or repeated,
  and two reads without a snapshot do not contradict each other.
* **Boundary checker.** Entries of an allowlist overlap and the first that decides wins.
  Correct means: green is what the rules are meant to say, red has a cause.

## 2. Modules

| Module | Models | Notes |
|---|---|---|
| `TaskMachine` | `domain/loop.go` | every changeset in `Kernel` is guarded by `LegalChain` over its table, as `Kernel.transition` checks it |
| `Kernel` | `core/kernel.go`, `stubgen.go`, `fakeprovider.go`, the store's queries, the loop of `core.go` | uses `TaskMachine`; instantiates `Continuity` and `Bandit` |
| `Continuity` | abstract: a succession of tasks (opened, tried, given back, ended with an heir) | the kernel implements it (`KeepsLines`) |
| `Bandit` | `core/bandit.go` reduced to the hunger of the fronts | an own model with liveness, and abstract for the kernel (`KeepsJustice`) |
| `Queue` | the queue of one front: `NextReady`, `ListByStatus` and `Put` with their order, the waits, the kernel's turns | zooms in on the data `Kernel` leaves out (order by time and text, lengths of waits), with liveness |
| `Store` | `NewStore`, `Open`, `Migrate`; `Put`, `Pending`, `MarkDone`, `DrainOutbox` | transactions statement by statement, two cores; what runs before and after the cycles of `Kernel` |
| `Supervisor` | the loop of `supervisor.Run` | time in units of `BaseBackoff`, with the jitter |
| `Health` | `health.json`: heartbeat goroutine, last snapshot, `statefile`, `Check`, `HealthMain` | system calls one by one, no constants, so it is checked as it is |
| `Sandbox` | `Detect`, the probes, `blockNetworkFilter` and the machine that runs it | functions, no state |
| `Worker` | `worker.Run`, `ChildMain`, `Main`, a job's system calls | composed with `Sandbox`: what was probed against what the child then gets; no constants either |
| `Ctl` | `ctl.Timeline`, `ctl.Inspect`, pages of `eventLog` | |
| `Boundary` | `tools/boundary`: `Check`, `checkImport`, `isModulePath`, `isStdlib` | against `MeantToBe`, what the ADRs and `rules.json` say |
| `MCKernel`, `MCBandit`, `MCSupervisor`, `MCCtl`, `MCBoundary` | | constant values for TLC |
| `KernelProofs`, `QueueProofs`, `StoreProofs`, `SupervisorProofs`, `HealthProofs`, `WorkerProofs`, `CtlProofs`, `BoundaryProofs` | | the theorems and proofs about the module of that name (`KernelProofs`: of `Continuity` as well; `WorkerProofs`: of `Sandbox`) |

### How the kernel's state and actions correspond to the code

| Model | Code |
|---|---|
| `status`, `due`, `parent` | row of `tasks`: `status`, `not_before` in the past, `derived_from` |
| `steps`, `gen`, `kv`, `log` | rows of `steps`; kv `gen.<front>`; kv `kernel.cycle` with `bandit.state`; `kernel.cycle` events |
| `mem`, `quota`, `cur` | `Kernel.cycle` with the bandit in memory; the provider's budget; locals of `Cycle` |
| `faults`, `misread` | bookkeeping: storage errors the running process met; how often boots took each of the two keys for one never written |
| `Boot`, `Bootstrap` | `NewKernel`, where each key is read, or not, on its own; mission and reconciliation of orphans |
| `PickFront`, `Revive`, `Claim`, `Microturn` | `Cycle` and `Pick`; `reviveThrottled`; the first changeset of `workTask`; the call |
| `EndTask`, `ReleaseTask` | the second changeset: success or failure with the child; throttling or a retry |
| `Wait`, `Replenish`, `Blocked` | the three outcomes of `emptyQueue` |
| `Derail`, `DerailLate` | a storage error before, or after, `Bandit.Record`; `Cycle` returns it, `Run` goes on |
| `Crash` | kill, a cancelled context, a failed `Bootstrap` |
| `Elapse` | a `not_before` passes |

A changeset is one SQLite transaction, so one action; the model call is outside of it,
so one of its own; every commit in the code is a boundary between two actions, and
`Crash` is enabled at each. The gain of UCB1 is floating-point arithmetic: when no
front is starved the choice is free, so no property rests on it.

In `Queue` a task carries how long its `not_before` is still away and how far its
`created_at` is ahead of the clock, so that time can pass and step back without being
counted; what ended leaves the queue; a new task may come to stand anywhere among those of
its second, as random or textual ids decide. One task, any, is marked to be followed. In
`Store` a transaction is a draft that one writer at a time fills and its commit publishes. In `Worker`
a host is the set of facilities it grants; `Alter` changes it during a job; `Write` is
`statefile.Write` with its error dropped, and `lost` remembers that this run's failed.

In `Supervisor` a target may turn sick at any time. `late` is bookkeeping: it remembers that
the target did so when its backoff had grown so far that `Threshold` exits need not fall in
the window any more, whatever the jitter (`InTime` computes it from `growBackoff`).

The other modules name the functions they model above each action; `PROJECT.json`
("map") has the lines.

## 3. Runs

| Run | Expect | Question and answer |
|---|---|---|
| `kernel_faults` | pass | Two fronts, any provider, crashes everywhere, and up to two errors: storage errors the loop survives, or keys a boot cannot read. One heir per ended task, steps recorded once. A storage error of the running process costs at most one more line of work per front, one more RUNNING row, one number and one pick not in the log. The numbers fall back once at most for each boot that misread the counter, and what the log has and a counter has not, such a boot lost. Until one misreads, no front waits beyond the justice floor but one cycle per error. A boot leaves no orphan; the kernel implements `Continuity` and `Bandit`. |
| `queue_turns` | pass | One front with waits, a retry, revivals one at a time, lost outcomes, crashes, a clock that steps back. Once the accidents stop the front takes up a task again and again, and every task ends but one whose outcome was lost. |
| `bandit_loop` | pass | One front whose cycles always fail, accidents in the others, restarts, and restarts that take a read error for an absent key. Once the accidents stop the fronts that can work are served for ever, each within the floor. |
| `store_lives` | pass | Two cores, one after the other or next to one another, of binaries that know one or two migrations, an outbox longer than a batch, failures and crashes at every statement. Schema and version agree, what is done is logged, an item is drained once unless two cores met, and everything is drained in the end. |
| `supervisor_loop` | pass | Three artifacts, the newest refused by exec, others sick or turning sick at any time, promotion and corruption. No target pays for another, a sick one is given up unless it turned sick late, a shutdown ends; a core that is not sick runs in the end unless the target is one of the two kinds the code never leaves (it turned sick late, or exec refuses it, see 5) or the shell is sick. |
| `health_file` | pass | Kills between any two system calls, writes that fail, restarts, shutdowns, a reader. |
| `worker_job` | pass | Every kind of job on every host, one that changes meanwhile included, the timer at every point, jobs one after the other under one id, writes of `result.json` that fail, the calls of the job under the filter. |
| `ctl_pages` | pass | Logs of up to three pages that grow between two pages. |
| `boundary_check` | pass | Every tree of two files with every import, allowlist and key of the instance: green is what the rules mean, red has a cause. |
| `kernel_orphans` | violation | One storage error in an outcome leaves a RUNNING row; the loop goes on and claims another: two RUNNING rows, where the header of `kernel.go` promises one at most. |
| `bandit_poison` | violation | If the front that always fails comes first in canonical order it is never recorded as picked, stays starved, and takes every cycle. |
| `health_torn` | violation | At shutdown one writer renames the temporary file the other has just truncated: an empty `health.json`. |

Every property of a passing run has a mutant of the code it is about (a definition
named after the original, marked "Mutant") that TLC finds to violate it.

### Bounds, and why they are enough

* Kernel: two fronts, one that calls the model and one that does not, `MaxGen = 3` tasks
  each (an ended task, its heir, a second line next to it), `MaxCycle` 6 with `JusticeK = 4`,
  so that the floor is reached and left again, `MaxEvents = 4` as numbers can come back; `Quota = 1`, so that the provider runs dry and
  comes back with a restart; `ReconcileBatch` 3, what one life can leave behind with two
  errors; `MaxErrors = 2` for storage errors and misread keys together, so that two of one
  kind, one of each, and both keys at one boot occur. Crashes are not bounded: `MaxCycle`
  bounds the number in memory, and a boot goes back to the persisted one.
* Queue: a retry waits 1, a revived task 3, so that the two overtake one another;
  `MaxLines = 3` tasks, two of which may be orphans; a revival takes one of two. The clock
  steps back by one second at a time, any number of times.
* Bandit: hunger is counted up to `Limit`, above `K` plus the number of fronts, beyond
  which the choice no longer depends on it, and down to `-Depth` after a misread boot:
  deeper values only take longer to come back.
* Store: two cores are the least that overlap, two migrations the least that have an
  order, three items the least that exceed a batch of two and keep one between.
* Boundary: the second file sees the state the first left; imports, entries and keys are
  the shapes the code tells apart (standard library, own, nested, foreign, sub-packages).
* Supervisor: `Threshold = 3`, `Window = 7`, `MaxBackoff = 7` in units of the base, in the
  relation of 5, 300 s, 300 s in production: two waits from the base fall in the window, two
  of the longest do not, and the jitter decides between. Lives of 0, 3 and 7 units fall
  inside and at the edge of the window.
* Ctl: pages of 2 and logs of 5: a full page, a short one, an empty one after a full one.
* Health, Sandbox and Worker need no bound.

### Fairness

* `Queue`: the core is restarted, ticks come and a front gets its share of them, so weak
  fairness of `Work`; time passes, but cycles may fall between any two moments of it, so
  strong fairness of `Elapse`. `EveryTaskEnds` also assumes that a task tried again and
  again is answered in the end; `NeverIdle` does not.
* `Store`: the supervisor restarts a core, and each core goes on, once it can have the lock.
* `Bandit`: `core.Run` calls `Cycle` at every tick while the process lives, so weak
  fairness of `Cycle`. Neither failures nor restarts are fair.
* `Supervisor`: the goroutine runs and its timers fire (`Head`, `Launch`, `LaunchFails`,
  `Wake`, `Leave`), and a sick core does die (`SickExit`). Nothing makes a healthy core
  die, or anybody promote, corrupt or shut down.
* `Health`: the heartbeat goroutine does not block, its writes do not fail for ever (strong
  fairness of `OpenTmp` and `WriteTmp`: it tries again every 10 s), and the health check is
  run again and again (Docker's `HEALTHCHECK`).
* `Worker`: `Run` and the timer's goroutine go on; the child may hang at any point.

## 4. Proofs

Every invariant, every action property and both refinements that a passing run checks are
theorems; what is left to TLC alone is liveness. A theorem holds for every value of the
constants that the module's `ASSUME` admits; where it needs more, that is said.

### Kernel (`KernelProofs`)

* **Rows.** `Inductive` adds to `TypeOK` and `StepOnce` that numbers are
  handed out densely (without it a creation could overwrite a row) and that from claim to
  outcome the task in hand is the RUNNING row of the cycle's front (without it the outcome
  could write another task's). From it: `TypesHold`, `StepOnceHolds`.
* **Refinement.** Each kernel action maps to a step of
  `Continuity` or a stutter: `KernelKeepsLines`. `Continuity` itself keeps `Succession`
  (`SuccessionHolds`) and `History` (`HistoryHolds`); `OneHeirHolds` carries the first back
  to the kernel: an ended task has exactly one heir, a live one none; and
  `KernelKeepsHistory` the second: what ended stays ended, and no step is recorded of it
  later. The theorems about `Continuity` are stated of the instance the kernel makes of it.
* **Counter and arms.** `LedgerInductive`: whatever boots misread, the counter in the store
  is the number of the last event, and a cycle under way works for the front the bandit gave
  it. Memory is behind the store only after a boot that misread the counter, until it commits
  (`Behind`), and that boot is not paid for yet: from it `CycleNumbersHold`, numbers fall back
  once at most for each such boot, and never without one. `KernelKeepsJustice`, the refinement
  of the safety part of `Bandit`: a boot maps to a stutter or to `RestartBlind`.
* **Storage errors**, for any `MaxFaults`. `LedgerSlack`: store and
  memory are ahead of the log by the errors so far at most, memory by the cycle under way as
  well, and behind it only by what a boot misread, key by key. From it `TelemetryBoundHolds`.
  `RowSlack`, assuming `ReconcileBatch >= 1`: until a
  cycle claims, every RUNNING row is an error's; a claim or a crash after one adds one, which
  its outcome, its error or the next boot pays for (a query with a limit of one finds an
  orphan if there is any: `OldestExists`); a front with nothing waiting has only RUNNING rows
  alive, so the replenisher adds one line to at most one per error. From it
  `RunningBoundHolds` and `LinesBoundHolds`, together `RowsBoundHolds`, and, assuming
  `ReconcileBatch > MaxFaults`, `BootHolds`: the size of the batch against the errors of a
  life is what decides whether a boot takes back everything.
* **The justice floor** (`FloorHolds`, assuming `JusticeK >= 2` and
  `JusticeK >= Cardinality(Front) + MaxFaults`): until a boot misreads a key no front waits
  longer than `JusticeK + Cardinality(Front) - 3` cycles, and one more for each storage error.
  A boot that misreads one of the two keys moves the hunger of fronts by all of the counter;
  what is left then is `EveryoneServed` and `JusticeFloor` of `Bandit`. The bound is not
  inductive: a front waits beyond K only while others that are starved as well are served
  before it. `FloorInv` says it of all fronts together: by as many cycles as a front waits
  beyond K, as many others have been picked in that time, less one per error (`Spread`),
  where all errors since the first boot count. They are distinct,
  as a front just picked is not starved again before the wait is over, which is where K must be
  large enough (`Room`). The same is said of the arms in the store, which a crash goes back to.
  In production K is 20 with three fronts: 20 cycles of waiting, and room for 17 errors the loop
  survives. The assumption is needed: with two fronts, two errors and K = 3 TLC refutes the bound.
* **Without storage errors** (`MaxFaults = 0`): `OneRunningHolds`,
  `OneLineHolds` and `TelemetryHolds`, what `kernel.go` and the crash-replay test say as they
  say it, the last of each counter until a boot misreads it. `kernel_orphans` shows that the
  assumption is needed.

### Queue (`QueueProofs`)

`QueueTypes`, assuming `ReconcileBatch >= 1`: the queue stays sorted by age with one mark at
most, the claimed task keeps its place and its status, and there are no more tasks than lost
outcomes account for. The last part is what is not inductive: `QInv` adds that between two
cycles the last line of work is never made of lost outcomes alone, which a boot that takes
back one orphan restores. The lemmas are about the sequence: a task put in where its second is
(`LineJoined`), taken out (`LineWithout`), changed in its place (`LineRewritten`), and the step
of the clock that lets the end of the queue lie ahead (`ClockBackStep`, where
`MaxSkew <= MaxAhead + 1` is needed: the bound on what is counted must not cut the order).

### Store (`StoreProofs`)

`SInv` says what an open transaction has written by where its writer is (`Drafted`), that no
core past `user_version` has read more than there is (`Schema`), that the outbox lists an item
once (`Listed`) and that a core alone goes through a batch of distinct items none of which is
done (`Alone`, `Batches`). From it `StoreTypes`, `SchemaStaysWhole`, for any number of cores
and any binaries, at once or not, and `ItemsDrainOnce`. Without `Drafted` a commit could
publish anything; without `Alone` the mark of an item could be its second. That `Nobody`, who
holds the lock when it is free, is no core is an assumption on the names.

### Supervisor and health (`SupervisorProofs`, `HealthProofs`)

* `SupInv`: the exits in the window are exits of the present target (`OwnExits`: not more of
  them than it has had). From it `SupervisorTypes` and `DemotionsAreEarned`. The newest of a
  finite set of versions is found by well-founded induction (`NewestExists`).
* `HInv`: unless both writers have been in the temporary file together, at most one is, it is
  the file it has open, and it is whole when it is renamed (`Apart`; a write that failed is
  not followed by a rename); no goroutine outlives its process (`Stopped`). From it `HealthTypes` and `ReadersFindWhole`. No bound is involved,
  the theorems say the same as the run; their argument is what they add.

### Worker and sandbox (`WorkerProofs`)

`FilterMeans`: what the seccomp program answers to any system call, from the program
instruction by instruction (`Meaning`) and the fact that the equation that defines its run has
a solution, as every jump goes forward (`Answered`). `DetectedMeans`: what a level says of the
host. `WInv` relates the place of `Run` to the child and the timer (`Phases`), the signal to the
flag (`FlagFirst`), the level to the host at the time (`Admitted`) and the layers to the
child's progress (`Layered`). From it the five invariants of the run, `WorkerTypesHold`,
`VerdictsAreTruthful`, `JobsAreConfined`, `LevelsAreProven`, `JobsAreBlind`, and its action
property, `RunsAreAudited`: `result.json` is only ever changed by a return, to what is
returned, and a run that returns a result wrote it or failed to.

### Operator window (`CtlProofs`)

For any size of a page, any limits and any growth of the log. What the filter keeps of a page is
a recursive function of the places (`Only`); what it computes is proved by taking the least
place at which a claim fails (`Upwards`): of two pages in a row it keeps what it keeps of each
(`OnlyOfBoth`), it looks at nothing but which members pass (`OnlyAgrees`), and what it keeps
stands in the order of the page (`OnlyPlaces`). `CtlInv` says what is on the screen between two
pages: without `--after`, what passes of the log of the first query down to the cursor, and less
than the limit (`TimelineInv`); with it, everything from there to the cursor, once (`AfterInv`);
for `inspect`, that the cycle the counter showed is closed below the cursor (`InspectInv`), and
that closings count upwards (`LogInv`). From it `CtlTypes`, `TimelineIsExact` (a limit that is
reached hides all later pages: `CutStops`), `AfterIsComplete` and `InspectKeepsUp`.

### Boundary checker (`BoundaryProofs`)

For any module path, rules and tree, allowlists in any order: what `checkImport` allows is meant
(`AllowedIsMeant`), and what is meant is allowed but for an external entry without its key
(`MeantIsAllowed`; the first entry that decides exists by well-founded induction,
`FirstDecides`). `BInv` carries that over the files read: `GreenMeansDeclared`,
`RedMeansCause`. The proof found two assumptions that the small instance does not need:
no global key lies inside the module either, or an entry above the module (`github.com`)
would open that part of it; and no directory of the module is named by the module's
whole path, or an entry with the module's path before it would have two readings.
`BoundaryAssumption` states both; the repository's rules and tree satisfy them.

### What stays with TLC

* Liveness under fairness (`EveryoneServed`, `JusticeFloor`, `NeverIdle`, `EveryTaskEnds`,
  `EveryItemDrained`, `SickTargetLeft`, `HealthyCoreInTheEnd`, `ShutsDown`, `VerdictSettles`,
  `RunReturns`) is out of the prover's reach.

## 5. Differences between code and documentation

The violation runs show three, listed as findings in `PROJECT.json`. These are stated as a
property next to the one that holds, and TLC refutes them with the constants of the passing run
of their module:

* `CrashLoopLeft` (`Supervisor`): `ARCHITECTURE.md` demotes a target that dies in a loop. The
  backoff grows with every exit and only a demotion resets it (`supervisor.go:387`). Once it is
  large, `CrashThreshold` exits no longer fall in one `CrashWindow` (from some 20 s on in
  production): a core that turns sick then is restarted for ever and never demoted.
  `SickTargetLeft` and `HealthyCoreInTheEnd` say what holds, and exclude it by name (`late`).
* `RefusedTargetLeft` (`Supervisor`): the plan (`07-SELF-IMPROVEMENT.md:61`) rolls a binary back
  that fails to start. One exec refuses is tried again for ever (`supervisor.go:314`): no exit
  is counted and `demote` is not called. `HealthyCoreInTheEnd` excludes such targets.
* `JobsAudited` (`Worker`): `worker.go:136` says that every job can be audited. `refuse` writes
  before `MkdirAll`, and drops the error of the write, as a job that ran does (`worker.go:151`,
  `279`): a result is returned that `result.json` does not hold, where an earlier run's may
  stay. `AuditedInDirectory` says what holds.
* `NewestFirst` (`Ctl`): the usage text (`ctl.go:67`) lists from the newest event to the oldest.
  With `--after` each page is so, but the pages go upwards.
* `CounterMatchesLog` (`Kernel`): `kernel.go:78` says that after a crash the counter is consistent
  with the events, and that a corrupt one starts again at 0 "com barulho". `NewKernel` takes any
  error of the read, not only "not found", for a counter that was never written
  (`kernel.go:100`), silently, and `bandit.go:59` does the same. Crash-replay assertion A
  (`main_test.go`) compares the counter with the number of events; a cycle that failed burns a
  number as well. `TelemetryBounded` and `CycleNumbersAdvance` say what holds.

And these no formula states:

* `bandit.go:85` says the hungriest starved front goes first; `Pick` takes the first in
  canonical order. D26 and the comment on `banditJusticeK` promise a pick every K cycles; with
  three fronts it is K + 1.
* `Record` changes the arms in memory before the commit (`bandit.go:137`). After a rollback
  the next changeset persists a pick whose cycle is not in the log: D03's "decision and effect
  are one changeset" holds up to one pick per storage error (`TelemetryBounded`).
* The sum of an artifact is verified when it is selected, not when it is started again.
* `growBackoff` applies the jitter after the cap, so a wait can exceed `MaxBackoff`.
* A core older than the schema runs on it silently (`migrate.go:110` only skips what it
  knows to be applied); `store.go:63` promises of a reader that it refuses what it does not know.
* Two cores on one database (a supervisor killed, its core alive, another started) can both
  drain an outbox item: `MarkDone` does not look at the row's state.
* In `rules.json` the order of a package's entries matters in one case: an external entry
  without its global key refuses what a later entry would grant (`RedHasCause`). A global key
  above the module's own path, or inside it, would open its inner boundaries to an entry above
  the module; `BoundaryAssumption` excludes both, and the repository's rules have none.
* `timeline --after` counts `--limit` in the order it prints, so a limit cuts off the oldest of
  a page: a reader that resumes from the highest number printed skips them.

## 6. Not modelled, and why

* Power failure: SQLite's durability and the file system's order are trusted; nothing here
  calls fsync by itself.
* Kernel: two cores working one queue (only `Store` has two); `heartbeat.json` and
  `boot.json`, which no code of the loop reads; the value of UCB1 (floating point).
* Supervisor: the artifact replaced between its verification and a later start.
* Worker: a kill of the worker process itself, descendants of a job that leave its session,
  what rlimits bound.
* Sandbox: of the system calls, socket and all others. The 64-bit architecture's x32 numbers
  and io_uring are among the others, which the filter lets through; `Blind` says nothing more
  of them.
* Health: writes that fail for ever, or long enough for a heartbeat to be stale.
* Ctl: the counts per front, the mission line and the table's layout.
* Composition root: flags, environment and usage; its start order is in `Store`, its roles in
  `Worker`. Capabilities, cognition and fronts are doc files; deployment and CI keep no state.

## 7. Plan

Done: every component with code that keeps state, or decides, has a module; the kernel has
its two abstractions; every safety property of the passing runs has its theorem.

Next, in this order:

1. Two kernels over one queue, for the supervisor that is killed outside of a container: the
   claims of two cores against one another, as `Store` has the migrations and the outbox.
2. The floor without an assumption on K: what bounds a wait when `JusticeK` is below the number
   of fronts and errors together, and a front picked may be starved again before the last one
   has had its turn.
