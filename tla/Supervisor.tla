----------------------------- MODULE Supervisor -----------------------------
(***************************************************************************)
(* The watchdog of internal/supervisor/supervisor.go: it starts the core   *)
(* from the newest promoted artifact, waits between restarts, and steps    *)
(* down to an older artifact, in the end to its own binary (the shell),    *)
(* when the core dies too often.                                           *)
(*                                                                         *)
(* Abstractions:                                                           *)
(*   - time is counted in units of BaseBackoff; the jitter of growBackoff  *)
(*     is any whole number of units within its 20 per cent;                *)
(*   - crashTimes is the set of ages of the exits still in the window: two *)
(*     exits in it are a backoff apart, at least one unit, so no two have  *)
(*     the same age;                                                       *)
(*   - the core is a process that is sick, and dies as soon as started, or *)
(*     that lives for some time; an artifact may also be one exec refuses; *)
(*   - logs, incidents, counters and health.json are left out.             *)
(***************************************************************************)
EXTENDS Naturals, FiniteSets

CONSTANTS
  Version,      \* artifact versions vN; 0 is the shell
  Base,         \* BaseBackoff
  MaxBackoff,   \* MaxBackoff
  Threshold,    \* CrashThreshold
  Window,       \* CrashWindow
  Lives,        \* how long a core that is not sick may live, when it dies
  Unstartable   \* artifacts cmd.Start fails on

ASSUME SupervisorAssumption ==
  /\ Version \subseteq Nat \ {0} /\ IsFiniteSet(Version)
  /\ Base \in Nat \ {0} /\ MaxBackoff \in Nat /\ Base <= MaxBackoff
  /\ Threshold \in Nat \ {0} /\ Window \in Nat \ {0}
  /\ Lives \subseteq Nat
  /\ Unstartable \subseteq Version

Shell == 0
Target == Version \cup {Shell}

VARIABLES
  valid,    \* artifacts on disk whose SHA-256 matches
  sick,     \* targets that die as soon as they are started
  pc,       \* where Run is
  asked,    \* the context is cancelled (SIGTERM, SIGINT)
  tgt,      \* the target
  backoff,  \* the next wait
  crashes,  \* ages of the exits in the window
  \* bookkeeping of the model
  exits,    \* exits of this target, counted up to Threshold
  late      \* this target turned sick when its backoff had grown too far

world == <<valid, sick>>
vars == <<world, pc, asked, tgt, backoff, crashes, exits, late>>

-----------------------------------------------------------------------------
\* discoverArtifacts gives the valid versions in descending order: the newest
\* of those below a bound, the shell if there is none.
Newest(V) == IF V = {} THEN Shell ELSE CHOOSE v \in V : \A w \in V : w <= v

\* selectTarget.
SelectTarget == Newest(valid)

\* Mutant: the newest valid artifact, the failing one included.
DemoteToNewest(t) == Newest(valid)

\* demote: the newest valid artifact below the one that fails.
Demote(t) == Newest({v \in valid : v < t})

\* growBackoff: double, capped, then 20 per cent either way (kept if > 0).
Doubled(b) == IF 2 * b > MaxBackoff THEN MaxBackoff ELSE 2 * b
Grow(b) ==
  LET n == Doubled(b)
      j == n \div 5
  IN  {m \in (n - j) .. (n + j) : m > 0}

\* The longest that n waits in a row may take, the first of them being b.
Waits[n \in Nat, b \in Nat] ==
  IF n = 0 THEN 0
  ELSE b + Waits[n - 1, Doubled(b) + Doubled(b) \div 5]

\* A core that dies from now on as soon as it is started has died Threshold times
\* before the first of these exits leaves the window, however the jitter falls.
InTime ==
  IF pc = "wait"
  THEN \A b \in Grow(backoff) : Waits[Threshold - 1, b] < Window
  ELSE Waits[Threshold - 1, backoff] < Window

\* Mutant: no exit ever leaves the window.
AgedForever(d) == {a + d : a \in crashes}

\* The exits still in the window when d more units have passed.
Aged(d) == {a + d : a \in {x \in crashes : x + d < Window}}

-----------------------------------------------------------------------------
Init ==
  /\ valid \in SUBSET Version
  /\ sick \in SUBSET Target
  /\ pc = "down"
  /\ asked = TRUE
  /\ tgt = Shell
  /\ backoff = Base
  /\ crashes = {}
  /\ exits = 0 /\ late = FALSE

\* Run up to its loop: the target is chosen once.
Boot ==
  /\ pc = "down"
  /\ pc' = "head" /\ asked' = FALSE
  /\ tgt' = SelectTarget
  /\ backoff' = Base /\ crashes' = {} /\ exits' = 0 /\ late' = FALSE
  /\ UNCHANGED world

\* The loop's condition, ctx.Err() == nil.
Head ==
  /\ pc = "head"
  /\ pc' = IF asked THEN "down" ELSE "spawn"
  /\ UNCHANGED <<world, asked, tgt, backoff, crashes, exits, late>>

\* cmd.Start.
Launch ==
  /\ pc = "spawn" /\ tgt \notin Unstartable
  /\ pc' = "up"
  /\ UNCHANGED <<world, asked, tgt, backoff, crashes, exits, late>>

\* cmd.Start fails: wait and try again.
LaunchFails ==
  /\ pc = "spawn" /\ tgt \in Unstartable
  /\ pc' = "wait"
  /\ UNCHANGED <<world, asked, tgt, backoff, crashes, exits, late>>

\* Mutant: the exits that condemned one target are held against the next.
CoreExitsHeldOver(d) ==
  LET recent == Aged(d) \cup {0}
  IN  /\ pc = "up"
      /\ IF Cardinality(recent) < Threshold
         THEN /\ pc' = "wait" /\ crashes' = recent
              /\ exits' = IF exits < Threshold THEN exits + 1 ELSE exits
              /\ UNCHANGED <<tgt, backoff, late>>
         ELSE IF tgt # Shell
         THEN /\ pc' = "head" /\ crashes' = recent
              /\ tgt' = Demote(tgt) /\ backoff' = Base /\ exits' = 0 /\ late' = FALSE
         ELSE /\ pc' = "wait" /\ crashes' = {}
              /\ backoff' = MaxBackoff /\ exits' = 0
              /\ UNCHANGED <<tgt, late>>
      /\ UNCHANGED <<world, asked>>

\* Mutant: a demotion goes on with the backoff of the target it gave up, and
\* that of a target that is kept is not raised.
CoreExitsKeepBackoff(d) ==
  LET recent == Aged(d) \cup {0}
  IN  /\ pc = "up"
      /\ IF Cardinality(recent) < Threshold
         THEN /\ pc' = "wait" /\ crashes' = recent
              /\ exits' = IF exits < Threshold THEN exits + 1 ELSE exits
              /\ UNCHANGED <<tgt, backoff, late>>
         ELSE IF tgt # Shell
         THEN /\ pc' = "head" /\ crashes' = {}
              /\ tgt' = Demote(tgt) /\ exits' = 0 /\ late' = FALSE
              /\ UNCHANGED backoff
         ELSE /\ pc' = "wait" /\ crashes' = {} /\ exits' = 0
              /\ UNCHANGED <<tgt, backoff, late>>
      /\ UNCHANGED <<world, asked>>

\* The core is gone after d units, whatever its exit code.  Too many exits in
\* the window: the next target at once with a fresh backoff, or, from the
\* shell, the longest wait.  demote looks at the artifacts there are now.
CoreExits(d) ==
  LET recent == Aged(d) \cup {0}
  IN  /\ pc = "up"
      /\ IF Cardinality(recent) < Threshold
         THEN /\ pc' = "wait" /\ crashes' = recent
              /\ exits' = IF exits < Threshold THEN exits + 1 ELSE exits
              /\ UNCHANGED <<tgt, backoff, late>>
         ELSE IF tgt # Shell
         THEN /\ pc' = "head" /\ crashes' = {}
              /\ tgt' = Demote(tgt) /\ backoff' = Base /\ exits' = 0 /\ late' = FALSE
         ELSE /\ pc' = "wait" /\ crashes' = {}
              /\ backoff' = MaxBackoff /\ exits' = 0
              /\ UNCHANGED <<tgt, late>>
      /\ UNCHANGED <<world, asked>>

\* sleepCtx ends by its timer.
Wake ==
  /\ pc = "wait"
  /\ pc' = "head"
  /\ crashes' = Aged(backoff)
  /\ backoff' \in Grow(backoff)
  /\ UNCHANGED <<world, asked, tgt, exits, late>>

\* Mutant: only the loop's condition looks at the context.
LeaveAtHeadOnly ==
  /\ asked /\ pc = "head"
  /\ pc' = "down"
  /\ UNCHANGED <<world, asked, tgt, backoff, crashes, exits, late>>

\* The context ends a wait, or stops the core that is up (terminateCore: TERM,
\* then KILL after 10 seconds, then wait for it).
Leave ==
  /\ asked /\ pc \in {"wait", "up"}
  /\ pc' = "down"
  /\ UNCHANGED <<world, asked, tgt, backoff, crashes, exits, late>>

-----------------------------------------------------------------------------
\* The world around the supervisor.
Cancel ==
  /\ pc # "down" /\ ~asked
  /\ asked' = TRUE
  /\ UNCHANGED <<world, pc, tgt, backoff, crashes, exits, late>>

\* An artifact is promoted, or what is on disk no longer matches its sum.
Promote ==
  /\ \E v \in Version \ valid : valid' = valid \cup {v}
  /\ UNCHANGED <<sick, pc, asked, tgt, backoff, crashes, exits, late>>

Rot ==
  /\ \E v \in valid : valid' = valid \ {v}
  /\ UNCHANGED <<sick, pc, asked, tgt, backoff, crashes, exits, late>>

\* From now on the target dies as soon as it is started.
FallSick ==
  /\ pc # "down" /\ tgt \notin sick
  /\ sick' = sick \cup {tgt}
  /\ late' = ~InTime
  /\ UNCHANGED <<valid, pc, asked, tgt, backoff, crashes, exits>>

SickExit == tgt \in sick /\ CoreExits(0)
Exit == tgt \notin sick /\ \E d \in Lives : CoreExits(d)

Next ==
  \/ Boot \/ Head \/ Launch \/ LaunchFails \/ SickExit \/ Exit \/ Wake \/ Leave
  \/ Cancel \/ Promote \/ Rot \/ FallSick

\* The supervisor's own goroutine runs, its timers fire, and a sick core dies;
\* nothing makes a core that is not sick die, or anyone ask for a shutdown.
Fairness ==
  /\ WF_vars(Head) /\ WF_vars(Launch) /\ WF_vars(LaunchFails)
  /\ WF_vars(SickExit) /\ WF_vars(Wake) /\ WF_vars(Leave)

Spec == Init /\ [][Next]_vars /\ Fairness

-----------------------------------------------------------------------------
TypeOK ==
  /\ valid \subseteq Version /\ sick \subseteq Target
  /\ pc \in {"down", "head", "spawn", "up", "wait"}
  /\ asked \in BOOLEAN
  /\ tgt \in Target
  /\ backoff \in Nat \ {0}
  /\ crashes \subseteq 0 .. Window - 1
  /\ exits \in 0 .. Threshold /\ late \in BOOLEAN

\* A running supervisor only changes its target downwards, and only after the
\* target died Threshold times itself: no target pays for its predecessor.
DemotionEarned ==
  [][pc # "down" /\ tgt' # tgt => tgt' < tgt /\ exits + 1 >= Threshold]_vars

\* D41, "crash-loop detected: re-promote the last good binary", as far as it goes:
\* an artifact that dies whenever it is started is given up in the end, if it is
\* so from its first start on or turned so while its next exits could all fall in
\* the window.
SickTargetLeft ==
  \A v \in Version \ Unstartable :
    (pc # "down" /\ tgt = v /\ v \in sick /\ ~late) ~> (pc = "down" \/ tgt # v)

\* D41 as it is written: whatever target dies in a loop is given up.  The code does
\* not keep this: the backoff of a target that turned sick late has outgrown the
\* window, and nothing but a demotion resets it.
CrashLoopLeft ==
  \A v \in Version \ Unstartable :
    (pc # "down" /\ tgt = v /\ v \in sick) ~> (pc = "down" \/ tgt # v)

\* A new binary that fails to start is rolled back (a HARD trigger of the plan).  The
\* code does not keep this: a start that fails is no exit.
RefusedTargetLeft ==
  \A v \in Unstartable : (pc # "down" /\ tgt = v) ~> (pc = "down" \/ tgt # v)

\* A supervisor that is left alone gets a core to run that is not sick, however
\* many artifacts it must give up.  What the code leaves out of that: a shell that
\* is sick, an artifact that cannot be started, and a target that turned sick late,
\* which are tried again for ever.
HealthyCoreInTheEnd ==
  []<>(\/ pc = "down" \/ Shell \in sick \/ tgt \in Unstartable \/ late
       \/ pc = "up" /\ tgt \notin sick)

\* A shutdown that is asked for happens, from every point of the loop.
ShutsDown == asked ~> pc = "down"
=============================================================================
