------------------------------- MODULE Worker -------------------------------
(***************************************************************************)
(* One job of internal/worker/worker.go: Run admits the specification,     *)
(* prepares a scratch directory, starts a child that confines itself and   *)
(* becomes the job, and waits for it while a timer goroutine may kill the  *)
(* child's process group.  The verdict is returned and also written to     *)
(* jobs/<id>/result.json.                                                  *)
(*                                                                         *)
(* Abstractions: jobs are run one after the other under one id, so a       *)
(* directory and a result.json of an earlier run may be there; the         *)
(* executable is what isStaticELF finds it to be; exit codes are 0, 1 and  *)
(* the 126 of a child that could not confine itself; stdout and stderr,    *)
(* durations and the texts of refusals are left out.  The job itself is    *)
(* the system calls it makes.                                              *)
(***************************************************************************)
EXTENDS Integers, Sequences, Sandbox

JobSpec == [id : BOOLEAN,
            argv : {"empty", "unreadable", "dynamic", "static"}]
Code == {-1, 0, 1, 126}
JobResult == [refused : BOOLEAN, timedOut : BOOLEAN, code : Code]

\* ChildMain, in this order; the last one is the execve.
Layers == <<"chroot", "chdir", "rlimits", "seccomp", "execve">>

VARIABLES
  spec,      \* the JobSpec
  host,      \* what the host allows
  altered,   \* that has changed since the job was accepted
  level,     \* the level Detect found
  pc,        \* where Run is
  dir,       \* jobs/<id> exists
  file,      \* result.json: no result or one
  lost,      \* this run's result could not be written there
  result,    \* what Run returns
  failed,    \* it returns an error
  layers,    \* which of Layers the child has tried, and got
  child,     \* the child
  code,      \* its exit code, if it exited
  answer,    \* a call of the job and what the filter said to it
  timer,     \* the timer and the goroutine it starts
  timedOut   \* the atomic flag

given == <<spec, host, altered, level>>
record == <<file, lost>>
job == <<layers, child, code, answer>>
clock == <<timer, timedOut>>
vars == <<given, pc, dir, record, result, failed, job, clock>>

NoResult == [refused |-> FALSE, timedOut |-> FALSE, code |-> -1]
Refused == [NoResult EXCEPT !.refused = TRUE]

Init ==
  /\ spec = [id |-> FALSE, argv |-> "empty"]
  /\ host = {} /\ altered = FALSE /\ level = "none"
  /\ pc = "idle" /\ dir = FALSE /\ file = {} /\ lost = FALSE
  /\ result = NoResult /\ failed = FALSE
  /\ layers = <<>> /\ child = "none" /\ code = -1 /\ answer = {}
  /\ timer = "off" /\ timedOut = FALSE

-----------------------------------------------------------------------------
\* Main decodes a specification and calls Run.
Accept ==
  /\ pc = "idle"
  /\ spec' \in JobSpec /\ host' \in SUBSET Facility /\ altered' = FALSE
  /\ pc' = "detect"
  /\ UNCHANGED <<level, dir, record, result, failed, job, clock>>

\* sandbox.Detect, before anything else is looked at.
Detect ==
  /\ pc = "detect"
  /\ level' \in Detected(host)
  /\ pc' = "admit"
  /\ UNCHANGED <<spec, host, altered, dir, record, result, failed, job, clock>>

\* An error return: nothing is written.
Fail ==
  /\ pc' = "returned" /\ failed' = TRUE
  /\ UNCHANGED <<given, dir, record, result, job, clock>>

\* Mutant: a refusal is only returned.
RefuseUnsaved ==
  /\ pc' = "returned" /\ result' = Refused
  /\ UNCHANGED <<given, dir, record, failed, job, clock>>

\* statefile.Write, whose error both callers drop: result.json is replaced whole,
\* or stays what it was, as it does where there is no directory.
Write(r) ==
  \/ dir /\ file' = {r} /\ UNCHANGED lost
  \/ lost' = TRUE /\ UNCHANGED file

\* refuse, before the scratch directory is made or after.
Refuse ==
  /\ pc' = "returned" /\ result' = Refused
  /\ Write(Refused)
  /\ UNCHANGED <<given, dir, failed, job, clock>>

Proceed(to) ==
  /\ pc' = to
  /\ UNCHANGED <<given, record, result, failed, job, clock>>

Admit ==
  /\ pc = "admit"
  /\ IF ~spec.id THEN Fail
     ELSE IF level = "none" \/ spec.argv = "empty" THEN Refuse
     ELSE Proceed("scratch") /\ UNCHANGED dir

\* MkdirAll.
Scratch ==
  /\ pc = "scratch"
  /\ \/ Fail
     \/ Proceed("binary") /\ dir' = TRUE

\* isStaticELF.
Binary ==
  /\ pc = "binary"
  /\ IF spec.argv = "static" THEN Proceed("spawn") /\ UNCHANGED dir ELSE Refuse

\* copyExecutable, the output files, the arguments and cmd.Start, which clones
\* the namespaces of level full: an error of any of them is returned; else the
\* timer is armed.
Spawn ==
  /\ pc = "spawn"
  /\ \/ Fail
     \/ /\ level = "full" => "clone" \in host
        /\ pc' = "wait" /\ child' = "setup" /\ timer' = "armed"
        /\ UNCHANGED <<given, dir, record, result, failed, layers, code, answer, timedOut>>

\* cmd.Wait.
Reap ==
  /\ pc = "wait" /\ child \in {"exited", "signalled", "killed"}
  /\ pc' = "stop"
  /\ UNCHANGED <<given, dir, record, result, failed, job, clock>>

\* timer.Stop: no effect on a goroutine that has been started.
Stop ==
  /\ pc = "stop"
  /\ timer' = IF timer = "armed" THEN "off" ELSE timer
  /\ pc' = "verdict"
  /\ UNCHANGED <<given, dir, record, result, failed, job, timedOut>>

\* Mutant: a child a signal ended is reported as a shell reports it, 128 + 9.
VerdictShellCode ==
  /\ pc = "verdict"
  /\ result' = [refused |-> FALSE, timedOut |-> timedOut,
                code |-> IF timedOut THEN -1 ELSE IF child = "exited" THEN code ELSE 137]
  /\ pc' = "save"
  /\ UNCHANGED <<given, dir, record, failed, job, clock>>

Verdict ==
  /\ pc = "verdict"
  /\ result' = [refused |-> FALSE, timedOut |-> timedOut,
                code |-> IF timedOut \/ child # "exited" THEN -1 ELSE code]
  /\ pc' = "save"
  /\ UNCHANGED <<given, dir, record, failed, job, clock>>

Save ==
  /\ pc = "save"
  /\ Write(result)
  /\ pc' = "returned"
  /\ UNCHANGED <<given, dir, result, failed, job, clock>>

\* Main prints the result or the error and the process ends, and with it what it
\* knew and a timer goroutine that is not through yet.
Return ==
  /\ pc = "returned"
  /\ pc' = "idle" /\ level' = "none"
  /\ result' = NoResult /\ failed' = FALSE /\ lost' = FALSE
  /\ layers' = <<>> /\ child' = "none" /\ code' = -1 /\ answer' = {}
  /\ timer' = "off" /\ timedOut' = FALSE
  /\ UNCHANGED <<spec, host, altered, dir, file>>

-----------------------------------------------------------------------------
\* The timer's goroutine: first the flag, then the signal.
Fire ==
  /\ timer = "armed"
  /\ timer' = "fired"
  /\ UNCHANGED <<given, pc, dir, record, result, failed, job, timedOut>>

Store ==
  /\ timer = "fired"
  /\ timer' = "stored" /\ timedOut' = TRUE
  /\ UNCHANGED <<given, pc, dir, record, result, failed, job>>

Running == child \in {"setup", "job"}

\* Mutant: the signal goes out before the flag is set.
KillFirst ==
  /\ timer \in {"fired", "stored"}
  /\ timer' = "fired"
  /\ child' = IF Running THEN "killed" ELSE child
  /\ UNCHANGED <<given, pc, dir, record, result, failed, layers, code, answer, timedOut>>

\* Mutant: without Setsid no group has the child's pid.
KillNobody ==
  /\ timer = "stored"
  /\ timer' = "off"
  /\ UNCHANGED <<given, pc, dir, record, result, failed, job, timedOut>>

Kill ==
  /\ timer = "stored"
  /\ timer' = "off"
  /\ child' = IF Running THEN "killed" ELSE child
  /\ UNCHANGED <<given, pc, dir, record, result, failed, layers, code, answer, timedOut>>

-----------------------------------------------------------------------------
\* The child.

\* What may become of a layer.  The scratch directory is there, so a chroot is a
\* matter of the host; execve is a call the filter has already to let through.
Outcomes(layer) ==
  CASE layer = "chroot"  -> {(IF level = "full" THEN "chroot inside" ELSE "chroot") \in host}
    [] layer = "seccomp" -> {"seccomp" \in host}
    [] layer = "execve"  ->
         {ok \in BOOLEAN : ok => \A c \in SysCall :
            c.arch = "own" /\ c.nr = "other" => Filter(c) = "ALLOW"}
    [] OTHER             -> BOOLEAN

\* Mutant: a limit or a filter that cannot be installed is gone without.
ConfineAnyhow ==
  /\ child = "setup"
  /\ \E ok \in Outcomes(Layers[Len(layers) + 1]) :
       /\ layers' = Append(layers, ok)
       /\ child' = IF ~ok /\ Layers[Len(layers')] \notin {"rlimits", "seccomp"}
                   THEN "exited"
                   ELSE IF Len(layers') = Len(Layers) THEN "job" ELSE child
       /\ code' = IF child' = "exited" THEN 126 ELSE code
  /\ UNCHANGED <<given, pc, dir, record, result, failed, answer, clock>>

\* ChildMain applies the next layer, or exits 126.
Confine ==
  /\ child = "setup"
  /\ \E ok \in Outcomes(Layers[Len(layers) + 1]) :
       /\ layers' = Append(layers, ok)
       /\ child' = IF ~ok THEN "exited"
                   ELSE IF Len(layers') = Len(Layers) THEN "job" ELSE child
       /\ code' = IF ok THEN code ELSE 126
  /\ UNCHANGED <<given, pc, dir, record, result, failed, answer, clock>>

\* The job makes a system call.
Call ==
  /\ child = "job"
  /\ \E c \in SysCall :
       /\ answer' = {[call |-> c, says |-> Filter(c)]}
       /\ child' = IF Filter(c) = "KILL" THEN "signalled" ELSE child
  /\ UNCHANGED <<given, pc, dir, record, result, failed, layers, code, clock>>

\* The job ends by itself, or by a signal that is not the timer's (a limit).
JobEnds ==
  /\ child = "job"
  /\ \/ child' = "exited" /\ code' \in Code \ {-1}
     \/ child' = "signalled" /\ UNCHANGED code
  /\ UNCHANGED <<given, pc, dir, record, result, failed, layers, answer, clock>>

-----------------------------------------------------------------------------
\* Somebody changes what the host allows, after the level was found or before.
Alter ==
  /\ pc \notin {"idle", "returned"} /\ ~altered
  /\ altered' = TRUE /\ host' \in SUBSET Facility
  /\ UNCHANGED <<spec, level, pc, dir, record, result, failed, job, clock>>

Run == Detect \/ Admit \/ Scratch \/ Binary \/ Spawn \/ Reap \/ Stop \/ Verdict \/ Save
Timer == Fire \/ Store \/ Kill

Next == Accept \/ Run \/ Return \/ Timer \/ Confine \/ Call \/ JobEnds \/ Alter

\* Run and the timer go on; the child may hang at any point.
Spec == Init /\ [][Next]_vars /\ WF_vars(Run) /\ WF_vars(Timer)

-----------------------------------------------------------------------------
TypeOK ==
  /\ spec \in JobSpec /\ host \subseteq Facility /\ level \in Level
  /\ pc \in {"idle", "detect", "admit", "scratch", "binary", "spawn", "wait", "stop",
             "verdict", "save", "returned"}
  /\ altered \in BOOLEAN /\ dir \in BOOLEAN /\ lost \in BOOLEAN
  /\ failed \in BOOLEAN /\ timedOut \in BOOLEAN
  /\ file \subseteq JobResult
  /\ result \in JobResult
  /\ layers \in Seq(BOOLEAN) /\ Len(layers) <= Len(Layers)
  /\ child \in {"none", "setup", "job", "exited", "signalled", "killed"}
  /\ code \in Code
  /\ answer \subseteq [call : SysCall, says : {"ALLOW", "EPERM", "KILL"}]
  /\ timer \in {"off", "armed", "fired", "stored"}
  /\ (code # -1) <=> (child = "exited")

\* What the verdict says happened, wherever the timer's goroutine was when the
\* child ended: an exit code is the child's own, and a child the timer killed
\* is reported as timed out.
VerdictTruthful ==
  pc \in {"save", "returned"} /\ child # "none" =>
    /\ result.code # -1 => child = "exited" /\ result.code = code
    /\ child = "killed" => result.timedOut
    /\ ~result.timedOut => result.code = code

\* Fail-closed (D09): a job runs only from a static binary, at a sandbox level
\* other than none, and with every layer in place.
Confined ==
  child = "job" =>
    /\ level # "none" /\ spec.argv = "static"
    /\ layers = [n \in 1 .. Len(Layers) |-> TRUE]

\* A level is proven, never assumed (D09): a job that was admitted does not die
\* in its child, or of its namespaces, because the host refuses what its level is
\* made of, unless the host was changed meanwhile.
LevelProven ==
  ~altered =>
    /\ pc = "spawn" /\ level = "full" => "clone" \in host
    /\ \A n \in DOMAIN layers : Layers[n] \in {"chroot", "seccomp"} => layers[n]

\* The filter does what its header says to the calls told apart here, whichever way
\* the jumps counted by hand take: the job gets nothing of the Internet families
\* from socket, a foreign architecture ends it, and it can do everything else, local
\* sockets included.
Blind ==
  \A a \in answer :
    a.says = IF a.call.arch # "own" THEN "KILL"
             ELSE IF a.call.nr = "socket" /\ a.call.arg0 \in {"INET", "INET6"}
             THEN "EPERM" ELSE "ALLOW"

\* What an auditor finds in result.json is a result some run returned, and the
\* last one's unless its write failed: the file changes only in the step that
\* returns a result, and to that result, and no step returns a result without
\* having it written or the write failed.  The same at every return, of a refusal
\* as of a job that ran, over the results of earlier runs under the id.
AuditedInDirectory ==
  [][/\ file' # file => pc' = "returned" /\ ~failed' /\ file' = {result'}
     /\ pc # "returned" /\ pc' = "returned" /\ ~failed' => file' = {result'} \/ lost']_vars

\* Every job can be audited (worker.go, Run; ARCHITECTURE.md): a Run that returns
\* a result leaves that result in result.json.  The code does not keep this: the
\* errors of the writes are dropped, and a refusal may come before the directory.
JobsAudited == pc = "returned" /\ ~failed => file = {result}

\* Run returns, even from a job or a child that hangs.
RunReturns == pc = "detect" ~> pc = "returned"
=============================================================================
