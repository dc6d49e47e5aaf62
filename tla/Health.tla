------------------------------- MODULE Health -------------------------------
(***************************************************************************)
(* health.json: the supervisor publishes its state through                 *)
(* statefile.Write (a temporary file, then a rename) and `eon health`      *)
(* reads it.  Two goroutines of the supervisor write: the heartbeat, for   *)
(* as long as it runs, and Run itself, once, when it shuts down.  Both use *)
(* the one name health.json.tmp.                                           *)
(*                                                                         *)
(* A rename moves a file, it does not copy it: whoever has a file open     *)
(* keeps it.  A file is known by where it can be reached: under the name   *)
(* health.json, under the temporary name, or, replaced meanwhile, only by  *)
(* the reader that still has it open ("kept"); a file no reader can reach  *)
(* any more is "lost".  Abstractions:                                      *)
(*   - a snapshot is the life of the supervisor it was taken in (this one  *)
(*     or an earlier one) and the core it shows; 0 is "no core".  Its      *)
(*     length varies, so bytes written over longer ones leave a tail;      *)
(*   - one write call is atomic, a power failure is left out;              *)
(*   - a core has one of two pids, which may be used again;                *)
(*   - a heartbeat of the supervisor that runs is fresh: the interval is   *)
(*     10 s, HealthStale 60 s, and fewer than six writes fail in a row.    *)
(***************************************************************************)
EXTENDS Naturals

Writer == {"heartbeat", "run"}
Place == {"health", "tmp", "kept"}
Core == 0 .. 2
Form == {"absent", "empty", "torn", "whole"}
Content == [form : Form, past : BOOLEAN, core : Core]

VARIABLES
  disk,     \* the file in each place
  alive,    \* the supervisor's process exists
  asked,    \* its context is cancelled
  core,     \* state.CorePid
  at,       \* where each writer is
  snap,     \* the snapshot each took
  fd,       \* the file each has open
  probe,    \* where `eon health` is
  rfd,      \* the file it has open
  loads,    \* loads it has made: LoadState, then Check's LoadState
  seen,     \* what it loaded last
  verdict,  \* what it said last
  met       \* bookkeeping: both writers have had the temporary file open

writers == <<at, snap, fd>>
reader == <<probe, rfd, loads, seen, verdict>>
vars == <<disk, alive, asked, core, writers, reader, met>>

Stamp(c) == [form |-> "whole", past |-> FALSE, core |-> c]
Bad(f) == [Stamp(0) EXCEPT !.form = f]
Absent == Bad("absent")
Empty == Bad("empty")
Other(w) == IF w = "run" THEN "heartbeat" ELSE "run"
Writing == {"write", "rename"}

Init ==
  /\ disk = [p \in Place |-> Absent]
  /\ alive = FALSE /\ asked = FALSE /\ core = 0
  /\ at = [w \in Writer |-> "off"]
  /\ snap = [w \in Writer |-> Stamp(0)]
  /\ fd = [w \in Writer |-> "none"]
  /\ probe = "idle" /\ rfd = "none" /\ loads = 0
  /\ seen = Absent /\ verdict = "unhealthy"
  /\ met = FALSE

-----------------------------------------------------------------------------
\* statefile.Write, one system call at a time.

\* Mutant: the temporary file is opened without O_TRUNC.
OpenTmpKeeping(w) ==
  /\ at[w] = "open"
  /\ disk' = IF disk["tmp"] = Absent THEN [disk EXCEPT !["tmp"] = Empty] ELSE disk
  /\ fd' = [fd EXCEPT ![w] = "tmp"]
  /\ at' = [at EXCEPT ![w] = "write"]
  /\ met' = (met \/ at[Other(w)] \in Writing)
  /\ UNCHANGED <<alive, asked, core, snap, reader>>

\* os.WriteFile: open with O_CREATE and O_TRUNC.
OpenTmp(w) ==
  /\ at[w] = "open"
  /\ disk' = [disk EXCEPT !["tmp"] = Empty]
  /\ fd' = [fd EXCEPT ![w] = "tmp"]
  /\ at' = [at EXCEPT ![w] = "write"]
  /\ met' = (met \/ at[Other(w)] \in Writing)
  /\ UNCHANGED <<alive, asked, core, snap, reader>>

\* os.WriteFile: the bytes go to the start of the file, whoever else wrote
\* there and wherever it is by now, and the file is closed.
WriteTmp(w) ==
  /\ at[w] = "write"
  /\ IF fd[w] = "lost" THEN UNCHANGED disk
     ELSE \E c \in {snap[w]} \cup
                  IF disk[fd[w]] = Empty THEN {} ELSE {Bad("torn")} :
            disk' = [disk EXCEPT ![fd[w]] = c]
  /\ fd' = [fd EXCEPT ![w] = "none"]
  /\ at' = [at EXCEPT ![w] = "rename"]
  /\ UNCHANGED <<alive, asked, core, snap, reader, met>>

\* Where a writer is after statefile.Write.
After(w) == IF w = "run" THEN "over" ELSE "rest"

\* os.WriteFile returns an error, of the open or of the write, which may have left
\* some of the bytes: nothing is renamed, and nobody looks at the error.
FailTmp(w) ==
  /\ at[w] \in {"open", "write"}
  /\ \/ UNCHANGED disk
     \/ fd[w] \in Place /\ disk' = [disk EXCEPT ![fd[w]] = Bad("torn")]
  /\ fd' = [fd EXCEPT ![w] = "none"]
  /\ at' = [at EXCEPT ![w] = After(w)]
  /\ UNCHANGED <<alive, asked, core, snap, reader, met>>

\* Where an open file is after the temporary one took the name health.json.
Moved(p) ==
  CASE p = "tmp" -> "health"
    [] p = "health" -> IF rfd = "health" THEN "kept" ELSE "lost"
    [] OTHER -> p

\* os.Rename: whatever has the temporary name now; it fails, and nobody looks
\* at the error, if the other writer has just renamed it.
Rename(w) ==
  /\ at[w] = "rename"
  /\ IF disk["tmp"] = Absent
     THEN UNCHANGED <<disk, fd, rfd>>
     ELSE /\ disk' = [health |-> disk["tmp"], tmp |-> Absent,
                      kept |-> IF rfd = "health" THEN disk["health"]
                               ELSE disk["kept"]]
          /\ fd' = [x \in Writer |-> Moved(fd[x])]
          /\ rfd' = Moved(rfd)
  /\ at' = [at EXCEPT ![w] = After(w)]
  /\ UNCHANGED <<alive, asked, core, snap, probe, loads, seen, verdict, met>>

-----------------------------------------------------------------------------
\* The supervisor.

Boot ==
  /\ ~alive
  /\ alive' = TRUE /\ asked' = FALSE /\ core' = 0
  /\ at' = [heartbeat |-> "snap", run |-> "loop"]
  /\ snap' = [w \in Writer |-> Stamp(0)]
  /\ UNCHANGED <<disk, fd, reader, met>>

\* Mutant: the heartbeat publishes the state it saw first.
BeatStale ==
  /\ at["heartbeat"] = "snap"
  /\ at' = [at EXCEPT !["heartbeat"] = "open"]
  /\ UNCHANGED <<disk, alive, asked, core, snap, fd, reader, met>>

\* The heartbeat copies the state under the mutex and writes after it.
Beat ==
  /\ at["heartbeat"] = "snap"
  /\ snap' = [snap EXCEPT !["heartbeat"] = Stamp(core)]
  /\ at' = [at EXCEPT !["heartbeat"] = "open"]
  /\ UNCHANGED <<disk, alive, asked, core, fd, reader, met>>

\* Its select: the next tick, or the context (either, when both are ready).
Tick ==
  /\ at["heartbeat"] = "rest"
  /\ at' = [at EXCEPT !["heartbeat"] = "snap"]
  /\ UNCHANGED <<disk, alive, asked, core, snap, fd, reader, met>>

StopBeat ==
  /\ at["heartbeat"] = "rest" /\ asked
  /\ at' = [at EXCEPT !["heartbeat"] = "off"]
  /\ UNCHANGED <<disk, alive, asked, core, snap, fd, reader, met>>

\* Run: a core is started, or is gone.
CoreStarts ==
  /\ at["run"] = "loop" /\ core = 0
  /\ core' \in Core \ {0}
  /\ UNCHANGED <<disk, alive, asked, writers, reader, met>>

CoreGone ==
  /\ at["run"] = "loop" /\ core # 0
  /\ core' = 0
  /\ UNCHANGED <<disk, alive, asked, writers, reader, met>>

Cancel ==
  /\ alive /\ ~asked
  /\ asked' = TRUE
  /\ UNCHANGED <<disk, alive, core, writers, reader, met>>

\* The loop ends: no core is left, and the last snapshot is taken.
Finish ==
  /\ at["run"] = "loop" /\ asked
  /\ core' = 0
  /\ snap' = [snap EXCEPT !["run"] = Stamp(0)]
  /\ at' = [at EXCEPT !["run"] = "open"]
  /\ UNCHANGED <<disk, alive, asked, fd, reader, met>>

\* The process ends: Run has returned (hbCancel is deferred, nobody waits for
\* the heartbeat), or it is killed at any point.  What it wrote is of the past.
Die ==
  /\ alive
  /\ alive' = FALSE /\ asked' = FALSE /\ core' = 0
  /\ at' = [w \in Writer |-> "off"]
  /\ snap' = [w \in Writer |-> Stamp(0)]
  /\ fd' = [w \in Writer |-> "none"]
  /\ disk' = [p \in Place |->
                [disk[p] EXCEPT !.past = (disk[p].form = "whole")]]
  /\ UNCHANGED <<reader, met>>

-----------------------------------------------------------------------------
\* `eon health`.

\* os.ReadFile opens the file, or there is none and the load fails.
Load ==
  /\ probe = "idle"
  /\ IF disk["health"] = Absent
     THEN /\ verdict' = "unhealthy" /\ loads' = 0
          /\ UNCHANGED <<probe, rfd>>
     ELSE /\ probe' = "opened" /\ rfd' = "health"
          /\ UNCHANGED <<loads, verdict>>
  /\ UNCHANGED <<disk, alive, asked, core, writers, seen, met>>

\* It reads: what does not parse fails the load, and the probe.  HealthMain
\* loads once for its message, Check a second time for the verdict.
Parse ==
  /\ probe = "opened"
  /\ rfd' = "none"
  /\ disk' = [disk EXCEPT !["kept"] = Absent]
  /\ fd' = [w \in Writer |-> IF fd[w] = "kept" THEN "lost" ELSE fd[w]]
  /\ IF disk[rfd].form # "whole"
     THEN /\ probe' = "idle" /\ loads' = 0 /\ verdict' = "unhealthy"
          /\ UNCHANGED seen
     ELSE IF loads = 0
     THEN probe' = "idle" /\ loads' = 1 /\ UNCHANGED <<seen, verdict>>
     ELSE /\ probe' = "loaded" /\ loads' = 0 /\ seen' = disk[rfd]
          /\ UNCHANGED verdict
  /\ UNCHANGED <<alive, asked, core, at, snap, met>>

\* Check: the supervisor's pid, the heartbeat, the core's pid.  The pids of an
\* earlier life may be in use again (the supervisor is pid 1 of its container).
Judge ==
  /\ probe = "loaded"
  /\ probe' = "idle" /\ seen' = Absent
  /\ verdict' \in IF seen.core = 0 THEN {"unhealthy"}
                  ELSE IF seen.past THEN {"healthy", "unhealthy"}
                  ELSE IF alive /\ seen.core = core THEN {"healthy"}
                  ELSE {"unhealthy"}
  /\ UNCHANGED <<disk, alive, asked, core, writers, rfd, loads, met>>

-----------------------------------------------------------------------------
Write(w) == OpenTmp(w) \/ WriteTmp(w) \/ FailTmp(w) \/ Rename(w)
Heartbeat == Beat \/ Write("heartbeat") \/ Tick
Probe == Load \/ Parse \/ Judge

Next ==
  \/ Heartbeat \/ StopBeat \/ Boot \/ CoreStarts \/ CoreGone \/ Cancel
  \/ Finish \/ Write("run") \/ Die \/ Probe

\* The heartbeat goroutine has its ticker and does not block, and its writes do not
\* fail for ever; the container's health check is called again and again.
Spec ==
  /\ Init /\ [][Next]_vars
  /\ WF_vars(Heartbeat) /\ WF_vars(Probe)
  /\ SF_vars(OpenTmp("heartbeat")) /\ SF_vars(WriteTmp("heartbeat"))

-----------------------------------------------------------------------------
TypeOK ==
  /\ disk \in [Place -> Content]
  /\ fd \in [Writer -> Place \cup {"lost", "none"}]
  /\ rfd \in {"health", "kept", "none"}
  /\ (rfd # "none") <=> (probe = "opened")
  /\ \A w \in Writer : (fd[w] # "none") <=> (at[w] = "write")
  /\ \A w \in Writer : ~met /\ fd[w] = "tmp" => disk["tmp"] = Empty
  /\ alive \in BOOLEAN /\ asked \in BOOLEAN /\ met \in BOOLEAN
  /\ core \in Core
  /\ at \in [Writer -> {"off", "loop", "snap", "open", "write", "rename",
                        "rest", "over"}]
  /\ snap \in [Writer -> Content]
  /\ probe \in {"idle", "opened", "loaded"} /\ loads \in {0, 1}
  /\ seen \in Content
  /\ verdict \in {"healthy", "unhealthy"}

\* As long as the two writers never had the temporary file open together, a
\* reader finds a whole snapshot, whichever instruction the supervisor was
\* killed at or whichever write failed, in this life or an earlier one, and however
\* often the file is replaced while the reader has it open.
ReadersSeeWhole ==
  ~met => \A p \in {"health", "kept"} : disk[p].form \in {"absent", "whole"}

\* statefile.go: state files are written and read "de forma atômica".
PublishedWhole == disk["health"].form \in {"absent", "whole"}

\* D53: once the core stays up, or stays down, the health check says so, over
\* whatever an earlier life left behind.
VerdictSettles ==
  \A c \in Core :
    <>[](alive /\ ~asked /\ core = c)
      => <>[](verdict = IF c = 0 THEN "unhealthy" ELSE "healthy")
=============================================================================
