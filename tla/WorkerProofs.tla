---------------------------- MODULE WorkerProofs ----------------------------
(***************************************************************************)
(* The job runner and the sandbox it stands on, proved: what the filter's  *)
(* program does to every system call, what a level that was detected says  *)
(* of the host, and what a run may report.                                 *)
(***************************************************************************)
EXTENDS Worker, SequenceTheorems, TLAPS

\* The equation that defines what the program answers from an instruction on, by
\* the contents of the accumulator.
Body(call, r) ==
  [n \in DOMAIN BlockNetworkFilter |-> [a \in Word |->
     CASE BlockNetworkFilter[n].op = "ld" -> r[n + 1][call[BlockNetworkFilter[n].k]]
       [] BlockNetworkFilter[n].op = "jeq" ->
            r[n + 1 + (IF a = BlockNetworkFilter[n].k THEN BlockNetworkFilter[n].jt
                       ELSE BlockNetworkFilter[n].jf)][a]
       [] BlockNetworkFilter[n].op = "ret" -> BlockNetworkFilter[n].k]]

\* Filter is the solution of that equation, at the first instruction.
LEMMA FilterBody ==
  ASSUME NEW call \in SysCall
  PROVE  Filter(call) = (CHOOSE r : r = Body(call, r))[1]["0"]
BY DEF Filter, Body

\* The equation read instruction by instruction: where each jump goes.
LEMMA Meaning ==
  ASSUME NEW call \in SysCall, NEW r, NEW a \in Word
  PROVE  /\ Body(call, r)[1][a] = r[2][call.arch]
         /\ Body(call, r)[2][a] = IF a = "own" THEN r[3][a] ELSE r[11][a]
         /\ Body(call, r)[3][a] = r[4][call.nr]
         /\ Body(call, r)[4][a] = IF a = "socket" THEN r[5][a] ELSE r[10][a]
         /\ Body(call, r)[5][a] = r[6][call.arg0]
         /\ Body(call, r)[6][a] = IF a = "INET" THEN r[7][a] ELSE r[8][a]
         /\ Body(call, r)[7][a] = "EPERM"
         /\ Body(call, r)[8][a] = IF a = "INET6" THEN r[9][a] ELSE r[10][a]
         /\ Body(call, r)[9][a] = "EPERM"
         /\ Body(call, r)[10][a] = "ALLOW"
         /\ Body(call, r)[11][a] = "KILL"
<1> DEFINE p == BlockNetworkFilter
<1>0. DOMAIN p = 1 .. 11
  BY DEF BlockNetworkFilter
<1>1. /\ p[1].op = "ld" /\ p[1].k = "arch"
      /\ p[2].op = "jeq" /\ p[2].k = "own" /\ p[2].jt = 0 /\ p[2].jf = 8
      /\ p[3].op = "ld" /\ p[3].k = "nr"
      /\ p[4].op = "jeq" /\ p[4].k = "socket" /\ p[4].jt = 0 /\ p[4].jf = 5
      /\ p[5].op = "ld" /\ p[5].k = "arg0"
      /\ p[6].op = "jeq" /\ p[6].k = "INET" /\ p[6].jt = 0 /\ p[6].jf = 1
      /\ p[7].op = "ret" /\ p[7].k = "EPERM"
      /\ p[8].op = "jeq" /\ p[8].k = "INET6" /\ p[8].jt = 0 /\ p[8].jf = 1
      /\ p[9].op = "ret" /\ p[9].k = "EPERM"
      /\ p[10].op = "ret" /\ p[10].k = "ALLOW"
      /\ p[11].op = "ret" /\ p[11].k = "KILL"
  BY DEF BlockNetworkFilter, fOp, fJmp, fRet
<1>2. call["arch"] = call.arch /\ call["nr"] = call.nr /\ call["arg0"] = call.arg0
  BY DEF SysCall
<1>3. \A n \in 1 .. 11 : Body(call, r)[n][a] =
        CASE p[n].op = "ld"  -> r[n + 1][call[p[n].k]]
          [] p[n].op = "jeq" -> r[n + 1 + (IF a = p[n].k THEN p[n].jt ELSE p[n].jf)][a]
          [] p[n].op = "ret" -> p[n].k
  BY <1>0 DEF Body
<1> HIDE DEF p
<1>4. /\ Body(call, r)[1][a] = r[2][call.arch]
      /\ Body(call, r)[3][a] = r[4][call.nr]
      /\ Body(call, r)[5][a] = r[6][call.arg0]
  BY <1>1, <1>2, <1>3
<1>5. /\ Body(call, r)[2][a] = IF a = "own" THEN r[3][a] ELSE r[11][a]
      /\ Body(call, r)[4][a] = IF a = "socket" THEN r[5][a] ELSE r[10][a]
  BY <1>1, <1>3
<1>6. /\ Body(call, r)[6][a] = IF a = "INET" THEN r[7][a] ELSE r[8][a]
      /\ Body(call, r)[8][a] = IF a = "INET6" THEN r[9][a] ELSE r[10][a]
  BY <1>1, <1>3
<1>7. /\ Body(call, r)[7][a] = "EPERM" /\ Body(call, r)[9][a] = "EPERM"
      /\ Body(call, r)[10][a] = "ALLOW" /\ Body(call, r)[11][a] = "KILL"
  BY <1>1, <1>3
<1>8. QED
  BY <1>4, <1>5, <1>6, <1>7

\* The equation has a solution, because every jump of the program goes forward.
LEMMA Answered ==
  ASSUME NEW call \in SysCall
  PROVE  \E r : r = Body(call, r)
<1> DEFINE inet6(a) == IF a = "INET6" THEN "EPERM" ELSE "ALLOW"
           arg0(a) == IF a = "INET" THEN "EPERM" ELSE inet6(a)
           nr(a) == IF a = "socket" THEN arg0(call.arg0) ELSE "ALLOW"
           arch(a) == IF a = "own" THEN nr(call.nr) ELSE "KILL"
           from(n, a) ==
             CASE n = 1 -> arch(call.arch) [] n = 2 -> arch(a) [] n = 3 -> nr(call.nr)
               [] n = 4 -> nr(a) [] n = 5 -> arg0(call.arg0) [] n = 6 -> arg0(a)
               [] n = 8 -> inet6(a) [] n \in {7, 9} -> "EPERM" [] n = 10 -> "ALLOW"
               [] n = 11 -> "KILL"
           r == [n \in 1 .. 11 |-> [a \in Word |-> from(n, a)]]
<1>1. {call.arch, call.nr, call.arg0} \subseteq Word
  BY DEF Word
<1>2. \A n \in 1 .. 11, a \in Word : r[n][a] = from(n, a)
  OBVIOUS
<1>3. ASSUME NEW a \in Word
      PROVE  \A n \in 1 .. 11 : from(n, a) = Body(call, r)[n][a]
  <2> HIDE DEF r
  <2>1. \A n \in {1, 3, 5} : from(n, a) = Body(call, r)[n][a]
    BY <1>1, <1>2, Meaning
  <2>2. \A n \in {2, 4} : from(n, a) = Body(call, r)[n][a]
    BY <1>1, <1>2, Meaning
  <2>3. \A n \in {6, 7, 8, 9, 10, 11} : from(n, a) = Body(call, r)[n][a]
    BY <1>1, <1>2, Meaning
  <2>4. QED
    BY <2>1, <2>2, <2>3
<1>4. DOMAIN BlockNetworkFilter = 1 .. 11
  BY DEF BlockNetworkFilter
<1>5. ASSUME NEW n \in 1 .. 11 PROVE r[n] = Body(call, r)[n]
  <2> DEFINE b == Body(call, r)[n]
             i == BlockNetworkFilter[n]
             e(a) == CASE i.op = "ld"  -> r[n + 1][call[i.k]]
                       [] i.op = "jeq" -> r[n + 1 + (IF a = i.k THEN i.jt ELSE i.jf)][a]
                       [] i.op = "ret" -> i.k
  <2>0. b = [a \in Word |-> e(a)]
    BY <1>4 DEF Body
  <2>1. b = [a \in Word |-> b[a]]
    <3> HIDE DEF b, e
    <3>1. QED
      BY <2>0
  <2>2. r[n] = [a \in Word |-> from(n, a)]
    OBVIOUS
  <2>3. \A a \in Word : b[a] = from(n, a)
    BY <1>3
  <2> HIDE DEF b, r, from
  <2>4. QED
    BY <2>1, <2>2, <2>3 DEF b
<1> DEFINE b == Body(call, r)
<1>6. b = [n \in 1 .. 11 |-> b[n]]
  BY <1>4 DEF Body
<1>7. r = [n \in 1 .. 11 |-> r[n]]
  OBVIOUS
<1> HIDE DEF r
<1>8. r = b
  <2> HIDE DEF b
  <2>1. \A n \in 1 .. 11 : r[n] = b[n]
    BY <1>5 DEF b
  <2>2. QED
    BY <1>6, <1>7, <2>1
<1>9. QED
  BY <1>8

\* What the filter says to any system call.
LEMMA FilterMeans ==
  ASSUME NEW call \in SysCall
  PROVE  Filter(call) = IF call.arch # "own" THEN "KILL"
             ELSE IF call.nr = "socket" /\ call.arg0 \in {"INET", "INET6"}
             THEN "EPERM" ELSE "ALLOW"
<1> DEFINE r == CHOOSE r : r = Body(call, r)
<1>1. r = Body(call, r)
  BY Answered, Zenon
<1> HIDE DEF r
<1>2. {call.arch, call.nr, call.arg0, "0"} \subseteq Word
  BY DEF Word
<1>3. r[1]["0"] = IF call.arch = "own" THEN r[4][call.nr] ELSE "KILL"
  BY <1>1, <1>2, Meaning
<1>4. r[4][call.nr] = IF call.nr = "socket" THEN r[6][call.arg0] ELSE "ALLOW"
  BY <1>1, <1>2, Meaning
<1>5. r[6][call.arg0] = IF call.arg0 \in {"INET", "INET6"} THEN "EPERM" ELSE "ALLOW"
  BY <1>1, <1>2, Meaning
<1>6. Filter(call) = r[1]["0"]
  BY FilterBody DEF r
<1>7. QED
  BY <1>3, <1>4, <1>5, <1>6
-----------------------------------------------------------------------------
\* Where Run is says what has become of the child and of the timer.
Phases ==
  /\ pc \in {"detect", "admit", "scratch", "binary", "spawn"} =>
       child = "none" /\ layers = <<>> /\ timer = "off" /\ ~timedOut
  /\ pc = "idle" => child = "none" /\ layers = <<>> /\ timer = "off" /\ ~timedOut
  /\ pc # "returned" => ~failed
  /\ child \in {"setup", "job"} => pc = "wait"
  /\ pc = "wait" => child # "none"
  /\ pc \in {"stop", "verdict", "save"} => child \in {"exited", "signalled", "killed"}

\* The signal goes out after the flag is set.
FlagFirst == timer = "stored" \/ child = "killed" => timedOut

\* What has been looked at before.
Admitted ==
  /\ pc \in {"scratch", "binary", "spawn", "wait", "stop", "verdict", "save"} => level # "none"
  /\ pc \in {"spawn", "wait", "stop", "verdict", "save"} => spec.argv = "static"
  /\ ~altered /\ pc \notin {"idle", "detect", "returned"} => level \in Detected(host)

\* A child has all the layers it has tried, up to the one that ended it.
Layered ==
  /\ child \in {"setup", "job"} => \A n \in DOMAIN layers : layers[n]
  /\ child = "setup" => Len(layers) < Len(Layers)
  /\ child = "job" => Len(layers) = Len(Layers)

WInv ==
  /\ TypeOK /\ Phases /\ FlagFirst /\ Admitted /\ Layered
  /\ VerdictTruthful /\ LevelProven /\ Blind

\* A level that was detected says what the host allows.
LEMMA DetectedMeans ==
  ASSUME NEW h, NEW l \in Detected(h)
  PROVE  /\ l \in Level
         /\ l = "full" => {"clone", "chroot inside", "seccomp"} \subseteq h
         /\ l = "basic" => {"chroot", "seccomp"} \subseteq h
  BY DEF Detected, Proven, Level

\* Whether a thing is in a set is a Boolean.
LEMMA MemberBoolean == ASSUME NEW x, NEW S PROVE (x \in S) \in BOOLEAN
  OBVIOUS

\* What can come of a layer is known, and a layer the level is made of fails only
\* if the host is not what the level says.
LEMMA OutcomesMean ==
  ASSUME NEW l, NEW ok \in Outcomes(l)
  PROVE  /\ ok \in BOOLEAN
         /\ l = "chroot" => ok = ((IF level = "full" THEN "chroot inside" ELSE "chroot") \in host)
         /\ l = "seccomp" => ok = ("seccomp" \in host)
<1>1. CASE l = "chroot"
  <2>1. ok = ((IF level = "full" THEN "chroot inside" ELSE "chroot") \in host)
    BY <1>1 DEF Outcomes
  <2>2. ok \in BOOLEAN
    BY <2>1, MemberBoolean
  <2>3. QED
    BY <1>1, <2>1, <2>2
<1>2. CASE l = "seccomp"
  <2>1. ok = ("seccomp" \in host)
    BY <1>2 DEF Outcomes
  <2>2. ok \in BOOLEAN
    BY <2>1, MemberBoolean
  <2>3. QED
    BY <1>2, <2>1, <2>2
<1>3. CASE l = "execve"
  BY <1>3 DEF Outcomes
<1>4. CASE l \notin {"chroot", "seccomp", "execve"}
  BY <1>4 DEF Outcomes
<1>5. QED
  BY <1>1, <1>2, <1>3, <1>4

\* The next layer, and what has become of the child after it.
LEMMA ConfineMeans ==
  ASSUME TypeOK, Layered, Confine
  PROVE  \E ok \in BOOLEAN, n \in 1 .. Len(Layers) :
           /\ n = Len(layers) + 1
           /\ layers' = Append(layers, ok) /\ layers' \in Seq(BOOLEAN) /\ Len(layers') = n
           /\ layers'[n] = ok /\ \A k \in 1 .. n - 1 : layers'[k] = layers[k]
           /\ DOMAIN layers' = 1 .. n /\ DOMAIN layers = 1 .. n - 1
           /\ child' = IF ~ok THEN "exited" ELSE IF n = Len(Layers) THEN "job" ELSE "setup"
           /\ code' = IF ok THEN code ELSE 126
           /\ Layers[n] = "chroot" =>
                ok = ((IF level = "full" THEN "chroot inside" ELSE "chroot") \in host)
           /\ Layers[n] = "seccomp" => ok = ("seccomp" \in host)
<1> DEFINE n == Len(layers) + 1
<1>1. layers \in Seq(BOOLEAN) /\ Len(layers) \in Nat /\ Len(Layers) = 5
  BY DEF TypeOK, Layers
<1>2. child = "setup" /\ n \in 1 .. Len(Layers)
  BY <1>1 DEF Confine, Layered
<1>3. PICK ok \in Outcomes(Layers[n]) :
        /\ layers' = Append(layers, ok)
        /\ child' = IF ~ok THEN "exited"
                    ELSE IF Len(layers') = Len(Layers) THEN "job" ELSE child
        /\ code' = IF ok THEN code ELSE 126
  BY DEF Confine
<1>4. /\ ok \in BOOLEAN
      /\ Layers[n] = "chroot" =>
           ok = ((IF level = "full" THEN "chroot inside" ELSE "chroot") \in host)
      /\ Layers[n] = "seccomp" => ok = ("seccomp" \in host)
  BY OutcomesMean
<1>5. /\ layers' \in Seq(BOOLEAN) /\ Len(layers') = n
      /\ layers'[n] = ok /\ \A k \in 1 .. n - 1 : layers'[k] = layers[k]
      /\ DOMAIN layers' = 1 .. n /\ DOMAIN layers = 1 .. n - 1
  <2>1. /\ Append(layers, ok) \in Seq(BOOLEAN) /\ Len(Append(layers, ok)) = n
        /\ \A k \in 1 .. Len(layers) : Append(layers, ok)[k] = layers[k]
        /\ Append(layers, ok)[n] = ok
    <3>1. layers \in Seq(BOOLEAN) /\ ok \in BOOLEAN
      BY <1>1, <1>4, Zenon
    <3>2. ASSUME NEW S, NEW s \in Seq(S), NEW e \in S
          PROVE  /\ Append(s, e) \in Seq(S) /\ Len(Append(s, e)) = Len(s) + 1
                 /\ \A k \in 1 .. Len(s) : Append(s, e)[k] = s[k]
                 /\ Append(s, e)[Len(s) + 1] = e
      BY AppendProperties
    <3>3. QED
      BY <3>1, <3>2, Zenon
  <2>2. layers' = Append(layers, ok)
    BY <1>3
  <2>3. DOMAIN layers' = 1 .. n /\ DOMAIN layers = 1 .. n - 1
    BY <1>1, <2>1, <2>2, LenProperties
  <2>4. layers'[n] = ok /\ \A k \in 1 .. n - 1 : layers'[k] = layers[k]
    BY <1>1, <2>1, <2>2
  <2>5. QED
    BY <2>1, <2>2, <2>3, <2>4
<1>6. QED
  BY <1>2, <1>3, <1>4, <1>5

\* The results Run starts from.
LEMMA ResultTypes == {NoResult, Refused} \subseteq JobResult
<1>1. NoResult \in JobResult
  BY DEF NoResult, JobResult, Code
<1>2. Refused \in JobResult
  BY <1>1 DEF Refused, JobResult
<1>3. QED
  BY <1>1, <1>2

\* What a step does to the variables keeps their types.
LEMMA WorkerTypes == ASSUME WInv, [Next]_vars PROVE TypeOK'
<1> USE DEF WInv, given, job, clock, record
<1>1. CASE Accept
  BY <1>1 DEF Accept, TypeOK
<1>2. CASE Detect
  BY <1>2, DetectedMeans DEF Detect, TypeOK
<1>3. CASE Admit
  BY <1>3, ResultTypes, ZenonT(40) DEF Admit, Fail, Refuse, Write, Proceed, TypeOK
<1>4. CASE Scratch
  BY <1>4 DEF Scratch, Fail, Proceed, TypeOK
<1>5. CASE Binary
  BY <1>5, ResultTypes DEF Binary, Refuse, Write, Proceed, TypeOK
<1>6. CASE Spawn
  BY <1>6 DEF Spawn, Fail, TypeOK, Phases
<1>7. CASE Reap
  BY <1>7 DEF Reap, TypeOK
<1>8. CASE Stop
  BY <1>8 DEF Stop, TypeOK
<1>9. CASE Verdict
  <2>1. result' \in JobResult
    BY <1>9 DEF Verdict, TypeOK, JobResult, Code
  <2>2. QED
    BY <1>9, <2>1 DEF Verdict, TypeOK
<1>10. CASE Save
  BY <1>10 DEF Save, Write, TypeOK
<1>11. CASE Return
  <2>1. <<>> \in Seq(BOOLEAN) /\ Len(<<>>) <= Len(Layers)
    BY EmptySeq DEF Layers
  <2>2. QED
    BY <1>11, <2>1, ResultTypes DEF Return, TypeOK, Level, Code
<1>12. CASE Timer
  BY <1>12 DEF Timer, Fire, Store, Kill, Running, TypeOK
<1>13. CASE Confine
  <2>1. child = "setup" /\ code = -1
    BY <1>13 DEF Confine, TypeOK
  <2>0. PICK ok \in BOOLEAN, n \in 1 .. Len(Layers) :
          /\ layers' \in Seq(BOOLEAN) /\ Len(layers') = n
          /\ child' = IF ~ok THEN "exited" ELSE IF n = Len(Layers) THEN "job" ELSE "setup"
          /\ code' = IF ok THEN code ELSE 126
    BY <1>13, ConfineMeans
  <2>2. layers' \in Seq(BOOLEAN) /\ Len(layers') <= Len(Layers)
    BY <2>0 DEF Layers
  <2>3. /\ child' \in {"setup", "job", "exited"} /\ code' \in {-1, 126}
        /\ code' # -1 <=> child' = "exited"
    BY <2>0, <2>1
  <2>4. QED
    BY <1>13, <2>2, <2>3 DEF Confine, TypeOK, Code
<1>14. CASE Call
  <2>1. PICK c \in SysCall :
          /\ answer' = {[call |-> c, says |-> Filter(c)]}
          /\ child' = IF Filter(c) = "KILL" THEN "signalled" ELSE child
    BY <1>14 DEF Call
  <2>2. Filter(c) \in {"ALLOW", "EPERM", "KILL"}
    BY FilterMeans
  <2>3. answer' \subseteq [call : SysCall, says : {"ALLOW", "EPERM", "KILL"}]
    BY <2>1, <2>2
  <2>4. QED
    BY <1>14, <2>1, <2>3 DEF Call, TypeOK
<1>15. CASE JobEnds
  BY <1>15 DEF JobEnds, TypeOK, Code
<1>16. CASE Alter
  BY <1>16 DEF Alter, TypeOK
<1>17. CASE UNCHANGED vars
  BY <1>17 DEF vars, TypeOK
<1>18. QED
  BY <1>1, <1>2, <1>3, <1>4, <1>5, <1>6, <1>7, <1>8, <1>9, <1>10, <1>11, <1>12, <1>13,
     <1>14, <1>15, <1>16, <1>17 DEF Next, Run

\* Run, its timer and its child keep to their order.
LEMMA WorkerPhases == ASSUME WInv, [Next]_vars PROVE Phases' /\ FlagFirst'
<1> USE DEF WInv, given, job, clock, record, Phases, FlagFirst, TypeOK
<1>1. CASE Accept
  BY <1>1 DEF Accept
<1>2. CASE Detect
  BY <1>2 DEF Detect
<1>3. CASE Admit
  BY <1>3 DEF Admit, Fail, Refuse, Write, Proceed
<1>4. CASE Scratch
  BY <1>4 DEF Scratch, Fail, Proceed
<1>5. CASE Binary
  BY <1>5 DEF Binary, Refuse, Write, Proceed
<1>6. CASE Spawn
  BY <1>6 DEF Spawn, Fail
<1>7. CASE Reap
  BY <1>7 DEF Reap
<1>8. CASE Stop
  BY <1>8 DEF Stop
<1>9. CASE Verdict
  BY <1>9 DEF Verdict
<1>10. CASE Save
  BY <1>10 DEF Save, Write
<1>11. CASE Return
  BY <1>11 DEF Return
<1>12. CASE Timer
  BY <1>12 DEF Timer, Fire, Store, Kill, Running
<1>13. CASE Confine
  BY <1>13, ConfineMeans DEF Confine
<1>14. CASE Call
  BY <1>14 DEF Call
<1>15. CASE JobEnds
  BY <1>15 DEF JobEnds
<1>16. CASE Alter
  BY <1>16 DEF Alter
<1>17. CASE UNCHANGED vars
  BY <1>17 DEF vars
<1>18. QED
  BY <1>1, <1>2, <1>3, <1>4, <1>5, <1>6, <1>7, <1>8, <1>9, <1>10, <1>11, <1>12, <1>13,
     <1>14, <1>15, <1>16, <1>17 DEF Next, Run

\* What was looked at stays looked at, until the host is altered.
LEMMA WorkerAdmitted == ASSUME WInv, [Next]_vars PROVE Admitted'
<1> USE DEF WInv, given, job, clock, record, Admitted
<1>1. CASE Accept
  BY <1>1 DEF Accept
<1>2. CASE Detect
  BY <1>2, DetectedMeans DEF Detect
<1>3. CASE Admit
  BY <1>3 DEF Admit, Fail, Refuse, Write, Proceed
<1>4. CASE Scratch
  BY <1>4 DEF Scratch, Fail, Proceed
<1>5. CASE Binary
  BY <1>5 DEF Binary, Refuse, Write, Proceed
<1>6. CASE Spawn
  <2>1. /\ pc = "spawn" /\ pc' \in {"wait", "returned"}
        /\ UNCHANGED <<spec, host, altered, level>>
    BY <1>6 DEF Spawn, Fail
  <2>2. QED
    BY <2>1
<1>7. CASE Reap
  BY <1>7 DEF Reap
<1>8. CASE Stop
  BY <1>8 DEF Stop
<1>9. CASE Verdict
  BY <1>9 DEF Verdict
<1>10. CASE Save
  BY <1>10 DEF Save, Write
<1>11. CASE Return
  BY <1>11 DEF Return
<1>12. CASE Timer
  BY <1>12 DEF Timer, Fire, Store, Kill, Running
<1>13. CASE Confine
  BY <1>13 DEF Confine
<1>14. CASE Call
  BY <1>14 DEF Call
<1>15. CASE JobEnds
  BY <1>15 DEF JobEnds
<1>16. CASE Alter
  BY <1>16 DEF Alter
<1>17. CASE UNCHANGED vars
  BY <1>17 DEF vars
<1>18. QED
  BY <1>1, <1>2, <1>3, <1>4, <1>5, <1>6, <1>7, <1>8, <1>9, <1>10, <1>11, <1>12, <1>13,
     <1>14, <1>15, <1>16, <1>17 DEF Next, Run

\* Layers are tried in order.
LEMMA WorkerLayered == ASSUME WInv, [Next]_vars PROVE Layered'
<1> USE DEF WInv, given, job, clock, record, Layered, Phases
<1>1. CASE Accept
  BY <1>1 DEF Accept
<1>2. CASE Detect
  BY <1>2 DEF Detect
<1>3. CASE Admit
  BY <1>3 DEF Admit, Fail, Refuse, Write, Proceed
<1>4. CASE Scratch
  BY <1>4 DEF Scratch, Fail, Proceed
<1>5. CASE Binary
  BY <1>5 DEF Binary, Refuse, Write, Proceed
<1>6. CASE Spawn
  <2>1. layers = <<>> /\ layers' = layers /\ DOMAIN <<>> = {} /\ Len(<<>>) < Len(Layers)
    BY <1>6, EmptySeq DEF Spawn, Fail, Layers
  <2>2. child' \in {"none", "setup"}
    BY <1>6 DEF Spawn, Fail
  <2>3. QED
    BY <2>1, <2>2
<1>7. CASE Reap
  BY <1>7 DEF Reap
<1>8. CASE Stop
  BY <1>8 DEF Stop
<1>9. CASE Verdict
  BY <1>9 DEF Verdict
<1>10. CASE Save
  BY <1>10 DEF Save, Write
<1>11. CASE Return
  BY <1>11 DEF Return
<1>12. CASE Timer
  BY <1>12 DEF Timer, Fire, Store, Kill, Running
<1>13. CASE Confine
  <2>1. PICK ok \in BOOLEAN, n \in 1 .. Len(Layers) :
          /\ n = Len(layers) + 1 /\ Len(layers') = n
          /\ DOMAIN layers' = 1 .. n /\ DOMAIN layers = 1 .. n - 1
          /\ layers'[n] = ok /\ \A k \in 1 .. n - 1 : layers'[k] = layers[k]
          /\ child' = IF ~ok THEN "exited" ELSE IF n = Len(Layers) THEN "job" ELSE "setup"
          /\ Layers[n] = "chroot" =>
               ok = ((IF level = "full" THEN "chroot inside" ELSE "chroot") \in host)
          /\ Layers[n] = "seccomp" => ok = ("seccomp" \in host)
    BY <1>13, ConfineMeans
  <2>2. child = "setup" /\ Len(Layers) = 5
    BY <1>13 DEF Confine, Layers
  <2>3. \A k \in DOMAIN layers : layers[k]
    BY <2>2
  <2>4. child' \in {"setup", "job"} => \A k \in DOMAIN layers' : layers'[k]
    <3> SUFFICES ASSUME child' \in {"setup", "job"}, NEW k \in DOMAIN layers' PROVE layers'[k]
      OBVIOUS
    <3>1. CASE k = n
      <4>1. ok /\ layers'[k] = ok
        BY <2>1, <3>1
      <4>2. QED
        BY <4>1, Zenon
    <3>2. CASE k # n
      <4>1. n \in 1 .. 5 /\ k \in 1 .. n
        BY <2>1, <2>2, Zenon
      <4>2. k \in 1 .. n - 1
        BY <3>2, <4>1
      <4>3. k \in DOMAIN layers /\ layers'[k] = layers[k]
        BY <2>1, <4>2, Zenon
      <4>4. QED
        BY <2>3, <4>2, <4>3, Zenon
    <3>3. QED
      BY <3>1, <3>2
  <2>5. /\ child' = "setup" => Len(layers') < Len(Layers)
        /\ child' = "job" => Len(layers') = Len(Layers)
    <3>1. /\ child' = "setup" => n # Len(Layers)
          /\ child' = "job" => n = Len(Layers)
      BY <2>1
    <3>2. n \in 1 .. 5 /\ Len(layers') = n /\ Len(Layers) = 5
      BY <2>1, <2>2
    <3>3. QED
      BY <3>1, <3>2
  <2>6. QED
    BY <2>4, <2>5, Zenon
<1>14. CASE Call
  BY <1>14 DEF Call
<1>15. CASE JobEnds
  BY <1>15 DEF JobEnds
<1>16. CASE Alter
  BY <1>16 DEF Alter
<1>17. CASE UNCHANGED vars
  BY <1>17 DEF vars
<1>18. QED
  BY <1>1, <1>2, <1>3, <1>4, <1>5, <1>6, <1>7, <1>8, <1>9, <1>10, <1>11, <1>12, <1>13,
     <1>14, <1>15, <1>16, <1>17 DEF Next, Run

\* The verdict is taken from a child that is over and cannot change any more; a
\* flag set after it was taken does not change it.
LEMMA WorkerVerdict == ASSUME WInv, [Next]_vars PROVE VerdictTruthful'
<1> USE DEF WInv, given, job, clock, record, VerdictTruthful, Phases, FlagFirst, TypeOK
<1>1. CASE Accept
  BY <1>1 DEF Accept
<1>2. CASE Detect
  BY <1>2 DEF Detect
<1>3. CASE Admit
  BY <1>3 DEF Admit, Fail, Refuse, Write, Proceed
<1>4. CASE Scratch
  BY <1>4 DEF Scratch, Fail, Proceed
<1>5. CASE Binary
  BY <1>5 DEF Binary, Refuse, Write, Proceed
<1>6. CASE Spawn
  BY <1>6 DEF Spawn, Fail
<1>7. CASE Reap
  BY <1>7 DEF Reap
<1>8. CASE Stop
  BY <1>8 DEF Stop
<1>9. CASE Verdict
  BY <1>9 DEF Verdict
<1>10. CASE Save
  BY <1>10 DEF Save, Write
<1>11. CASE Return
  BY <1>11 DEF Return
<1>12. CASE Timer
  BY <1>12 DEF Timer, Fire, Store, Kill, Running
<1>13. CASE Confine
  BY <1>13 DEF Confine
<1>14. CASE Call
  BY <1>14 DEF Call
<1>15. CASE JobEnds
  BY <1>15 DEF JobEnds
<1>16. CASE Alter
  BY <1>16 DEF Alter
<1>17. CASE UNCHANGED vars
  BY <1>17 DEF vars
<1>18. QED
  BY <1>1, <1>2, <1>3, <1>4, <1>5, <1>6, <1>7, <1>8, <1>9, <1>10, <1>11, <1>12, <1>13,
     <1>14, <1>15, <1>16, <1>17 DEF Next, Run

\* An answer the job gets is the filter's.
LEMMA WorkerBlind == ASSUME WInv, [Next]_vars PROVE Blind'
<1> USE DEF WInv, given, job, clock, record, Blind
<1>1. CASE Accept
  BY <1>1 DEF Accept
<1>2. CASE Detect
  BY <1>2 DEF Detect
<1>3. CASE Admit
  BY <1>3 DEF Admit, Fail, Refuse, Write, Proceed
<1>4. CASE Scratch
  BY <1>4 DEF Scratch, Fail, Proceed
<1>5. CASE Binary
  BY <1>5 DEF Binary, Refuse, Write, Proceed
<1>6. CASE Spawn
  BY <1>6 DEF Spawn, Fail
<1>7. CASE Reap
  BY <1>7 DEF Reap
<1>8. CASE Stop
  BY <1>8 DEF Stop
<1>9. CASE Verdict
  BY <1>9 DEF Verdict
<1>10. CASE Save
  BY <1>10 DEF Save, Write
<1>11. CASE Return
  BY <1>11 DEF Return
<1>12. CASE Timer
  BY <1>12 DEF Timer, Fire, Store, Kill, Running
<1>13. CASE Confine
  BY <1>13 DEF Confine
<1>14. CASE Call
  BY <1>14, FilterMeans DEF Call
<1>15. CASE JobEnds
  BY <1>15 DEF JobEnds
<1>16. CASE Alter
  BY <1>16 DEF Alter
<1>17. CASE UNCHANGED vars
  BY <1>17 DEF vars
<1>18. QED
  BY <1>1, <1>2, <1>3, <1>4, <1>5, <1>6, <1>7, <1>8, <1>9, <1>10, <1>11, <1>12, <1>13,
     <1>14, <1>15, <1>16, <1>17 DEF Next, Run

\* What the level is made of, the host allows, as long as nobody alters it.
LEMMA WorkerLevel == ASSUME WInv, [Next]_vars PROVE LevelProven'
<1> USE DEF WInv, given, job, clock, record, LevelProven, Phases, Admitted
<1>1. CASE Accept
  BY <1>1 DEF Accept
<1>2. CASE Detect
  BY <1>2, DetectedMeans DEF Detect
<1>3. CASE Admit
  BY <1>3, DetectedMeans DEF Admit, Fail, Refuse, Write, Proceed
<1>4. CASE Scratch
  BY <1>4 DEF Scratch, Fail, Proceed
<1>5. CASE Binary
  BY <1>5, DetectedMeans DEF Binary, Refuse, Write, Proceed
<1>6. CASE Spawn
  BY <1>6, DetectedMeans DEF Spawn, Fail
<1>7. CASE Reap
  BY <1>7 DEF Reap
<1>8. CASE Stop
  BY <1>8 DEF Stop
<1>9. CASE Verdict
  BY <1>9 DEF Verdict
<1>10. CASE Save
  BY <1>10 DEF Save, Write
<1>11. CASE Return
  BY <1>11 DEF Return
<1>12. CASE Timer
  BY <1>12 DEF Timer, Fire, Store, Kill, Running
<1>13. CASE Confine
  <2>1. PICK ok \in BOOLEAN, n \in 1 .. Len(Layers) :
          /\ n = Len(layers) + 1 /\ Len(layers') = n
          /\ DOMAIN layers' = 1 .. n /\ DOMAIN layers = 1 .. n - 1
          /\ layers'[n] = ok /\ \A k \in 1 .. n - 1 : layers'[k] = layers[k]
          /\ child' = IF ~ok THEN "exited" ELSE IF n = Len(Layers) THEN "job" ELSE "setup"
          /\ Layers[n] = "chroot" =>
               ok = ((IF level = "full" THEN "chroot inside" ELSE "chroot") \in host)
          /\ Layers[n] = "seccomp" => ok = ("seccomp" \in host)
    BY <1>13, ConfineMeans
  <2>2. child = "setup" /\ Len(Layers) = 5 /\ UNCHANGED <<host, altered, level, pc>> /\ pc = "wait"
    BY <1>13 DEF Confine, Layers
  <2>3. ~altered => \A k \in 1 .. n - 1 : Layers[k] \in {"chroot", "seccomp"} => layers[k]
    BY <2>1
  <2>4. ~altered /\ Layers[n] \in {"chroot", "seccomp"} => ok
    BY <2>1, <2>2, DetectedMeans DEF Level
  <2>5. ~altered' => \A k \in DOMAIN layers' : Layers[k] \in {"chroot", "seccomp"} => layers'[k]
    <3> SUFFICES ASSUME ~altered, NEW k \in DOMAIN layers', Layers[k] \in {"chroot", "seccomp"}
                 PROVE  layers'[k]
      BY <2>2
    <3>1. CASE k = n
      <4>1. ok /\ layers'[k] = ok
        BY <2>1, <2>4, <3>1
      <4>2. QED
        BY <4>1, Zenon
    <3>2. CASE k # n
      <4>1. n \in 1 .. 5 /\ k \in 1 .. n
        BY <2>1, <2>2, Zenon
      <4>2. k \in 1 .. n - 1
        BY <3>2, <4>1
      <4>3. k \in DOMAIN layers /\ layers'[k] = layers[k]
        BY <2>1, <4>2, Zenon
      <4>4. QED
        BY <2>3, <4>2, <4>3, Zenon
    <3>3. QED
      BY <3>1, <3>2
  <2>6. QED
    BY <2>2, <2>5
<1>14. CASE Call
  BY <1>14 DEF Call
<1>15. CASE JobEnds
  BY <1>15 DEF JobEnds
<1>16. CASE Alter
  BY <1>16 DEF Alter
<1>17. CASE UNCHANGED vars
  BY <1>17 DEF vars
<1>18. QED
  BY <1>1, <1>2, <1>3, <1>4, <1>5, <1>6, <1>7, <1>8, <1>9, <1>10, <1>11, <1>12, <1>13,
     <1>14, <1>15, <1>16, <1>17 DEF Next, Run

-----------------------------------------------------------------------------
\* The strengthened invariant holds of every behaviour.
LEMMA WorkerInv == Spec => []WInv
<1>1. Init => WInv
  <2> SUFFICES ASSUME Init PROVE WInv
    OBVIOUS
  <2> USE DEF Init
  <2>1. TypeOK
    <3>1. <<>> \in Seq(BOOLEAN) /\ Len(<<>>) <= Len(Layers)
      BY EmptySeq DEF Layers
    <3>2. QED
      BY <3>1, ResultTypes DEF TypeOK, JobSpec, Level, Code
  <2>2. Phases /\ FlagFirst /\ Admitted /\ Layered
    BY DEF Phases, FlagFirst, Admitted, Layered
  <2>3. VerdictTruthful /\ LevelProven /\ Blind
    BY DEF VerdictTruthful, LevelProven, Blind
  <2>4. QED
    BY <2>1, <2>2, <2>3 DEF WInv
<1>2. WInv /\ [Next]_vars => WInv'
  BY WorkerTypes, WorkerPhases, WorkerAdmitted, WorkerLayered, WorkerVerdict,
     WorkerBlind, WorkerLevel DEF WInv
<1>3. QED
  BY <1>1, <1>2, PTL DEF Spec

\* The types; an exit code is there exactly when the child exited.
THEOREM WorkerTypesHold == Spec => []TypeOK
<1>1. WInv => TypeOK
  BY DEF WInv
<1>2. QED
  BY <1>1, WorkerInv, PTL

\* Wherever the timer's goroutine is when the child ends, an exit code that is
\* reported is the child's own, and a child the timer killed is reported as timed
\* out.
THEOREM VerdictsAreTruthful == Spec => []VerdictTruthful
<1>1. WInv => VerdictTruthful
  BY DEF WInv
<1>2. QED
  BY <1>1, WorkerInv, PTL

\* A job runs only from a static binary, at a level other than none and with every
\* layer in place.
THEOREM JobsAreConfined == Spec => []Confined
<1>1. WInv => Confined
  <2> SUFFICES ASSUME WInv, child = "job" PROVE Confined
    BY DEF Confined
  <2>1. pc = "wait" /\ level # "none" /\ spec.argv = "static"
    BY DEF WInv, Phases, Admitted
  <2>2. /\ layers \in Seq(BOOLEAN) /\ Len(layers) = Len(Layers)
        /\ \A n \in DOMAIN layers : layers[n]
    BY DEF WInv, TypeOK, Layered
  <2>3. DOMAIN layers = 1 .. Len(Layers) /\ layers = [n \in 1 .. Len(Layers) |-> layers[n]]
    BY <2>2, LenProperties
  <2>4. \A n \in 1 .. Len(Layers) : layers[n] = TRUE
    <3>1. layers \in [1 .. Len(Layers) -> BOOLEAN]
      BY <2>2, LenProperties
    <3>2. QED
      BY <2>2, <2>3, <3>1
  <2>5. layers = [n \in 1 .. Len(Layers) |-> TRUE]
    BY <2>3, <2>4
  <2>6. QED
    BY <2>1, <2>5 DEF Confined
<1>2. QED
  BY <1>1, WorkerInv, PTL

\* What the level that was detected is made of does not fail a job that was
\* admitted, unless the host was changed meanwhile.
THEOREM LevelsAreProven == Spec => []LevelProven
<1>1. WInv => LevelProven
  BY DEF WInv
<1>2. QED
  BY <1>1, WorkerInv, PTL

\* Every answer the filter's program gives is the one its header promises.
THEOREM JobsAreBlind == Spec => []Blind
<1>1. WInv => Blind
  BY DEF WInv
<1>2. QED
  BY <1>1, WorkerInv, PTL

\* One step: result.json changes only in the steps that return a result.
LEMMA AuditStep ==
  ASSUME WInv, [Next]_vars
  PROVE  /\ file' # file => pc' = "returned" /\ ~failed' /\ file' = {result'}
         /\ pc # "returned" /\ pc' = "returned" /\ ~failed' => file' = {result'} \/ lost'
<1> USE DEF WInv, given, job, clock, record, Phases
<1>1. CASE Accept
  BY <1>1 DEF Accept
<1>2. CASE Detect
  BY <1>2 DEF Detect
<1>3. CASE Admit
  BY <1>3 DEF Admit, Fail, Refuse, Write, Proceed
<1>4. CASE Scratch
  BY <1>4 DEF Scratch, Fail, Proceed
<1>5. CASE Binary
  BY <1>5 DEF Binary, Refuse, Write, Proceed
<1>6. CASE Spawn
  BY <1>6 DEF Spawn, Fail
<1>7. CASE Reap
  BY <1>7 DEF Reap
<1>8. CASE Stop
  BY <1>8 DEF Stop
<1>9. CASE Verdict
  BY <1>9 DEF Verdict
<1>10. CASE Save
  BY <1>10 DEF Save, Write
<1>11. CASE Return
  BY <1>11 DEF Return
<1>12. CASE Timer
  BY <1>12 DEF Timer, Fire, Store, Kill, Running
<1>13. CASE Confine
  BY <1>13 DEF Confine
<1>14. CASE Call
  BY <1>14 DEF Call
<1>15. CASE JobEnds
  BY <1>15 DEF JobEnds
<1>16. CASE Alter
  BY <1>16 DEF Alter
<1>17. CASE UNCHANGED vars
  BY <1>17 DEF vars
<1>18. QED
  BY <1>1, <1>2, <1>3, <1>4, <1>5, <1>6, <1>7, <1>8, <1>9, <1>10, <1>11, <1>12, <1>13,
     <1>14, <1>15, <1>16, <1>17 DEF Next, Run

\* result.json changes only when a run returns a result, and to that result; a run
\* that returns one has written it or failed to write it.
THEOREM RunsAreAudited == Spec => AuditedInDirectory
<1>1. WInv /\ [Next]_vars =>
        [/\ file' # file => pc' = "returned" /\ ~failed' /\ file' = {result'}
         /\ pc # "returned" /\ pc' = "returned" /\ ~failed' => file' = {result'} \/ lost']_vars
  BY AuditStep
<1>2. QED
  BY <1>1, WorkerInv, PTL DEF Spec, AuditedInDirectory
=============================================================================
