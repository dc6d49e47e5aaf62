---------------------------- MODULE HealthProofs ----------------------------
(***************************************************************************)
(* health.json: what its readers find, proved over the files that can be   *)
(* reached.                                                                *)
(***************************************************************************)
EXTENDS Health, TLAPS

\* As long as the writers never met: at most one of them is at the temporary
\* file, it is the file it has open, and it is whole when it is renamed.
Apart ==
  ~met =>
    /\ ~ (at["heartbeat"] \in Writing /\ at["run"] \in Writing)
    /\ \A w \in Writer :
         /\ at[w] = "write" => fd[w] = "tmp"
         /\ at[w] = "rename" => disk["tmp"].form = "whole"

SnapsWhole == \A w \in Writer : snap[w].form = "whole"

\* No goroutine without its process.
Stopped == ~alive => \A w \in Writer : at[w] = "off"

HInv == TypeOK /\ ReadersSeeWhole /\ Apart /\ SnapsWhole /\ Stopped

-----------------------------------------------------------------------------
\* The contents a file starts with.
LEMMA Contents ==
  /\ \A c \in Core : Stamp(c) \in Content /\ Stamp(c).form = "whole"
  /\ Absent \in Content /\ Absent.form = "absent"
  /\ Empty \in Content /\ Empty.form = "empty"
  /\ Bad("torn") \in Content
<1> USE DEF Stamp, Bad, Absent, Empty, Content, Form, Core
<1>1. \A c \in Core : Stamp(c) \in Content /\ Stamp(c).form = "whole"
  OBVIOUS
<1>2. ASSUME NEW f \in Form PROVE Bad(f) \in Content /\ Bad(f).form = f
  <2>1. Stamp(0) \in Content /\ Bad(f) = [Stamp(0) EXCEPT !.form = f]
    BY <1>1
  <2> HIDE DEF Stamp, Bad
  <2>2. QED
    BY <2>1
<1>3. QED
  BY <1>1, <1>2

\* statefile.Write by one of the two.
LEMMA OpenStep == ASSUME HInv, NEW w \in Writer, OpenTmp(w) PROVE HInv'
<1> USE DEF HInv, writers, reader
<1>1. Empty \in Content
  BY Contents
<1>2. met' = (met \/ at[Other(w)] \in Writing)
  BY DEF OpenTmp
<1>3. met' \in BOOLEAN
  BY <1>2, Zenon
<1>4. Other(w) \in Writer /\ Other(w) # w /\ \A x \in Writer : x = w \/ x = Other(w)
  BY DEF Other, Writer
<1>5. TypeOK'
  BY <1>1, <1>3, <1>2, <1>4 DEF OpenTmp, TypeOK, Place, Writing, Apart
<1>6. ReadersSeeWhole'
  BY <1>2 DEF OpenTmp, ReadersSeeWhole, TypeOK, Place
<1>7. Apart'
  BY <1>2, <1>4 DEF OpenTmp, Apart, TypeOK, Writing, Writer, Place
<1>8. QED
  BY <1>5, <1>6, <1>7 DEF OpenTmp, SnapsWhole, Stopped, TypeOK

LEMMA WriteStep == ASSUME HInv, NEW w \in Writer, WriteTmp(w) PROVE HInv'
<1> USE DEF HInv, writers, reader
<1>1. UNCHANGED <<alive, asked, core, snap, reader, met>> /\ at[w] = "write"
      /\ fd' = [fd EXCEPT ![w] = "none"] /\ at' = [at EXCEPT ![w] = "rename"]
  BY DEF WriteTmp
<1>2. CASE fd[w] = "lost"
  <2>1. disk' = disk /\ met
    BY <1>1, <1>2 DEF WriteTmp, Apart
  <2>2. QED
    BY <1>1, <2>1 DEF TypeOK, ReadersSeeWhole, Apart, SnapsWhole, Stopped
<1>3. CASE fd[w] # "lost"
  <2>1. PICK c \in {snap[w]} \cup IF disk[fd[w]] = Empty THEN {} ELSE {Bad("torn")} :
          disk' = [disk EXCEPT ![fd[w]] = c]
    BY <1>3 DEF WriteTmp
  <2>2. fd[w] \in Place /\ c \in Content
    BY <1>1, <1>3, <2>1, Contents DEF TypeOK
  <2>3. ~met => fd[w] = "tmp" /\ c = snap[w] /\ c.form = "whole"
    BY <1>1, <2>1 DEF Apart, TypeOK, SnapsWhole, Stopped
  <2>4. \A p \in Place : disk'[p] = IF p = fd[w] THEN c ELSE disk[p]
    BY <2>1, <2>2 DEF TypeOK
  <2>5. disk' \in [Place -> Content]
    BY <2>1, <2>2 DEF TypeOK
  <2>6. \A x \in Writer : x # w /\ ~met => fd[x] # "tmp"
    BY <1>1 DEF Apart, TypeOK, Writing, Writer
  <2>7. TypeOK'
    BY <1>1, <2>5, <2>6 DEF TypeOK
  <2>8. ReadersSeeWhole'
    BY <1>1, <2>3, <2>4 DEF ReadersSeeWhole, Place
  <2>9. Apart'
    BY <1>1, <2>3, <2>4, <2>6 DEF Apart, TypeOK, Writing, Writer, Place
  <2>10. QED
    BY <1>1, <2>7, <2>8, <2>9 DEF SnapsWhole, Stopped
<1>4. QED
  BY <1>2, <1>3

LEMMA FailStep == ASSUME HInv, NEW w \in Writer, FailTmp(w) PROVE HInv'
<1> USE DEF HInv, writers, reader
<1>1. /\ UNCHANGED <<alive, asked, core, snap, reader, met>> /\ at[w] \in {"open", "write"}
      /\ fd' = [fd EXCEPT ![w] = "none"]
      /\ at'[w] \in {"over", "rest"} /\ at' = [at EXCEPT ![w] = at'[w]]
  BY DEF FailTmp, After, TypeOK
<1>2. /\ disk' \in [Place -> Content]
      /\ \A p \in Place : disk'[p] = disk[p] \/ p = fd[w]
  BY Contents DEF FailTmp, TypeOK
<1>3. ~met => fd[w] \in {"tmp", "none"} /\ \A x \in Writer : x # w => at[x] # "rename" \/ fd[w] = "none"
  BY <1>1 DEF Apart, TypeOK, Writing, Writer
<1>4. \A x \in Writer : x # w /\ ~met /\ fd[w] = "tmp" => fd[x] # "tmp"
  BY <1>1 DEF Apart, TypeOK, Writing, Writer
<1>5. TypeOK'
  BY <1>1, <1>2, <1>3, <1>4 DEF TypeOK, Place
<1>6. ReadersSeeWhole'
  BY <1>1, <1>2, <1>3 DEF ReadersSeeWhole, Place
<1>7. Apart'
  BY <1>1, <1>2, <1>3, <1>4 DEF Apart, TypeOK, Writing, Writer, Place
<1>8. QED
  BY <1>1, <1>5, <1>6, <1>7 DEF SnapsWhole, Stopped

LEMMA RenameStep == ASSUME HInv, NEW w \in Writer, Rename(w) PROVE HInv'
<1> USE DEF HInv, writers, reader
<1>1. UNCHANGED <<alive, asked, core, snap, probe, loads, seen, verdict, met>>
      /\ at[w] = "rename"
      /\ at' = [at EXCEPT ![w] = IF w = "run" THEN "over" ELSE "rest"]
  BY DEF Rename, After
<1>2. CASE disk["tmp"] = Absent
  BY <1>1, <1>2, Contents DEF Rename, TypeOK, ReadersSeeWhole, Apart, SnapsWhole, Stopped, Writing
<1>3. CASE disk["tmp"] # Absent
  <2>1. /\ disk' = [health |-> disk["tmp"], tmp |-> Absent,
                    kept |-> IF rfd = "health" THEN disk["health"] ELSE disk["kept"]]
        /\ fd' = [x \in Writer |-> Moved(fd[x])] /\ rfd' = Moved(rfd)
    BY <1>3 DEF Rename
  <2>2. /\ disk' \in [Place -> Content]
        /\ disk'["health"] = disk["tmp"] /\ disk'["tmp"] = Absent
        /\ disk'["kept"] \in {disk["health"], disk["kept"]}
    BY <2>1, Contents DEF TypeOK, Place
  <2>3. \A p \in Place \cup {"lost", "none"} :
          /\ Moved(p) \in Place \cup {"lost", "none"}
          /\ Moved(p) # "tmp" /\ (Moved(p) = "none" <=> p = "none")
    BY DEF Moved, Place
  <2>4. rfd' \in {"health", "kept", "none"} /\ (rfd' = "none" <=> rfd = "none")
    BY <2>1 DEF Moved, TypeOK
  <2>5. \A x \in Writer : /\ fd'[x] \in Place \cup {"lost", "none"} /\ fd'[x] # "tmp"
                          /\ (fd'[x] = "none" <=> fd[x] = "none")
    BY <2>1, <2>3 DEF TypeOK
  <2>6. TypeOK'
    BY <1>1, <2>1, <2>2, <2>4, <2>5 DEF TypeOK
  <2>7. ReadersSeeWhole'
    BY <1>1, <2>2 DEF ReadersSeeWhole, Apart
  <2>8. \A x \in Writer : ~met /\ x # w => at[x] \notin Writing
    BY <1>1 DEF Apart, Writing, Writer
  <2>9. Apart'
    BY <1>1, <2>8 DEF Apart, TypeOK, Writing, Writer
  <2>10. QED
    BY <1>1, <2>6, <2>7, <2>9 DEF SnapsWhole, Stopped
<1>4. QED
  BY <1>2, <1>3

\* The supervisor's goroutines apart from their writes.
LEMMA SupervisorStep ==
  ASSUME HInv, \/ Boot \/ Beat \/ Tick \/ StopBeat \/ CoreStarts \/ CoreGone \/ Cancel
               \/ Finish \/ Die
  PROVE  HInv'
<1> USE DEF HInv, writers, reader
<1>1. CASE Boot
  <2>1. Stamp(0) \in Content /\ Stamp(0).form = "whole" /\ 0 \in Core
    BY Contents DEF Core
  <2>2. \A w \in Writer : at'[w] \in {"snap", "loop"} /\ snap'[w] = Stamp(0)
    BY <1>1 DEF Boot, Writer
  <2>3. at' \in [Writer -> {"snap", "loop"}]
    BY <1>1 DEF Boot, Writer
  <2>4. QED
    BY <1>1, <2>1, <2>2, <2>3 DEF Boot, TypeOK, ReadersSeeWhole, Apart, SnapsWhole, Stopped, Writing
<1>2. CASE Beat
  <2>1. Stamp(core) \in Content /\ Stamp(core).form = "whole"
    BY Contents DEF TypeOK
  <2>2. QED
    BY <1>2, <2>1 DEF Beat, TypeOK, ReadersSeeWhole, Apart, SnapsWhole, Stopped, Writing, Writer
<1>3. CASE Tick \/ StopBeat
  BY <1>3 DEF Tick, StopBeat, TypeOK, ReadersSeeWhole, Apart, SnapsWhole, Stopped, Writing, Writer
<1>4. CASE CoreStarts \/ CoreGone \/ Cancel
  <2>1. core' \in Core /\ asked' \in BOOLEAN
    <3>1. core \in Core /\ asked \in BOOLEAN /\ 0 \in Core
      BY DEF TypeOK, Core
    <3>2. CASE CoreStarts
      BY <3>1, <3>2 DEF CoreStarts
    <3>3. CASE CoreGone
      BY <3>1, <3>3 DEF CoreGone
    <3>4. CASE Cancel
      BY <3>1, <3>4 DEF Cancel
    <3>5. QED
      BY <1>4, <3>2, <3>3, <3>4
  <2>2. UNCHANGED <<disk, alive, at, snap, fd, reader, met>>
    BY <1>4 DEF CoreStarts, CoreGone, Cancel
  <2>3. QED
    BY <2>1, <2>2 DEF TypeOK, ReadersSeeWhole, Apart, SnapsWhole, Stopped
<1>5. CASE Finish
  <2>1. Stamp(0) \in Content /\ Stamp(0).form = "whole" /\ 0 \in Core
    BY Contents DEF Core
  <2>2. QED
    BY <1>5, <2>1 DEF Finish, TypeOK, ReadersSeeWhole, Apart, SnapsWhole, Stopped, Writing, Writer
<1>6. CASE Die
  <2>1. Stamp(0) \in Content /\ Stamp(0).form = "whole" /\ 0 \in Core
    BY Contents DEF Core
  <2>2. disk' = [p \in Place |-> [disk[p] EXCEPT !.past = (disk[p].form = "whole")]]
    BY <1>6 DEF Die
  <2>3. ASSUME NEW p \in Place PROVE disk'[p] \in Content /\ disk'[p].form = disk[p].form
    <3>1. disk[p] \in Content /\ (disk[p].form = "whole") \in BOOLEAN
      BY DEF TypeOK
    <3>2. \A b \in BOOLEAN : [disk[p] EXCEPT !.past = b] \in Content
      BY <3>1 DEF Content
    <3>3. QED
      BY <2>2, <3>1, <3>2 DEF Content
  <2>4. disk' \in [Place -> Content]
    BY <2>2, <2>3
  <2>5. ReadersSeeWhole'
    BY <1>6, <2>3 DEF Die, ReadersSeeWhole, Place
  <2>6. QED
    <3>1. TypeOK'
      <4>1. \A w \in Writer : fd'[w] = "none" /\ at'[w] = "off"
        BY <1>6 DEF Die
      <4>2. /\ at' \in [Writer -> {"off"}] /\ snap' \in [Writer -> Content]
            /\ fd' \in [Writer -> {"none"}] /\ alive' = FALSE /\ asked' = FALSE /\ core' = 0
            /\ UNCHANGED <<reader, met>>
        BY <1>6, <2>1 DEF Die
      <4>3. QED
        BY <2>1, <2>4, <4>1, <4>2 DEF TypeOK
    <3>2. Apart' /\ SnapsWhole' /\ Stopped'
      BY <1>6, <2>1 DEF Die, Apart, SnapsWhole, Stopped, Writing, Writer
    <3>3. QED
      BY <2>5, <3>1, <3>2
<1>7. QED
  BY <1>1, <1>2, <1>3, <1>4, <1>5, <1>6

\* `eon health` changes no file but the one only it has open.
LEMMA ProbeStep == ASSUME HInv, Probe PROVE HInv'
<1> USE DEF HInv, writers, reader
<1>1. CASE Load
  BY <1>1 DEF Load, TypeOK, ReadersSeeWhole, Apart, SnapsWhole, Stopped
<1>2. CASE Parse
  <2>1. /\ probe = "opened" /\ rfd' = "none" /\ disk' = [disk EXCEPT !["kept"] = Absent]
        /\ fd' = [w \in Writer |-> IF fd[w] = "kept" THEN "lost" ELSE fd[w]]
        /\ UNCHANGED <<alive, asked, core, at, snap, met>>
        /\ probe' \in {"idle", "loaded"} /\ loads' \in {0, 1}
        /\ seen' \in {seen, disk[rfd]} /\ verdict' \in {verdict, "unhealthy"}
    BY <1>2 DEF Parse
  <2>2. disk' \in [Place -> Content] /\ disk'["kept"] = Absent
        /\ disk'["tmp"] = disk["tmp"] /\ disk'["health"] = disk["health"]
    BY <2>1, Contents DEF TypeOK, Place
  <2>3. disk[rfd] \in Content
    BY <2>1 DEF TypeOK, Place
  <2>4. \A w \in Writer : /\ fd'[w] \in Place \cup {"lost", "none"}
                          /\ (fd'[w] = "none" <=> fd[w] = "none") /\ (fd'[w] = "tmp" <=> fd[w] = "tmp")
    BY <2>1 DEF TypeOK
  <2>5. TypeOK'
    BY <2>1, <2>2, <2>3, <2>4 DEF TypeOK
  <2>6. ReadersSeeWhole' /\ Apart' /\ SnapsWhole' /\ Stopped'
    BY <2>1, <2>2, <2>4, Contents DEF ReadersSeeWhole, Apart, SnapsWhole, Stopped
  <2>7. QED
    BY <2>5, <2>6
<1>3. CASE Judge
  BY <1>3, Contents DEF Judge, TypeOK, ReadersSeeWhole, Apart, SnapsWhole, Stopped
<1>4. QED
  BY <1>1, <1>2, <1>3 DEF Probe

LEMMA HealthInv == Spec => []HInv
<1>1. Init => HInv
  <2> SUFFICES ASSUME Init PROVE HInv
    OBVIOUS
  <2> USE DEF Init
  <2>1. 0 \in Core /\ Stamp(0) \in Content /\ Stamp(0).form = "whole"
    BY Contents DEF Core
  <2>2. TypeOK
    BY <2>1, Contents DEF TypeOK
  <2>3. ReadersSeeWhole
    BY Contents DEF ReadersSeeWhole, Place
  <2>4. Apart /\ SnapsWhole /\ Stopped
    BY <2>1 DEF Apart, SnapsWhole, Stopped, Writing, Writer
  <2>5. QED
    BY <2>2, <2>3, <2>4 DEF HInv
<1>2. HInv /\ [Next]_vars => HInv'
  <2> SUFFICES ASSUME HInv, [Next]_vars PROVE HInv'
    OBVIOUS
  <2>1. ASSUME NEW w \in Writer, Write(w) PROVE HInv'
    BY <2>1, OpenStep, WriteStep, FailStep, RenameStep DEF Write
  <2>2. CASE Probe
    BY <2>2, ProbeStep
  <2>3. CASE UNCHANGED vars
    BY <2>3 DEF vars, writers, reader, HInv, TypeOK, ReadersSeeWhole, Apart, SnapsWhole, Stopped
  <2>4. QED
    BY <2>1, <2>2, <2>3, SupervisorStep DEF Next, Heartbeat, Writer
<1>3. QED
  BY <1>1, <1>2, PTL DEF Spec

\* The types; a writer has a file open exactly while it is between opening and
\* writing.
THEOREM HealthTypes == Spec => []TypeOK
<1>1. HInv => TypeOK
  BY DEF HInv
<1>2. QED
  BY <1>1, HealthInv, PTL

\* Unless both writers had the temporary file open at once, a reader finds a whole
\* snapshot, wherever any supervisor was killed and whichever write failed.
THEOREM ReadersFindWhole == Spec => []ReadersSeeWhole
<1>1. HInv => ReadersSeeWhole
  BY DEF HInv
<1>2. QED
  BY <1>1, HealthInv, PTL
=============================================================================
