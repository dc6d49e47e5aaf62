----------------------------- MODULE QueueProofs -----------------------------
(***************************************************************************)
(* What the queue of a front is, for any delays, batches, clock and number *)
(* of lost outcomes.                                                       *)
(***************************************************************************)
EXTENDS Queue, FiniteSetTheorems, SequenceTheorems, WellFoundedInduction, TLAPS

\* A queue sorted by age, with one mark at most and none before one was given.
Line(q, c) ==
  /\ q \in Seq(Task)
  /\ \A i, j \in DOMAIN q : i <= j => q[i].ahead <= q[j].ahead
  /\ \A i, j \in DOMAIN q : q[i].mark /\ q[j].mark => i = j /\ c

\* Every task is RUNNING: in hand, or its outcome was lost.
Busy == \A i \in Places : queue[i].status = "RUNNING"

\* Between two cycles the last line of work is never one of lost outcomes alone:
\* else the replenisher would open one more than there may be.
QInv ==
  /\ TypeOK
  /\ pc \in {"idle", "queue"} /\ Busy => Len(queue) < MaxLines

-----------------------------------------------------------------------------
\* Numbers: the smaller of two, and the bounds of a wait.
LEMMA MinOfTwo ==
  ASSUME NEW a \in Int, NEW b \in Int
  PROVE  Min({a, b}) = IF a <= b THEN a ELSE b
<1> DEFINE m == IF a <= b THEN a ELSE b
<1>1. m \in {a, b} /\ \A y \in {a, b} : m <= y
  OBVIOUS
<1>2. \A x \in {a, b} : (\A y \in {a, b} : x <= y) => x = m
  OBVIOUS
<1>3. QED
  BY <1>1, <1>2 DEF Min

LEMMA WaitBounds ==
  /\ MaxWait \in Nat /\ MaxSkew \in Nat /\ MaxAhead \in Nat
  /\ RetryDelay \in 0 .. MaxWait /\ Backoff \in 0 .. MaxWait
  /\ MaxSkew <= MaxWait /\ MaxSkew <= MaxAhead + 1
  /\ MaxLines \in Nat \ {0} /\ ReconcileBatch \in Nat
<1> DEFINE m == IF RetryDelay >= Backoff THEN RetryDelay ELSE Backoff
<1>1. {RetryDelay, Backoff, MaxSkew, MaxAhead, ReconcileBatch} \subseteq Nat
  BY QueueAssumption
<1>2. m \in {RetryDelay, Backoff} /\ \A y \in {RetryDelay, Backoff} : m >= y
  BY <1>1
<1>3. \A x \in {RetryDelay, Backoff} :
        (\A y \in {RetryDelay, Backoff} : x >= y) => x = m
  BY <1>1
<1>4. Max({RetryDelay, Backoff}) = m
  BY <1>2, <1>3 DEF Max
<1>5. QED
  BY <1>1, <1>4, QueueAssumption DEF MaxWait

-----------------------------------------------------------------------------
\* The places of a queue, and the records in them.
LEMMA LineTypes ==
  ASSUME NEW q \in Seq(Task)
  PROVE  /\ Len(q) \in Nat /\ DOMAIN q = 1 .. Len(q)
         /\ \A i \in DOMAIN q :
              /\ q[i] \in Task
              /\ q[i].status \in {"READY", "RUNNING", "THROTTLED"}
              /\ q[i].wait \in NotSet .. MaxWait /\ q[i].ahead \in Earlier .. MaxAhead
              /\ q[i].mark \in BOOLEAN
<1>1. Len(q) \in Nat /\ DOMAIN q = 1 .. Len(q) /\ \A i \in DOMAIN q : q[i] \in Task
  BY LenProperties, ElementOfSeq
<1>2. QED
  BY <1>1 DEF Task

\* What changes tasks in their places, without marks or the order, keeps the line.
LEMMA LineRewritten ==
  ASSUME NEW q, NEW c, Line(q, c), NEW r \in [DOMAIN q -> Task],
         \A i \in DOMAIN q : r[i].mark => q[i].mark,
         \A i, j \in DOMAIN q : i <= j => r[i].ahead <= r[j].ahead
  PROVE  Line(r, c) /\ Len(r) = Len(q) /\ DOMAIN r = DOMAIN q
<1>1. Len(q) \in Nat /\ DOMAIN q = 1 .. Len(q)
  BY LineTypes DEF Line
<1>2. r \in Seq(Task) /\ Len(r) = Len(q) /\ DOMAIN r = DOMAIN q
  BY <1>1
<1>3. QED
  BY <1>2 DEF Line

\* A sequence with an element put in, and one with an element taken out.
PutAfter(q, n, t) == SubSeq(q, 1, n) \o <<t>> \o SubSeq(q, n + 1, Len(q))

HasAfter(s, q, n, t) ==
  /\ Len(s) = Len(q) + 1
  /\ \A k \in 1 .. Len(q) + 1 :
       s[k] = IF k <= n THEN q[k] ELSE IF k = n + 1 THEN t ELSE q[k - 1]

LEMMA PutIn ==
  ASSUME NEW S, NEW q \in Seq(S), NEW t \in S, NEW n \in 0 .. Len(q)
  PROVE  PutAfter(q, n, t) \in Seq(S) /\ HasAfter(PutAfter(q, n, t), q, n, t)
<1> DEFINE a == SubSeq(q, 1, n)
           b == SubSeq(q, n + 1, Len(q))
           d == a \o <<t>>
<1>1. /\ Len(q) \in Nat /\ n \in Int /\ n + 1 \in Int /\ Len(q) \in Int /\ 1 \in Int
      /\ \A k \in 1 .. Len(q) : q[k] \in S
  BY LenProperties, ElementOfSeq
<1>2. a \in Seq(S) /\ Len(a) = n /\ \A k \in 1 .. n : a[k] = q[k]
  BY <1>1, SubSeqProperties
<1>3. /\ b \in Seq(S) /\ Len(b) = Len(q) - n
      /\ \A k \in 1 .. Len(q) - n : b[k] = q[n + k]
  BY <1>1, SubSeqProperties
<1>4. <<t>> \in Seq(S) /\ Len(<<t>>) = 1 /\ <<t>>[1] = t
  OBVIOUS
<1> HIDE DEF a, b
<1>5. /\ d \in Seq(S) /\ Len(d) = n + 1
      /\ \A k \in 1 .. n + 1 : d[k] = IF k <= n THEN q[k] ELSE t
  BY <1>1, <1>2, <1>4, ConcatProperties
<1> HIDE DEF d
<1>6. /\ d \o b \in Seq(S) /\ Len(d \o b) = Len(d) + Len(b)
      /\ \A k \in 1 .. Len(d) + Len(b) :
           (d \o b)[k] = IF k <= Len(d) THEN d[k] ELSE b[k - Len(d)]
  BY <1>3, <1>5, ConcatProperties
<1>7. /\ Len(d \o b) = Len(q) + 1
      /\ \A k \in 1 .. Len(q) + 1 :
           (d \o b)[k] = IF k <= n THEN q[k] ELSE IF k = n + 1 THEN t ELSE q[k - 1]
  <2>1. Len(d \o b) = Len(q) + 1
    BY <1>1, <1>3, <1>5, <1>6
  <2>2. ASSUME NEW k \in 1 .. Len(q) + 1
        PROVE  (d \o b)[k] = IF k <= n THEN q[k] ELSE IF k = n + 1 THEN t ELSE q[k - 1]
    <3>1. CASE k <= n + 1
      BY <1>1, <1>3, <1>5, <1>6, <3>1
    <3>2. CASE k > n + 1
      <4>1. (d \o b)[k] = b[k - (n + 1)] /\ k - (n + 1) \in 1 .. Len(q) - n
        BY <1>1, <1>3, <1>5, <1>6, <3>2
      <4>2. n + (k - (n + 1)) = k - 1
        BY <1>1
      <4>3. QED
        BY <1>1, <1>3, <3>2, <4>1, <4>2
    <3>3. k <= n + 1 \/ k > n + 1
      BY <1>1
    <3>4. QED
      BY <3>1, <3>2, <3>3
  <2>3. QED
    BY <2>1, <2>2
<1>8. QED
  BY <1>6, <1>7 DEF a, b, d, PutAfter, HasAfter

LEMMA TakenOut ==
  ASSUME NEW S, NEW q \in Seq(S), NEW h \in 1 .. Len(q),
         NEW s, s = SubSeq(q, 1, h - 1) \o SubSeq(q, h + 1, Len(q))
  PROVE  /\ s \in Seq(S) /\ Len(s) = Len(q) - 1
         /\ \A k \in 1 .. Len(q) - 1 : s[k] = IF k < h THEN q[k] ELSE q[k + 1]
<1> DEFINE a == SubSeq(q, 1, h - 1)
           b == SubSeq(q, h + 1, Len(q))
<1>1. /\ Len(q) \in Nat /\ h - 1 \in Int /\ h + 1 \in Int /\ Len(q) \in Int /\ 1 \in Int
      /\ h \in Int /\ \A k \in 1 .. Len(q) : q[k] \in S
  BY LenProperties, ElementOfSeq
<1>2. a \in Seq(S) /\ Len(a) = h - 1 /\ \A k \in 1 .. h - 1 : a[k] = q[k]
  BY <1>1, SubSeqProperties
<1>3. /\ b \in Seq(S) /\ Len(b) = Len(q) - h
      /\ \A k \in 1 .. Len(q) - h : b[k] = q[h + k]
  BY <1>1, SubSeqProperties
<1> HIDE DEF a, b
<1>4. /\ a \o b \in Seq(S) /\ Len(a \o b) = Len(a) + Len(b)
      /\ \A k \in 1 .. Len(a) + Len(b) :
           (a \o b)[k] = IF k <= Len(a) THEN a[k] ELSE b[k - Len(a)]
  BY <1>2, <1>3, ConcatProperties
<1>5. /\ Len(a \o b) = Len(q) - 1
      /\ \A k \in 1 .. Len(q) - 1 : (a \o b)[k] = IF k < h THEN q[k] ELSE q[k + 1]
  <2>1. Len(a \o b) = Len(q) - 1
    BY <1>1, <1>2, <1>3, <1>4
  <2>2. ASSUME NEW k \in 1 .. Len(q) - 1
        PROVE  (a \o b)[k] = IF k < h THEN q[k] ELSE q[k + 1]
    <3>1. CASE k < h
      <4>1. k \in 1 .. h - 1 /\ k <= Len(a) /\ k \in 1 .. Len(a) + Len(b)
        BY <1>1, <1>2, <1>3, <3>1
      <4>2. (a \o b)[k] = a[k] /\ a[k] = q[k]
        BY <1>2, <1>4, <4>1
      <4>3. QED
        BY <3>1, <4>2
    <3>2. CASE k >= h
      <4> DEFINE m == k - (h - 1)
      <4>1. m \in 1 .. Len(q) - h /\ h + m = k + 1 /\ ~ (k <= h - 1)
        BY <1>1, <3>2
      <4>2. k \in 1 .. Len(a) + Len(b)
        BY <1>1, <1>2, <1>3
      <4>3. (a \o b)[k] = b[m]
        BY <1>2, <1>4, <4>1, <4>2
      <4> HIDE DEF m
      <4>4. b[m] = q[k + 1]
        BY <1>3, <4>1
      <4>5. QED
        BY <1>1, <3>2, <4>3, <4>4
    <3>3. k < h \/ k >= h
      BY <1>1
    <3>4. QED
      BY <3>1, <3>2, <3>3
  <2>3. QED
    BY <2>1, <2>2
<1>6. QED
  BY <1>4, <1>5 DEF a, b

\* Taking one task out keeps the line.
LEMMA LineWithout ==
  ASSUME NEW q, NEW c, Line(q, c), NEW h \in DOMAIN q
  PROVE  LET r == SubSeq(q, 1, h - 1) \o SubSeq(q, h + 1, Len(q))
         IN  Line(r, c) /\ Len(r) = Len(q) - 1
<1> DEFINE r == SubSeq(q, 1, h - 1) \o SubSeq(q, h + 1, Len(q))
           at(k) == IF k < h THEN k ELSE k + 1
<1>1. q \in Seq(Task) /\ Len(q) \in Nat /\ DOMAIN q = 1 .. Len(q) /\ h \in 1 .. Len(q)
  BY LineTypes DEF Line
<1>2. /\ r \in Seq(Task) /\ Len(r) = Len(q) - 1
      /\ \A k \in 1 .. Len(q) - 1 : r[k] = IF k < h THEN q[k] ELSE q[k + 1]
  BY <1>1, TakenOut, SMTT(30)
<1> HIDE DEF r
<1>3. DOMAIN r = 1 .. Len(q) - 1
  BY <1>2, LenProperties
<1>4. \A k \in DOMAIN r : at(k) \in DOMAIN q /\ r[k] = q[at(k)]
  BY <1>1, <1>2, <1>3
<1>5. \A i, j \in DOMAIN r : (i <= j => at(i) <= at(j)) /\ (at(i) = at(j) => i = j)
  BY <1>1, <1>3
<1> HIDE DEF at
<1>6. Line(r, c)
  BY <1>2, <1>4, <1>5 DEF Line
<1>7. QED
  BY <1>2, <1>6 DEF r

\* A task created now joins the line where its second is.
LEMMA LineJoined ==
  ASSUME NEW q, NEW c \in BOOLEAN, Line(q, c), NEW t \in Task,
         t.ahead = 0, t.mark => ~c, NEW s \in Enqueue(q, t)
  PROVE  /\ Line(s, c \/ t.mark) /\ Len(s) = Len(q) + 1
         /\ \E i \in DOMAIN s : s[i] = t
<1>1. /\ q \in Seq(Task) /\ Len(q) \in Nat /\ DOMAIN q = 1 .. Len(q)
      /\ \A i \in 1 .. Len(q) : q[i] \in Task /\ q[i].ahead \in Int
  <2>1. q \in Seq(Task)
    BY DEF Line
  <2>2. \A i \in DOMAIN q : q[i].ahead \in Earlier .. MaxAhead
    BY <2>1, LineTypes
  <2>3. QED
    BY <2>1, <2>2, LineTypes, WaitBounds DEF Earlier
<1>2. PICK n \in 0 .. Len(q) :
        /\ \A i \in 1 .. n : q[i].ahead <= 0
        /\ \A i \in n + 1 .. Len(q) : q[i].ahead >= 0
        /\ s = SubSeq(q, 1, n) \o <<t>> \o SubSeq(q, n + 1, Len(q))
  BY DEF Enqueue
<1> DEFINE at(k) == IF k <= n THEN k ELSE k - 1
<1>3. /\ s \in Seq(Task) /\ Len(s) = Len(q) + 1
      /\ \A k \in 1 .. Len(q) + 1 :
           s[k] = IF k <= n THEN q[k] ELSE IF k = n + 1 THEN t ELSE q[k - 1]
  <2>1. q \in Seq(Task) /\ t \in Task /\ n \in 0 .. Len(q)
    BY <1>1
  <2>2. s = PutAfter(q, n, t)
    BY <1>2 DEF PutAfter
  <2>3. s \in Seq(Task) /\ HasAfter(s, q, n, t)
    BY <2>1, <2>2, PutIn
  <2>4. QED
    BY <2>3 DEF HasAfter
<1>4. DOMAIN s = 1 .. Len(q) + 1
  BY <1>3, LenProperties
<1>5. /\ n + 1 \in DOMAIN s /\ s[n + 1] = t
      /\ \A k \in DOMAIN s : k # n + 1 => at(k) \in 1 .. Len(q) /\ s[k] = q[at(k)]
  BY <1>1, <1>3, <1>4
<1>6. \A i, j \in DOMAIN s : i # n + 1 /\ j # n + 1 =>
        (i <= j => at(i) <= at(j)) /\ (at(i) = at(j) => i = j)
  BY <1>1, <1>4
<1>7. \A i \in DOMAIN s : (i < n + 1 => s[i].ahead <= 0) /\ (i > n + 1 => s[i].ahead >= 0)
  <2> SUFFICES ASSUME NEW i \in DOMAIN s
               PROVE  (i < n + 1 => s[i].ahead <= 0) /\ (i > n + 1 => s[i].ahead >= 0)
    OBVIOUS
  <2>1. CASE i < n + 1
    <3>1. i \in 1 .. n /\ s[i] = q[i] /\ ~ (i > n + 1)
      BY <1>1, <1>3, <1>4, <2>1
    <3>2. QED
      BY <1>2, <3>1
  <2>2. CASE i > n + 1
    <3>1. i - 1 \in n + 1 .. Len(q) /\ s[i] = q[i - 1] /\ ~ (i < n + 1)
      BY <1>1, <1>3, <1>4, <2>2
    <3>2. QED
      BY <1>2, <3>1
  <2>3. QED
    BY <2>1, <2>2
<1> HIDE DEF at
<1>8. \A i, j \in DOMAIN s : i <= j => s[i].ahead <= s[j].ahead
  <2> SUFFICES ASSUME NEW i \in DOMAIN s, NEW j \in DOMAIN s, i <= j
               PROVE  s[i].ahead <= s[j].ahead
    OBVIOUS
  <2>1. CASE i # n + 1 /\ j # n + 1
    BY <1>1, <1>5, <1>6, <2>1 DEF Line
  <2>2. CASE i = n + 1
    BY <1>4, <1>5, <1>7, <2>2
  <2>3. CASE j = n + 1
    BY <1>4, <1>5, <1>7, <2>3
  <2>4. QED
    BY <2>1, <2>2, <2>3
<1>9. \A i, j \in DOMAIN s : s[i].mark /\ s[j].mark => i = j /\ (c \/ t.mark)
  <2> SUFFICES ASSUME NEW i \in DOMAIN s, NEW j \in DOMAIN s, s[i].mark, s[j].mark
               PROVE  i = j /\ (c \/ t.mark)
    OBVIOUS
  <2>1. CASE i # n + 1 /\ j # n + 1
    BY <1>1, <1>5, <1>6, <2>1 DEF Line
  <2>2. CASE i = n + 1 /\ j # n + 1
    <3>1. t.mark /\ ~c
      BY <1>5, <2>2
    <3>2. q[at(j)].mark /\ at(j) \in DOMAIN q
      BY <1>1, <1>5, <2>2
    <3>3. QED
      BY <3>1, <3>2 DEF Line
  <2>3. CASE j = n + 1 /\ i # n + 1
    <3>1. t.mark /\ ~c
      BY <1>5, <2>3
    <3>2. q[at(i)].mark /\ at(i) \in DOMAIN q
      BY <1>1, <1>5, <2>3
    <3>3. QED
      BY <3>1, <3>2 DEF Line
  <2>4. CASE i = n + 1 /\ j = n + 1
    BY <1>5, <2>4
  <2>5. QED
    BY <2>1, <2>2, <2>3, <2>4
<1>10. QED
  BY <1>3, <1>5, <1>8, <1>9 DEF Line

-----------------------------------------------------------------------------
\* The parts of TypeOK.
LEMMA LineOfTypes ==
  ASSUME TypeOK
  PROVE  /\ Line(queue, chosen) /\ chosen \in BOOLEAN
         /\ Len(queue) \in Nat /\ Len(queue) <= MaxLines /\ Places = 1 .. Len(queue)
         /\ \A i \in Places : queue[i] \in Task /\ queue[i].ahead \in Int
<1>1. queue \in Seq(Task) /\ Len(queue) <= MaxLines /\ chosen \in BOOLEAN
  BY DEF TypeOK
<1>2. Line(queue, chosen)
  BY DEF TypeOK, Line, Places
<1>3. \A i \in Places : queue[i].ahead \in Int
  BY <1>1, LineTypes, WaitBounds DEF Places, Earlier
<1>4. QED
  BY <1>1, <1>2, <1>3, LineTypes DEF Places

\* And the types from the parts, after a step that keeps the tasks.
LEMMA TypesOfLine ==
  ASSUME TypeOK, Line(queue', chosen), Len(queue') = Len(queue), UNCHANGED chosen,
         pc' \in {"down", "idle", "queue", "act"},
         hand' \in 0 .. Len(queue), hand' # 0 <=> pc' = "act",
         hand' # 0 => queue'[hand'].status = "RUNNING"
  PROVE  TypeOK'
<1>1. Len(queue') <= MaxLines /\ chosen' \in BOOLEAN
  BY LineOfTypes
<1>2. /\ queue' \in Seq(Task)
      /\ \A i, j \in Places' : i <= j => queue'[i].ahead <= queue'[j].ahead
      /\ \A i, j \in Places' : queue'[i].mark /\ queue'[j].mark => i = j /\ chosen'
  BY DEF Line, Places
<1>3. QED
  BY <1>1, <1>2 DEF TypeOK

\* Tasks with new statuses and waits, in their places.
Rewrites(r, q) ==
  /\ r \in [DOMAIN q -> Task]
  /\ \A i \in DOMAIN q : r[i].mark => q[i].mark
  /\ \A i \in DOMAIN q : r[i].ahead = q[i].ahead

LEMMA RewritesKeep ==
  ASSUME NEW q, NEW c, NEW r, Line(q, c), Rewrites(r, q)
  PROVE  Line(r, c) /\ Len(r) = Len(q) /\ DOMAIN r = DOMAIN q
<1>1. \A i, j \in DOMAIN q : i <= j => q[i].ahead <= q[j].ahead
  BY DEF Line
<1>2. \A i \in DOMAIN q : r[i].ahead = q[i].ahead
  BY DEF Rewrites
<1>3. \A i, j \in DOMAIN q : i <= j => r[i].ahead <= r[j].ahead
  BY <1>1, <1>2
<1>4. r \in [DOMAIN q -> Task] /\ \A i \in DOMAIN q : r[i].mark => q[i].mark
  BY DEF Rewrites
<1>5. QED
  BY <1>3, <1>4, LineRewritten

\* A step that does that while no task is in hand.
LEMMA InPlace ==
  ASSUME TypeOK, UNCHANGED chosen, hand' = 0, pc' \in {"down", "idle", "queue"},
         Rewrites(queue', queue)
  PROVE  TypeOK' /\ Len(queue') = Len(queue) /\ Places' = Places
<1>1. Line(queue', chosen) /\ Len(queue') = Len(queue) /\ Places' = Places
  BY LineOfTypes, RewritesKeep DEF Places
<1>2. hand' \in 0 .. Len(queue)
  BY LineOfTypes
<1>3. QED
  BY <1>1, <1>2, TypesOfLine

\* A status given to some places does that.
LEMMA StatusSet ==
  ASSUME TypeOK, NEW S, NEW s \in {"READY", "RUNNING", "THROTTLED"}
  PROVE  /\ Rewrites(SetStatus(S, s), queue)
         /\ \A i \in Places : SetStatus(S, s)[i].status = IF i \in S THEN s ELSE queue[i].status
<1>1. \A i \in Places : /\ [queue[i] EXCEPT !.status = s] \in Task
                       /\ [queue[i] EXCEPT !.status = s].status = s
                       /\ [queue[i] EXCEPT !.status = s].mark = queue[i].mark
                       /\ [queue[i] EXCEPT !.status = s].ahead = queue[i].ahead
  BY LineOfTypes DEF Task
<1> DEFINE t(i) == [queue[i] EXCEPT !.status = s]
<1>2. SetStatus(S, s) = [i \in Places |-> IF i \in S THEN t(i) ELSE queue[i]]
  BY DEF SetStatus
<1>3. \A i \in Places : queue[i] \in Task
  BY LineOfTypes
<1> HIDE DEF t
<1>4. \A i \in Places : /\ t(i) \in Task /\ t(i).status = s
                       /\ t(i).mark = queue[i].mark /\ t(i).ahead = queue[i].ahead
  BY <1>1 DEF t
<1>5. QED
  BY <1>2, <1>3, <1>4 DEF Rewrites, Places

\* The least of a set of places is among its first.
LEMMA FirstExists ==
  ASSUME NEW S \in SUBSET Nat, S # {}, NEW n \in Nat \ {0}
  PROVE  FirstOf(S, n) # {}
<1>1. PICK x \in S : \A y \in S : ~ (<<y, x>> \in OpToRel(<, Nat))
  BY WFMin, NatLessThanWellFounded, Zenon
<1>2. \A y \in S : ~ (y < x)
  BY <1>1, Zenon DEF OpToRel
<1>3. {j \in S : j < x} = {}
  BY <1>2
<1>4. Cardinality({j \in S : j < x}) < n
  BY <1>3, FS_EmptySet
<1>5. QED
  BY <1>4 DEF FirstOf

-----------------------------------------------------------------------------
\* A boot takes an orphan back, if there is one.
LEMMA BootStep ==
  ASSUME QInv, Boot, ReconcileBatch >= 1
  PROVE  QInv'
<1> DEFINE S == FirstOf(WithStatus("RUNNING"), ReconcileBatch)
<1>1. TypeOK /\ pc' = "idle" /\ hand' = 0 /\ UNCHANGED chosen
  BY DEF QInv, Boot, TypeOK
<1>2. queue' = SetStatus(S, "READY")
  BY DEF Boot
<1> HIDE DEF S
<1>3. /\ Rewrites(queue', queue)
      /\ \A i \in Places : queue'[i].status = IF i \in S THEN "READY" ELSE queue[i].status
  BY <1>1, <1>2, StatusSet
<1>4. TypeOK' /\ Len(queue') = Len(queue) /\ Places' = Places
  BY <1>1, <1>3, InPlace
<1>5. ASSUME Busy' PROVE Len(queue') < MaxLines
  <2>1. \A i \in Places : i \notin S /\ queue[i].status = "RUNNING"
    BY <1>3, <1>4, <1>5 DEF Busy
  <2>2. S = {} /\ WithStatus("RUNNING") = Places
    BY <2>1 DEF S, FirstOf, WithStatus
  <2>3. Places \in SUBSET Nat /\ ReconcileBatch \in Nat \ {0}
    BY <1>1, LineOfTypes, WaitBounds
  <2>4. Places = {}
    BY <2>2, <2>3, FirstExists DEF S
  <2>5. QED
    BY <1>1, <1>4, <2>4, LineOfTypes, WaitBounds
<1>6. QED
  BY <1>4, <1>5 DEF QInv

\* Revived tasks keep their place.
LEMMA TurnStep == ASSUME QInv, Turn PROVE QInv'
<1> DEFINE S == FirstOf(WithStatus("THROTTLED"), ReviveBatch)
           t(i) == [queue[i] EXCEPT !.status = "READY", !.wait = RetryDelay]
<1>1. TypeOK /\ pc = "idle" /\ pc' = "queue" /\ hand' = 0 /\ UNCHANGED chosen
  BY DEF QInv, Turn, TypeOK
<1>2. queue' = [i \in Places |-> IF i \in S THEN t(i) ELSE queue[i]]
  BY DEF Turn
<1>3. \A i \in Places : /\ t(i) \in Task /\ t(i).mark = queue[i].mark
                       /\ t(i).ahead = queue[i].ahead /\ t(i).status = "READY"
  <2>1. RetryDelay \in NotSet .. MaxWait
    BY WaitBounds DEF NotSet
  <2>2. QED
    BY <1>1, <2>1, LineOfTypes DEF Task
<1>4. \A i \in Places : queue[i] \in Task
  BY <1>1, LineOfTypes
<1> HIDE DEF t, S
<1>5. /\ Rewrites(queue', queue)
      /\ \A i \in Places : queue'[i].status = "RUNNING" => queue[i].status = "RUNNING"
  BY <1>2, <1>3, <1>4 DEF Rewrites, Places
<1>6. TypeOK' /\ Len(queue') = Len(queue) /\ Places' = Places
  BY <1>1, <1>5, InPlace
<1>7. Busy' => Busy
  BY <1>5, <1>6 DEF Busy
<1>8. QED
  BY <1>1, <1>6, <1>7 DEF QInv

\* The claimed task is RUNNING and in hand.
LEMMA ClaimStep == ASSUME QInv, Claim PROVE QInv'
<1>1. PICK i \in NextReady : queue' = SetStatus({i}, "RUNNING") /\ hand' = i
  BY DEF Claim
<1>2. TypeOK /\ i \in Places /\ pc' = "act" /\ UNCHANGED chosen
  BY <1>1 DEF QInv, Claim, NextReady, FirstOf, WithStatus
<1>3. Rewrites(queue', queue) /\ queue'[i].status = "RUNNING"
  BY <1>1, <1>2, StatusSet
<1>4. Line(queue', chosen) /\ Len(queue') = Len(queue)
  BY <1>2, <1>3, LineOfTypes, RewritesKeep
<1>5. hand' \in 0 .. Len(queue) /\ hand' # 0
  BY <1>1, <1>2, LineOfTypes
<1>6. TypeOK'
  BY <1>1, <1>2, <1>3, <1>4, <1>5, TypesOfLine
<1>7. QED
  BY <1>2, <1>6 DEF QInv

\* A task that is created gives the line one that is not RUNNING.
LEMMA CreateStep ==
  ASSUME NEW q, Line(q, chosen), chosen \in BOOLEAN, Len(q) \in Nat, Len(q) < MaxLines,
         Create(q), pc' = "idle", hand' = 0
  PROVE  QInv'
<1>1. PICK m \in {FALSE, ~chosen} :
        /\ queue' \in Enqueue(q, [status |-> "READY", wait |-> NotSet, ahead |-> 0,
                                  mark |-> m])
        /\ chosen' = (chosen \/ m)
  BY DEF Create
<1> DEFINE t == [status |-> "READY", wait |-> NotSet, ahead |-> 0, mark |-> m]
<1>2. m \in BOOLEAN /\ (m => ~chosen)
  OBVIOUS
<1>3. t \in Task /\ t.ahead = 0 /\ t.status = "READY" /\ t.mark = m
  <2>1. NotSet \in NotSet .. MaxWait /\ 0 \in Earlier .. MaxAhead
    BY WaitBounds DEF NotSet, Earlier
  <2>2. QED
    BY <1>2, <2>1 DEF Task
<1>4. queue' \in Enqueue(q, t)
  BY <1>1
<1> HIDE DEF t
<1>5. t.mark => ~chosen
  BY <1>2, <1>3
<1>6. /\ Line(queue', chosen \/ t.mark) /\ Len(queue') = Len(q) + 1
      /\ \E i \in DOMAIN queue' : queue'[i] = t
  BY <1>3, <1>4, <1>5, LineJoined
<1>7. Line(queue', chosen') /\ chosen' \in BOOLEAN
  BY <1>1, <1>2, <1>3, <1>6
<1>8. /\ queue' \in Seq(Task)
      /\ \A i, j \in Places' : i <= j => queue'[i].ahead <= queue'[j].ahead
      /\ \A i, j \in Places' : queue'[i].mark /\ queue'[j].mark => i = j /\ chosen'
  BY <1>7 DEF Line, Places
<1>9. Len(queue') <= MaxLines /\ 0 \in 0 .. Len(queue')
  BY <1>6, WaitBounds
<1>10. TypeOK'
  BY <1>7, <1>8, <1>9 DEF TypeOK
<1>11. ~Busy'
  BY <1>3, <1>6 DEF Busy, Places
<1>12. QED
  BY <1>10, <1>11 DEF QInv

\* The task in hand leaves, its child joins.
LEMMA EndStep == ASSUME QInv, End PROVE QInv'
<1> DEFINE q == SubSeq(queue, 1, hand - 1) \o SubSeq(queue, hand + 1, Len(queue))
<1>1. TypeOK /\ pc = "act" /\ pc' = "idle" /\ hand' = 0 /\ Create(q)
  BY DEF QInv, End
<1>2. hand \in DOMAIN queue
  BY <1>1, LineOfTypes DEF TypeOK, Places
<1>3. Line(q, chosen) /\ Len(q) = Len(queue) - 1
  BY <1>1, <1>2, LineOfTypes, LineWithout
<1>4. Len(queue) \in Nat /\ Len(queue) # 0
  BY <1>1, <1>2, LineOfTypes DEF Places
<1> HIDE DEF q
<1>5. Len(q) \in Nat /\ Len(q) < MaxLines /\ chosen \in BOOLEAN
  BY <1>1, <1>3, <1>4, LineOfTypes, WaitBounds
<1>6. QED
  BY <1>1, <1>3, <1>5, CreateStep

\* The task in hand is given back.
LEMMA GiveBackStep == ASSUME QInv, Throttle \/ Retry PROVE QInv'
<1>1. TypeOK /\ pc = "act" /\ pc' = "idle" /\ hand' = 0 /\ UNCHANGED chosen
  BY DEF QInv, Throttle, Retry
<1>2. hand \in Places
  BY <1>1, LineOfTypes DEF TypeOK
<1>3. Rewrites(queue', queue) /\ queue'[hand].status # "RUNNING"
  <2>1. CASE Throttle
    <3>1. queue' = SetStatus({hand}, "THROTTLED")
      BY <2>1 DEF Throttle
    <3>2. QED
      BY <1>1, <1>2, <3>1, StatusSet
  <2>2. CASE Retry
    <3> DEFINE t == [queue[hand] EXCEPT !.status = "READY", !.wait = Backoff]
    <3>1. \A i \in Places : queue[i] \in Task
      BY <1>1, LineOfTypes
    <3>2. queue' = [queue EXCEPT ![hand] = t]
      BY <2>2 DEF Retry
    <3>3. Backoff \in NotSet .. MaxWait
      BY WaitBounds DEF NotSet
    <3>4. /\ t \in Task /\ t.status = "READY"
          /\ t.mark = queue[hand].mark /\ t.ahead = queue[hand].ahead
      BY <1>2, <3>1, <3>3 DEF Task
    <3> HIDE DEF t
    <3>5. queue \in [Places -> Task]
      BY <1>1, <3>1, LineTypes DEF TypeOK, Places
    <3>6. /\ queue' \in [Places -> Task] /\ queue'[hand] = t
          /\ \A i \in Places : i # hand => queue'[i] = queue[i]
      BY <1>2, <3>2, <3>4, <3>5
    <3>7. QED
      BY <3>4, <3>6 DEF Rewrites, Places
  <2>3. QED
    BY <2>1, <2>2
<1>4. TypeOK' /\ Places' = Places
  BY <1>1, <1>3, InPlace
<1>5. ~Busy'
  BY <1>2, <1>3, <1>4 DEF Busy
<1>6. QED
  BY <1>4, <1>5 DEF QInv

\* Nothing waits: every line of work is one of lost outcomes.
LEMMA ReplenishStep == ASSUME QInv, Replenish PROVE QInv'
<1>1. TypeOK /\ pc = "queue" /\ pc' = "idle" /\ hand' = 0 /\ Create(queue) /\ ~HasWaiting
  BY DEF QInv, Replenish, TypeOK
<1>2. Busy
  <2>1. \A i \in Places : queue[i].status \in {"READY", "RUNNING", "THROTTLED"}
    BY <1>1, LineTypes DEF TypeOK, Places
  <2>2. \A i \in Places : queue[i].status # "READY" /\ queue[i].status # "THROTTLED"
    BY <1>1 DEF HasWaiting, WithStatus
  <2>3. QED
    BY <2>1, <2>2 DEF Busy
<1>3. Len(queue) < MaxLines
  BY <1>1, <1>2 DEF QInv
<1>4. QED
  BY <1>1, <1>3, LineOfTypes, CreateStep

\* The steps that leave the queue alone.
LEMMA QuietStep == ASSUME QInv, Wait \/ Derail \/ Crash PROVE QInv'
<1>1. TypeOK /\ UNCHANGED <<queue, chosen>> /\ hand' = 0
  BY DEF QInv, Wait, Derail, Crash, TypeOK
<1>2. pc' \in {"down", "idle"}
  BY DEF Wait, Derail, Crash
<1>3. 0 \in 0 .. Len(queue)
  BY <1>1, LineOfTypes
<1>4. TypeOK'
  BY <1>1, <1>2, <1>3, LineOfTypes, TypesOfLine
<1>5. pc' = "idle" /\ Busy => Len(queue) < MaxLines
  BY DEF QInv, Wait, Derail, Crash
<1>6. Busy' = Busy
  BY <1>1 DEF Busy, Places
<1>7. QED
  BY <1>1, <1>2, <1>4, <1>5 DEF QInv, Busy, Places

-----------------------------------------------------------------------------
\* A step of the clock changes how far things are away, in order.
LEMMA ClockKeeps ==
  ASSUME QInv, UNCHANGED <<pc, hand, chosen>>, queue' \in [Places -> Task],
         \A i \in Places : queue'[i].mark => queue[i].mark,
         \A i \in Places : queue'[i].status = queue[i].status,
         \A i, j \in Places : i <= j => queue'[i].ahead <= queue'[j].ahead
  PROVE  QInv'
<1>1. TypeOK
  BY DEF QInv
<1>2. Line(queue', chosen) /\ Len(queue') = Len(queue) /\ Places' = Places
  BY <1>1, LineOfTypes, LineRewritten DEF Places
<1>3. /\ pc' \in {"down", "idle", "queue", "act"}
      /\ hand' \in 0 .. Len(queue) /\ (hand' # 0 <=> pc' = "act")
  BY <1>1 DEF TypeOK
<1>4. hand' # 0 => queue'[hand'].status = "RUNNING"
  <2>1. hand # 0 => hand \in Places /\ queue[hand].status = "RUNNING"
    BY <1>1, LineOfTypes DEF TypeOK
  <2>2. QED
    BY <2>1
<1>5. TypeOK'
  BY <1>1, <1>2, <1>3, <1>4, TypesOfLine
<1>6. Busy' => Busy
  BY <1>2 DEF Busy
<1>7. QED
  BY <1>2, <1>5, <1>6 DEF QInv

\* Time passes.
LEMMA ElapseStep == ASSUME QInv, Elapse PROVE QInv'
<1> DEFINE w(i) == IF queue[i].wait > 0 THEN queue[i].wait - 1 ELSE queue[i].wait
           a(i) == IF queue[i].ahead > Earlier THEN queue[i].ahead - 1 ELSE queue[i].ahead
           t(i) == [queue[i] EXCEPT !.wait = w(i), !.ahead = a(i)]
<1>1. TypeOK /\ UNCHANGED <<pc, hand, chosen>>
  BY DEF QInv, Elapse
<1>2. queue' = [i \in Places |-> t(i)]
  BY DEF Elapse
<1>3. \A i \in Places : /\ queue[i] \in Task /\ queue[i].wait \in NotSet .. MaxWait
                       /\ queue[i].ahead \in Earlier .. MaxAhead
  BY <1>1, LineTypes DEF TypeOK, Places
<1>4. \A i \in Places : w(i) \in NotSet .. MaxWait /\ a(i) \in Earlier .. MaxAhead
  BY <1>3, WaitBounds DEF NotSet, Earlier
<1>5. \A i, j \in Places : i <= j => a(i) <= a(j)
  <2>1. \A i, j \in Places : i <= j => queue[i].ahead <= queue[j].ahead
    BY <1>1, LineOfTypes DEF Line, Places
  <2>2. QED
    BY <1>3, <2>1, WaitBounds DEF Earlier
<1> HIDE DEF w, a
<1>6. \A i \in Places : /\ t(i) \in Task /\ t(i).mark = queue[i].mark
                       /\ t(i).status = queue[i].status /\ t(i).ahead = a(i)
  BY <1>3, <1>4 DEF Task
<1> HIDE DEF t
<1>7. /\ queue' \in [Places -> Task]
      /\ \A i \in Places : queue'[i].mark => queue[i].mark
      /\ \A i \in Places : queue'[i].status = queue[i].status
  BY <1>2, <1>6
<1>8. \A i, j \in Places : i <= j => queue'[i].ahead <= queue'[j].ahead
  BY <1>2, <1>5, <1>6
<1>9. QED
  BY <1>1, <1>7, <1>8, ClockKeeps

\* The clock steps back: what comes to lie ahead is the end of the queue, and no
\* further ahead than what did before.
LEMMA ClockBackStep == ASSUME QInv, ClockBack PROVE QInv'
<1>1. TypeOK /\ UNCHANGED <<pc, hand, chosen>>
  BY DEF QInv, ClockBack
<1>2. PICK d \in 1 .. MaxSkew, k \in 1 .. Len(queue), e \in 0 .. MaxSkew :
        /\ e <= d
        /\ queue' = [i \in Places |->
             [queue[i] EXCEPT
                !.wait = IF @ = NotSet THEN @ ELSE IF @ = 0 THEN e
                         ELSE Min({@ + d, MaxWait}),
                !.ahead = IF @ # Earlier THEN Min({@ + d, MaxAhead})
                          ELSE IF i < k THEN @ ELSE d - 1]]
  BY DEF ClockBack
<1> DEFINE w(i) == IF queue[i].wait = NotSet THEN queue[i].wait
                   ELSE IF queue[i].wait = 0 THEN e ELSE Min({queue[i].wait + d, MaxWait})
           a(i) == IF queue[i].ahead # Earlier THEN Min({queue[i].ahead + d, MaxAhead})
                   ELSE IF i < k THEN queue[i].ahead ELSE d - 1
           t(i) == [queue[i] EXCEPT !.wait = w(i), !.ahead = a(i)]
<1>3. queue' = [i \in Places |-> t(i)]
  BY <1>2
<1>4. \A i \in Places : /\ queue[i] \in Task /\ queue[i].wait \in NotSet .. MaxWait
                       /\ queue[i].ahead \in Earlier .. MaxAhead /\ i \in Int
  BY <1>1, LineTypes, LineOfTypes DEF TypeOK, Places
<1>5. /\ MaxWait \in Nat /\ MaxAhead \in Nat /\ MaxSkew \in Nat /\ k \in Int
      /\ MaxSkew <= MaxWait /\ MaxSkew <= MaxAhead + 1
  BY WaitBounds
<1>6. ASSUME NEW i \in Places
      PROVE  /\ w(i) \in NotSet .. MaxWait
             /\ a(i) = IF queue[i].ahead # -1
                       THEN IF queue[i].ahead + d <= MaxAhead THEN queue[i].ahead + d
                            ELSE MaxAhead
                       ELSE IF i < k THEN -1 ELSE d - 1
             /\ a(i) \in Earlier .. MaxAhead
  <2>1. /\ queue[i].wait \in -1 .. MaxWait /\ queue[i].ahead \in -1 .. MaxAhead
        /\ queue[i].wait + d \in Int /\ queue[i].ahead + d \in Int
    BY <1>4, <1>5, SMTT(30) DEF NotSet, Earlier
  <2> DEFINE x == queue[i].wait + d
             y == queue[i].ahead + d
  <2>2. x \in Int /\ y \in Int
    BY <2>1
  <2> HIDE DEF x, y
  <2>3. Min({x, MaxWait}) = IF x <= MaxWait THEN x ELSE MaxWait
    BY <1>5, <2>2, MinOfTwo
  <2>4. Min({y, MaxAhead}) = IF y <= MaxAhead THEN y ELSE MaxAhead
    BY <1>5, <2>2, MinOfTwo
  <2>5. w(i) \in NotSet .. MaxWait
    <3>1. w(i) = IF queue[i].wait = -1 THEN -1 ELSE IF queue[i].wait = 0 THEN e
                 ELSE IF x <= MaxWait THEN x ELSE MaxWait
      BY <2>3 DEF NotSet, x
    <3>2. e \in 0 .. MaxWait
      BY <1>5
    <3>3. queue[i].wait # -1 => x \in Nat
      BY <2>1 DEF x
    <3>4. QED
      BY <1>5, <2>2, <3>1, <3>2, <3>3 DEF NotSet
  <2>6. a(i) = IF queue[i].ahead # -1
               THEN IF queue[i].ahead + d <= MaxAhead THEN queue[i].ahead + d ELSE MaxAhead
               ELSE IF i < k THEN -1 ELSE d - 1
    BY <2>4 DEF Earlier, y
  <2>7. a(i) \in Earlier .. MaxAhead
    BY <1>5, <2>1, <2>6 DEF Earlier
  <2>8. QED
    BY <2>5, <2>6, <2>7
<1> HIDE DEF w, a
<1>7. \A i, j \in Places : i <= j => a(i) <= a(j)
  <2> SUFFICES ASSUME NEW i \in Places, NEW j \in Places, i <= j PROVE a(i) <= a(j)
    OBVIOUS
  <2>1. queue[i].ahead <= queue[j].ahead
    BY <1>1, LineOfTypes DEF Line, Places
  <2>2. queue[i].ahead \in -1 .. MaxAhead /\ queue[j].ahead \in -1 .. MaxAhead
    BY <1>4 DEF Earlier
  <2>3. /\ a(i) = IF queue[i].ahead # -1
                  THEN IF queue[i].ahead + d <= MaxAhead THEN queue[i].ahead + d ELSE MaxAhead
                  ELSE IF i < k THEN -1 ELSE d - 1
        /\ a(j) = IF queue[j].ahead # -1
                  THEN IF queue[j].ahead + d <= MaxAhead THEN queue[j].ahead + d ELSE MaxAhead
                  ELSE IF j < k THEN -1 ELSE d - 1
    BY <1>6
  <2>4. i \in Int /\ j \in Int /\ d - 1 <= MaxAhead /\ d - 1 >= 0 /\ d \in Int
    BY <1>4, <1>5
  <2>5. CASE queue[i].ahead = -1 /\ i < k
    BY <1>5, <2>2, <2>3, <2>4, <2>5, SMTT(30)
  <2>6. CASE queue[i].ahead = -1 /\ ~ (i < k)
    <3>1. a(i) = d - 1 /\ ~ (j < k)
      BY <1>5, <2>3, <2>4, <2>6
    <3>2. QED
      BY <1>5, <2>2, <2>3, <2>4, <3>1
  <2>7. CASE queue[i].ahead # -1
    <3>1. queue[j].ahead # -1 /\ queue[i].ahead \in Int /\ queue[j].ahead \in Int
      BY <1>5, <2>1, <2>2, <2>7
    <3>2. QED
      BY <1>5, <2>1, <2>3, <2>4, <2>7, <3>1, SMTT(30)
  <2>8. QED
    BY <2>5, <2>6, <2>7
<1>8. \A i \in Places : /\ t(i) \in Task /\ t(i).mark = queue[i].mark
                       /\ t(i).status = queue[i].status /\ t(i).ahead = a(i)
  BY <1>4, <1>6 DEF Task
<1> HIDE DEF t
<1>9. /\ queue' \in [Places -> Task]
      /\ \A i \in Places : queue'[i].mark => queue[i].mark
      /\ \A i \in Places : queue'[i].status = queue[i].status
  BY <1>3, <1>8
<1>10. \A i, j \in Places : i <= j => queue'[i].ahead <= queue'[j].ahead
  BY <1>3, <1>7, <1>8
<1>11. QED
  BY <1>1, <1>9, <1>10, ClockKeeps

-----------------------------------------------------------------------------
LEMMA QueueInit == Init => QInv
<1> SUFFICES ASSUME Init PROVE QInv
  OBVIOUS
<1>1. queue = <<>> /\ pc = "down" /\ hand = 0 /\ chosen = FALSE
  BY DEF Init
<1>2. queue \in Seq(Task) /\ Len(queue) = 0 /\ Places = {}
  BY <1>1 DEF Places
<1>3. QED
  <2>1. 0 <= MaxLines /\ 0 \in 0 .. 0
    BY WaitBounds
  <2>2. TypeOK
    BY <1>1, <1>2, <2>1 DEF TypeOK
  <2>3. pc \notin {"idle", "queue"}
    BY <1>1
  <2>4. QED
    BY <2>2, <2>3 DEF QInv

LEMMA QueueStep ==
  ASSUME QInv, [Next]_vars, ReconcileBatch >= 1
  PROVE  QInv'
<1>1. CASE UNCHANGED vars
  BY <1>1 DEF vars, QInv, TypeOK, Busy, Places
<1>2. QED
  BY <1>1, BootStep, TurnStep, ClaimStep, EndStep, GiveBackStep, QuietStep,
     ReplenishStep, ElapseStep, ClockBackStep
  DEF Next, Calm, Work, Outcome

\* The queue of a front stays what it is, for any delays, batches and clock, and
\* however many outcomes are lost: sorted by age with one mark at most, the claimed
\* task RUNNING and in its place, and no more lines of work than lost outcomes
\* account for, as long as a boot takes back at least one orphan.
THEOREM QueueTypes == ASSUME ReconcileBatch >= 1 PROVE Spec => []TypeOK
<1>1. QInv /\ [Next]_vars => QInv'
  BY QueueStep
<1>2. QInv => TypeOK
  BY DEF QInv
<1>3. QED
  BY <1>1, <1>2, QueueInit, PTL DEF Spec
=============================================================================
