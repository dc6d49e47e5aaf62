----------------------------- MODULE StoreProofs -----------------------------
(***************************************************************************)
(* The store across process lives, proved for every number of cores, every *)
(* set of binaries and every number of outbox items.                       *)
(***************************************************************************)
EXTENDS Store, FiniteSetTheorems, SequenceTheorems, TLAPS

\* The schema is the version's prefix of the migrations, and no core that is past
\* the reading of user_version has read more than there is.
Schema ==
  /\ SchemaWhole
  /\ \A c \in Core : pc[c] \notin {"down", "open"} => current[c] <= rows.version

\* What an open transaction has written so far, by where its writer is.
WithTable(c) == [rows EXCEPT !.applied = @ \cup {current[c] + 1}]
WithVersion(c) == [WithTable(c) EXCEPT !.version = current[c] + 1]
WithMark(c) == [rows EXCEPT !.done = @ \cup {Head(batch[c])}]
WithEvent(c) == [WithMark(c) EXCEPT !.events[Head(batch[c])] = @ + 1]

Drafted ==
  \A c \in Core :
    /\ writer = c => pc[c] \in {"version", "commit", "event", "seal"}
    /\ pc[c] = "version" => current[c] = rows.version /\ draft = WithTable(c)
    /\ pc[c] = "commit" => current[c] = rows.version /\ draft = WithVersion(c)
    /\ pc[c] = "event" => draft = WithMark(c)
    /\ pc[c] = "seal" => draft = WithEvent(c)

\* The outbox lists each of its items once.
Listed ==
  /\ \A n \in DOMAIN rows.order : rows.order[n] <= Len(rows.order)
  /\ \A n, m \in DOMAIN rows.order : rows.order[n] = rows.order[m] => n = m

\* A core alone goes through a batch of distinct items none of which is done.
Alone ==
  ~overlapped =>
    /\ \A c, d \in Core : Up(c) /\ Up(d) => c = d
    /\ \A c \in Core :
         /\ \A j \in DOMAIN batch[c] : batch[c][j] \notin rows.done
         /\ \A j, k \in DOMAIN batch[c] : batch[c][j] = batch[c][k] => j = k

Batches == \A c \in Core : pc[c] \in Draining <=> batch[c] # <<>>

SInv == TypeOK /\ Schema /\ Drafted /\ Listed /\ Alone /\ Batches /\ DrainedOnce

-----------------------------------------------------------------------------
\* Rows with one of their parts changed are rows.
LEMMA RowsExcept ==
  ASSUME NEW r \in Rows
  PROVE  /\ \A m \in Nat : [r EXCEPT !.applied = @ \cup {m}] \in Rows
         /\ \A m \in Nat : [r EXCEPT !.version = m] \in Rows
         /\ \A i \in Item : [r EXCEPT !.done = @ \cup {i}] \in Rows
         /\ \A i \in Item : [r EXCEPT !.events[i] = @ + 1] \in Rows
         /\ \A s \in Seq(Item) : [r EXCEPT !.order = s] \in Rows
<1> USE DEF Rows
<1>1. \A m \in Nat : [r EXCEPT !.applied = @ \cup {m}] \in Rows
  OBVIOUS
<1>2. \A m \in Nat : [r EXCEPT !.version = m] \in Rows
  OBVIOUS
<1>3. \A i \in Item : [r EXCEPT !.done = @ \cup {i}] \in Rows
  OBVIOUS
<1>4. \A i \in Item : [r EXCEPT !.events[i] = @ + 1] \in Rows
  <2> SUFFICES ASSUME NEW i \in Item PROVE [r EXCEPT !.events[i] = @ + 1] \in Rows
    OBVIOUS
  <2>1. r.events[i] + 1 \in Nat
    OBVIOUS
  <2>2. [r.events EXCEPT ![i] = r.events[i] + 1] \in [Item -> Nat]
    BY <2>1
  <2>3. QED
    BY <2>2
<1>5. \A s \in Seq(Item) : [r EXCEPT !.order = s] \in Rows
  OBVIOUS
<1>6. QED
  BY <1>1, <1>2, <1>3, <1>4, <1>5

\* Whoever writes has the lock; nobody else is in a transaction.
LEMMA WriteTypes ==
  ASSUME TypeOK, NEW c \in Core, NEW r \in Rows, Write(c, r),
         NEW p \in {"version", "commit", "event", "seal"}, Go(c, p),
         UNCHANGED <<knows, current, batch, overlapped>>
  PROVE  TypeOK'
  BY StoreAssumption DEF TypeOK, Write, Go

LEMMA RollbackTypes ==
  ASSUME TypeOK, NEW c \in Core, Rollback(c),
         NEW p \in {"down", "run"}, Go(c, p), batch' = [batch EXCEPT ![c] = <<>>],
         UNCHANGED <<knows, current, overlapped>>
  PROVE  TypeOK'
  BY StoreAssumption DEF TypeOK, Rollback, Go

LEMMA StartTypes == ASSUME TypeOK, NEW c \in Core, Start(c) PROVE TypeOK'
<1>1. overlapped' \in BOOLEAN
  <2>1. overlapped' = (overlapped \/ \E d \in Core : Up(d))
    BY Zenon DEF Start
  <2>2. QED
    BY <2>1, Zenon
<1>2. knows' \in [Core -> Known]
  BY DEF Start, TypeOK
<1>3. pc' = [pc EXCEPT ![c] = "open"] /\ pc[c] = "down" /\ UNCHANGED <<db, current, batch>>
  BY DEF Start, Go, Up
<1>4. QED
  BY <1>1, <1>2, <1>3 DEF TypeOK, db

\* What a step does to the variables keeps their types.
LEMMA BootTypes ==
  ASSUME TypeOK, NEW c \in Core,
         Open(c) \/ Apply(c) \/ Advance(c) \/ CommitMigration(c) \/ Migrated(c)
  PROVE  TypeOK'
<1>0. /\ draft \in Rows /\ current[c] \in Nat /\ current[c] + 1 \in Nat
      /\ rows.version \in Nat
  BY DEF TypeOK, Rows
<1>1. CASE Open(c)
  BY <1>0, <1>1 DEF Open, TypeOK, Go, db
<1>2. CASE Apply(c)
  <2>1. /\ Write(c, [draft EXCEPT !.applied = @ \cup {current[c] + 1}])
        /\ Go(c, "version") /\ UNCHANGED <<knows, current, batch, overlapped>>
    BY <1>2 DEF Apply
  <2>2. [draft EXCEPT !.applied = @ \cup {current[c] + 1}] \in Rows
    BY <1>0, RowsExcept
  <2>3. QED
    BY <2>1, <2>2, WriteTypes
<1>3. CASE Advance(c)
  <2>1. [draft EXCEPT !.version = current[c] + 1] \in Rows
    BY <1>0, RowsExcept
  <2>2. QED
    BY <1>3, <2>1, WriteTypes DEF Advance
<1>4. CASE CommitMigration(c)
  BY <1>4, StoreAssumption DEF CommitMigration, Commit, TypeOK, Go
<1>5. CASE Migrated(c)
  BY <1>5 DEF Migrated, TypeOK, Go, db
<1>6. QED
  BY <1>1, <1>2, <1>3, <1>4, <1>5

\* A batch in work has a first item.
LEMMA HeadOfBatch ==
  ASSUME TypeOK, Batches, NEW c \in Core, pc[c] \in Draining
  PROVE  /\ batch[c] \in Seq(Item) /\ batch[c] # <<>>
         /\ Head(batch[c]) = batch[c][1] /\ Head(batch[c]) \in Item
         /\ Tail(batch[c]) \in Seq(Item) /\ Len(batch[c]) \in Nat \ {0}
         /\ Len(Tail(batch[c])) = Len(batch[c]) - 1
         /\ \A j \in 1 .. Len(Tail(batch[c])) : Tail(batch[c])[j] = batch[c][j + 1]
<1>1. batch[c] \in Seq(Item) /\ batch[c] # <<>>
  BY DEF TypeOK, Batches
<1>2. QED
  BY <1>1, HeadTailProperties, EmptySeq, LenProperties

LEMMA OutboxTypes ==
  ASSUME TypeOK, Batches, NEW c \in Core,
         Mark(c) \/ AppendEvent(c) \/ Seal(c) \/ Fail(c) \/ Crash(c)
  PROVE  TypeOK'
<1>0. draft \in Rows
  BY DEF TypeOK
<1>1. CASE Mark(c)
  <2>1. [draft EXCEPT !.done = @ \cup {Head(batch[c])}] \in Rows
    BY <1>0, <1>1, HeadOfBatch, RowsExcept DEF Mark, Draining
  <2>2. QED
    BY <1>1, <2>1, WriteTypes DEF Mark
<1>2. CASE AppendEvent(c)
  <2>1. [draft EXCEPT !.events[Head(batch[c])] = @ + 1] \in Rows
    BY <1>0, <1>2, HeadOfBatch, RowsExcept DEF AppendEvent, Draining
  <2>2. QED
    BY <1>2, <2>1, WriteTypes DEF AppendEvent
<1>3. CASE Seal(c)
  <2>1. Tail(batch[c]) \in Seq(Item)
    BY <1>3, HeadOfBatch DEF Seal, Draining
  <2>2. QED
    BY <1>3, <2>1, StoreAssumption DEF Seal, Commit, TypeOK, Go
<1>4. CASE Fail(c)
  BY <1>4, RollbackTypes DEF Fail
<1>5. CASE Crash(c)
  BY <1>5, RollbackTypes DEF Crash
<1>6. QED
  BY <1>1, <1>2, <1>3, <1>4, <1>5

\* The rows of a batch, in their order, are distinct items that are not done.
LEMMA DrainedBatch ==
  ASSUME TypeOK, Listed, NEW c \in Core, Drain(c)
  PROVE  \E b \in Seq(Item) :
           /\ batch' = [batch EXCEPT ![c] = b] /\ b # <<>>
           /\ \A j \in DOMAIN b : b[j] \notin rows.done
           /\ \A j, k \in DOMAIN b : b[j] = b[k] => j = k
<1>0. rows.order \in Seq(Item) /\ Len(rows.order) \in Nat
      /\ DOMAIN rows.order = 1 .. Len(rows.order)
  BY DEF TypeOK, Rows
<1>1. \A n \in Pending : n \in DOMAIN rows.order /\ rows.order[n] \notin rows.done
  BY DEF Pending, Oldest
<1>2. IsFiniteSet(Pending)
  <2>1. Pending \in SUBSET (1 .. Len(rows.order))
    BY <1>0, <1>1
  <2>2. IsFiniteSet(1 .. Len(rows.order))
    BY <1>0, FS_Interval
  <2>3. QED
    BY <2>1, <2>2, FS_Subset
<1>3. Pending # {} /\ Cardinality(Pending) \in Nat \ {0}
  BY <1>2, FS_CardinalityType, FS_EmptySet DEF Drain
<1>4. PICK p \in [1 .. Cardinality(Pending) -> Pending] :
        /\ \A j, k \in DOMAIN p : j < k => p[j] < p[k]
        /\ batch' = [batch EXCEPT ![c] = [j \in DOMAIN p |-> rows.order[p[j]]]]
  BY DEF Drain
<1> DEFINE b == [j \in DOMAIN p |-> rows.order[p[j]]]
<1>5. DOMAIN p = 1 .. Cardinality(Pending) /\ DOMAIN b = 1 .. Cardinality(Pending)
  OBVIOUS
<1>6. \A j \in DOMAIN b : b[j] \in Item /\ b[j] = rows.order[p[j]] /\ p[j] \in Pending
  BY <1>0, <1>1, <1>5
<1>7. b \in Seq(Item) /\ Len(b) = Cardinality(Pending)
  BY <1>3, <1>5, <1>6, IsASeq
<1>8. b # <<>>
  BY <1>3, <1>7, EmptySeq
<1>9. \A j, k \in DOMAIN b : b[j] = b[k] => j = k
  <2> SUFFICES ASSUME NEW j \in DOMAIN b, NEW k \in DOMAIN b, b[j] = b[k], j # k PROVE FALSE
    OBVIOUS
  <2>1. p[j] = p[k]
    BY <1>1, <1>6 DEF Listed
  <2>2. j \in Nat /\ k \in Nat /\ (j < k \/ k < j)
    BY <1>3, <1>5
  <2>3. p[j] \in Nat
    BY <1>0, <1>1, <1>6
  <2>4. QED
    BY <1>4, <1>5, <2>1, <2>2, <2>3
<1>10. QED
  BY <1>1, <1>4, <1>6, <1>7, <1>8, <1>9

LEMMA DrainTypes == ASSUME TypeOK, Listed, NEW c \in Core, Drain(c) PROVE TypeOK'
  BY DrainedBatch, ZenonT(40) DEF Drain, TypeOK, Go, db

\* An item that is put takes a place of its own among the rows.
LEMMA PutRows ==
  ASSUME TypeOK, Listed, Put
  PROVE  /\ TypeOK' /\ Listed'
         /\ \E s \in Seq(Item) : rows' = [rows EXCEPT !.order = s]
<1> DEFINE o == rows.order
           i == Len(o) + 1
<1>0. /\ rows \in Rows /\ o \in Seq(Item) /\ Len(o) \in Nat /\ DOMAIN o = 1 .. Len(o)
      /\ i \in Item /\ \A k \in 1 .. Len(o) : o[k] \in Item
  <2>1. rows \in Rows /\ o \in Seq(Item)
    BY DEF TypeOK, Rows
  <2>2. i \in Item
    BY DEF Put
  <2>3. QED
    BY <2>1, <2>2, LenProperties
<1>1. PICK n \in 0 .. Len(o) :
        rows' = [rows EXCEPT !.order = SubSeq(o, 1, n) \o <<i>> \o SubSeq(o, n + 1, Len(o))]
  BY DEF Put
<1> DEFINE s == SubSeq(o, 1, n) \o <<i>> \o SubSeq(o, n + 1, Len(o))
<1>2. /\ s \in Seq(Item) /\ Len(s) = Len(o) + 1
      /\ \A k \in 1 .. Len(s) : s[k] = IF k <= n THEN o[k] ELSE IF k = n + 1 THEN i ELSE o[k - 1]
  <2>0. n \in Int /\ n + 1 \in Int /\ Len(o) \in Int /\ 1 \in Int
    BY <1>0
  <2>1. /\ SubSeq(o, 1, n) \in Seq(Item) /\ Len(SubSeq(o, 1, n)) = n
        /\ \A k \in 1 .. n : SubSeq(o, 1, n)[k] = o[k]
    BY <1>0, <2>0, SubSeqProperties
  <2>2. /\ SubSeq(o, n + 1, Len(o)) \in Seq(Item) /\ Len(SubSeq(o, n + 1, Len(o))) = Len(o) - n
        /\ \A k \in 1 .. Len(o) - n : SubSeq(o, n + 1, Len(o))[k] = o[n + k]
    BY <1>0, <2>0, SubSeqProperties
  <2>3. <<i>> \in Seq(Item) /\ Len(<<i>>) = 1 /\ <<i>>[1] = i
    BY <1>0
  <2> DEFINE a == SubSeq(o, 1, n)
             z == SubSeq(o, n + 1, Len(o))
             t == <<i>>
  <2> HIDE DEF a, z, t, i, o
  <2>4. /\ a \o t \in Seq(Item) /\ Len(a \o t) = n + 1
        /\ \A k \in 1 .. n + 1 : (a \o t)[k] = IF k <= n THEN o[k] ELSE i
    BY <1>0, <2>1, <2>3, ConcatProperties DEF a, t
  <2>5. /\ (a \o t) \o z \in Seq(Item) /\ Len((a \o t) \o z) = Len(o) + 1
        /\ \A k \in 1 .. Len(o) + 1 : ((a \o t) \o z)[k] =
              IF k <= n THEN o[k] ELSE IF k = n + 1 THEN i ELSE o[k - 1]
    <3>1. z \in Seq(Item) /\ Len(z) = Len(o) - n /\ \A k \in 1 .. Len(o) - n : z[k] = o[n + k]
      BY <2>2 DEF z
    <3>2. /\ (a \o t) \o z \in Seq(Item) /\ Len((a \o t) \o z) = Len(a \o t) + Len(z)
          /\ \A k \in 1 .. Len(a \o t) + Len(z) : ((a \o t) \o z)[k] =
                IF k <= Len(a \o t) THEN (a \o t)[k] ELSE z[k - Len(a \o t)]
      BY <2>4, <3>1, ConcatProperties
    <3>3. ASSUME NEW k \in 1 .. Len(o) + 1
          PROVE  ((a \o t) \o z)[k] = IF k <= n THEN o[k] ELSE IF k = n + 1 THEN i ELSE o[k - 1]
      <4>1. CASE k <= n + 1
        BY <1>0, <2>4, <3>1, <3>2, <4>1
      <4>2. CASE k > n + 1
        <5>1. ((a \o t) \o z)[k] = z[k - (n + 1)] /\ k - (n + 1) \in 1 .. Len(o) - n
          BY <1>0, <2>4, <3>1, <3>2, <4>2
        <5>2. n + (k - (n + 1)) = k - 1
          BY <1>0
        <5>3. QED
          BY <1>0, <3>1, <4>2, <5>1, <5>2
      <4>3. k <= n + 1 \/ k > n + 1
        BY <1>0
      <4>4. QED
        BY <4>1, <4>2, <4>3
    <3>4. QED
      BY <1>0, <2>4, <3>1, <3>2, <3>3
  <2>6. QED
    BY <2>5 DEF a, z, t, i, o
<1> HIDE DEF s
<1>3. rows' = [rows EXCEPT !.order = s] /\ rows' \in Rows /\ rows'.order = s
  BY <1>0, <1>1, <1>2, RowsExcept DEF s, Rows
<1>4. Listed'
  <2>1. \A k \in 1 .. Len(o) : o[k] \in Nat /\ o[k] <= Len(o)
    BY <1>0 DEF Listed, Item
  <2>2. DOMAIN s = 1 .. Len(o) + 1
    BY <1>2, LenProperties
  <2>3. \A k, m \in 1 .. Len(o) : o[k] = o[m] => k = m
    BY <1>0 DEF Listed
  <2>4. ASSUME NEW k \in 1 .. Len(o) + 1
        PROVE  \/ k <= n /\ k \in 1 .. Len(o) /\ s[k] = o[k]
               \/ k = n + 1 /\ s[k] = Len(o) + 1
               \/ k > n + 1 /\ k - 1 \in 1 .. Len(o) /\ s[k] = o[k - 1]
    BY <1>0, <1>2
  <2> HIDE DEF o
  <2>5. \A k \in 1 .. Len(o) + 1 : s[k] <= Len(o) + 1
    BY <1>0, <2>1, <2>4
  <2>6. ASSUME NEW k \in 1 .. Len(o) + 1, NEW m \in 1 .. Len(o) + 1, s[k] = s[m]
        PROVE  k = m
    <3>1. \A h \in 1 .. Len(o) : o[h] # Len(o) + 1
      BY <1>0, <2>1
    <3>2. k \in Nat /\ m \in Nat /\ n \in Nat
      BY <1>0
    <3>3. QED
      BY <2>3, <2>4, <2>6, <3>1, <3>2
  <2>7. QED
    BY <1>2, <1>3, <2>2, <2>5, <2>6 DEF Listed
<1>5. TypeOK'
  BY <1>3, StoreAssumption DEF Put, TypeOK
<1>6. QED
  BY <1>2, <1>3, <1>4, <1>5

-----------------------------------------------------------------------------
\* What is committed matters to Listed and DrainedOnce only.
LEMMA SameRows ==
  ASSUME SInv, UNCHANGED rows, overlapped => overlapped'
  PROVE  Listed' /\ DrainedOnce' /\ rows'.applied = 1 .. rows'.version
<1>1. Listed'
  BY DEF SInv, Listed
<1>2. DrainedOnce'
  BY DEF SInv, DrainedOnce
<1>3. QED
  BY <1>1, <1>2 DEF SInv, Schema, SchemaWhole

\* What a transaction has written so far is the matter of its writer.
LEMMA SameDraft ==
  ASSUME SInv, NEW d \in Core, UNCHANGED <<rows, draft>>, pc'[d] = pc[d],
         current'[d] = current[d], batch'[d] = batch[d]
  PROVE  /\ pc'[d] = "version" => current'[d] = rows'.version /\ draft' = WithTable(d)'
         /\ pc'[d] = "commit" => current'[d] = rows'.version /\ draft' = WithVersion(d)'
         /\ pc'[d] = "event" => draft' = WithMark(d)'
         /\ pc'[d] = "seal" => draft' = WithEvent(d)'
<1>1. /\ WithTable(d)' = WithTable(d) /\ WithMark(d)' = WithMark(d)
  BY DEF WithTable, WithMark
<1>2. /\ WithVersion(d)' = WithVersion(d) /\ WithEvent(d)' = WithEvent(d)
  BY <1>1 DEF WithVersion, WithEvent
<1>3. QED
  BY <1>1, <1>2 DEF SInv, Drafted

LEMMA StartStep == ASSUME SInv, NEW c \in Core, Start(c) PROVE SInv'
<1>0. TypeOK /\ TypeOK'
  BY StartTypes DEF SInv
<1>1. /\ pc[c] = "down" /\ pc' = [pc EXCEPT ![c] = "open"]
      /\ UNCHANGED <<rows, draft, writer, current, batch>>
      /\ \E n \in Known : knows' = [knows EXCEPT ![c] = n]
  BY DEF Start, Go, Up, db
<1>2. (overlapped => overlapped') /\ (~overlapped' => ~overlapped /\ \A d \in Core : ~Up(d))
  BY Zenon DEF Start
<1>3. Listed' /\ DrainedOnce' /\ rows'.applied = 1 .. rows'.version
  BY <1>1, <1>2, SameRows
<1>4. Schema'
  <2>1. \A d \in Core : d # c => pc'[d] = pc[d] /\ knows'[d] = knows[d]
    BY <1>0, <1>1 DEF TypeOK
  <2>2. pc'[c] = "open"
    BY <1>0, <1>1 DEF TypeOK
  <2>3. QED
    BY <1>1, <1>3, <2>1, <2>2 DEF SInv, Schema, SchemaWhole, Serving, Draining
<1>5. Drafted'
  BY <1>0, <1>1, ZenonT(40) DEF SInv, Drafted, TypeOK, WithTable, WithVersion, WithMark, WithEvent
<1>6. Alone'
  BY <1>0, <1>1, <1>2 DEF SInv, Alone, Up, TypeOK
<1>7. Batches'
  BY <1>0, <1>1 DEF SInv, Batches, Draining, TypeOK
<1>8. QED
  BY <1>0, <1>3, <1>4, <1>5, <1>6, <1>7 DEF SInv

\* Opening and migrating.
LEMMA BootStep ==
  ASSUME SInv, NEW c \in Core,
         Open(c) \/ Apply(c) \/ Advance(c) \/ CommitMigration(c) \/ Migrated(c)
  PROVE  SInv'
<1>0. TypeOK /\ TypeOK'
  BY BootTypes DEF SInv
<1>1. /\ current[c] \in Nat /\ rows.version \in Nat /\ rows \in Rows /\ draft \in Rows
      /\ \A d \in Core : current[d] \in Nat /\ knows[d] \in Nat
  BY <1>0, StoreAssumption DEF TypeOK, Rows
<1>2. UNCHANGED <<batch, overlapped, knows>> /\ \E p : pc' = [pc EXCEPT ![c] = p]
  BY DEF Open, Apply, Advance, CommitMigration, Migrated, Go
<1>3. pc[c] \in {"open", "migrate", "version", "commit"} /\ pc'[c] \notin Draining
  BY <1>0 DEF Open, Apply, Advance, CommitMigration, Migrated, Go, Draining, TypeOK
<1>4. \A d \in Core : d # c => pc'[d] = pc[d]
  BY <1>0, <1>2 DEF Go, TypeOK
<1>5. Batches'
  BY <1>0, <1>2, <1>3, <1>4 DEF SInv, Batches, Draining
<1>6. rows'.done = rows.done => Alone'
  <2>1. \A d \in Core : Up(d)' => Up(d)
    BY <1>3, <1>4 DEF Up
  <2>2. QED
    BY <1>2, <2>1 DEF SInv, Alone
<1>7. CASE Open(c) \/ Migrated(c)
  <2>1. UNCHANGED <<rows, draft, writer>>
    BY <1>7 DEF Open, Migrated, db
  <2>2. \A d \in Core : d # c => current'[d] = current[d]
    BY <1>0, <1>7 DEF Open, Migrated, TypeOK
  <2>3. writer # c /\ writer' # c
    BY <1>7, <2>1 DEF SInv, Drafted, Open, Migrated
  <2>4. Listed' /\ DrainedOnce' /\ rows'.applied = 1 .. rows'.version
    BY <1>2, <2>1, SameRows
  <2>5. /\ pc'[c] \in {"migrate", "run"} /\ current'[c] <= rows.version
        /\ pc'[c] = "run" => knows[c] <= rows.version
    BY <1>0, <1>1, <1>7 DEF Open, Migrated, Go, TypeOK, SInv, Schema
  <2>6. Schema'
    BY <1>2, <1>4, <2>1, <2>2, <2>4, <2>5 DEF SInv, Schema, SchemaWhole, Serving, Draining
  <2>7. Drafted'
    <3>1. ASSUME NEW d \in Core, d # c
          PROVE  /\ writer' = d => pc'[d] \in {"version", "commit", "event", "seal"}
                 /\ pc'[d] = "version" => current'[d] = rows'.version /\ draft' = WithTable(d)'
                 /\ pc'[d] = "commit" => current'[d] = rows'.version /\ draft' = WithVersion(d)'
                 /\ pc'[d] = "event" => draft' = WithMark(d)'
                 /\ pc'[d] = "seal" => draft' = WithEvent(d)'
      BY <1>2, <1>4, <2>1, <2>2, <3>1, SameDraft DEF SInv, Drafted
    <3>2. QED
      BY <2>3, <2>5, <3>1 DEF Drafted
  <2>8. QED
    BY <1>0, <1>5, <1>6, <2>1, <2>4, <2>6, <2>7 DEF SInv
<1>8. CASE Apply(c) \/ Advance(c)
  <2>1. writer \in {Nobody, c} /\ writer' = c /\ UNCHANGED <<rows, current>>
    BY <1>8 DEF Apply, Advance, Write
  <2>2. \A d \in Core : d # c => pc[d] \notin {"version", "commit", "event", "seal"}
    BY <1>0, <2>1, StoreAssumption DEF TypeOK
  <2>3. Listed' /\ DrainedOnce' /\ rows'.applied = 1 .. rows'.version
    BY <1>2, <2>1, SameRows
  <2>4. Schema'
    BY <1>2, <1>3, <1>4, <2>1, <2>3, <1>8
    DEF SInv, Schema, SchemaWhole, Serving, Draining, Apply, Advance, Go, TypeOK
  <2>5. CASE Apply(c)
    <3>1. draft = rows /\ draft' = [rows EXCEPT !.applied = @ \cup {current[c] + 1}]
      BY <1>0, <2>1, <2>5, StoreAssumption DEF Apply, Write, TypeOK, SInv, Drafted
    <3>2. current[c] = rows.version
      <4>1. current[c] <= rows.version /\ current[c] + 1 \notin 1 .. rows.version
        BY <2>5, <3>1 DEF SInv, Schema, SchemaWhole, Apply
      <4>2. QED
        BY <1>1, <4>1
    <3>3. pc'[c] = "version"
      BY <1>0, <2>5 DEF Apply, Go, TypeOK
    <3>4. Drafted'
      BY <1>4, <2>1, <2>2, <3>1, <3>2, <3>3, StoreAssumption DEF Drafted, WithTable
    <3>5. QED
      BY <1>0, <1>5, <1>6, <2>1, <2>3, <2>4, <3>4 DEF SInv
  <2>6. CASE Advance(c)
    <3>1. current[c] = rows.version /\ draft' = [WithTable(c) EXCEPT !.version = current[c] + 1]
      BY <2>6 DEF Advance, Write, SInv, Drafted
    <3>2. pc'[c] = "commit"
      BY <1>0, <2>6 DEF Advance, Go, TypeOK
    <3>3. Drafted'
      BY <1>4, <2>1, <2>2, <3>1, <3>2, StoreAssumption DEF Drafted, WithTable, WithVersion
    <3>4. QED
      BY <1>0, <1>5, <1>6, <2>1, <2>3, <2>4, <3>3 DEF SInv
  <2>7. QED
    BY <1>8, <2>5, <2>6
<1>9. CASE CommitMigration(c)
  <2>1. /\ pc[c] = "commit" /\ writer = c /\ writer' = Nobody
        /\ current[c] = rows.version /\ current' = [current EXCEPT ![c] = @ + 1]
        /\ rows' = WithVersion(c) /\ draft' = rows'
    BY <1>0, <1>9 DEF CommitMigration, Commit, SInv, Drafted, TypeOK
  <2>2. /\ rows'.version = rows.version + 1 /\ rows'.applied = rows.applied \cup {rows.version + 1}
        /\ rows'.done = rows.done /\ rows'.events = rows.events /\ rows'.order = rows.order
    BY <1>1, <2>1 DEF WithVersion, WithTable, Rows
  <2>3. pc'[c] = "migrate"
    BY <1>0, <1>9 DEF CommitMigration, Go, TypeOK
  <2>4. \A d \in Core : d # c => pc[d] \notin {"version", "commit", "event", "seal"}
    BY <1>0, <2>1 DEF TypeOK
  <2>5. \A d \in Core : current'[d] = IF d = c THEN rows.version + 1 ELSE current[d]
    BY <1>0, <2>1 DEF TypeOK
  <2>6. Schema'
    <3>1. rows'.applied = 1 .. rows'.version
      BY <1>1, <2>2 DEF SInv, Schema, SchemaWhole
    <3>2. ASSUME NEW d \in Core, Serving(d)' PROVE knows'[d] <= rows'.version
      BY <1>1, <1>2, <1>4, <2>2, <2>3, <3>2 DEF SInv, Schema, SchemaWhole, Serving, Draining
    <3>3. ASSUME NEW d \in Core, pc'[d] \notin {"down", "open"} PROVE current'[d] <= rows'.version
      BY <1>1, <1>4, <2>2, <2>5, <3>3 DEF SInv, Schema
    <3>4. QED
      BY <3>1, <3>2, <3>3 DEF Schema, SchemaWhole
  <2>7. Drafted'
    BY <1>4, <2>1, <2>3, <2>4, StoreAssumption DEF Drafted
  <2>8. Listed' /\ DrainedOnce'
    BY <1>2, <2>2 DEF SInv, Listed, DrainedOnce
  <2>9. QED
    BY <1>0, <1>5, <1>6, <2>2, <2>6, <2>7, <2>8 DEF SInv
<1>10. QED
  BY <1>7, <1>8, <1>9

\* Going through a batch.
LEMMA OutboxStep ==
  ASSUME SInv, NEW c \in Core,
         Drain(c) \/ Mark(c) \/ AppendEvent(c) \/ Seal(c)
  PROVE  SInv'
<1>0. TypeOK /\ TypeOK'
  BY DrainTypes, OutboxTypes DEF SInv
<1>1. UNCHANGED <<current, overlapped, knows>> /\ \E p : pc' = [pc EXCEPT ![c] = p]
  BY DEF Drain, Mark, AppendEvent, Seal, Go
<1>2. Serving(c) /\ Serving(c)'
  BY <1>0 DEF Drain, Mark, AppendEvent, Seal, Serving, Draining, Go, TypeOK
<1>3. \A d \in Core : d # c => pc'[d] = pc[d] /\ batch'[d] = batch[d]
  BY <1>0, <1>1, DrainedBatch DEF SInv, Mark, AppendEvent, Seal, TypeOK
<1>4. rows'.applied = rows.applied /\ rows'.version = rows.version => Schema'
  <2>1. \A d \in Core : Serving(d)' => Serving(d)
    BY <1>2, <1>3 DEF Serving, Draining
  <2>2. pc[c] \notin {"down", "open"}
    BY <1>2 DEF Serving, Draining
  <2>3. QED
    BY <1>1, <1>3, <2>1, <2>2 DEF SInv, Schema, SchemaWhole
<1>5. \A d \in Core : Up(d)' <=> Up(d)
  BY <1>2, <1>3 DEF Up, Serving, Draining
<1>6. CASE Drain(c)
  <2>1. UNCHANGED <<rows, draft, writer>> /\ pc[c] = "run" /\ pc'[c] = "drain"
    BY <1>0, <1>6 DEF Drain, Go, TypeOK, db
  <2>2. PICK b \in Seq(Item) :
          /\ batch'[c] = b /\ b # <<>>
          /\ \A j \in DOMAIN b : b[j] \notin rows.done
          /\ \A j, k \in DOMAIN b : b[j] = b[k] => j = k
    BY <1>0, <1>6, DrainedBatch DEF SInv, TypeOK
  <2>3. Drafted'
    <3>1. ASSUME NEW d \in Core, d # c
          PROVE  /\ writer' = d => pc'[d] \in {"version", "commit", "event", "seal"}
                 /\ pc'[d] = "version" => current'[d] = rows'.version /\ draft' = WithTable(d)'
                 /\ pc'[d] = "commit" => current'[d] = rows'.version /\ draft' = WithVersion(d)'
                 /\ pc'[d] = "event" => draft' = WithMark(d)'
                 /\ pc'[d] = "seal" => draft' = WithEvent(d)'
      BY <1>1, <1>3, <2>1, <3>1, SameDraft DEF SInv, Drafted
    <3>2. writer' # c
      BY <2>1 DEF SInv, Drafted
    <3>3. QED
      BY <2>1, <3>1, <3>2 DEF Drafted
  <2>4. Alone'
    BY <1>1, <1>3, <1>5, <2>1, <2>2 DEF SInv, Alone
  <2>5. Batches'
    BY <1>3, <2>1, <2>2 DEF SInv, Batches, Draining
  <2>6. QED
    BY <1>0, <1>1, <1>4, <2>1, <2>3, <2>4, <2>5, SameRows DEF SInv
<1>7. CASE Mark(c) \/ AppendEvent(c)
  <2>1. writer \in {Nobody, c} /\ writer' = c /\ UNCHANGED <<rows, batch>>
    BY <1>7 DEF Mark, AppendEvent, Write
  <2>2. \A d \in Core : d # c => pc[d] \notin {"version", "commit", "event", "seal"}
    BY <1>0, <2>1, StoreAssumption DEF TypeOK
  <2>3. Alone'
    BY <1>1, <1>5, <2>1 DEF SInv, Alone
  <2>4. Batches'
    BY <1>0, <1>3, <1>7, <2>1 DEF SInv, Batches, Draining, Mark, AppendEvent, Go, TypeOK
  <2>5. CASE Mark(c)
    <3>1. draft = rows /\ draft' = [rows EXCEPT !.done = @ \cup {Head(batch[c])}]
      BY <1>0, <2>1, <2>5, StoreAssumption DEF Mark, Write, TypeOK, SInv, Drafted
    <3>2. pc'[c] = "event"
      BY <1>0, <2>5 DEF Mark, Go, TypeOK
    <3>3. Drafted'
      BY <1>3, <2>1, <2>2, <3>1, <3>2, StoreAssumption DEF Drafted, WithMark
    <3>4. QED
      BY <1>0, <1>1, <1>4, <2>1, <2>3, <2>4, <3>3, SameRows DEF SInv
  <2>6. CASE AppendEvent(c)
    <3>1. draft' = [WithMark(c) EXCEPT !.events[Head(batch[c])] = @ + 1]
      BY <2>6 DEF AppendEvent, Write, SInv, Drafted
    <3>2. pc'[c] = "seal"
      BY <1>0, <2>6 DEF AppendEvent, Go, TypeOK
    <3>3. Drafted'
      BY <1>3, <2>1, <2>2, <3>1, <3>2, StoreAssumption DEF Drafted, WithMark, WithEvent
    <3>4. QED
      BY <1>0, <1>1, <1>4, <2>1, <2>3, <2>4, <3>3, SameRows DEF SInv
  <2>7. QED
    BY <1>7, <2>5, <2>6
<1>8. CASE Seal(c)
  <2> DEFINE h == Head(batch[c])
  <2>1. /\ pc[c] = "seal" /\ writer = c /\ writer' = Nobody
        /\ rows' = WithEvent(c) /\ draft' = rows' /\ batch' = [batch EXCEPT ![c] = Tail(@)]
    BY <1>0, <1>8 DEF Seal, Commit, SInv, Drafted, TypeOK
  <2>2. /\ batch[c] \in Seq(Item) /\ batch[c] # <<>> /\ h = batch[c][1] /\ h \in Item
        /\ Tail(batch[c]) \in Seq(Item) /\ Len(batch[c]) \in Nat \ {0}
        /\ Len(Tail(batch[c])) = Len(batch[c]) - 1
        /\ \A j \in 1 .. Len(Tail(batch[c])) : Tail(batch[c])[j] = batch[c][j + 1]
    BY <1>0, <2>1, HeadOfBatch DEF SInv, Draining
  <2>3. rows \in Rows /\ rows.events \in [Item -> Nat] /\ rows.done \subseteq Item
    BY <1>0 DEF TypeOK, Rows
  <2>4. /\ rows'.version = rows.version /\ rows'.applied = rows.applied
        /\ rows'.order = rows.order /\ rows'.done = rows.done \cup {h}
        /\ rows'.events = [rows.events EXCEPT ![h] = @ + 1]
    BY <2>1, <2>3 DEF WithEvent, WithMark, Rows
  <2>5. pc'[c] = IF Len(batch[c]) = 1 THEN "run" ELSE "drain"
    BY <1>0, <1>8 DEF Seal, Go, TypeOK
  <2>6. batch'[c] = Tail(batch[c])
    BY <1>0, <2>1 DEF TypeOK
  <2>7. \A d \in Core : d # c => pc[d] \notin {"version", "commit", "event", "seal"}
    BY <1>0, <2>1 DEF TypeOK
  <2>8. Drafted'
    BY <1>3, <2>1, <2>5, <2>7, StoreAssumption DEF Drafted
  <2>9. Listed'
    BY <2>4 DEF SInv, Listed
  <2>10. Batches'
    <3>1. batch'[c] = <<>> <=> Len(batch[c]) = 1
      <4>1. batch'[c] \in Seq(Item) /\ Len(batch'[c]) = Len(batch[c]) - 1
        BY <2>2, <2>6
      <4>2. batch'[c] = <<>> => Len(batch'[c]) = 0
        BY EmptySeq
      <4>3. batch'[c] # <<>> => Len(batch'[c]) # 0
        BY <4>1, EmptySeq
      <4>4. QED
        BY <2>2, <4>1, <4>2, <4>3
    <3>2. QED
      BY <1>3, <2>5, <3>1 DEF SInv, Batches, Draining
  <2>11. Alone'
    <3> SUFFICES ASSUME ~overlapped
                 PROVE  /\ \A c1, d \in Core : Up(c1)' /\ Up(d)' => c1 = d
                        /\ \A d \in Core :
                             /\ \A j \in DOMAIN batch'[d] : batch'[d][j] \notin rows'.done
                             /\ \A j, k \in DOMAIN batch'[d] : batch'[d][j] = batch'[d][k] => j = k
      BY <1>1 DEF Alone
    <3>1. \A c1, d \in Core : Up(c1) /\ Up(d) => c1 = d
      BY DEF SInv, Alone
    <3>2. DOMAIN batch[c] = 1 .. Len(batch[c]) /\ DOMAIN Tail(batch[c]) = 1 .. Len(batch[c]) - 1
      BY <2>2, LenProperties
    <3>3. /\ \A j \in 1 .. Len(batch[c]) : batch[c][j] \notin rows.done
          /\ \A j, k \in 1 .. Len(batch[c]) : batch[c][j] = batch[c][k] => j = k
      BY <3>2 DEF SInv, Alone
    <3>4. ASSUME NEW j \in DOMAIN batch'[c] PROVE batch'[c][j] \notin rows'.done
      <4>1. j \in 1 .. Len(batch[c]) - 1 /\ j + 1 \in 1 .. Len(batch[c]) /\ j + 1 # 1
        BY <2>2, <2>6, <3>2, <3>4
      <4>2. batch'[c][j] = batch[c][j + 1]
        BY <2>2, <2>6, <4>1
      <4>3. batch[c][j + 1] # h
        BY <2>2, <3>3, <4>1
      <4>4. QED
        BY <2>4, <3>3, <4>1, <4>2, <4>3
    <3>5. ASSUME NEW j \in DOMAIN batch'[c], NEW k \in DOMAIN batch'[c], batch'[c][j] = batch'[c][k]
          PROVE  j = k
      <4>1. /\ j \in 1 .. Len(batch[c]) - 1 /\ j + 1 \in 1 .. Len(batch[c])
            /\ k \in 1 .. Len(batch[c]) - 1 /\ k + 1 \in 1 .. Len(batch[c])
        BY <2>2, <2>6, <3>2, <3>5
      <4>2. batch[c][j + 1] = batch[c][k + 1]
        BY <2>2, <2>6, <3>5, <4>1
      <4>3. j + 1 = k + 1
        BY <3>3, <4>1, <4>2
      <4>4. QED
        BY <4>1, <4>3
    <3>6. ASSUME NEW d \in Core, d # c PROVE DOMAIN batch'[d] = {}
      <4>1. pc[d] = "down"
        BY <1>2, <3>1, <3>6 DEF Up, Serving, Draining
      <4>2. batch'[d] = <<>>
        BY <1>3, <3>6, <4>1 DEF SInv, Batches, Draining
      <4>3. QED
        BY <4>2
    <3>7. \A c1, d \in Core : Up(c1)' /\ Up(d)' => c1 = d
      BY <1>5, <3>1
    <3>8. QED
      BY <3>4, <3>5, <3>6, <3>7
  <2>12. DrainedOnce'
    <3>1. ASSUME NEW i \in Item, i # h
          PROVE  (i \in rows'.done <=> rows'.events[i] > 0) /\ (rows'.events[i] <= 1 \/ overlapped')
      BY <1>1, <2>3, <2>4, <3>1 DEF SInv, DrainedOnce
    <3>2. h \in rows'.done /\ rows'.events[h] > 0
      BY <2>2, <2>3, <2>4
    <3>3. rows'.events[h] <= 1 \/ overlapped'
      <4> SUFFICES ASSUME ~overlapped PROVE rows'.events[h] <= 1
        BY <1>1
      <4>1. h \notin rows.done
        BY <2>2, LenProperties DEF SInv, Alone
      <4>2. rows.events[h] = 0
        BY <2>2, <2>3, <4>1 DEF SInv, DrainedOnce
      <4>3. QED
        BY <2>2, <2>3, <2>4, <4>2
    <3>4. QED
      BY <3>1, <3>2, <3>3 DEF DrainedOnce
  <2>13. QED
    BY <1>0, <1>4, <2>4, <2>8, <2>9, <2>10, <2>11, <2>12 DEF SInv
<1>9. QED
  BY <1>6, <1>7, <1>8

\* An item that is put is neither done nor in a batch that has been read.
LEMMA PutStep == ASSUME SInv, Put PROVE SInv'
<1>1. TypeOK' /\ Listed'
  BY PutRows DEF SInv
<1>2. /\ rows'.version = rows.version /\ rows'.applied = rows.applied
      /\ rows'.done = rows.done /\ rows'.events = rows.events
  BY PutRows DEF SInv, TypeOK, Rows
<1>3. UNCHANGED <<writer, pc, knows, current, batch, overlapped>> /\ writer = Nobody
  BY DEF Put
<1>4. \A c \in Core : pc[c] \notin {"version", "commit", "event", "seal"}
  BY <1>3, StoreAssumption DEF SInv, TypeOK
<1>5. Drafted'
  BY <1>3, <1>4, StoreAssumption DEF Drafted
<1>6. Schema' /\ Alone' /\ Batches' /\ DrainedOnce'
  BY <1>2, <1>3
  DEF SInv, Schema, SchemaWhole, Serving, Alone, Up, Batches, DrainedOnce
<1>7. QED
  BY <1>1, <1>5, <1>6 DEF SInv

\* Whatever fails, nothing uncommitted is left.
LEMMA AccidentStep == ASSUME SInv, NEW c \in Core, Fail(c) \/ Crash(c) PROVE SInv'
<1>0. TypeOK /\ TypeOK'
  BY OutboxTypes DEF SInv
<1>1. /\ UNCHANGED <<rows, knows, current, overlapped>> /\ batch' = [batch EXCEPT ![c] = <<>>]
      /\ Up(c) /\ \E p : pc' = [pc EXCEPT ![c] = p]
  BY DEF Fail, Crash, Rollback, Go, Up
<1>2. pc'[c] \in {"down", "run"} /\ (pc'[c] = "run" => Serving(c))
  BY <1>0 DEF Fail, Crash, Go, TypeOK, Serving
<1>3. \A d \in Core : d # c => pc'[d] = pc[d] /\ batch'[d] = batch[d]
  BY <1>0, <1>1 DEF TypeOK
<1>4. batch'[c] = <<>>
  BY <1>0, <1>1 DEF TypeOK
<1>5. /\ writer = c => writer' = Nobody
      /\ writer # c => UNCHANGED <<writer, draft>>
  BY DEF Fail, Crash, Rollback
<1>6. Schema'
  <2>1. pc[c] \notin {"down", "open"} \/ pc'[c] = "down"
    BY <1>2 DEF Serving, Draining
  <2>2. \A d \in Core : Serving(d)' => Serving(d)
    BY <1>2, <1>3 DEF Serving, Draining
  <2>3. QED
    BY <1>1, <1>2, <1>3, <2>1, <2>2 DEF SInv, Schema, SchemaWhole
<1>7. Drafted'
  <2>1. CASE writer = c
    <3>1. \A d \in Core : pc'[d] \notin {"version", "commit", "event", "seal"} /\ writer' # d
      BY <1>0, <1>2, <1>3, <1>5, <2>1, StoreAssumption DEF TypeOK
    <3>2. QED
      BY <3>1 DEF Drafted
  <2>2. CASE writer # c
    <3>1. writer' # c /\ draft' = draft /\ writer' = writer
      BY <1>5, <2>2
    <3>2. QED
      <4>1. ASSUME NEW d \in Core, d # c
            PROVE  /\ writer' = d => pc'[d] \in {"version", "commit", "event", "seal"}
                   /\ pc'[d] = "version" => current'[d] = rows'.version /\ draft' = WithTable(d)'
                   /\ pc'[d] = "commit" => current'[d] = rows'.version /\ draft' = WithVersion(d)'
                   /\ pc'[d] = "event" => draft' = WithMark(d)'
                   /\ pc'[d] = "seal" => draft' = WithEvent(d)'
        BY <1>1, <1>3, <3>1, <4>1, SameDraft DEF SInv, Drafted
      <4>2. QED
        BY <1>2, <3>1, <4>1 DEF Drafted
  <2>3. QED
    BY <2>1, <2>2
<1>8. Batches'
  BY <1>2, <1>3, <1>4 DEF SInv, Batches, Draining
<1>9. Alone'
  <2>1. \A d \in Core : Up(d)' => Up(d)
    BY <1>1, <1>3 DEF Up
  <2>2. \A d \in Core : batch'[d] = batch[d] \/ DOMAIN batch'[d] = {}
    BY <1>3, <1>4
  <2>3. QED
    BY <1>1, <2>1, <2>2 DEF SInv, Alone
<1>10. QED
  BY <1>0, <1>1, <1>6, <1>7, <1>8, <1>9, SameRows DEF SInv

\* The strengthened invariant holds of every behaviour.
LEMMA StoreInv == Spec => []SInv
<1>1. Init => SInv
  <2> SUFFICES ASSUME Init PROVE SInv
    OBVIOUS
  <2> USE StoreAssumption DEF Init
  <2>1. TypeOK
    <3>1. rows \in Rows
      BY DEF Rows
    <3>2. batch \in [Core -> Seq(Item)]
      BY EmptySeq
    <3>3. QED
      BY <3>1, <3>2 DEF TypeOK
  <2>2. Schema
    BY DEF Schema, SchemaWhole, Serving, Draining
  <2>3. Drafted /\ Listed /\ Alone /\ Batches
    BY DEF Drafted, Listed, Alone, Up, Batches, Draining
  <2>4. DrainedOnce
    BY DEF DrainedOnce
  <2>5. QED
    BY <2>1, <2>2, <2>3, <2>4 DEF SInv
<1>2. SInv /\ [Next]_vars => SInv'
  <2> SUFFICES ASSUME SInv, [Next]_vars PROVE SInv'
    OBVIOUS
  <2>1. ASSUME NEW c \in Core, Start(c) PROVE SInv'
    BY <2>1, StartStep
  <2>2. ASSUME NEW c \in Core, Step(c) PROVE SInv'
    BY <2>2, BootStep, OutboxStep, AccidentStep DEF Step, Conflict
  <2>3. ASSUME NEW c \in Core, Fail(c) \/ Crash(c) PROVE SInv'
    BY <2>3, AccidentStep
  <2>4. CASE Put
    BY <2>4, PutStep
  <2>5. CASE UNCHANGED vars
    BY <2>5, ZenonT(40) DEF vars, db, SInv, TypeOK, Schema, SchemaWhole, Serving, Drafted, WithTable,
       WithVersion, WithMark, WithEvent, Listed, Alone, Up, Batches, DrainedOnce
  <2>6. QED
    BY <2>1, <2>2, <2>3, <2>4, <2>5 DEF Next, Calm, Restart
<1>3. QED
  BY <1>1, <1>2, PTL DEF Spec

\* The types, and the lock: only who is in a transaction holds it, and without one
\* there is no draft.
THEOREM StoreTypes == Spec => []TypeOK
<1>1. SInv => TypeOK
  BY DEF SInv
<1>2. QED
  BY <1>1, StoreInv, PTL

\* Through every crash in a migration and every sequence of older and newer
\* binaries, next to one another or not, user_version tells exactly which
\* migrations the schema has, and no core serves on a schema it is ahead of.
THEOREM SchemaStaysWhole == Spec => []SchemaWhole
<1>1. SInv => SchemaWhole
  BY DEF SInv, Schema
<1>2. QED
  BY <1>1, StoreInv, PTL

\* An item is done exactly when its event is in the log, and it is there once
\* unless two cores were up at the same time.
THEOREM ItemsDrainOnce == Spec => []DrainedOnce
<1>1. SInv => DrainedOnce
  BY DEF SInv
<1>2. QED
  BY <1>1, StoreInv, PTL
=============================================================================
