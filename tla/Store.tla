-------------------------------- MODULE Store --------------------------------
(***************************************************************************)
(* The store across process lives: a core opens the database, migrates it  *)
(* (internal/storage/store.go, driver.go, migrate.go) and, after each      *)
(* cycle, drains the outbox (internal/core/kernel.go, DrainOutbox, over    *)
(* internal/storage/repos.go).                                             *)
(*                                                                         *)
(* A transaction is written statement by statement into a draft that only  *)
(* its commit publishes; SQLite admits one writer, the others wait, or     *)
(* fail after busy_timeout.  The process can die and a statement can fail  *)
(* anywhere.  Promotions and demotions start binaries that know more or    *)
(* fewer migrations, and a core whose supervisor was killed may still run  *)
(* when the next supervisor starts another.                                *)
(*                                                                         *)
(* Abstractions: an outbox item is a number; nothing puts items in yet, so *)
(* when it happens is free; a cycle itself is Kernel's matter.             *)
(***************************************************************************)
EXTENDS Integers, Sequences, FiniteSets

CONSTANTS
  Core,       \* core processes, one after the other or next to one another
  MayOverlap, \* may one start while another is up?
  Known,      \* by binary, the number of migrations it embeds
  DrainBatch, \* drainBatch
  MaxItems    \* bound: outbox items

Nobody == "nobody"

ASSUME StoreAssumption ==
  /\ IsFiniteSet(Core) /\ Core # {} /\ Nobody \notin Core /\ MayOverlap \in BOOLEAN
  /\ Known \subseteq Nat /\ Known # {}
  /\ DrainBatch \in Nat \ {0} /\ MaxItems \in Nat

Item == 1 .. MaxItems

VARIABLES
  rows,      \* what is committed
  draft,     \* what the open transaction makes of it
  writer,    \* whose transaction that is
  pc,        \* [Core -> where the process is]
  knows,     \* [Core -> Known], migrations of the binary
  current,   \* [Core -> Nat], local of Migrate
  batch,     \* [Core -> Seq(Item)], what DrainOutbox has yet to go through
  overlapped \* two cores were up at once at some time

db == <<rows, draft, writer>>
vars == <<db, pc, knows, current, batch, overlapped>>

\* user_version; the migrations whose tables are there; the outbox in the order
\* (created_at, id), those done, and their outbox.drained events.
Rows == [version : Nat, applied : SUBSET Nat, order : Seq(Item),
         done : SUBSET Item, events : [Item -> Nat]]

Up(c) == pc[c] # "down"
Draining == {"drain", "event", "seal"}
Serving(c) == pc[c] \in Draining \cup {"run"}

Init ==
  /\ rows = [version |-> 0, applied |-> {}, order |-> <<>>, done |-> {},
             events |-> [i \in Item |-> 0]]
  /\ draft = rows /\ writer = Nobody
  /\ pc = [c \in Core |-> "down"]
  /\ knows \in [Core -> Known]
  /\ current = [c \in Core |-> 0]
  /\ batch = [c \in Core |-> <<>>]
  /\ overlapped = FALSE

-----------------------------------------------------------------------------
Go(c, to) == pc' = [pc EXCEPT ![c] = to]

\* The first statement of a transaction that writes takes the lock.
Write(c, changed) ==
  /\ writer \in {Nobody, c}
  /\ writer' = c /\ draft' = changed
  /\ UNCHANGED rows

Commit == rows' = draft /\ writer' = Nobody /\ UNCHANGED draft

\* Rollback, by the code or by SQLite when the process is gone.
Rollback(c) ==
  /\ IF writer = c THEN writer' = Nobody /\ draft' = rows
                   ELSE UNCHANGED <<writer, draft>>
  /\ UNCHANGED rows

\* The supervisor starts a core, of the newest artifact or of an older one.
Start(c) ==
  /\ ~Up(c) /\ (MayOverlap \/ \A d \in Core : ~Up(d))
  /\ knows' \in {[knows EXCEPT ![c] = n] : n \in Known}
  /\ overlapped' = (overlapped \/ \E d \in Core : Up(d))
  /\ Go(c, "open")
  /\ UNCHANGED <<db, current, batch>>

\* NewStore: Open, then Migrate reads user_version.
Open(c) ==
  /\ pc[c] = "open"
  /\ current' = [current EXCEPT ![c] = rows.version]
  /\ Go(c, "migrate")
  /\ UNCHANGED <<db, knows, batch, overlapped>>

\* Mutant: tables are created where they do not exist.
ApplyIfNotExists(c) ==
  LET m == current[c] + 1
  IN  /\ pc[c] = "migrate" /\ m <= knows[c]
      /\ Write(c, [draft EXCEPT !.applied = @ \cup {m}])
      /\ Go(c, "version")
      /\ UNCHANGED <<knows, current, batch, overlapped>>

\* Migrate: the next migration of the binary. CREATE TABLE fails if another
\* core has come first, and the process exits: see Fail.
Apply(c) ==
  LET m == current[c] + 1
  IN  /\ pc[c] = "migrate" /\ m <= knows[c]
      /\ m \notin draft.applied
      /\ Write(c, [draft EXCEPT !.applied = @ \cup {m}])
      /\ Go(c, "version")
      /\ UNCHANGED <<knows, current, batch, overlapped>>

\* Mutant: the version is advanced after the commit of the schema, in a
\* transaction of its own.
AdvanceApart(c) ==
  /\ pc[c] = "version"
  /\ IF writer = c
     THEN Commit /\ UNCHANGED pc
     ELSE Write(c, [draft EXCEPT !.version = current[c] + 1]) /\ Go(c, "commit")
  /\ UNCHANGED <<knows, current, batch, overlapped>>

\* PRAGMA user_version, in the same transaction.
Advance(c) ==
  /\ pc[c] = "version"
  /\ Write(c, [draft EXCEPT !.version = current[c] + 1])
  /\ Go(c, "commit")
  /\ UNCHANGED <<knows, current, batch, overlapped>>

CommitMigration(c) ==
  /\ pc[c] = "commit"
  /\ Commit
  /\ current' = [current EXCEPT ![c] = @ + 1]
  /\ Go(c, "migrate")
  /\ UNCHANGED <<knows, batch, overlapped>>

\* Nothing is left to apply; a schema newer than the binary is no error.
Migrated(c) ==
  /\ pc[c] = "migrate" /\ current[c] >= knows[c]
  /\ Go(c, "run")
  /\ UNCHANGED <<db, knows, current, batch, overlapped>>

-----------------------------------------------------------------------------
\* OutboxRepo.Put in somebody's changeset: a random id, the second of now, so
\* that the item may come to stand anywhere.
Put ==
  LET i == Len(rows.order) + 1
  IN  /\ i \in Item /\ writer = Nobody /\ \E c \in Core : pc[c] = "run"
      /\ \E n \in 0 .. Len(rows.order) :
           rows' = [rows EXCEPT !.order =
                      SubSeq(@, 1, n) \o <<i>> \o SubSeq(@, n + 1, Len(@))]
      /\ draft' = rows'
      /\ UNCHANGED <<writer, pc, knows, current, batch, overlapped>>

\* The places of the oldest rows of a set, LIMIT drainBatch.
Oldest(S) == {n \in S : Cardinality({m \in S : m < n}) < DrainBatch}

\* Mutant: the limit counts the rows that are done.
PendingAfterLimit ==
  {n \in Oldest(DOMAIN rows.order) : rows.order[n] \notin rows.done}

\* OutboxRepo.Pending(drainBatch), as places.
Pending == Oldest({n \in DOMAIN rows.order : rows.order[n] \notin rows.done})

\* DrainOutbox after a cycle, failed or not; it gets the rows in their order.
Drain(c) ==
  /\ pc[c] = "run" /\ Pending # {}
  /\ \E p \in [1 .. Cardinality(Pending) -> Pending] :
       /\ \A j, k \in DOMAIN p : j < k => p[j] < p[k]
       /\ batch' = [batch EXCEPT ![c] = [j \in DOMAIN p |-> rows.order[p[j]]]]
  /\ Go(c, "drain")
  /\ UNCHANGED <<db, knows, current, overlapped>>

\* MarkDone: an UPDATE by id, whatever the row says by now.
Mark(c) ==
  /\ pc[c] = "drain"
  /\ Write(c, [draft EXCEPT !.done = @ \cup {Head(batch[c])}])
  /\ Go(c, "event")
  /\ UNCHANGED <<knows, current, batch, overlapped>>

\* Mutant: the event is appended in a changeset after the mark's.
AppendEventApart(c) ==
  /\ pc[c] = "event"
  /\ IF writer = c
     THEN Commit /\ UNCHANGED pc
     ELSE Write(c, [draft EXCEPT !.events[Head(batch[c])] = @ + 1]) /\ Go(c, "seal")
  /\ UNCHANGED <<knows, current, batch, overlapped>>

AppendEvent(c) ==
  /\ pc[c] = "event"
  /\ Write(c, [draft EXCEPT !.events[Head(batch[c])] = @ + 1])
  /\ Go(c, "seal")
  /\ UNCHANGED <<knows, current, batch, overlapped>>

\* The item's commit, and on to the next one of the batch.
Seal(c) ==
  /\ pc[c] = "seal"
  /\ Commit
  /\ batch' = [batch EXCEPT ![c] = Tail(@)]
  /\ Go(c, IF Len(batch[c]) = 1 THEN "run" ELSE "drain")
  /\ UNCHANGED <<knows, current, overlapped>>

-----------------------------------------------------------------------------
\* A statement or a commit fails: at boot the process exits; DrainOutbox gives
\* the batch up and starts again after the next cycle.
Fail(c) ==
  /\ pc[c] \notin {"down", "run"}
  /\ Rollback(c)
  /\ Go(c, IF pc[c] \in Draining THEN "run" ELSE "down")
  /\ batch' = [batch EXCEPT ![c] = <<>>]
  /\ UNCHANGED <<knows, current, overlapped>>

\* The migration is there already.
Conflict(c) ==
  /\ pc[c] = "migrate" /\ current[c] < knows[c]
  /\ writer = Nobody /\ current[c] + 1 \in rows.applied
  /\ Fail(c)

Crash(c) ==
  /\ Up(c) /\ Go(c, "down")
  /\ Rollback(c)
  /\ batch' = [batch EXCEPT ![c] = <<>>]
  /\ UNCHANGED <<knows, current, overlapped>>

Step(c) ==
  \/ Open(c) \/ Apply(c) \/ Advance(c) \/ CommitMigration(c) \/ Migrated(c)
  \/ Conflict(c) \/ Drain(c) \/ Mark(c) \/ AppendEvent(c) \/ Seal(c)

Restart == (\A c \in Core : ~Up(c)) /\ \E c \in Core : Start(c)
Calm == Restart \/ \E c \in Core : Step(c)
Next == Calm \/ Put \/ \E c \in Core : Start(c) \/ Fail(c) \/ Crash(c)

\* The supervisor restarts a core, and a core goes on.
Spec ==
  /\ Init /\ [][Next]_vars
  /\ WF_vars(Restart) /\ \A c \in Core : WF_vars(Step(c))

-----------------------------------------------------------------------------
\* Types; without an open transaction there is no draft.
TypeOK ==
  /\ rows \in Rows /\ draft \in Rows
  /\ writer \in Core \cup {Nobody}
  /\ pc \in [Core -> {"down", "open", "migrate", "version", "commit", "run",
                      "drain", "event", "seal"}]
  /\ knows \in [Core -> Known] /\ current \in [Core -> Nat]
  /\ batch \in [Core -> Seq(Item)]
  /\ overlapped \in BOOLEAN
  /\ writer = Nobody => draft = rows
  /\ \A c \in Core : pc[c] \in {"version", "commit", "event", "seal"} => writer = c

\* Whatever crashes in the middle of a migration, and whichever binaries, older
\* and newer, run it after or next to one another: user_version tells exactly
\* which migrations the schema has, each was applied once and in order, and no
\* core works on a schema that lacks one it knows.
SchemaWhole ==
  /\ rows.applied = 1 .. rows.version
  /\ \A c \in Core : Serving(c) => knows[c] <= rows.version

\* An outbox item is done if and only if its effect is in the event log, and it
\* is there once, through any failures, crashes and retries of the batch, unless
\* two cores were up at once.
DrainedOnce ==
  \A i \in Item :
    /\ i \in rows.done <=> rows.events[i] > 0
    /\ rows.events[i] <= 1 \/ overlapped

\* Once the accidents stop, a core gets to work, and every item is drained,
\* beyond the size of a batch and whatever failed before it.
EveryItemDrained ==
  <>[][Calm]_vars =>
    <>[]((\E c \in Core : Serving(c)) /\ Len(rows.order) = Cardinality(rows.done))
=============================================================================
