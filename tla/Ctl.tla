-------------------------------- MODULE Ctl ---------------------------------
(***************************************************************************)
(* `eon ctl` (internal/ctl/ctl.go): the operator reads the event log page  *)
(* by page, each page a query of its own, while the kernel appends to it.  *)
(*                                                                         *)
(* Abstractions: an event is its sequence number, which is its place in    *)
(* the log, and the number of the cycle it closes, 0 if it is no           *)
(* kernel.cycle event; the --task filter selects the events that close no  *)
(* cycle.  Inspect is its reads of kernel.cycle and of the last closed     *)
(* cycle, which a changeset of the kernel writes together.                 *)
(***************************************************************************)
EXTENDS Integers, Sequences, SequencesExt

CONSTANTS
  Page,     \* batchLimit
  MaxLog,   \* bound on the length of the log
  Limits    \* values of --limit; 0 is no limit

ASSUME CtlAssumption ==
  /\ Page \in Nat \ {0} /\ MaxLog \in Nat /\ Limits \subseteq Nat

VARIABLES
  log,     \* the cycle each event closes, or 0
  count,   \* kernel.cycle
  cmd,     \* the command that runs: timeline, inspect, or none
  after,   \* --after
  limit,   \* --limit
  task,    \* --task is given
  cursor,  \* the sequence number the next page starts at
  first,   \* bookkeeping: the length of the log at the first query
  shown,   \* the sequence numbers printed
  cycles,  \* what Inspect printed as cycles
  last     \* the event it printed as last, or 0

kernel == <<log, count>>
args == <<cmd, after, limit, task>>
screen == <<shown, cycles, last>>
vars == <<kernel, args, cursor, first, screen>>

-----------------------------------------------------------------------------
\* The queries of eventLog: pages of sequence numbers.
Down(n) == [i \in 1 .. (IF n < Page THEN n ELSE Page) |-> n + 1 - i]

\* Mutant: the walk begins at the start of the log.
LatestFromStart == [i \in 1 .. (IF Len(log) < Page THEN Len(log) ELSE Page) |-> i]

\* ORDER BY seq DESC.
Latest == Down(Len(log))

\* Mutant: seq <= cursor.
BeforeInclusive(seq) == Down(seq)

\* seq < cursor ORDER BY seq DESC.
Before(seq) == Down(seq - 1)

\* Mutant: the page is the newest one.
AfterNewest(seq) ==
  LET n == Len(log) - seq
      m == IF n < Page THEN n ELSE Page
  IN  [i \in 1 .. m |-> Len(log) - m + i]

\* seq > cursor ORDER BY seq ASC.
After(seq) ==
  LET n == Len(log) - seq
  IN  [i \in 1 .. (IF n < Page THEN n ELSE Page) |-> seq + i]

-----------------------------------------------------------------------------
\* The members of a sequence that are in S, in its order.
Only(seqs, S) ==
  LET kept[n \in 0 .. Len(seqs)] ==
        IF n = 0 THEN <<>>
        ELSE IF seqs[n] \in S THEN Append(kept[n - 1], seqs[n]) ELSE kept[n - 1]
  IN  kept[Len(seqs)]

\* show, over a page: what passes the filter, up to the limit.
Passing == {i \in DOMAIN log : ~task \/ log[i] = 0}
Wanted(seqs) == Only(seqs, Passing)

\* Mutant: the limit is only looked at between two pages.
CutNever(seqs) == seqs

Cut(seqs) == IF limit = 0 \/ Len(seqs) <= limit THEN seqs ELSE SubSeq(seqs, 1, limit)
Show(page) == shown' = Cut(shown \o Wanted(page))
Stops == limit > 0 /\ Len(shown') >= limit

Init ==
  /\ log = <<>> /\ count = 0
  /\ cmd = "none" /\ after = 0 /\ limit = 0 /\ task = FALSE
  /\ cursor = 0 /\ first = 0
  /\ shown = <<>> /\ cycles = 0 /\ last = 0

\* The kernel commits a changeset: some event, or the end of a cycle together
\* with the counter.
AppendEvent ==
  /\ Len(log) < MaxLog
  /\ log' = Append(log, 0)
  /\ UNCHANGED <<count, args, cursor, first, screen>>

CloseCycle ==
  /\ Len(log) < MaxLog
  /\ count' = count + 1
  /\ log' = Append(log, count')
  /\ UNCHANGED <<args, cursor, first, screen>>

Finish == cmd' = "none" /\ UNCHANGED <<after, limit, task>>

-----------------------------------------------------------------------------
\* Timeline without --after: Latest, then Before the last one printed.
Timeline ==
  /\ cmd = "none"
  /\ cmd' = "timeline" /\ after' = 0
  /\ limit' \in Limits /\ task' \in BOOLEAN
  /\ cursor' = 0 /\ first' = 0 /\ shown' = <<>>
  /\ UNCHANGED <<kernel, cycles, last>>

TimelinePage ==
  LET start == cursor = 0
      page == IF start THEN Latest ELSE Before(cursor)
  IN  /\ cmd = "timeline" /\ after = 0
      /\ first' = IF start THEN Len(log) ELSE first
      /\ Show(page)
      /\ IF Stops \/ Len(page) < Page
         THEN Finish /\ UNCHANGED cursor
         ELSE cursor' = Last(page) /\ UNCHANGED args
      /\ UNCHANGED <<kernel, cycles, last>>

\* Timeline with --after: pages upwards, each printed newest first, until one
\* is empty.
TimelineAfter ==
  /\ cmd = "none"
  /\ cmd' = "timeline" /\ after' \in 1 .. MaxLog
  /\ limit' \in Limits /\ task' \in BOOLEAN
  /\ cursor' = after' /\ first' = Len(log) /\ shown' = <<>>
  /\ UNCHANGED <<kernel, cycles, last>>

AfterPage ==
  LET page == After(cursor)
  IN  /\ cmd = "timeline" /\ after > 0
      /\ IF page = <<>> THEN Finish /\ UNCHANGED <<cursor, shown>>
         ELSE /\ cursor' = Last(page)
              /\ Show(Reverse(page))
              /\ IF Stops THEN Finish ELSE UNCHANGED args
      /\ UNCHANGED <<kernel, first, cycles, last>>

-----------------------------------------------------------------------------
\* Inspect: the counter first, then the counts and the outbox.
Inspect ==
  /\ cmd = "none"
  /\ cmd' = "inspect" /\ cursor' = 0 /\ last' = 0
  /\ cycles' = count /\ first' = Len(log)
  /\ UNCHANGED <<kernel, after, limit, task, shown>>

\* lastKernelCycle: from the end of the log downwards to the first
\* kernel.cycle event.
InspectPage ==
  LET page == IF cursor = 0 THEN Latest ELSE Before(cursor)
      closing == Only(page, {i \in DOMAIN log : log[i] # 0})
  IN  /\ cmd = "inspect"
      /\ IF closing # <<>> THEN last' = Head(closing) /\ Finish /\ UNCHANGED cursor
         ELSE IF Len(page) < Page THEN Finish /\ UNCHANGED <<cursor, last>>
         ELSE cursor' = Last(page) /\ UNCHANGED <<args, last>>
      /\ UNCHANGED <<kernel, first, shown, cycles>>

Next ==
  \/ AppendEvent \/ CloseCycle
  \/ Timeline \/ TimelinePage \/ TimelineAfter \/ AfterPage
  \/ Inspect \/ InspectPage

Spec == Init /\ [][Next]_vars

-----------------------------------------------------------------------------
TypeOK ==
  /\ log \in Seq(Nat) /\ Len(log) <= MaxLog /\ count \in Nat
  /\ cmd \in {"none", "timeline", "inspect"}
  /\ after \in 0 .. MaxLog /\ limit \in Limits \cup {0} /\ task \in BOOLEAN
  /\ {cursor, first, last} \subseteq 0 .. MaxLog
  /\ shown \in Seq(1 .. MaxLog)
  /\ cycles \in Nat
  /\ limit > 0 => Len(shown) <= limit

\* The log as it was at the first query, newest first.
Whole == Cut(Wanted([i \in 1 .. first |-> first + 1 - i]))

\* Without --after the pages add up to the log of the first query, newest
\* first: none skipped or repeated at the edge of a page, however the log
\* grows meanwhile, and the limit is counted over all of them.
TimelineExact ==
  [][cmd = "timeline" /\ after = 0 /\ cmd' = "none" => (shown = Whole)']_vars

\* With --after and no limit, everything after the cursor is printed once, up to
\* the end the log has when the command ends.
AfterComplete ==
  [][cmd = "timeline" /\ after > 0 /\ limit = 0 /\ cmd' = "none" =>
       /\ ToSet(shown') = {i \in after + 1 .. Len(log) : ~task \/ log[i] = 0}
       /\ IsInjective(shown')]_vars

\* The usage text of timeline, with or without --after: the events of the log "do
\* mais novo para o mais antigo", over all the pages of a listing.  The code does not
\* keep this: with --after the pages go upwards.
NewestFirst == \A i, j \in DOMAIN shown : i < j => shown[i] > shown[j]

\* Inspect reads without one snapshot, but in an order that keeps it coherent:
\* the cycle it shows as the last one is never older than the counter it shows.
InspectNotBehind ==
  [][cmd = "inspect" /\ cmd' = "none" =>
       cycles <= (IF last' = 0 THEN 0 ELSE log[last'])]_vars
=============================================================================
