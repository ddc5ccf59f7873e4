---------------------------- MODULE StudioEvents ----------------------------
(***************************************************************************)
(* How the pages of a Studio hear of changes:                              *)
(*                                                                         *)
(*   lib/server/surreal-studio-events.ts   the studio_event rows           *)
(*   routes/api/studios/[studioId]/events/stream/+server.ts                *)
(*                                         one polling stream per page     *)
(*   routes/(app)/app/studios/[studioId]/jobs/+page.svelte                 *)
(*                                         a page that listens             *)
(*                                                                         *)
(* A handler writes its row and creates an event afterwards, stamped by    *)
(* the server's clock before the row of the event is there: rows may       *)
(* appear in another order than they were stamped.  Events are numbered in *)
(* the order of their stamps, row versions in the order of the writes.     *)
(* All events are of one Studio and user and of kinds the page listens to. *)
(* A stream meets only the events, so each has a page of its own.          *)
(***************************************************************************)
EXTENDS Integers, Sequences, FiniteSets

CONSTANTS
  Stream,
  Limit,      \* rows a poll answers: 50
  SeenCap,    \* ids a stream remembers: 200
  Window,     \* how far back a stream begins: ten seconds
  PerTick,    \* bound: events with one createdAt
  MaxWrites,  \* bound: writes of rows
  MaxClock,   \* bound: the clock
  MaxLoads    \* bound: times a page is loaded

\* A millisecond holds fewer events than a poll answers and a stream remembers.
ASSUME LimitAssumption == Limit \in Nat /\ SeenCap \in Nat /\ PerTick \in Nat
ASSUME TickAssumption == 0 < PerTick /\ PerTick < Limit /\ PerTick <= SeenCap
ASSUME BoundAssumption ==
  Window \in Nat /\ MaxWrites \in Nat /\ MaxClock \in Nat /\ MaxLoads \in Nat

VARIABLES
  clock,
  row,      \* the version of the rows the pages show; 0 stands for none
  created,  \* createdAt of the events, in the order they were stamped
  stored,   \* events whose row is in the table
  source,   \* the page's connection: none, loaded, open or closed
  cursor, seen,
  rows,     \* the answer of the last poll, as far as it is not sent yet
  sent,     \* what the page has been sent by its stream
  handled,  \* how many of them its listener has been called with
  shown,    \* the version the page shows
  fetch,    \* refreshes in flight: the version each has read, or Asked
  loads

log == <<row, created, stored>>
stream == <<source, cursor, seen, rows, sent>>
page == <<handled, shown, fetch, loads>>
vars == <<clock, log, stream, page>>

Asked == -1
Nothing == 0
Event == DOMAIN created
Ties(t) == {e \in Event : created[e] = t}
Items(seq) == {seq[i] : i \in DOMAIN seq}
Later(a, b) == IF a < b THEN b ELSE a

Init ==
  /\ clock = 0
  /\ row = 1
  /\ created = <<>>
  /\ stored = {}
  /\ source = [s \in Stream |-> "none"]
  /\ cursor = [s \in Stream |-> 0]
  /\ seen = [s \in Stream |-> <<>>]
  /\ rows = [s \in Stream |-> <<>>]
  /\ sent = [s \in Stream |-> <<>>]
  /\ handled = [s \in Stream |-> 0]
  /\ shown = [s \in Stream |-> Nothing]
  /\ fetch = [s \in Stream |-> {}]
  /\ loads = [s \in Stream |-> 0]

-----------------------------------------------------------------------------
(* Handlers that change something, and createStudioEvent.                  *)

Write ==
  /\ row <= MaxWrites
  /\ row' = row + 1
  /\ UNCHANGED <<clock, created, stored, stream, page>>

Stamp ==
  /\ Len(created) < row - 1
  /\ Cardinality(Ties(clock)) < PerTick
  /\ created' = Append(created, clock)
  /\ UNCHANGED <<clock, row, stored, stream, page>>

\* The create may fail, or the server stop before it, and no handler tries
\* again: nothing says that an event is ever stored.
Store(e) ==
  /\ e \notin stored
  /\ stored' = stored \cup {e}
  /\ UNCHANGED <<clock, row, created, stream, page>>

Tick ==
  /\ clock < MaxClock
  /\ clock' = clock + 1
  /\ UNCHANGED <<log, stream, page>>

-----------------------------------------------------------------------------
(* The stream.                                                             *)

Ordered(seq) ==
  \A i, j \in DOMAIN seq : i < j => created[seq[i]] <= created[seq[j]]
Distinct(seq) == \A i, j \in DOMAIN seq : seq[i] = seq[j] => i = j

SinceAfter(from) == {e \in stored : created[e] > from}
Since(from) == {e \in stored : created[e] >= from}

\* The first Limit rows from the cursor on.  The order among equal stamps is
\* the database's.
AnswerUnordered(from, seq) ==
  /\ Items(seq) \subseteq Since(from)
  /\ Distinct(seq)
  /\ Len(seq) = Limit \/ Items(seq) = Since(from)
Answer(from, seq) ==
  /\ Items(seq) \subseteq Since(from)
  /\ Distinct(seq)
  /\ Ordered(seq)
  /\ \/ Items(seq) = Since(from)
     \/ /\ Len(seq) = Limit
        /\ \A e \in Since(from) \ Items(seq), i \in DOMAIN seq : created[seq[i]] <= created[e]

RememberOne(ids, e) == <<e>>
Remember(ids, e) == IF Len(ids) < SeenCap THEN Append(ids, e) ELSE Tail(Append(ids, e))

AdvanceToNext(from, e) == Later(from, created[e] + 1)
Advance(from, e) == Later(from, created[e])

\* Mutant: the page opens its source again after an error.
ConnectReopens(s) ==
  /\ source[s] \in {"loaded", "closed"}
  /\ source' = [source EXCEPT ![s] = "open"]
  /\ cursor' = [cursor EXCEPT ![s] = clock - Window]
  /\ seen' = [seen EXCEPT ![s] = <<>>]
  /\ rows' = [rows EXCEPT ![s] = <<>>]
  /\ UNCHANGED <<clock, log, sent, page>>

Connect(s) ==
  /\ source[s] = "loaded"
  /\ source' = [source EXCEPT ![s] = "open"]
  /\ cursor' = [cursor EXCEPT ![s] = clock - Window]
  /\ UNCHANGED <<clock, log, seen, rows, sent, page>>

Poll(s) ==
  /\ source[s] = "open" /\ rows[s] = <<>>
  /\ \E n \in 0..Limit : \E seq \in [1..n -> stored] :
       /\ Answer(cursor[s], seq)
       /\ rows' = [rows EXCEPT ![s] = seq]
  /\ UNCHANGED <<clock, log, source, cursor, seen, sent, page>>

\* One turn of the loop over the rows.
Skip(s) ==
  /\ source[s] = "open" /\ rows[s] # <<>>
  /\ Head(rows[s]) \in Items(seen[s])
  /\ rows' = [rows EXCEPT ![s] = Tail(@)]
  /\ UNCHANGED <<clock, log, source, cursor, seen, sent, page>>

Send(s) ==
  /\ source[s] = "open" /\ rows[s] # <<>>
  /\ LET e == Head(rows[s]) IN
     /\ e \notin Items(seen[s])
     /\ sent' = [sent EXCEPT ![s] = Append(@, e)]
     /\ seen' = [seen EXCEPT ![s] = Remember(@, e)]
     /\ cursor' = [cursor EXCEPT ![s] = Advance(@, e)]
  /\ rows' = [rows EXCEPT ![s] = Tail(@)]
  /\ UNCHANGED <<clock, log, source, page>>

\* A poll fails, the browser leaves, or the server stops.
Close(s) ==
  /\ source[s] = "open"
  /\ source' = [source EXCEPT ![s] = "closed"]
  /\ UNCHANGED <<clock, log, cursor, seen, rows, sent, page>>

-----------------------------------------------------------------------------
(* The page.  Its source is closed on the first error and not opened again *)
(* before the page is.  getStudioJobsState, which a load and a refresh ask,*)
(* answers a list that it cannot read as empty.                            *)

Load(s) ==
  /\ loads[s] < MaxLoads
  /\ loads' = [loads EXCEPT ![s] = @ + 1]
  /\ \E version \in {row, Nothing} : shown' = [shown EXCEPT ![s] = version]
  /\ fetch' = [fetch EXCEPT ![s] = {}]
  /\ handled' = [handled EXCEPT ![s] = 0]
  /\ source' = [source EXCEPT ![s] = "loaded"]
  /\ seen' = [seen EXCEPT ![s] = <<>>]
  /\ rows' = [rows EXCEPT ![s] = <<>>]
  /\ sent' = [sent EXCEPT ![s] = <<>>]
  /\ UNCHANGED <<clock, log, cursor>>

\* refreshJobsState returns at once while another call of it is in flight.
AskAlways(s) == fetch' = [fetch EXCEPT ![s] = @ \cup {Asked}]
Ask(s) == fetch' = [fetch EXCEPT ![s] = IF @ = {} THEN {Asked} ELSE @]

Handle(s) ==
  /\ handled[s] < Len(sent[s])
  /\ handled' = [handled EXCEPT ![s] = @ + 1]
  /\ Ask(s)
  /\ UNCHANGED <<clock, log, stream, shown, loads>>

\* The user has saved, run or deleted a job on this page.
Refresh(s) ==
  /\ loads[s] > 0
  /\ Ask(s)
  /\ UNCHANGED <<clock, log, stream, handled, shown, loads>>

Read(s) ==
  /\ Asked \in fetch[s]
  /\ \E version \in {row, Nothing} :
       fetch' = [fetch EXCEPT ![s] = (@ \ {Asked}) \cup {version}]
  /\ UNCHANGED <<clock, log, stream, handled, shown, loads>>

Show(s) == \E version \in fetch[s] \ {Asked} :
  /\ fetch' = [fetch EXCEPT ![s] = @ \ {version}]
  /\ shown' = [shown EXCEPT ![s] = version]
  /\ UNCHANGED <<clock, log, stream, handled, loads>>

\* The request fails: the page keeps what it shows.
Miss(s) == \E version \in fetch[s] :
  /\ fetch' = [fetch EXCEPT ![s] = @ \ {version}]
  /\ UNCHANGED <<clock, log, stream, handled, shown, loads>>

-----------------------------------------------------------------------------
Producer == Write \/ Stamp \/ Tick \/ \E e \in Event : Store(e)
Pump(s) == Poll(s) \/ Skip(s) \/ Send(s)
Page(s) == Load(s) \/ Handle(s) \/ Refresh(s) \/ Read(s) \/ Show(s) \/ Miss(s)

Next == Producer \/ \E s \in Stream : Connect(s) \/ Pump(s) \/ Close(s) \/ Page(s)

\* The loop of a stream goes on: it sleeps for two seconds, and queries answer.
Fairness == \A s \in Stream : WF_vars(Pump(s))
Spec == Init /\ [][Next]_vars /\ Fairness

-----------------------------------------------------------------------------
(* The strengthening that is inductive. *)

TypeOK ==
  /\ clock \in Nat /\ row \in Nat \ {0}
  /\ created \in Seq(Nat)
  /\ stored \subseteq Event
  /\ source \in [Stream -> {"none", "loaded", "open", "closed"}]
  /\ cursor \in [Stream -> Int]
  /\ seen \in [Stream -> Seq(Event)]
  /\ rows \in [Stream -> Seq(Event)]
  /\ sent \in [Stream -> Seq(Event)]
  /\ handled \in [Stream -> Nat] /\ loads \in [Stream -> Nat]
  /\ shown \in [Stream -> Nat]
  /\ fetch \in [Stream -> SUBSET (Nat \cup {Asked})]

TiesOK == \A t \in Items(created) : Cardinality(Ties(t)) <= PerTick

\* The rows of an answer are not behind the cursor, the sent ones not ahead.
CursorOK(s) ==
  /\ \A i \in DOMAIN rows[s] : cursor[s] <= created[rows[s][i]]
  /\ \A i \in DOMAIN sent[s] : created[sent[s][i]] <= cursor[s]

\* ids is the end of seq, as far as it is remembered.
IsEnd(ids, seq) ==
  /\ Len(ids) = IF Len(seq) < SeenCap THEN Len(seq) ELSE SeenCap
  /\ \A k \in DOMAIN ids : ids[k] = seq[Len(seq) - Len(ids) + k]

FreshOK(s) == source[s] \in {"none", "loaded"} =>
  rows[s] = <<>> /\ seen[s] = <<>> /\ sent[s] = <<>>

StreamOK(s) ==
  /\ FreshOK(s)
  /\ CursorOK(s)
  /\ IsEnd(seen[s], sent[s])
  /\ Ordered(rows[s]) /\ Ordered(sent[s]) /\ Distinct(sent[s])

PageOK(s) ==
  /\ shown[s] <= row
  /\ \A v \in fetch[s] : v \in {Asked, Nothing} \/ (shown[s] <= v /\ v <= row)
  /\ \A v, w \in fetch[s] : v = w

IInv == TypeOK /\ TiesOK /\ \A s \in Stream : StreamOK(s) /\ PageOK(s)

-----------------------------------------------------------------------------
(* A stream sends an event once, although it forgets ids and asks for the  *)
(* rows at its cursor again in every poll.                                 *)
SentOnce == \A s \in Stream : Distinct(sent[s])

(* A stream sends events in the order they were stamped, although they are *)
(* stored in another one.                                                  *)
SentInOrder == \A s \in Stream : Ordered(sent[s])

(* A page never replaces what it shows by something older.  It may show    *)
(* nothing when the server could not read.                                 *)
PageNeverGoesBack ==
  [][\A s \in Stream : shown'[s] >= shown[s] \/ shown'[s] = Nothing]_vars

Horizon(s) ==
  IF rows[s] = <<>> THEN cursor[s] ELSE Later(cursor[s], created[rows[s][Len(rows[s])]])
AheadOf(e, s) ==
  /\ source[s] = "open"
  /\ e \in stored
  /\ created[e] >= Horizon(s)

\* What a stream has before it: the rows of its answer, and what the next
\* polls will find.
Coming(e, s) ==
  /\ source[s] = "open"
  /\ e \in stored \ Items(sent[s])
  /\ e \in Items(rows[s]) \/ created[e] >= Horizon(s)

(* A stream passes over nothing it has before it: not where the page of an *)
(* answer ends among equal stamps, nor at the rows it has sent already.    *)
(* So the events a page misses are those stored behind its stream          *)
(* (listStudioEventsSince, pump).                                          *)
NothingSkipped ==
  [][\A s \in Stream : \A e \in Event : Coming(e, s) =>
       Coming(e, s)' \/ e \in Items(sent'[s]) \/ source'[s] # "open"]_vars

Feed == INSTANCE StudioFeed WITH
  Reader <- Stream, stamps <- created, published <- stored, inbox <- sent

(* Polls, cursor and remembered ids amount to what StudioFeed promises:    *)
(* each event at most once, in order, and nothing taken back (the stream's *)
(* route as StudioFeed).                                                   *)
ImplementsFeed == Feed!Spec

(* An event that is stored, and stamped no earlier than the cursor and the *)
(* answer the stream is sending, is sent some day unless the stream ends,  *)
(* also if it has the cursor's own stamp and was stored after the poll     *)
(* which moved the cursor there (listStudioEventsSince, pump).             *)
EventuallySent == \A e \in 1..MaxWrites, s \in Stream :
  AheadOf(e, s) ~> (source[s] # "open" \/ e \in Items(sent[s]))
=============================================================================
