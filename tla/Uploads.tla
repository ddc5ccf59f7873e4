------------------------------ MODULE Uploads ------------------------------
(***************************************************************************)
(* Resumable uploads of a Studio's files:                                  *)
(*                                                                         *)
(*   lib/files/upload-manager.svelte.ts   the uploads of a browser tab     *)
(*   lib/files/upload-coordination.ts     the lease a tab takes on an item *)
(*   lib/files/upload-persistence.ts      the queue that outlives a tab    *)
(*   routes/api/studios/[studioId]/files/uploads/..                        *)
(*                                        create, status, part, complete   *)
(*                                        and abort                        *)
(*   lib/server/r2-files.ts, surreal-upload-sessions.ts                    *)
(*                                        chunks, files, session rows      *)
(*                                                                         *)
(* A client action is what a tab does between two answers of the server,   *)
(* or between two accesses to the lease, which tabs share; a server action *)
(* is what a handler does between two awaits.  A request goes on when its  *)
(* tab is closed or has given it up.  Puts and deletes of IndexedDB take   *)
(* effect in the order they are issued and are part of the action that     *)
(* issues them.                                                            *)
(*                                                                         *)
(* All items are to be stored at one path of one Studio; items at other    *)
(* paths never meet.  A batch has one item.  Progress in bytes, names and  *)
(* the artifact row of a stored file are left out.                         *)
(***************************************************************************)
EXTENDS Naturals

CONSTANTS
  Tab, Item, NoTab, NoItem,
  Parts,        \* chunks of a file
  MaxSessions,  \* bound: sessions created
  MaxRetries,   \* bound: times a user retries
  MaxCloses,    \* bound: tabs closed
  MaxLapses,    \* bound: leases that run out, or are given up, under their tab
  MaxFaults     \* bound: calls that throw and answers that are lost

ASSUME TabAssumption == NoTab \notin Tab
ASSUME ItemAssumption == NoItem \notin Item
ASSUME PartsAssumption == Parts \in Nat \ {0}
ASSUME BoundAssumption ==
  /\ MaxSessions \in Nat /\ MaxRetries \in Nat /\ MaxCloses \in Nat
  /\ MaxLapses \in Nat /\ MaxFaults \in Nat

VARIABLES
  open,      \* tabs with the app
  mem,       \* mem[t][i]: what tab t knows of item i
  queue,     \* queue[i]: the record of i in IndexedDB
  lease,     \* lease[i]: the lease of i in localStorage
  net,       \* requests the server works on or has answered
  session,   \* session[s]: the upload_session row of upload s
  chunks,    \* chunks[s]: the parts of upload s that are in the bucket
  file,      \* the object at the path
  chosen,    \* history: items a user has started
  reported,  \* history: items whose batch was announced as uploaded
  retries, closes, lapses, faults

server == <<session, chunks, file>>
bounds == <<retries, closes, lapses, faults>>
vars == <<open, mem, queue, lease, net, server, chosen, reported, bounds>>

Part == 1..Parts
Session == 1..MaxSessions
Upload == 0..MaxSessions      \* 0: no uploadId

\* What a tab knows of an item: whether its batch is listed, its status and
\* uploadId, where #runBatch waits, the parts it has still to send, whether
\* another call of #runBatch is due, whether the batch was cancelled while
\* it ran, and the retries that wait for the session's status.  The history
\* "exposed" says of a run that it has lost the cover of its lease, and of a
\* tryAcquire that the lease was written since it was read.
Stage == {"queued", "completed", "failed"}
Sending == {"session", "part", "complete", "delete"}
Mem == [listed : BOOLEAN, status : Stage \cup {"uploading"}, upload : Upload,
        pc : {"rest", "acquire", "confirm"} \cup Sending, todo : SUBSET Part,
        due : BOOLEAN, cancelled : BOOLEAN, retrying : SUBSET (1..MaxRetries),
        exposed : BOOLEAN]
Unknown == [listed |-> FALSE, status |-> "queued", upload |-> 0, pc |-> "rest",
            todo |-> {}, due |-> FALSE, cancelled |-> FALSE, retrying |-> {},
            exposed |-> FALSE]

Record == [there : BOOLEAN, status : Stage, upload : Upload]
NoRecord == [there |-> FALSE, status |-> "queued", upload |-> 0]

\* A request, the tab that waits for it, the part it is about (the number of
\* the retry for a "recheck"), the await it is at, the parts it has got or is
\* to delete, and its answer.
Op == {"create", "status", "recheck", "part", "complete", "abort"}
At == {"read", "row", "list", "get", "put", "sweep", "delete", "mark", "answer"}
Out == {"ok", "completed", "aborted", "error"}
Requests == [op : Op, tab : Tab \cup {NoTab}, item : Item, upload : Upload,
             part : 0..Parts \cup 0..MaxRetries, at : At, got : SUBSET Part, out : Out]

NoFile == [item |-> NoItem, parts |-> {}]

TypeOK ==
  /\ open \subseteq Tab
  /\ mem \in [Tab -> [Item -> Mem]]
  /\ queue \in [Item -> Record]
  /\ lease \in [Item -> [owner : Tab \cup {NoTab}, live : BOOLEAN]]
  /\ net \subseteq Requests
  /\ session \in [Session -> {"none", "created", "failed", "aborted"}]
  /\ chunks \in [Session -> SUBSET Part]
  /\ file \in [item : Item \cup {NoItem}, parts : SUBSET Part]
  /\ chosen \subseteq Item /\ reported \subseteq Item
  /\ retries \in 0..MaxRetries /\ closes \in 0..MaxCloses
  /\ lapses \in 0..MaxLapses /\ faults \in 0..MaxFaults

Init ==
  /\ open = {}
  /\ mem = [t \in Tab |-> [i \in Item |-> Unknown]]
  /\ queue = [i \in Item |-> NoRecord]
  /\ lease = [i \in Item |-> [owner |-> NoTab, live |-> FALSE]]
  /\ net = {}
  /\ session = [s \in Session |-> "none"]
  /\ chunks = [s \in Session |-> {}]
  /\ file = NoFile
  /\ chosen = {} /\ reported = {}
  /\ retries = 0 /\ closes = 0 /\ lapses = 0 /\ faults = 0
-----------------------------------------------------------------------------
(* Requests *)

Request(op, t, i, u, p) ==
  [op |-> op, tab |-> t, item |-> i, upload |-> u, part |-> p,
   at |-> "read", got |-> {}, out |-> "ok"]

Replace(r, s) == net' = (net \ {r}) \cup {s}
Advance(r, at) == Replace(r, [r EXCEPT !.at = at])

\* An answer nobody waits for is not kept.
Answer(r, out) ==
  IF r.tab = NoTab
  THEN net' = net \ {r}
  ELSE Replace(r, [r EXCEPT !.at = "answer", !.out = out])

Detached(r) == [r EXCEPT !.tab = NoTab]

\* The requests once tab t has given up those of R.
Without(R) == (net \ R) \cup {Detached(r) : r \in {x \in R : x.at # "answer"}}
-----------------------------------------------------------------------------
(* What a tab knows, and the lease *)

\* Whether the tab's event loop is free: tryAcquire does not give it up.
Turn(t) == \A i \in Item : mem[t][i].pc \notin {"acquire", "confirm"}

\* What is neither listed nor run nor retried is forgotten.
Tidy(m) == IF m.listed \/ m.pc # "rest" \/ m.retrying # {} THEN m ELSE Unknown
Set(t, i, m) == mem' = [mem EXCEPT ![t][i] = Tidy(m)]

\* A tab that writes or releases a lease tells the others, which call
\* #runBatch for all that is pending with them.
Pending(t, i) == mem[t][i].listed /\ mem[t][i].status \in {"queued", "uploading"}
Told(t) == [i \in Item |-> [mem[t][i] EXCEPT !.due = @ \/ Pending(t, i)]]
SetAndTell(t, i, m) ==
  mem' = [u \in Tab |-> IF u = t THEN [mem[t] EXCEPT ![i] = Tidy(m)] ELSE Told(u)]

Uploads(t, i) == mem[t][i].pc \in Sending /\ ~mem[t][i].cancelled

Free == [owner |-> NoTab, live |-> FALSE]
Taken(t, i) == lease[i].live /\ lease[i].owner # t
Released(t, i) == IF lease[i].owner = t THEN [lease EXCEPT ![i] = Free] ELSE lease

\* What the tabs know once t has written the lease: what others have read is
\* out of date, and if what t had read was, their runs have lost it.
Written(t, i) ==
  LET late == mem[t][i].pc = "acquire" /\ mem[t][i].exposed
  IN [u \in Tab |-> IF u = t THEN mem[t] ELSE
        [Told(u) EXCEPT ![i].exposed =
           @ \/ mem[u][i].pc = "acquire" \/ (late /\ Uploads(u, i))]]

\* Timers that are late let a lease run out; the next heartbeat renews it
\* unless another tab has taken it.
Lapse(i) ==
  /\ lease[i].live /\ lease[i].owner # NoTab /\ lapses < MaxLapses
  /\ lapses' = lapses + 1
  /\ lease' = [lease EXCEPT ![i].live = FALSE]
  /\ LET t == lease[i].owner
     IN mem' = [mem EXCEPT ![t][i].exposed = @ \/ Uploads(t, i)]
  /\ UNCHANGED <<open, queue, net, server, chosen, reported, retries, closes, faults>>

Heartbeat(t, i) ==
  /\ Turn(t) /\ lease[i].owner = t /\ ~lease[i].live
  /\ lease' = [lease EXCEPT ![i].live = TRUE]
  /\ mem' = Written(t, i)
  /\ UNCHANGED <<open, queue, net, server, chosen, reported, bounds>>

\* The lease of a tab that is gone runs out.
Expire(i) ==
  /\ lease[i].live /\ lease[i].owner = NoTab
  /\ lease' = [lease EXCEPT ![i] = Free]
  /\ UNCHANGED <<open, mem, queue, net, server, chosen, reported, bounds>>

\* releaseAll: a page that is asked to leave gives its leases up.  It goes on
\* until it is left, or for good if it is not.
ReleaseAll(t) ==
  /\ t \in open /\ Turn(t) /\ lapses < MaxLapses
  /\ lapses' = lapses + 1
  /\ lease' = [i \in Item |-> IF lease[i].owner = t THEN Free ELSE lease[i]]
  /\ mem' = [u \in Tab |-> IF u # t THEN Told(u) ELSE
       [i \in Item |-> [mem[t][i] EXCEPT !.exposed = @ \/ Uploads(t, i)]]]
  /\ UNCHANGED <<open, queue, net, server, chosen, reported, retries, closes, faults>>
-----------------------------------------------------------------------------
(* The tab: #runBatch and #uploadItem *)

Put(i, m) == queue' = [queue EXCEPT ![i] =
  [there |-> TRUE, upload |-> m.upload,
   status |-> IF m.status = "uploading" THEN "queued" ELSE m.status]]
Drop(i) == queue' = [queue EXCEPT ![i] = NoRecord]

\* The choice of a file by the user.
StartUpload(t, i) ==
  /\ t \in open /\ Turn(t) /\ i \notin chosen
  /\ chosen' = chosen \cup {i}
  /\ LET m == [Unknown EXCEPT !.listed = TRUE, !.due = TRUE]
     IN Set(t, i, m) /\ Put(i, m)
  /\ UNCHANGED <<open, lease, net, server, reported, bounds>>

\* hydrate: a tab that opens takes over what IndexedDB holds.
Hydrated(i) ==
  IF queue[i].there
  THEN [Unknown EXCEPT !.listed = TRUE, !.upload = queue[i].upload,
                       !.status = queue[i].status,
                       !.due = queue[i].status = "queued"]
  ELSE Unknown

OpenTab(t) ==
  /\ t \notin open
  /\ open' = open \cup {t}
  /\ mem' = [mem EXCEPT ![t] = [i \in Item |-> Hydrated(i)]]
  /\ UNCHANGED <<queue, lease, net, server, chosen, reported, bounds>>

\* A heartbeat of another tab has the same effect.
Nudge(t, i) ==
  /\ Turn(t) /\ Pending(t, i) /\ ~mem[t][i].due
  /\ \E j \in Item : lease[j].owner \in Tab \ {t}
  /\ Set(t, i, [mem[t][i] EXCEPT !.due = TRUE])
  /\ UNCHANGED <<open, queue, lease, net, server, chosen, reported, bounds>>

\* Calls of #runBatch that find nothing to do.
RunIdle(t, i) ==
  /\ Turn(t) /\ mem[t][i].due
  /\ mem[t][i].pc # "rest" \/ ~mem[t][i].listed
  /\ Set(t, i, [mem[t][i] EXCEPT !.due = FALSE])
  /\ UNCHANGED <<open, queue, lease, net, server, chosen, reported, bounds>>

Runs(t, i) == Turn(t) /\ mem[t][i].due /\ mem[t][i].pc = "rest" /\ mem[t][i].listed

\* A batch that is done is announced and leaves the list.
RunDone(t, i) ==
  /\ Runs(t, i) /\ mem[t][i].status = "completed"
  /\ Set(t, i, [mem[t][i] EXCEPT !.listed = FALSE, !.due = FALSE])
  /\ reported' = reported \cup {i}
  /\ UNCHANGED <<open, queue, lease, net, server, chosen, bounds>>

\* tryAcquire reads the lease, writes it unless another tab has it, and reads
\* it again.
TryRead(t, i) ==
  /\ Runs(t, i) /\ mem[t][i].status # "completed" /\ ~Taken(t, i)
  /\ Set(t, i, [mem[t][i] EXCEPT !.pc = "acquire", !.due = FALSE])
  /\ UNCHANGED <<open, queue, lease, net, server, chosen, reported, bounds>>

TryWrite(t, i) ==
  /\ mem[t][i].pc = "acquire"
  /\ lease' = [lease EXCEPT ![i] = [owner |-> t, live |-> TRUE]]
  /\ mem' = [Written(t, i) EXCEPT ![t][i].pc = "confirm"]
  /\ UNCHANGED <<open, queue, net, server, chosen, reported, bounds>>

Refused(t, i) ==
  \/ Runs(t, i) /\ mem[t][i].status # "completed" /\ Taken(t, i)
  \/ mem[t][i].pc = "confirm" /\ lease[i].owner # t

RunDeferredOnce(t, i) ==
  /\ Refused(t, i)
  /\ Set(t, i, [mem[t][i] EXCEPT !.status = "queued", !.pc = "rest", !.due = FALSE,
                                 !.exposed = FALSE])
  /\ UNCHANGED <<open, queue, lease, net, server, chosen, reported, bounds>>

RunDeferred(t, i) ==
  /\ Refused(t, i)
  /\ Set(t, i, [mem[t][i] EXCEPT !.status = "queued", !.pc = "rest", !.due = TRUE,
                                 !.exposed = FALSE])
  /\ UNCHANGED <<open, queue, lease, net, server, chosen, reported, bounds>>

\* Mutant: the lease is not read again.
RunItemUnconfirmed(t, i) ==
  /\ mem[t][i].pc = "confirm"
  /\ LET m == [mem[t][i] EXCEPT !.status = "uploading", !.pc = "session"]
     IN /\ SetAndTell(t, i, m) /\ Put(i, m)
        /\ net' = net \cup {Request(IF m.upload = 0 THEN "create" ELSE "status",
                                    t, i, m.upload, 0)}
  /\ UNCHANGED <<open, lease, server, chosen, reported, bounds>>

\* With the lease taken, the item is persisted as it is and its session
\* created, or looked up if it has one.
RunItem(t, i) ==
  /\ mem[t][i].pc = "confirm" /\ lease[i].owner = t
  /\ LET m == [mem[t][i] EXCEPT !.status = "uploading", !.pc = "session",
                                !.exposed = ~lease[i].live]
     IN /\ SetAndTell(t, i, m) /\ Put(i, m)
        /\ net' = net \cup {Request(IF m.upload = 0 THEN "create" ELSE "status",
                                    t, i, m.upload, 0)}
  /\ UNCHANGED <<open, lease, server, chosen, reported, bounds>>

AtRest(m) == [m EXCEPT !.pc = "rest", !.todo = {}, !.cancelled = FALSE, !.exposed = FALSE]

\* The end of a run that was cancelled, and of one that failed.
Failed(t, i) ==
  LET m == AtRest(mem[t][i])
      f == [m EXCEPT !.status = "failed"]
  IN /\ IF mem[t][i].cancelled
        THEN SetAndTell(t, i, m) /\ UNCHANGED queue
        ELSE SetAndTell(t, i, f) /\ Put(i, f)
     /\ lease' = Released(t, i)

\* The next part that is missing, or the completion.
Continue(t, i, m, r) ==
  \E p \in m.todo \cup {0} :
    LET pc == IF p = 0 THEN "complete" ELSE "part"
        n == [m EXCEPT !.pc = pc]
    IN /\ p = 0 <=> m.todo = {}
       /\ \A o \in m.todo : p <= o
       /\ Set(t, i, n) /\ Put(i, n)
       /\ net' = (net \ {r}) \cup {Request(pc, t, i, r.upload, p)}
       /\ UNCHANGED lease

Answered(t, i, r, pc, ops) ==
  /\ Turn(t) /\ r \in net /\ r.tab = t /\ r.item = i /\ r.at = "answer"
  /\ r.op \in ops /\ mem[t][i].pc = pc

SessionReady(t, i, r) ==
  /\ Answered(t, i, r, "session", {"create", "status"})
  /\ IF r.out \in {"ok", "completed"}
     THEN Continue(t, i, [mem[t][i] EXCEPT !.upload = r.upload, !.todo = Part \ r.got], r)
     ELSE Failed(t, i) /\ net' = net \ {r}
  /\ UNCHANGED <<open, server, chosen, reported, bounds>>

PartReady(t, i, r) ==
  /\ Answered(t, i, r, "part", {"part"})
  /\ IF r.out = "ok"
     THEN Continue(t, i, [mem[t][i] EXCEPT !.todo = @ \ {r.part}], r)
     ELSE Failed(t, i) /\ net' = net \ {r}
  /\ UNCHANGED <<open, server, chosen, reported, bounds>>

CompleteReadyAny(t, i, r) ==
  /\ Answered(t, i, r, "complete", {"complete"})
  /\ net' = net \ {r}
  /\ IF ~mem[t][i].cancelled
     THEN /\ Set(t, i, [mem[t][i] EXCEPT !.status = "completed", !.pc = "delete"])
          /\ Drop(i) /\ UNCHANGED lease
     ELSE Failed(t, i)
  /\ UNCHANGED <<open, server, chosen, reported, bounds>>

CompleteReady(t, i, r) ==
  /\ Answered(t, i, r, "complete", {"complete"})
  /\ net' = net \ {r}
  /\ IF r.out = "ok" /\ ~mem[t][i].cancelled
     THEN /\ Set(t, i, [mem[t][i] EXCEPT !.status = "completed", !.pc = "delete"])
          /\ Drop(i) /\ UNCHANGED lease
     ELSE Failed(t, i)
  /\ UNCHANGED <<open, server, chosen, reported, bounds>>

\* After its record is gone the item is released, and announced unless the
\* batch was cancelled meanwhile.
RunEnds(t, i) ==
  /\ Turn(t) /\ mem[t][i].pc = "delete"
  /\ lease' = Released(t, i)
  /\ SetAndTell(t, i, [AtRest(mem[t][i]) EXCEPT !.listed = FALSE])
  /\ reported' = IF mem[t][i].cancelled THEN reported ELSE reported \cup {i}
  /\ UNCHANGED <<open, queue, net, server, chosen, bounds>>
-----------------------------------------------------------------------------
(* The tab: cancelBatch, retryBatch, and its end *)

\* Mutant: the run ends, and its part in flight is not aborted.
CancelKeepsPart(t, i) ==
  /\ Turn(t) /\ mem[t][i].listed
  /\ Drop(i)
  /\ lease' = Released(t, i)
  /\ LET m == mem[t][i]
         parts == {r \in net : r.tab = t /\ r.item = i /\ r.op = "part"}
         abort == IF m.upload = 0 THEN {} ELSE {Request("abort", NoTab, i, m.upload, 0)}
     IN \/ /\ parts # {}
           /\ SetAndTell(t, i, [AtRest(m) EXCEPT !.listed = FALSE])
           /\ net' = net \cup abort
        \/ /\ \A r \in parts : r.at = "read"
           /\ SetAndTell(t, i, [m EXCEPT !.listed = FALSE, !.cancelled = m.pc # "rest"])
           /\ net' = net \cup abort
  /\ UNCHANGED <<open, server, chosen, reported, bounds>>

\* A part in flight is aborted, which ends the run; a run between two
\* requests, or waiting for another answer, learns of the cancel when
\* #uploadItem is through.
Cancel(t, i) ==
  /\ Turn(t) /\ mem[t][i].listed
  /\ Drop(i)
  /\ lease' = Released(t, i)
  /\ LET m == mem[t][i]
         parts == {r \in net : r.tab = t /\ r.item = i /\ r.op = "part"}
         abort == IF m.upload = 0 THEN {} ELSE {Request("abort", NoTab, i, m.upload, 0)}
     IN \/ /\ parts # {}
           /\ SetAndTell(t, i, [AtRest(m) EXCEPT !.listed = FALSE])
           /\ net' = Without(parts) \cup abort
        \/ /\ \A r \in parts : r.at = "read"
           /\ SetAndTell(t, i, [m EXCEPT !.listed = FALSE, !.cancelled = m.pc # "rest"])
           /\ net' = net \cup abort
  /\ UNCHANGED <<open, server, chosen, reported, bounds>>

Retry(t, i) ==
  /\ Turn(t) /\ mem[t][i].listed /\ mem[t][i].status = "failed"
  /\ retries < MaxRetries /\ retries' = retries + 1
  /\ LET m == [mem[t][i] EXCEPT !.status = "queued", !.due = FALSE]
     IN IF m.upload = 0
        THEN /\ Set(t, i, [m EXCEPT !.due = TRUE])
             /\ Put(i, m) /\ UNCHANGED net
        ELSE /\ Set(t, i, [m EXCEPT !.retrying = @ \cup {retries'}])
             /\ net' = net \cup {Request("recheck", t, i, m.upload, retries')}
             /\ UNCHANGED queue
  /\ UNCHANGED <<open, lease, server, chosen, reported, closes, lapses, faults>>

\* A session that is gone is forgotten, a file that is there is a success.
RetryReady(t, i, r) ==
  /\ Turn(t) /\ r \in net /\ r.tab = t /\ r.item = i /\ r.op = "recheck" /\ r.at = "answer"
  /\ net' = net \ {r}
  /\ LET m == [mem[t][i] EXCEPT !.retrying = @ \ {r.part}, !.due = TRUE]
         gone == [m EXCEPT !.upload = 0]
     IN IF r.out = "completed"
        THEN Set(t, i, [m EXCEPT !.status = "completed"]) /\ Drop(i)
        ELSE IF r.out \in {"aborted", "error"}
        THEN Set(t, i, gone) /\ Put(i, gone)
        ELSE Set(t, i, m) /\ Put(i, m)
  /\ UNCHANGED <<open, lease, server, chosen, reported, bounds>>

\* A tab is left, closed or dies; what leases it still has run out.
CloseTab(t) ==
  /\ t \in open /\ closes < MaxCloses
  /\ closes' = closes + 1
  /\ open' = open \ {t}
  /\ mem' = [mem EXCEPT ![t] = [i \in Item |-> Unknown]]
  /\ net' = Without({r \in net : r.tab = t})
  /\ lease' = [i \in Item |->
       IF lease[i].owner = t THEN [lease[i] EXCEPT !.owner = NoTab] ELSE lease[i]]
  /\ UNCHANGED <<queue, server, chosen, reported, retries, lapses, faults>>

\* The connection breaks before the answer.
Lose(r) ==
  /\ r \in net /\ r.tab # NoTab /\ faults < MaxFaults
  /\ faults' = faults + 1
  /\ net' = Without({r}) \cup {[r EXCEPT !.at = "answer", !.out = "error"]}
  /\ UNCHANGED <<open, mem, queue, lease, server, chosen, reported, retries, closes, lapses>>
-----------------------------------------------------------------------------
(* The server *)

Work(r, op, at) == r \in net /\ r.op = op /\ r.at = at
Client == <<open, mem, queue, lease, chosen, reported>>

\* POST uploads: the name must be free, then the row is created.
CreateCheck(r) ==
  /\ Work(r, "create", "read")
  /\ IF file = NoFile THEN Advance(r, "row") ELSE Answer(r, "error")
  /\ UNCHANGED <<Client, server, bounds>>

CreateRow(r) ==
  /\ Work(r, "create", "row")
  /\ \E s \in Session :
       /\ session[s] = "none" /\ \A x \in 1..(s - 1) : session[x] # "none"
       /\ session' = [session EXCEPT ![s] = "created"]
       /\ net' = (net \ {r}) \cup
            IF r.tab = NoTab THEN {} ELSE {[r EXCEPT !.at = "answer", !.upload = s]}
  /\ UNCHANGED <<Client, chunks, file, bounds>>

StatusStaged(r) ==
  /\ Work(r, "status", "read") \/ Work(r, "recheck", "read")
  /\ LET s == [r EXCEPT !.at = "answer", !.got = chunks[r.upload],
                         !.out = IF session[r.upload] = "aborted" THEN "aborted"
                                 ELSE IF chunks[r.upload] = Part THEN "completed" ELSE "ok"]
     IN net' = (net \ {r}) \cup IF r.tab = NoTab THEN {} ELSE {s}
  /\ UNCHANGED <<Client, server, bounds>>

\* GET uploads/:id.  Of its reads of the row, the chunks and the file a run
\* needs the chunks, a retry the file, and a row that is aborted ends both.
Status(r) ==
  /\ Work(r, "status", "read") \/ Work(r, "recheck", "read")
  /\ LET s == [r EXCEPT !.at = "answer", !.got = chunks[r.upload],
                         !.out = IF session[r.upload] = "aborted" THEN "aborted"
                                 ELSE IF file = NoFile THEN "ok" ELSE "completed"]
     IN net' = (net \ {r}) \cup IF r.tab = NoTab THEN {} ELSE {s}
  /\ UNCHANGED <<Client, server, bounds>>

\* POST parts/:n
PartRead(r) ==
  /\ Work(r, "part", "read")
  /\ IF session[r.upload] = "aborted" THEN Answer(r, "error") ELSE Advance(r, "put")
  /\ UNCHANGED <<Client, server, bounds>>

PartPut(r) ==
  /\ Work(r, "part", "put")
  /\ chunks' = [chunks EXCEPT ![r.upload] = @ \cup {r.part}]
  /\ Answer(r, "ok")
  /\ UNCHANGED <<Client, session, file, bounds>>

\* POST complete.  A file at the path is taken for the result of this upload.
CompleteRead(r) ==
  /\ Work(r, "complete", "read")
  /\ IF session[r.upload] = "aborted" THEN Answer(r, "error")
     ELSE IF file # NoFile THEN Answer(r, "ok")
     ELSE Advance(r, "list")
  /\ UNCHANGED <<Client, server, bounds>>

CompleteList(r) ==
  /\ Work(r, "complete", "list")
  /\ IF chunks[r.upload] = Part
     THEN Replace(r, [r EXCEPT !.at = "get", !.part = 1])
     ELSE Answer(r, "error")
  /\ UNCHANGED <<Client, server, bounds>>

CompleteGetSkips(r) ==
  /\ Work(r, "complete", "get")
  /\ LET s == [r EXCEPT !.got = @ \cup ({r.part} \cap chunks[r.upload])]
     IN Replace(r, IF r.part = Parts THEN [s EXCEPT !.at = "put"]
                   ELSE [s EXCEPT !.part = @ + 1])
  /\ UNCHANGED <<Client, server, bounds>>

CompleteGet(r) ==
  /\ Work(r, "complete", "get")
  /\ LET s == [r EXCEPT !.got = @ \cup {r.part}]
     IN IF r.part \notin chunks[r.upload] THEN Answer(r, "error")
        ELSE Replace(r, IF r.part = Parts THEN [s EXCEPT !.at = "put"]
                        ELSE [s EXCEPT !.part = @ + 1])
  /\ UNCHANGED <<Client, server, bounds>>

CompletePut(r) ==
  /\ Work(r, "complete", "put")
  /\ file' = [item |-> r.item, parts |-> r.got]
  /\ Advance(r, "sweep")
  /\ UNCHANGED <<Client, session, chunks, bounds>>

\* Chunks are listed, then deleted; one that is put in between stays.
Sweep(r) ==
  /\ Work(r, "complete", "sweep")
  /\ Replace(r, [r EXCEPT !.at = "delete", !.got = chunks[r.upload]])
  /\ UNCHANGED <<Client, server, bounds>>

CompleteDelete(r) ==
  /\ Work(r, "complete", "delete")
  /\ chunks' = [chunks EXCEPT ![r.upload] = @ \ r.got]
  /\ Answer(r, "ok")
  /\ UNCHANGED <<Client, session, file, bounds>>

\* POST abort
AbortRead(r) ==
  /\ Work(r, "abort", "read")
  /\ IF session[r.upload] = "aborted" THEN Answer(r, "ok")
     ELSE Replace(r, [r EXCEPT !.at = "delete", !.got = chunks[r.upload]])
  /\ UNCHANGED <<Client, server, bounds>>

AbortDelete(r) ==
  /\ Work(r, "abort", "delete")
  /\ chunks' = [chunks EXCEPT ![r.upload] = @ \ r.got]
  /\ Advance(r, "mark")
  /\ UNCHANGED <<Client, session, file, bounds>>

AbortMark(r) ==
  /\ Work(r, "abort", "mark")
  /\ session' = [session EXCEPT ![r.upload] = "aborted"]
  /\ Answer(r, "ok")
  /\ UNCHANGED <<Client, chunks, file, bounds>>

\* A call throws: the answer is an error, and a part that is not stored or
\* an abort that fails also mark the session, whatever its status.
Throw(r) ==
  /\ r \in net /\ r.at # "answer" /\ faults < MaxFaults
  /\ faults' = faults + 1
  /\ session' = IF r.op \in {"part", "abort"} /\ r.at # "read"
                THEN [session EXCEPT ![r.upload] = "failed"] ELSE session
  /\ Answer(r, "error")
  /\ UNCHANGED <<Client, chunks, file, retries, closes, lapses>>
-----------------------------------------------------------------------------
Serve(r) ==
  \/ CreateCheck(r) \/ CreateRow(r) \/ Status(r) \/ PartRead(r) \/ PartPut(r)
  \/ CompleteRead(r) \/ CompleteList(r) \/ CompleteGet(r) \/ CompletePut(r)
  \/ Sweep(r) \/ CompleteDelete(r) \/ AbortRead(r) \/ AbortDelete(r) \/ AbortMark(r)

Receive(t, i) ==
  \E r \in net : SessionReady(t, i, r) \/ PartReady(t, i, r)
                 \/ CompleteReady(t, i, r) \/ RetryReady(t, i, r)

Run(t, i) ==
  \/ RunIdle(t, i) \/ RunDone(t, i) \/ TryRead(t, i) \/ TryWrite(t, i)
  \/ RunDeferred(t, i) \/ RunItem(t, i) \/ RunEnds(t, i)

User(t, i) == StartUpload(t, i) \/ Cancel(t, i) \/ Retry(t, i)

Next ==
  \/ \E t \in Tab, i \in Item :
       Run(t, i) \/ Receive(t, i) \/ Nudge(t, i) \/ Heartbeat(t, i) \/ User(t, i)
  \/ \E t \in Tab : OpenTab(t) \/ ReleaseAll(t) \/ CloseTab(t)
  \/ \E i \in Item : Lapse(i) \/ Expire(i)
  \/ \E r \in net : Serve(r) \/ Lose(r) \/ Throw(r)

\* Timers fire, promises resolve and handlers go on; users owe nothing.
Fairness ==
  /\ \A t \in Tab, i \in Item : WF_vars(Run(t, i)) /\ WF_vars(Receive(t, i))
  /\ \A i \in Item : WF_vars(Expire(i))
  /\ WF_vars(\E r \in net : Serve(r))

Spec == Init /\ [][Next]_vars /\ Fairness
-----------------------------------------------------------------------------
(* The object at the path is one whole upload, whichever sessions, retries *)
(* and aborts take the chunks away while completions read them (r2-files   *)
(* .ts:303).                                                               *)
FileIsWhole == file # NoFile => file.parts = Part

(* "Uploaded 1 file" is announced only when there is a file (upload-       *)
(* manager.svelte.ts:387), also after a retry, a resumption in another     *)
(* tab, or a completion that found the file there.                         *)
ReportedIsThere == reported # {} => file # NoFile

(* Two tabs upload one item at once only beside a run that was cancelled   *)
(* or has lost the cover of its lease (upload-coordination.ts:64-72): the  *)
(* lease ran out because heartbeats were late, the page was asked to leave *)
(* and has not left, or a tryAcquire that had read the lease before the    *)
(* run wrote it has written it afterwards.                                 *)
OneTabUploads ==
  \A i \in Item, t, u \in Tab :
    /\ Uploads(t, i) /\ ~mem[t][i].exposed
    /\ Uploads(u, i) /\ ~mem[u][i].exposed
    => t = u

(* An item that waits to be uploaded has something that wakes its run: a   *)
(* call that is due, a request it waits for, or a retry that looks up the  *)
(* session.  Leases that other tabs take, answers that are lost, cancels   *)
(* and restarts included (upload-manager.svelte.ts:256).                   *)
PendingIsDriven ==
  \A t \in Tab, i \in Item : Pending(t, i) =>
    mem[t][i].due \/ mem[t][i].retrying # {} \/ mem[t][i].pc # "rest"

(* The requests a tab waits for are those its run and its retries are at:  *)
(* one for the run, one for each retry, of which there may be several, and *)
(* none is left over whose answer would meet another run of the item       *)
(* (#uploadItem, retryBatch, the abort controllers of cancelBatch).        *)
Asks(pc) == CASE pc = "session"  -> {"create", "status"}
              [] pc = "part"     -> {"part"}
              [] pc = "complete" -> {"complete"}
              [] OTHER           -> {}
Awaited(t, i) == {r \in net : r.tab = t /\ r.item = i}
Matched(m, W) ==
  /\ \A r \in W : r.op \in Asks(m.pc) \/ (r.op = "recheck" /\ r.part \in m.retrying)
  /\ Asks(m.pc) # {} => \E r \in W : r.op \in Asks(m.pc)
  /\ \A n \in m.retrying : \E r \in W : r.op = "recheck" /\ r.part = n
  /\ \A r, q \in W :
       \/ r.op \in Asks(m.pc) /\ q.op \in Asks(m.pc)
       \/ r.op = q.op /\ r.part = q.part
       => r = q
AnswersAreAwaited == \A t \in Tab, i \in Item : Matched(mem[t][i], Awaited(t, i))

(* The record of an item leaves IndexedDB only when there is a file, or    *)
(* its user cancels it: a failed, lost or aborted upload stays there to be *)
(* resumed (upload-persistence.ts).                                        *)
QueueForgetsOnlyDone ==
  [][\A i \in Item : queue[i].there /\ ~queue'[i].there =>
       file # NoFile \/ \E t \in Tab : mem[t][i].listed /\ ~mem'[t][i].listed]_vars

(* The inductive invariant of the first two: a cancelled run is not listed *)
(* any more, retries are numbered as they come, and only tabs that are     *)
(* open know of items, of those a user has started.                        *)
WakeInv ==
  /\ PendingIsDriven /\ AnswersAreAwaited
  /\ \A t \in Tab, i \in Item :
       /\ mem[t][i].cancelled => ~mem[t][i].listed
       /\ mem[t][i].retrying \subseteq 1..retries
       /\ t \notin open \/ i \notin chosen => mem[t][i] = Unknown
  /\ \A i \in Item \ chosen : queue[i] = NoRecord

(* The inductive invariant: a completion that reads a chunk has read those *)
(* before it, whoever believes an item stored has a file to show for it, a *)
(* run that is neither cancelled nor exposed holds a live lease, and so    *)
(* does none beside a tryAcquire whose reading is not out of date          *)
(* (r2-files.ts:285, upload-manager.svelte.ts:308).                        *)
RequestOK(r) ==
  /\ r.op # "create" => r.upload # 0
  /\ r.op = "part" => r.part \in Part
  /\ r.op = "create" /\ r.at = "answer" /\ r.out # "error" => r.upload # 0
  /\ r.op = "complete" /\ r.at \in {"read", "list"} => r.got = {}
  /\ r.op = "complete" /\ r.at = "get" => r.part \in Part /\ r.got = 1..(r.part - 1)
  /\ r.op = "complete" /\ r.at = "put" => r.got = Part
  /\ r.op = "complete" /\ r.at \in {"sweep", "delete"} => file # NoFile
  /\ r.op = "complete" /\ r.at = "answer" /\ r.out = "ok" => file # NoFile
  /\ r.out = "completed" => file # NoFile
StoredOK(t, i) ==
  mem[t][i].status = "completed" \/ mem[t][i].pc = "delete" => file # NoFile
QueueOK == \A i \in Item : queue[i].status = "completed" => file # NoFile
LeaseOK(t, i) ==
  ~mem[t][i].exposed =>
    /\ Uploads(t, i) => lease[i] = [owner |-> t, live |-> TRUE]
    /\ mem[t][i].pc = "acquire" => ~Taken(t, i)
IInv ==
  /\ TypeOK /\ FileIsWhole /\ ReportedIsThere /\ QueueOK
  /\ \A r \in net : RequestOK(r)
  /\ \A t \in Tab, i \in Item : StoredOK(t, i) /\ LeaseOK(t, i)

(* An item that is queued or uploading is some day done, failed, cancelled *)
(* or gone with its tab, in every tab (#scheduleBatchRetry and the lease   *)
(* of a tab that died).                                                    *)
ItemsSettle == \A t \in Tab, i \in Item : Pending(t, i) ~> ~Pending(t, i)

(* An item that is announced as uploaded is the file at its path, because  *)
(* "upload session path is reserved once session creation succeeds" and    *)
(* "finalization rechecks path conflicts" (plan of 26-04-19, lines 398-9). *)
ReportedIsStored == \A i \in reported : file.item = i
=============================================================================
