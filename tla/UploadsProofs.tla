--------------------------- MODULE UploadsProofs ---------------------------
(***************************************************************************)
(* Proofs about Uploads for any tabs, items, parts and bounds.  The        *)
(* argument: a completion puts the file only after it has read every part, *)
(* whoever believes an item stored heard it from a request that saw the    *)
(* file, and a run that has not lost its cover holds the lease of what it  *)
(* uploads, which no other tab takes or releases unless its reading of the *)
(* lease is out of date.                                                   *)
(***************************************************************************)
EXTENDS Uploads, TLAPS

USE DEF server, bounds, Client

\* What a handler knows of the upload of its request.
LEMMA UploadType ==
  ASSUME TypeOK, NEW r \in net
  PROVE  /\ r \in Requests
         /\ r.upload # 0 => r.upload \in Session /\ chunks[r.upload] \in SUBSET Part
BY BoundAssumption DEF TypeOK, Requests, Upload, Session

\* A new request is one the server may get.
LEMMA NewRequest ==
  ASSUME NEW op \in Op, NEW t \in Tab \cup {NoTab}, NEW i \in Item,
         NEW u \in Upload, NEW p \in 0..Parts \cup 0..MaxRetries,
         op # "create" => u # 0, op = "part" => p \in Part
  PROVE  Request(op, t, i, u, p) \in Requests /\ RequestOK(Request(op, t, i, u, p))
BY DEF Request, Requests, RequestOK, Op, At, Out

\* A request nobody waits for any more is as sound as it was.
LEMMA DetachedOK ==
  ASSUME NEW r \in Requests, RequestOK(r)
  PROVE  Detached(r) \in Requests /\ RequestOK(Detached(r))
BY DEF Detached, Requests, RequestOK

LEMMA WithoutOK ==
  ASSUME IInv, NEW R \in SUBSET net
  PROVE  \A r \in Without(R) : r \in Requests /\ RequestOK(r)
BY DetachedOK DEF Without, IInv, TypeOK

\* A request is judged by the file alone.
LEMMA SameFile ==
  ASSUME file # NoFile => file' # NoFile, NEW r, RequestOK(r)
  PROVE  RequestOK(r)'
BY DEF RequestOK, NoFile, Part
-----------------------------------------------------------------------------
(* Steps of the server *)

\* A handler replaces its request by one that is sound; the tabs are not
\* touched, and a file that is there stays.
LEMMA ServerStep ==
  ASSUME IInv, NEW r \in net, NEW s \in Requests, RequestOK(s)',
         net' \subseteq (net \ {r}) \cup {s},
         session' \in [Session -> {"none", "created", "failed", "aborted"}],
         chunks' \in [Session -> SUBSET Part],
         file' \in [item : Item \cup {NoItem}, parts : SUBSET Part],
         file # NoFile => file' # NoFile, FileIsWhole',
         UNCHANGED <<Client, retries, closes, lapses>>, faults' \in 0..MaxFaults
  PROVE  IInv'
<1>1. TypeOK'
  BY DEF TypeOK, IInv
<1>2. \A x \in net' : RequestOK(x)'
  BY SameFile DEF IInv
<1>3. ReportedIsThere'
  BY DEF ReportedIsThere, IInv
<1>4. \A t \in Tab, i \in Item : StoredOK(t, i)' /\ LeaseOK(t, i)'
  <2> SUFFICES ASSUME NEW t \in Tab, NEW i \in Item
               PROVE  StoredOK(t, i)' /\ LeaseOK(t, i)'
    OBVIOUS
  <2>1. StoredOK(t, i) /\ LeaseOK(t, i)
    BY DEF IInv
  <2> QED
    BY <2>1 DEF StoredOK, LeaseOK, Uploads, Taken
<1>5. QueueOK'
  BY DEF QueueOK, IInv
<1> QED
  BY <1>1, <1>2, <1>3, <1>4, <1>5 DEF IInv

\* A handler that reads, and moves on or answers.
LEMMA ReadStep ==
  ASSUME IInv, NEW r \in net, NEW s \in Requests, RequestOK(s),
         net' \subseteq (net \ {r}) \cup {s},
         session' \in [Session -> {"none", "created", "failed", "aborted"}],
         chunks' \in [Session -> SUBSET Part], file' = file,
         UNCHANGED <<Client, retries, closes, lapses>>, faults' \in 0..MaxFaults
  PROVE  IInv'
<1>1. RequestOK(s)'
  BY SameFile
<1>2. FileIsWhole' /\ file' \in [item : Item \cup {NoItem}, parts : SUBSET Part]
  BY DEF IInv, TypeOK, FileIsWhole, NoFile, Part
<1> QED
  BY <1>1, <1>2, ServerStep

\* The answers a handler may give.
LEMMA AnswerOK ==
  ASSUME IInv, NEW r \in net, NEW out \in Out, Answer(r, out),
         out = "completed" => file # NoFile,
         out = "ok" /\ r.op = "complete" => file # NoFile,
         r.op = "create" /\ r.upload = 0 => out = "error"
  PROVE  LET s == [r EXCEPT !.at = "answer", !.out = out]
         IN s \in Requests /\ RequestOK(s) /\ net' \subseteq (net \ {r}) \cup {s}
<1>1. r \in Requests /\ RequestOK(r)
  BY DEF IInv, TypeOK
<1> QED
  BY <1>1 DEF Answer, Replace, Requests, RequestOK, At, Out

LEMMA AnswerStep ==
  ASSUME IInv, NEW r \in net, NEW out \in Out, Answer(r, out),
         out = "completed" => file # NoFile,
         out = "ok" /\ r.op = "complete" => file # NoFile,
         r.op = "create" /\ r.upload = 0 => out = "error",
         session' \in [Session -> {"none", "created", "failed", "aborted"}],
         chunks' \in [Session -> SUBSET Part], file' = file,
         UNCHANGED <<Client, retries, closes, lapses>>, faults' \in 0..MaxFaults
  PROVE  IInv'
<1> DEFINE s == [r EXCEPT !.at = "answer", !.out = out]
<1>1. s \in Requests /\ RequestOK(s) /\ net' \subseteq (net \ {r}) \cup {s}
  BY AnswerOK
<1> QED
  BY <1>1, ReadStep

LEMMA CreateStep ==
  ASSUME IInv, NEW r \in net, CreateCheck(r) \/ CreateRow(r)
  PROVE  IInv'
<1>0. r \in Requests /\ RequestOK(r) /\ TypeOK
  BY DEF IInv, TypeOK
<1>1. CASE CreateCheck(r)
  <2>1. CASE file = NoFile
    <3> DEFINE s == [r EXCEPT !.at = "row"]
    <3>1. s \in Requests /\ RequestOK(s)
      BY <1>0, <1>1 DEF CreateCheck, Work, Requests, RequestOK, At
    <3>2. net' \subseteq (net \ {r}) \cup {s}
      BY <1>1, <2>1 DEF CreateCheck, Advance, Replace
    <3> QED
      BY <1>0, <1>1, <3>1, <3>2, ReadStep DEF CreateCheck, TypeOK
  <2>2. CASE file # NoFile
    <3>1. Answer(r, "error") /\ "error" \in Out
      BY <1>1, <2>2 DEF CreateCheck, Out
    <3> QED
      BY <1>0, <1>1, <3>1, AnswerStep DEF CreateCheck, TypeOK
  <2> QED
    BY <2>1, <2>2
<1>2. CASE CreateRow(r)
  <2> PICK n \in Session :
        /\ session' = [session EXCEPT ![n] = "created"]
        /\ net' = (net \ {r}) \cup
             IF r.tab = NoTab THEN {} ELSE {[r EXCEPT !.at = "answer", !.upload = n]}
    BY <1>2 DEF CreateRow
  <2> DEFINE s == [r EXCEPT !.at = "answer", !.upload = n]
  <2>1. n \in Upload /\ n # 0
    BY BoundAssumption DEF Session, Upload
  <2>2. s \in Requests /\ RequestOK(s)
    BY <1>0, <1>2, <2>1 DEF CreateRow, Work, Requests, RequestOK, At
  <2>3. net' \subseteq (net \ {r}) \cup {s}
    OBVIOUS
  <2>4. session' \in [Session -> {"none", "created", "failed", "aborted"}]
    BY <1>0 DEF TypeOK
  <2> QED
    BY <1>0, <1>2, <2>2, <2>3, <2>4, ReadStep DEF CreateRow, TypeOK
<1> QED
  BY <1>1, <1>2

LEMMA StatusStep ==
  ASSUME IInv, NEW r \in net, Status(r)
  PROVE  IInv'
<1>0. r \in Requests /\ RequestOK(r) /\ TypeOK
  BY DEF IInv, TypeOK
<1>1. r.op \in {"status", "recheck"} /\ chunks[r.upload] \in SUBSET Part
  BY <1>0, UploadType DEF Status, Work, RequestOK
<1> DEFINE out == IF session[r.upload] = "aborted" THEN "aborted"
                  ELSE IF file = NoFile THEN "ok" ELSE "completed"
           s == [r EXCEPT !.at = "answer", !.got = chunks[r.upload], !.out = out]
<1>2. out \in Out /\ (out = "completed" => file # NoFile)
  BY DEF Out
<1> HIDE DEF out
<1>3. s \in Requests /\ RequestOK(s)
  BY <1>0, <1>1, <1>2 DEF Requests, RequestOK, At
<1>4. net' \subseteq (net \ {r}) \cup {s}
  BY DEF Status, out
<1> QED
  BY <1>0, <1>3, <1>4, ReadStep DEF Status, TypeOK

LEMMA PartStep ==
  ASSUME IInv, NEW r \in net, PartRead(r) \/ PartPut(r)
  PROVE  IInv'
<1>0. r \in Requests /\ RequestOK(r) /\ TypeOK /\ {"ok", "error"} \subseteq Out
  BY DEF IInv, TypeOK, Out
<1>1. CASE PartRead(r) /\ session[r.upload] = "aborted"
  BY <1>0, <1>1, AnswerStep DEF PartRead, Work, TypeOK
<1>2. CASE PartRead(r) /\ session[r.upload] # "aborted"
  <2> DEFINE s == [r EXCEPT !.at = "put"]
  <2>1. s \in Requests /\ RequestOK(s) /\ net' \subseteq (net \ {r}) \cup {s}
    BY <1>0, <1>2 DEF PartRead, Work, Advance, Replace, Requests, RequestOK, At
  <2> QED
    BY <1>0, <1>2, <2>1, ReadStep DEF PartRead, TypeOK
<1>3. CASE PartPut(r)
  <2>1. r.part \in Part
    BY <1>0, <1>3 DEF PartPut, Work, RequestOK
  <2>2. r.upload \in Session
    BY <1>0, <1>3, UploadType DEF PartPut, Work, RequestOK
  <2>3. chunks' \in [Session -> SUBSET Part]
    BY <1>0, <1>3, <2>1, <2>2 DEF PartPut, TypeOK
  <2> QED
    BY <1>0, <1>3, <2>3, AnswerStep DEF PartPut, Work, TypeOK
<1> QED
  BY <1>1, <1>2, <1>3 DEF PartRead

\* Every read of a completion but the last leaves it sound.
LEMMA CompleteReadStep ==
  ASSUME IInv, NEW r \in net, CompleteRead(r) \/ CompleteList(r)
  PROVE  IInv'
<1>0. r \in Requests /\ RequestOK(r) /\ TypeOK /\ {"ok", "error"} \subseteq Out
  BY DEF IInv, TypeOK, Out
<1>1. CASE CompleteRead(r) /\ (session[r.upload] = "aborted" \/ file # NoFile)
  <2> PICK out \in {"ok", "error"} : Answer(r, out) /\ (out = "ok" => file # NoFile)
    BY <1>1 DEF CompleteRead
  <2> QED
    BY <1>0, <1>1, AnswerStep DEF CompleteRead, Work, TypeOK
<1>2. CASE CompleteRead(r) /\ ~(session[r.upload] = "aborted" \/ file # NoFile)
  <2> DEFINE s == [r EXCEPT !.at = "list"]
  <2>1. s \in Requests /\ RequestOK(s) /\ net' \subseteq (net \ {r}) \cup {s}
    BY <1>0, <1>2 DEF CompleteRead, Work, Advance, Replace, Requests, RequestOK, At
  <2> QED
    BY <1>0, <1>2, <2>1, ReadStep DEF CompleteRead, TypeOK
<1>3. CASE CompleteList(r) /\ chunks[r.upload] = Part
  <2> DEFINE s == [r EXCEPT !.at = "get", !.part = 1]
  <2>1. 1 \in Part /\ 1 \in 0..Parts \cup 0..MaxRetries /\ 1..0 = {}
    BY PartsAssumption DEF Part
  <2>2. s \in Requests /\ s.got = r.got /\ s.part = 1
    BY <1>0, <2>1 DEF Requests, At
  <2>3. r.got = {}
    BY <1>0, <1>3 DEF CompleteList, Work, RequestOK
  <2>4. RequestOK(s) /\ net' \subseteq (net \ {r}) \cup {s}
    BY <1>0, <1>3, <2>1, <2>2, <2>3 DEF CompleteList, Work, Replace, Requests, RequestOK
  <2> QED
    BY <1>0, <1>3, <2>2, <2>4, ReadStep DEF CompleteList, TypeOK
<1>4. CASE CompleteList(r) /\ chunks[r.upload] # Part
  BY <1>0, <1>4, AnswerStep DEF CompleteList, Work, TypeOK
<1> QED
  BY <1>1, <1>2, <1>3, <1>4

\* A completion that gets the last part has them all.
LEMMA CompleteGetStep ==
  ASSUME IInv, NEW r \in net, CompleteGet(r)
  PROVE  IInv'
<1>0. r \in Requests /\ RequestOK(r) /\ TypeOK /\ "error" \in Out
  BY DEF IInv, TypeOK, Out
<1>1. CASE r.part \notin chunks[r.upload]
  BY <1>0, <1>1, AnswerStep DEF CompleteGet, Work, TypeOK
<1>2. CASE r.part \in chunks[r.upload]
  <2> DEFINE s == IF r.part = Parts
                  THEN [r EXCEPT !.got = @ \cup {r.part}, !.at = "put"]
                  ELSE [r EXCEPT !.got = @ \cup {r.part}, !.part = @ + 1]
  <2>1. r.part \in 1..Parts /\ r.got = 1..(r.part - 1)
    BY <1>0 DEF CompleteGet, Work, RequestOK, Part
  <2>2. r.got \cup {r.part} = 1..r.part /\ r.got \cup {r.part} \in SUBSET Part
    BY <2>1, PartsAssumption DEF Part
  <2>3. r.part # Parts => r.part + 1 \in 1..Parts /\ (r.part + 1) - 1 = r.part
    BY <2>1, PartsAssumption
  <2>4. s \in Requests
    <3>1. CASE r.part = Parts
      BY <1>0, <2>2, <3>1 DEF Requests, At
    <3>2. CASE r.part # Parts
      <4>1. r.part + 1 \in 0..Parts \cup 0..MaxRetries /\ s.part = r.part + 1
        BY <1>0, <2>3, <3>2, PartsAssumption DEF Requests
      <4>2. s = [r EXCEPT !.got = r.got \cup {r.part}, !.part = r.part + 1]
        BY <1>0, <3>2 DEF Requests
      <4> QED
        BY <1>0, <2>2, <4>1, <4>2 DEF Requests
    <3> QED
      BY <3>1, <3>2
  <2>5. RequestOK(s)
    <3>1. CASE r.part = Parts
      BY <1>0, <2>2, <3>1 DEF CompleteGet, Work, RequestOK, Requests, Part
    <3>2. CASE r.part # Parts
      BY <1>0, <2>1, <2>2, <2>3, <3>2 DEF CompleteGet, Work, RequestOK, Requests, Part
    <3> QED
      BY <3>1, <3>2
  <2>6. net' \subseteq (net \ {r}) \cup {s}
    BY <1>0, <1>2 DEF CompleteGet, Replace, Requests
  <2> HIDE DEF s
  <2> QED
    BY <1>0, <2>4, <2>5, <2>6, ReadStep DEF CompleteGet, TypeOK
<1> QED
  BY <1>1, <1>2

\* The file that is put is whole.
LEMMA CompletePutStep ==
  ASSUME IInv, NEW r \in net, CompletePut(r)
  PROVE  IInv'
<1>0. r \in Requests /\ RequestOK(r) /\ TypeOK /\ r.got = Part
  BY DEF IInv, TypeOK, CompletePut, Work, RequestOK
<1> DEFINE s == [r EXCEPT !.at = "sweep"]
<1>1. s \in Requests /\ net' \subseteq (net \ {r}) \cup {s}
  BY <1>0 DEF CompletePut, Advance, Replace, Requests, At
<1>2. 1 \in Part /\ file'.parts = Part
  BY <1>0, PartsAssumption DEF CompletePut, Part
<1>3. file' # NoFile
  BY <1>2 DEF NoFile
<1>4. FileIsWhole'
  BY <1>2 DEF FileIsWhole, Part
<1>5. RequestOK(s)'
  BY <1>0, <1>3 DEF CompletePut, Work, RequestOK, Requests, NoFile
<1>6. file' \in [item : Item \cup {NoItem}, parts : SUBSET Part]
  BY <1>0 DEF CompletePut, Requests
<1> QED
  BY <1>0, <1>1, <1>3, <1>4, <1>5, <1>6, ServerStep DEF CompletePut, TypeOK

LEMMA SweepStep ==
  ASSUME IInv, NEW r \in net,
         Sweep(r) \/ CompleteDelete(r) \/ AbortRead(r) \/ AbortDelete(r) \/ AbortMark(r)
  PROVE  IInv'
<1>0. r \in Requests /\ RequestOK(r) /\ TypeOK /\ {"ok", "error"} \subseteq Out
  BY DEF IInv, TypeOK, Out
<1>1. r.upload \in Session /\ chunks[r.upload] \in SUBSET Part
  BY <1>0, UploadType
     DEF Sweep, CompleteDelete, AbortRead, AbortDelete, AbortMark, Work, RequestOK
<1>2. [chunks EXCEPT ![r.upload] = @ \ r.got] \in [Session -> SUBSET Part]
  BY <1>0, <1>1 DEF TypeOK
<1>3. CASE Sweep(r)
  <2> DEFINE s == [r EXCEPT !.at = "delete", !.got = chunks[r.upload]]
  <2>1. s \in Requests /\ RequestOK(s) /\ net' \subseteq (net \ {r}) \cup {s}
    BY <1>0, <1>1, <1>3 DEF Sweep, Work, Replace, Requests, RequestOK, At
  <2> QED
    BY <1>0, <1>3, <2>1, ReadStep DEF Sweep, TypeOK
<1>4. CASE CompleteDelete(r)
  <2>1. file # NoFile
    BY <1>0, <1>4 DEF CompleteDelete, Work, RequestOK
  <2> QED
    BY <1>0, <1>2, <1>4, <2>1, AnswerStep DEF CompleteDelete, Work, TypeOK
<1>5. CASE AbortRead(r) /\ session[r.upload] = "aborted"
  BY <1>0, <1>5, AnswerStep DEF AbortRead, Work, TypeOK
<1>6. CASE AbortRead(r) /\ session[r.upload] # "aborted"
  <2> DEFINE s == [r EXCEPT !.at = "delete", !.got = chunks[r.upload]]
  <2>1. s \in Requests /\ RequestOK(s) /\ net' \subseteq (net \ {r}) \cup {s}
    BY <1>0, <1>1, <1>6 DEF AbortRead, Work, Replace, Requests, RequestOK, At
  <2> QED
    BY <1>0, <1>6, <2>1, ReadStep DEF AbortRead, TypeOK
<1>7. CASE AbortDelete(r)
  <2> DEFINE s == [r EXCEPT !.at = "mark"]
  <2>1. s \in Requests /\ RequestOK(s) /\ net' \subseteq (net \ {r}) \cup {s}
    BY <1>0, <1>7 DEF AbortDelete, Work, Advance, Replace, Requests, RequestOK, At
  <2> QED
    BY <1>0, <1>2, <1>7, <2>1, ReadStep DEF AbortDelete, TypeOK
<1>8. CASE AbortMark(r)
  <2>1. session' \in [Session -> {"none", "created", "failed", "aborted"}]
    BY <1>0, <1>8 DEF AbortMark, TypeOK
  <2> QED
    BY <1>0, <1>8, <2>1, AnswerStep DEF AbortMark, Work, TypeOK
<1> QED
  BY <1>3, <1>4, <1>5, <1>6, <1>7, <1>8

LEMMA ThrowStep ==
  ASSUME IInv, NEW r \in net, Throw(r)
  PROVE  IInv'
<1>0. TypeOK /\ "error" \in Out
  BY DEF IInv, Out
<1>1. session' \in [Session -> {"none", "created", "failed", "aborted"}]
  BY <1>0 DEF Throw, TypeOK
<1>2. faults' \in 0..MaxFaults
  BY <1>0, BoundAssumption DEF Throw, TypeOK
<1> QED
  BY <1>0, <1>1, <1>2, AnswerStep DEF Throw, TypeOK

LEMMA ServeStep ==
  ASSUME IInv, NEW r \in net, Serve(r)
  PROVE  IInv'
BY CreateStep, StatusStep, PartStep, CompleteReadStep, CompleteGetStep,
   CompletePutStep, SweepStep DEF Serve
-----------------------------------------------------------------------------
(* Steps of a tab *)

LEMMA UnknownType ==
  Unknown \in Mem /\ Unknown.status = "queued" /\ Unknown.pc = "rest" /\ ~Unknown.listed
BY BoundAssumption DEF Unknown, Mem, Upload, Stage

LEMMA MemType ==
  ASSUME TypeOK, NEW t \in Tab, NEW i \in Item
  PROVE  mem[t][i] \in Mem /\ lease[i] \in [owner : Tab \cup {NoTab}, live : BOOLEAN]
BY DEF TypeOK

\* What is forgotten was at rest.
LEMMA TidyType ==
  ASSUME NEW m \in Mem
  PROVE  Tidy(m) \in Mem /\ (Tidy(m) = m \/ (Tidy(m) = Unknown /\ m.pc = "rest"))
BY UnknownType DEF Tidy

\* What another tab is told wakes it, no more.
Alike(n, m) ==
  /\ n.listed = m.listed /\ n.status = m.status /\ n.pc = m.pc
  /\ n.cancelled = m.cancelled /\ n.retrying = m.retrying

LEMMA ToldType ==
  ASSUME TypeOK, NEW u \in Tab
  PROVE  /\ Told(u) \in [Item -> Mem]
         /\ \A j \in Item :
              /\ Alike(Told(u)[j], mem[u][j])
              /\ Told(u)[j].exposed = mem[u][j].exposed
              /\ mem[u][j].due => Told(u)[j].due
              /\ Told(u)[j].due => mem[u][j].due \/ Pending(u, j)
              /\ ~Pending(u, j) => Told(u)[j] = mem[u][j]
<1> SUFFICES ASSUME NEW j \in Item
             PROVE  LET d == [mem[u][j] EXCEPT !.due = mem[u][j].due \/ Pending(u, j)]
                    IN /\ d \in Mem
                       /\ Alike(d, mem[u][j])
                       /\ d.exposed = mem[u][j].exposed
                       /\ mem[u][j].due => d.due
                       /\ d.due => mem[u][j].due \/ Pending(u, j)
                       /\ ~Pending(u, j) => d = mem[u][j]
  BY DEF Told
<1>1. mem[u][j] \in Mem
  BY DEF TypeOK
<1>2. (mem[u][j].due \/ Pending(u, j)) \in BOOLEAN
      /\ (~Pending(u, j) => (mem[u][j].due \/ Pending(u, j)) = mem[u][j].due)
  BY <1>1 DEF Mem
<1> QED
  BY <1>1, <1>2 DEF Mem, Alike

\* What a tab sets of its own item, and tells the others.
LEMMA SetType ==
  ASSUME TypeOK, NEW t \in Tab, NEW i \in Item, NEW m \in Mem,
         Set(t, i, m) \/ SetAndTell(t, i, m)
  PROVE  /\ mem' \in [Tab -> [Item -> Mem]]
         /\ mem'[t][i] = Tidy(m)
         /\ \A u \in Tab, j \in Item : u # t \/ j # i =>
              /\ mem'[u][j].status = mem[u][j].status
              /\ mem'[u][j].pc = mem[u][j].pc
              /\ mem'[u][j].cancelled = mem[u][j].cancelled
              /\ mem'[u][j].exposed = mem[u][j].exposed
<1>0. Tidy(m) \in Mem
  BY TidyType
<1>1. CASE Set(t, i, m)
  BY <1>0, <1>1 DEF Set, TypeOK
<1>2. CASE SetAndTell(t, i, m)
  <2>1. \A u \in Tab : mem'[u] = IF u = t THEN [mem[t] EXCEPT ![i] = Tidy(m)] ELSE Told(u)
    BY <1>2 DEF SetAndTell
  <2>2. [mem[t] EXCEPT ![i] = Tidy(m)] \in [Item -> Mem]
    BY <1>0 DEF TypeOK
  <2>3. mem' \in [Tab -> [Item -> Mem]]
    BY <1>2, <2>2, ToldType DEF SetAndTell
  <2>4. mem'[t][i] = Tidy(m) /\ \A j \in Item \ {i} : mem'[t][j] = mem[t][j]
    BY <2>1 DEF TypeOK
  <2>5. ASSUME NEW u \in Tab, NEW j \in Item, u # t
        PROVE  /\ mem'[u][j].status = mem[u][j].status
               /\ mem'[u][j].pc = mem[u][j].pc
               /\ mem'[u][j].cancelled = mem[u][j].cancelled
               /\ mem'[u][j].exposed = mem[u][j].exposed
    <3>1. mem'[u][j] = Told(u)[j]
      BY <2>1, <2>5
    <3> QED
      BY <3>1, ToldType DEF Alike
  <2> QED
    BY <2>3, <2>4, <2>5
<1> QED
  BY <1>1, <1>2

\* A tab that releases its lease leaves those of the others.
LEMMA ReleasedOK ==
  ASSUME TypeOK, NEW t \in Tab, NEW i \in Item,
         lease' = lease \/ lease' = Released(t, i)
  PROVE  /\ lease' \in [Item -> [owner : Tab \cup {NoTab}, live : BOOLEAN]]
         /\ \A u \in Tab, j \in Item : u # t \/ j # i =>
              /\ lease[j] = [owner |-> u, live |-> TRUE] => lease'[j] = lease[j]
              /\ Taken(u, j)' => Taken(u, j)
<1>1. Free \in [owner : Tab \cup {NoTab}, live : BOOLEAN] /\ ~Free.live
  BY DEF Free
<1>2. lease' \in [Item -> [owner : Tab \cup {NoTab}, live : BOOLEAN]]
  BY <1>1 DEF Released, TypeOK
<1>3. \A j \in Item : lease'[j] = lease[j] \/ (j = i /\ lease[j].owner = t /\ lease'[j] = Free)
  BY DEF Released, TypeOK
<1> QED
  BY <1>1, <1>2, <1>3 DEF Taken

\* A step of a tab that changes one of its items, and what it must know: who
\* takes an item for stored that there is a file, a run that it holds the
\* lease, and a tryAcquire that nobody else does.
LEMMA TabStep ==
  ASSUME IInv, NEW t \in Tab, NEW i \in Item, NEW m \in Mem,
         Set(t, i, m) \/ SetAndTell(t, i, m),
         m.status = "completed" \/ m.pc = "delete" => file # NoFile,
         m.pc \in Sending /\ ~m.cancelled /\ ~m.exposed
           => lease'[i] = [owner |-> t, live |-> TRUE],
         m.pc = "acquire" /\ ~m.exposed => ~Taken(t, i)',
         lease' = lease \/ lease' = Released(t, i),
         queue' \in [Item -> Record],
         \A j \in Item : queue'[j].status = "completed" => file # NoFile,
         \A r \in net' : r \in Requests /\ RequestOK(r),
         chosen' \in SUBSET Item, reported' \in SUBSET Item,
         reported' # {} => file # NoFile,
         retries' \in 0..MaxRetries,
         UNCHANGED <<open, server, closes, lapses, faults>>
  PROVE  IInv'
<1>0. TypeOK
  BY DEF IInv
<1>1. TypeOK'
  BY <1>0, SetType, ReleasedOK DEF TypeOK
<1>2. \A r \in net' : RequestOK(r)'
  BY SameFile
<1>3. ReportedIsThere' /\ FileIsWhole' /\ QueueOK'
  BY DEF ReportedIsThere, FileIsWhole, QueueOK, IInv, NoFile, Part
<1>4. \A u \in Tab, j \in Item : StoredOK(u, j)' /\ LeaseOK(u, j)'
  <2> SUFFICES ASSUME NEW u \in Tab, NEW j \in Item
               PROVE  StoredOK(u, j)' /\ LeaseOK(u, j)'
    OBVIOUS
  <2>1. CASE u = t /\ j = i
    <3>1. mem'[t][i] = m \/ mem'[t][i] = Unknown
      BY <1>0, SetType, TidyType
    <3> QED
      BY <2>1, <3>1, UnknownType DEF StoredOK, LeaseOK, Uploads, Sending, NoFile
  <2>2. CASE u # t \/ j # i
    <3>1. StoredOK(u, j) /\ LeaseOK(u, j)
      BY DEF IInv
    <3>2. /\ lease[j] = [owner |-> u, live |-> TRUE] => lease'[j] = lease[j]
          /\ Taken(u, j)' => Taken(u, j)
      BY <1>0, <2>2, ReleasedOK
    <3> QED
      BY <1>0, <2>2, <3>1, <3>2, SetType DEF StoredOK, LeaseOK, Uploads, NoFile
  <2> QED
    BY <2>1, <2>2
<1> QED
  BY <1>1, <1>2, <1>3, <1>4 DEF IInv

\* What a tab that does no more than set an item leaves alone.
LEMMA QuietStep ==
  ASSUME IInv, NEW t \in Tab, NEW i \in Item, NEW m \in Mem,
         Set(t, i, m),
         m.status = "completed" => mem[t][i].status = "completed" \/ file # NoFile,
         m.pc = mem[t][i].pc \/ m.pc = "rest", m.cancelled = mem[t][i].cancelled,
         m.exposed = mem[t][i].exposed \/ m.pc = "rest",
         queue' \in [Item -> Record],
         \A j \in Item : queue'[j].status = "completed" => file # NoFile,
         \A r \in net' : r \in Requests /\ RequestOK(r),
         chosen' \in SUBSET Item, reported' \in SUBSET Item,
         reported' # {} => file # NoFile,
         retries' \in 0..MaxRetries,
         UNCHANGED <<open, lease, server, closes, lapses, faults>>
  PROVE  IInv'
<1>1. StoredOK(t, i) /\ LeaseOK(t, i)
  BY DEF IInv
<1>2. m.status = "completed" \/ m.pc = "delete" => file # NoFile
  BY <1>1 DEF StoredOK
<1>3. /\ m.pc \in Sending /\ ~m.cancelled /\ ~m.exposed
           => lease'[i] = [owner |-> t, live |-> TRUE]
      /\ m.pc = "acquire" /\ ~m.exposed => ~Taken(t, i)'
  BY <1>1 DEF LeaseOK, Uploads, Taken, Sending
<1> QED
  BY <1>2, <1>3, TabStep

LEMMA PutType ==
  ASSUME IInv, NEW i \in Item
  PROVE  /\ \A m \in Mem : Put(i, m) /\ (m.status = "completed" => file # NoFile) =>
              /\ queue' \in [Item -> Record]
              /\ \A j \in Item : queue'[j].status = "completed" => file # NoFile
         /\ Drop(i) \/ UNCHANGED queue =>
              /\ queue' \in [Item -> Record]
              /\ \A j \in Item : queue'[j].status = "completed" => file # NoFile
<1>1. /\ NoRecord \in Record /\ NoRecord.status = "queued" /\ queue \in [Item -> Record]
      /\ \A j \in Item : queue[j].status = "completed" => file # NoFile
  BY BoundAssumption DEF IInv, TypeOK, QueueOK, Record, NoRecord, Upload, Stage
<1>2. ASSUME NEW m \in Mem
      PROVE  LET c == [there |-> TRUE, upload |-> m.upload,
                       status |-> IF m.status = "uploading" THEN "queued" ELSE m.status]
             IN c \in Record /\ (c.status = "completed" => m.status = "completed")
  BY DEF Mem, Record, Stage
<1> QED
  BY <1>1, <1>2 DEF Put, Drop

LEMMA StartStep ==
  ASSUME IInv, NEW t \in Tab, NEW i \in Item, StartUpload(t, i)
  PROVE  IInv'
<1> DEFINE m == [Unknown EXCEPT !.listed = TRUE, !.due = TRUE]
<1>0. TypeOK /\ m \in Mem /\ m.status = "queued" /\ m.pc = "rest"
  BY UnknownType DEF IInv, Mem
<1>1. Set(t, i, m) /\ Put(i, m)
  BY DEF StartUpload
<1>2. /\ queue' \in [Item -> Record]
      /\ \A j \in Item : queue'[j].status = "completed" => file # NoFile
  BY <1>0, <1>1, PutType
<1>3. \A r \in net' : r \in Requests /\ RequestOK(r)
  BY DEF StartUpload, IInv, TypeOK
<1>4. chosen' \in SUBSET Item /\ reported' \in SUBSET Item /\ retries' \in 0..MaxRetries
      /\ (reported' # {} => file # NoFile)
      /\ UNCHANGED <<open, lease, server, closes, lapses, faults>>
  BY DEF StartUpload, IInv, TypeOK, ReportedIsThere
<1>5. "rest" \notin Sending
  BY DEF Sending
<1> HIDE DEF m
<1> QED
  BY <1>0, <1>1, <1>2, <1>3, <1>4, <1>5, TabStep

LEMMA NudgeStep ==
  ASSUME IInv, NEW t \in Tab, NEW i \in Item,
         Nudge(t, i) \/ RunIdle(t, i) \/ RunDone(t, i) \/ RunDeferred(t, i)
  PROVE  IInv'
<1>0. TypeOK /\ mem[t][i] \in Mem /\ StoredOK(t, i) /\ ReportedIsThere
  BY MemType DEF IInv
<1>1. \A r \in net' : r \in Requests /\ RequestOK(r)
  BY DEF Nudge, RunIdle, RunDone, RunDeferred, IInv, TypeOK
<1>2. /\ queue' \in [Item -> Record]
      /\ \A j \in Item : queue'[j].status = "completed" => file # NoFile
  BY PutType DEF Nudge, RunIdle, RunDone, RunDeferred
<1>3. chosen' \in SUBSET Item /\ retries' \in 0..MaxRetries /\ reported' \in SUBSET Item
      /\ UNCHANGED <<open, lease, server, closes, lapses, faults>>
  BY <1>0 DEF Nudge, RunIdle, RunDone, RunDeferred, TypeOK
<1>4. reported' # {} => file # NoFile
  BY <1>0 DEF Nudge, RunIdle, RunDone, RunDeferred, Runs, StoredOK, ReportedIsThere
<1>5. ASSUME NEW m \in Mem, Set(t, i, m),
             m.status = mem[t][i].status \/ m.status = "queued",
             (m.pc = mem[t][i].pc /\ m.exposed = mem[t][i].exposed) \/ m.pc = "rest",
             m.cancelled = mem[t][i].cancelled
      PROVE  IInv'
  BY <1>1, <1>2, <1>3, <1>4, <1>5, QuietStep
<1>6. CASE Nudge(t, i) \/ RunIdle(t, i)
  <2> PICK b \in BOOLEAN : Set(t, i, [mem[t][i] EXCEPT !.due = b])
    BY <1>6 DEF Nudge, RunIdle
  <2> DEFINE m == [mem[t][i] EXCEPT !.due = b]
  <2>1. m \in Mem /\ m.status = mem[t][i].status /\ m.pc = mem[t][i].pc
        /\ m.cancelled = mem[t][i].cancelled /\ m.exposed = mem[t][i].exposed
    BY <1>0 DEF Mem
  <2> HIDE DEF m
  <2> QED
    BY <1>5, <2>1 DEF m
<1>7. CASE RunDone(t, i)
  <2> DEFINE m == [mem[t][i] EXCEPT !.listed = FALSE, !.due = FALSE]
  <2>1. m \in Mem /\ m.status = mem[t][i].status /\ m.pc = mem[t][i].pc
        /\ m.cancelled = mem[t][i].cancelled /\ m.exposed = mem[t][i].exposed
    BY <1>0 DEF Mem
  <2>2. Set(t, i, m)
    BY <1>7 DEF RunDone
  <2> HIDE DEF m
  <2> QED
    BY <1>5, <2>1, <2>2
<1>8. CASE RunDeferred(t, i)
  <2> DEFINE m == [mem[t][i] EXCEPT !.status = "queued", !.pc = "rest", !.due = TRUE,
                                    !.exposed = FALSE]
  <2>1. m \in Mem /\ m.status = "queued" /\ m.pc = "rest"
        /\ m.cancelled = mem[t][i].cancelled
    BY <1>0 DEF Mem, Stage
  <2>2. Set(t, i, m)
    BY <1>8 DEF RunDeferred
  <2> HIDE DEF m
  <2> QED
    BY <1>5, <2>1, <2>2
<1> QED
  BY <1>6, <1>7, <1>8

\* A tryAcquire goes on where no other tab has a live lease.
LEMMA TryReadStep ==
  ASSUME IInv, NEW t \in Tab, NEW i \in Item, TryRead(t, i)
  PROVE  IInv'
<1> DEFINE m == [mem[t][i] EXCEPT !.pc = "acquire", !.due = FALSE]
<1>0. TypeOK /\ mem[t][i] \in Mem /\ mem[t][i].status # "completed"
  BY MemType DEF IInv, TryRead
<1>1. m \in Mem /\ m.status = mem[t][i].status /\ m.pc = "acquire" /\ "acquire" \notin Sending
  BY <1>0 DEF Mem, Sending
<1>2. Set(t, i, m) /\ ~Taken(t, i)'
  BY DEF TryRead, Taken
<1>3. \A r \in net' : r \in Requests /\ RequestOK(r)
  BY DEF TryRead, IInv, TypeOK
<1>4. /\ queue' \in [Item -> Record]
      /\ \A j \in Item : queue'[j].status = "completed" => file # NoFile
  BY PutType DEF TryRead
<1>5. chosen' \in SUBSET Item /\ reported' \in SUBSET Item /\ retries' \in 0..MaxRetries
      /\ (reported' # {} => file # NoFile)
      /\ UNCHANGED <<open, lease, server, closes, lapses, faults>>
  BY DEF TryRead, IInv, TypeOK, ReportedIsThere
<1> HIDE DEF m
<1> QED
  BY <1>0, <1>1, <1>2, <1>3, <1>4, <1>5, TabStep

\* A run starts under the lease it has just read to be its own.
LEMMA RunItemStep ==
  ASSUME IInv, NEW t \in Tab, NEW i \in Item, RunItem(t, i)
  PROVE  IInv'
<1> DEFINE m == [mem[t][i] EXCEPT !.status = "uploading", !.pc = "session",
                                  !.exposed = ~lease[i].live]
           op == IF m.upload = 0 THEN "create" ELSE "status"
           q == Request(op, t, i, m.upload, 0)
<1>0. TypeOK /\ mem[t][i] \in Mem /\ lease[i] \in [owner : Tab \cup {NoTab}, live : BOOLEAN]
  BY MemType DEF IInv
<1>1. m \in Mem /\ m.status = "uploading" /\ m.pc = "session" /\ m.exposed = ~lease[i].live
  <2>1. (~lease[i].live) \in BOOLEAN /\ "session" \in Sending
    BY DEF Sending
  <2> QED
    BY <1>0, <2>1 DEF Mem
<1>2. SetAndTell(t, i, m) /\ Put(i, m) /\ net' = net \cup {q} /\ lease' = lease
  BY DEF RunItem
<1>3. q \in Requests /\ RequestOK(q)
  <2> HIDE DEF m
  <2>1. op \in Op /\ m.upload \in Upload /\ (op # "create" => m.upload # 0)
        /\ 0 \in 0..Parts /\ op # "part"
    BY <1>1, PartsAssumption DEF Op, Mem
  <2> HIDE DEF op
  <2> QED
    BY <2>1, NewRequest
<1>4. \A r \in net' : r \in Requests /\ RequestOK(r)
  BY <1>2, <1>3 DEF IInv, TypeOK
<1>5. lease[i].owner = t
  BY DEF RunItem
<1>6. chosen' \in SUBSET Item /\ reported' \in SUBSET Item /\ retries' \in 0..MaxRetries
      /\ (reported' # {} => file # NoFile)
      /\ UNCHANGED <<open, server, closes, lapses, faults>>
  BY DEF RunItem, IInv, TypeOK, ReportedIsThere
<1> HIDE DEF m, q
<1>7. /\ queue' \in [Item -> Record]
      /\ \A j \in Item : queue'[j].status = "completed" => file # NoFile
  BY <1>1, <1>2, PutType
<1>8. ~m.exposed => lease'[i] = [owner |-> t, live |-> TRUE]
  BY <1>0, <1>1, <1>2, <1>5
<1> QED
  BY <1>1, <1>2, <1>4, <1>6, <1>7, <1>8, TabStep

\* The next request of a run, and its end.
LEMMA ContinueStep ==
  ASSUME IInv, NEW t \in Tab, NEW i \in Item, NEW m \in Mem, NEW r \in net,
         Continue(t, i, m, r), r.upload # 0, mem[t][i].pc \in Sending,
         m.status = mem[t][i].status, m.cancelled = mem[t][i].cancelled,
         m.exposed = mem[t][i].exposed,
         UNCHANGED <<open, server, chosen, reported, bounds>>
  PROVE  IInv'
<1>0. TypeOK /\ r \in Requests /\ StoredOK(t, i) /\ LeaseOK(t, i)
  BY DEF IInv, TypeOK
<1> PICK p \in m.todo \cup {0} :
      LET pc == IF p = 0 THEN "complete" ELSE "part"
          n == [m EXCEPT !.pc = pc]
      IN /\ Set(t, i, n) /\ Put(i, n)
         /\ net' = (net \ {r}) \cup {Request(pc, t, i, r.upload, p)}
         /\ UNCHANGED lease
  BY DEF Continue
<1> DEFINE pc == IF p = 0 THEN "complete" ELSE "part"
           n == [m EXCEPT !.pc = pc]
           q == Request(pc, t, i, r.upload, p)
<1>1. pc \in Op /\ pc # "create" /\ (pc = "part" => p \in Part) /\ p \in 0..Parts
  BY PartsAssumption DEF Op, Mem, Part
<1>2. n \in Mem /\ n.status = m.status /\ n.cancelled = m.cancelled /\ n.pc = pc
      /\ n.exposed = m.exposed /\ pc \in Sending /\ pc # "delete"
  BY DEF Mem, Sending
<1>3. Set(t, i, n) /\ Put(i, n) /\ net' = (net \ {r}) \cup {q} /\ lease' = lease
  OBVIOUS
<1> HIDE DEF n, pc
<1>4. r.upload \in Upload
  BY <1>0 DEF Requests
<1>5. q \in Requests /\ RequestOK(q)
  BY <1>1, <1>4, NewRequest
<1> HIDE DEF q
<1>6. \A x \in net' : x \in Requests /\ RequestOK(x)
  BY <1>3, <1>5 DEF IInv, TypeOK
<1>7. ~n.cancelled /\ ~n.exposed => lease'[i] = [owner |-> t, live |-> TRUE]
  BY <1>0, <1>2, <1>3 DEF LeaseOK, Uploads
<1>8. n.status = "completed" => file # NoFile
  BY <1>0, <1>2 DEF StoredOK
<1>9. /\ queue' \in [Item -> Record]
      /\ \A j \in Item : queue'[j].status = "completed" => file # NoFile
  BY <1>2, <1>3, <1>8, PutType
<1>10. chosen' \in SUBSET Item /\ reported' \in SUBSET Item /\ retries' \in 0..MaxRetries
      /\ (reported' # {} => file # NoFile)
  BY DEF IInv, TypeOK, ReportedIsThere
<1>11. n.pc # "acquire"
  BY <1>2 DEF Sending
<1> QED
  BY <1>2, <1>3, <1>6, <1>7, <1>8, <1>9, <1>10, <1>11, TabStep

LEMMA FailedStep ==
  ASSUME IInv, NEW t \in Tab, NEW i \in Item, NEW r \in net,
         Failed(t, i), net' = net \ {r},
         UNCHANGED <<open, server, chosen, reported, bounds>>
  PROVE  IInv'
<1> DEFINE m == AtRest(mem[t][i])
           f == [m EXCEPT !.status = "failed"]
           n == IF mem[t][i].cancelled THEN m ELSE f
<1>0. TypeOK /\ StoredOK(t, i) /\ mem[t][i] \in Mem
  BY MemType DEF IInv
<1>1. n \in Mem /\ n.pc = "rest" /\ (n.status = "completed" => file # NoFile)
  BY <1>0 DEF Mem, StoredOK, AtRest, Stage
<1>2. SetAndTell(t, i, n) /\ (Put(i, n) \/ UNCHANGED queue) /\ lease' = Released(t, i)
  BY DEF Failed
<1> HIDE DEF n
<1>3. /\ queue' \in [Item -> Record]
      /\ \A j \in Item : queue'[j].status = "completed" => file # NoFile
  BY <1>1, <1>2, PutType
<1>4. \A x \in net' : x \in Requests /\ RequestOK(x)
  BY DEF IInv, TypeOK
<1>5. chosen' \in SUBSET Item /\ reported' \in SUBSET Item /\ retries' \in 0..MaxRetries
      /\ (reported' # {} => file # NoFile)
  BY DEF IInv, TypeOK, ReportedIsThere
<1>6. "rest" \notin Sending
  BY DEF Sending
<1> QED
  BY <1>1, <1>2, <1>3, <1>4, <1>5, <1>6, TabStep

LEMMA ReadyStep ==
  ASSUME IInv, NEW t \in Tab, NEW i \in Item, NEW r \in net,
         SessionReady(t, i, r) \/ PartReady(t, i, r)
  PROVE  IInv'
<1>0. TypeOK /\ r \in Requests /\ RequestOK(r) /\ mem[t][i] \in Mem
  BY MemType DEF IInv, TypeOK
<1>1. CASE SessionReady(t, i, r)
  <2>1. CASE r.out \in {"ok", "completed"}
    <3> DEFINE m == [mem[t][i] EXCEPT !.upload = r.upload, !.todo = Part \ r.got]
    <3>1. r.upload # 0 /\ mem[t][i].pc \in Sending
      BY <1>0, <1>1, <2>1 DEF SessionReady, Answered, RequestOK, Sending
    <3>2. m \in Mem /\ m.status = mem[t][i].status /\ m.cancelled = mem[t][i].cancelled
          /\ m.exposed = mem[t][i].exposed
      BY <1>0 DEF Mem, Requests
    <3>3. Continue(t, i, m, r)
      BY <1>1, <2>1 DEF SessionReady
    <3> HIDE DEF m
    <3> QED
      BY <1>1, <3>1, <3>2, <3>3, ContinueStep DEF SessionReady
  <2>2. CASE r.out \notin {"ok", "completed"}
    BY <1>1, <2>2, FailedStep DEF SessionReady
  <2> QED
    BY <2>1, <2>2
<1>2. CASE PartReady(t, i, r)
  <2>1. CASE r.out = "ok"
    <3> DEFINE m == [mem[t][i] EXCEPT !.todo = @ \ {r.part}]
    <3>1. r.upload # 0 /\ mem[t][i].pc \in Sending
      BY <1>0, <1>2, <2>1 DEF PartReady, Answered, RequestOK, Sending
    <3>2. m \in Mem /\ m.status = mem[t][i].status /\ m.cancelled = mem[t][i].cancelled
          /\ m.exposed = mem[t][i].exposed
      BY <1>0 DEF Mem
    <3>3. Continue(t, i, m, r)
      BY <1>2, <2>1 DEF PartReady
    <3> HIDE DEF m
    <3> QED
      BY <1>2, <3>1, <3>2, <3>3, ContinueStep DEF PartReady
  <2>2. CASE r.out # "ok"
    BY <1>2, <2>2, FailedStep DEF PartReady
  <2> QED
    BY <2>1, <2>2
<1> QED
  BY <1>1, <1>2

\* A run that hears "ok" knows that there is a file.
\* A run that hears "ok" knows that there is a file.
LEMMA CompleteReadyStep ==
  ASSUME IInv, NEW t \in Tab, NEW i \in Item, NEW r \in net, CompleteReady(t, i, r)
  PROVE  IInv'
<1>0. TypeOK /\ RequestOK(r) /\ mem[t][i] \in Mem /\ LeaseOK(t, i)
  BY MemType DEF IInv
<1>1. CASE r.out = "ok" /\ ~mem[t][i].cancelled
  <2> DEFINE m == [mem[t][i] EXCEPT !.status = "completed", !.pc = "delete"]
  <2>1. m \in Mem /\ m.pc = "delete" /\ m.cancelled = mem[t][i].cancelled
        /\ m.exposed = mem[t][i].exposed
    BY <1>0 DEF Mem, Stage, Sending
  <2>2. Set(t, i, m) /\ Drop(i) /\ lease' = lease /\ net' = net \ {r}
    BY <1>1 DEF CompleteReady
  <2> HIDE DEF m
  <2>3. file # NoFile /\ Uploads(t, i)
    BY <1>0, <1>1 DEF CompleteReady, Answered, RequestOK, Uploads, Sending
  <2>4. ~m.exposed => lease'[i] = [owner |-> t, live |-> TRUE]
    BY <1>0, <2>1, <2>2, <2>3 DEF LeaseOK
  <2>5. /\ queue' \in [Item -> Record]
        /\ \A j \in Item : queue'[j].status = "completed" => file # NoFile
    BY <2>2, PutType
  <2>6. chosen' \in SUBSET Item /\ reported' \in SUBSET Item /\ retries' \in 0..MaxRetries
        /\ UNCHANGED <<open, server, closes, lapses, faults>>
    BY <1>0 DEF CompleteReady, TypeOK
  <2>7. \A x \in net' : x \in Requests /\ RequestOK(x)
    BY <2>2 DEF IInv, TypeOK
  <2> QED
    BY <2>1, <2>2, <2>3, <2>4, <2>5, <2>6, <2>7, TabStep
<1>2. CASE ~(r.out = "ok" /\ ~mem[t][i].cancelled)
  BY <1>2, FailedStep DEF CompleteReady
<1> QED
  BY <1>1, <1>2

LEMMA RetryReadyStep ==
  ASSUME IInv, NEW t \in Tab, NEW i \in Item, NEW r \in net, RetryReady(t, i, r)
  PROVE  IInv'
<1> DEFINE m == [mem[t][i] EXCEPT !.retrying = @ \ {r.part}, !.due = TRUE]
           gone == [m EXCEPT !.upload = 0]
           done == [m EXCEPT !.status = "completed"]
<1>0. TypeOK /\ RequestOK(r) /\ StoredOK(t, i) /\ mem[t][i] \in Mem /\ 0 \in Upload
  BY MemType, BoundAssumption DEF IInv, Upload
<1>1. /\ m \in Mem /\ m.status = mem[t][i].status /\ m.exposed = mem[t][i].exposed
      /\ m.pc = mem[t][i].pc /\ m.cancelled = mem[t][i].cancelled
      /\ gone \in Mem /\ gone.status = mem[t][i].status
      /\ gone.exposed = mem[t][i].exposed
      /\ gone.pc = mem[t][i].pc /\ gone.cancelled = mem[t][i].cancelled
      /\ done \in Mem /\ done.pc = mem[t][i].pc /\ done.cancelled = mem[t][i].cancelled
      /\ done.exposed = mem[t][i].exposed
  BY <1>0 DEF Mem, Stage
<1>2. /\ \A x \in net' : x \in Requests /\ RequestOK(x)
      /\ chosen' \in SUBSET Item /\ reported' \in SUBSET Item
      /\ reported' # {} => file # NoFile
      /\ retries' \in 0..MaxRetries
      /\ UNCHANGED <<open, lease, server, closes, lapses, faults>>
  BY DEF RetryReady, IInv, TypeOK, ReportedIsThere
<1>3. mem[t][i].status = "completed" => file # NoFile
  BY <1>0 DEF StoredOK
<1>4. CASE r.out = "completed"
  <2>1. Set(t, i, done) /\ Drop(i) /\ file # NoFile
    BY <1>0, <1>4 DEF RetryReady, RequestOK
  <2>2. /\ queue' \in [Item -> Record]
        /\ \A j \in Item : queue'[j].status = "completed" => file # NoFile
    BY <2>1, PutType
  <2> HIDE DEF m, done
  <2> QED
    BY <1>1, <1>2, <2>1, <2>2, QuietStep
<1>5. CASE r.out \in {"aborted", "error"}
  <2>1. Set(t, i, gone) /\ Put(i, gone)
    BY <1>5 DEF RetryReady
  <2> HIDE DEF m, gone
  <2>2. /\ queue' \in [Item -> Record]
        /\ \A j \in Item : queue'[j].status = "completed" => file # NoFile
    BY <1>1, <1>3, <2>1, PutType
  <2> QED
    BY <1>1, <1>2, <2>1, <2>2, QuietStep
<1>6. CASE r.out \notin {"completed", "aborted", "error"}
  <2>1. Set(t, i, m) /\ Put(i, m)
    BY <1>6 DEF RetryReady
  <2> HIDE DEF m
  <2>2. /\ queue' \in [Item -> Record]
        /\ \A j \in Item : queue'[j].status = "completed" => file # NoFile
    BY <1>1, <1>3, <2>1, PutType
  <2> QED
    BY <1>1, <1>2, <2>1, <2>2, QuietStep
<1> QED
  BY <1>4, <1>5, <1>6

LEMMA RunEndsStep ==
  ASSUME IInv, NEW t \in Tab, NEW i \in Item, RunEnds(t, i)
  PROVE  IInv'
<1> DEFINE m == [AtRest(mem[t][i]) EXCEPT !.listed = FALSE]
<1>0. TypeOK /\ StoredOK(t, i) /\ mem[t][i] \in Mem
  BY MemType DEF IInv
<1>1. m \in Mem /\ m.pc = "rest" /\ "rest" \notin Sending
  BY <1>0 DEF Mem, AtRest, Sending
<1>2. SetAndTell(t, i, m) /\ lease' = Released(t, i) /\ file # NoFile
  BY <1>0 DEF RunEnds, StoredOK
<1> HIDE DEF m
<1>3. /\ \A x \in net' : x \in Requests /\ RequestOK(x)
      /\ chosen' \in SUBSET Item /\ reported' \in SUBSET Item
      /\ retries' \in 0..MaxRetries /\ queue' \in [Item -> Record]
      /\ UNCHANGED <<open, server, closes, lapses, faults>>
  BY DEF RunEnds, IInv, TypeOK
<1> QED
  BY <1>1, <1>2, <1>3, TabStep
-----------------------------------------------------------------------------
(* Steps of the user *)

LEMMA CancelStep ==
  ASSUME IInv, NEW t \in Tab, NEW i \in Item, Cancel(t, i)
  PROVE  IInv'
<1> DEFINE a == [AtRest(mem[t][i]) EXCEPT !.listed = FALSE]
           b == [mem[t][i] EXCEPT !.listed = FALSE, !.cancelled = mem[t][i].pc # "rest"]
           parts == {r \in net : r.tab = t /\ r.item = i /\ r.op = "part"}
           abort == IF mem[t][i].upload = 0 THEN {}
                    ELSE {Request("abort", NoTab, i, mem[t][i].upload, 0)}
<1>0. TypeOK /\ StoredOK(t, i) /\ mem[t][i] \in Mem
  BY MemType DEF IInv
<1>1. /\ a \in Mem /\ a.status = mem[t][i].status /\ a.pc = "rest"
      /\ b \in Mem /\ b.status = mem[t][i].status /\ b.pc = mem[t][i].pc
      /\ b.pc # "rest" => b.cancelled
      /\ "rest" \notin Sending /\ b.pc # "acquire"
  BY <1>0 DEF Mem, AtRest, Sending, Cancel, Turn
<1>2. \A x \in abort : x \in Requests /\ RequestOK(x)
  <2>1. /\ mem[t][i].upload \in Upload /\ 0 \in 0..Parts
        /\ "abort" \in Op /\ NoTab \in Tab \cup {NoTab}
    BY <1>0, PartsAssumption DEF Mem, Op
  <2>2. mem[t][i].upload # 0 =>
          /\ Request("abort", NoTab, i, mem[t][i].upload, 0) \in Requests
          /\ RequestOK(Request("abort", NoTab, i, mem[t][i].upload, 0))
    BY <2>1, NewRequest
  <2> QED
    BY <2>2
<1>3. \A x \in net : x \in Requests /\ RequestOK(x)
  BY DEF IInv, TypeOK
<1>4. \A x \in Without(parts) : x \in Requests /\ RequestOK(x)
  BY WithoutOK
<1>5. /\ queue' \in [Item -> Record]
      /\ \A j \in Item : queue'[j].status = "completed" => file # NoFile
      /\ lease' = Released(t, i)
  BY PutType DEF Cancel
<1>6. /\ chosen' \in SUBSET Item /\ reported' \in SUBSET Item
      /\ reported' # {} => file # NoFile
      /\ retries' \in 0..MaxRetries
      /\ UNCHANGED <<open, server, closes, lapses, faults>>
  BY DEF Cancel, IInv, TypeOK, ReportedIsThere
<1> HIDE DEF parts
<1>7. CASE SetAndTell(t, i, a) /\ net' = Without(parts) \cup abort
  <2> HIDE DEF a, abort
  <2>1. a.status = "completed" \/ a.pc = "delete" => file # NoFile
    BY <1>0, <1>1 DEF StoredOK
  <2>2. \A x \in net' : x \in Requests /\ RequestOK(x)
    BY <1>2, <1>4, <1>7
  <2> QED
    BY <1>1, <1>5, <1>6, <1>7, <2>1, <2>2, TabStep
<1>8. CASE SetAndTell(t, i, b) /\ net' = net \cup abort
  <2> HIDE DEF b, abort
  <2>1. b.status = "completed" \/ b.pc = "delete" => file # NoFile
    BY <1>0, <1>1 DEF StoredOK
  <2>2. \A x \in net' : x \in Requests /\ RequestOK(x)
    BY <1>2, <1>3, <1>8
  <2> QED
    BY <1>1, <1>5, <1>6, <1>8, <2>1, <2>2, TabStep
<1> QED
  BY <1>7, <1>8 DEF Cancel, parts, a, b, abort

LEMMA RetryStep ==
  ASSUME IInv, NEW t \in Tab, NEW i \in Item, Retry(t, i)
  PROVE  IInv'
<1> DEFINE m == [mem[t][i] EXCEPT !.status = "queued", !.due = FALSE]
           d == [m EXCEPT !.due = TRUE]
           w == [m EXCEPT !.retrying = @ \cup {retries'}]
           q == Request("recheck", t, i, m.upload, retries')
<1>0. TypeOK /\ mem[t][i] \in Mem
  BY MemType DEF IInv
<1>1. retries' \in 0..MaxRetries /\ retries' \in 1..MaxRetries
  BY <1>0, BoundAssumption DEF Retry, TypeOK
<1>2. /\ m \in Mem /\ m.status = "queued"
      /\ d \in Mem /\ d.status = "queued" /\ d.exposed = mem[t][i].exposed
      /\ d.pc = mem[t][i].pc /\ d.cancelled = mem[t][i].cancelled
      /\ w \in Mem /\ w.status = "queued" /\ w.exposed = mem[t][i].exposed
      /\ w.pc = mem[t][i].pc /\ w.cancelled = mem[t][i].cancelled
  BY <1>0, <1>1 DEF Mem, Stage
<1>3. /\ chosen' \in SUBSET Item /\ reported' \in SUBSET Item
      /\ reported' # {} => file # NoFile
      /\ UNCHANGED <<open, lease, server, closes, lapses, faults>>
  BY DEF Retry, IInv, TypeOK, ReportedIsThere
<1>4. \A x \in net : x \in Requests /\ RequestOK(x)
  BY DEF IInv, TypeOK
<1>5. CASE m.upload = 0
  <2>1. Set(t, i, d) /\ Put(i, m) /\ net' = net
    BY <1>5 DEF Retry
  <2> HIDE DEF m, d
  <2>2. /\ queue' \in [Item -> Record]
        /\ \A j \in Item : queue'[j].status = "completed" => file # NoFile
    BY <1>2, <2>1, PutType
  <2> QED
    BY <1>1, <1>2, <1>3, <1>4, <2>1, <2>2, QuietStep
<1>6. CASE m.upload # 0
  <2>1. Set(t, i, w) /\ queue' = queue /\ net' = net \cup {q}
    BY <1>6 DEF Retry
  <2>2. q \in Requests /\ RequestOK(q)
    <3> HIDE DEF m
    <3>1. m.upload \in Upload /\ "recheck" \in Op
      BY <1>2 DEF Mem, Op
    <3> QED
      BY <1>1, <1>6, <3>1, NewRequest
  <2> HIDE DEF m, w, q
  <2>3. /\ queue' \in [Item -> Record]
        /\ \A j \in Item : queue'[j].status = "completed" => file # NoFile
    BY <2>1, PutType
  <2>4. \A x \in net' : x \in Requests /\ RequestOK(x)
    BY <1>4, <2>1, <2>2
  <2> QED
    BY <1>1, <1>2, <1>3, <2>1, <2>3, <2>4, QuietStep
<1> QED
  BY <1>5, <1>6
-----------------------------------------------------------------------------
(* Steps of the lease, which several tabs may notice *)

\* What a tab that writes the lease does to the others.
LEMMA WrittenType ==
  ASSUME TypeOK, NEW t \in Tab, NEW i \in Item
  PROVE  /\ Written(t, i) \in [Tab -> [Item -> Mem]]
         /\ Written(t, i)[t] = mem[t]
         /\ \A u \in Tab, j \in Item :
              /\ Alike(Written(t, i)[u][j], mem[u][j])
              /\ mem[u][j].due => Written(t, i)[u][j].due
              /\ Written(t, i)[u][j].due => mem[u][j].due \/ Pending(u, j)
              /\ j # i => Written(t, i)[u][j].exposed = mem[u][j].exposed
              /\ j = i /\ u # t /\ ~Written(t, i)[u][j].exposed =>
                   /\ ~mem[u][i].exposed /\ mem[u][i].pc # "acquire"
                   /\ mem[t][i].pc = "acquire" /\ mem[t][i].exposed => ~Uploads(u, i)
<1> DEFINE late == mem[t][i].pc = "acquire" /\ mem[t][i].exposed
           e(u) == mem[u][i].exposed \/ mem[u][i].pc = "acquire" \/ (late /\ Uploads(u, i))
<1>1. Written(t, i)[t] = mem[t] /\ mem[t] \in [Item -> Mem]
  BY DEF Written, TypeOK
<1>2. ASSUME NEW u \in Tab, u # t
      PROVE  /\ Written(t, i)[u] \in [Item -> Mem]
             /\ \A j \in Item \ {i} : Written(t, i)[u][j] = Told(u)[j]
             /\ LET n == Written(t, i)[u][i]
                    d == Told(u)[i]
                IN Alike(n, d) /\ n.due = d.due /\ n.exposed = e(u)
  <2>1. Told(u) \in [Item -> Mem] /\ Told(u)[i].exposed = mem[u][i].exposed
    BY ToldType
  <2>2. Written(t, i)[u] = [Told(u) EXCEPT ![i] = [Told(u)[i] EXCEPT !.exposed = e(u)]]
    BY <1>2, <2>1 DEF Written
  <2>3. e(u) \in BOOLEAN /\ Told(u)[i] \in Mem
    BY <2>1 DEF TypeOK, Mem
  <2> DEFINE n == [Told(u)[i] EXCEPT !.exposed = e(u)]
  <2>4. n \in Mem /\ Alike(n, Told(u)[i]) /\ n.due = Told(u)[i].due /\ n.exposed = e(u)
    <3> HIDE DEF e
    <3> QED
      BY <2>3 DEF Mem, Alike
  <2> HIDE DEF n
  <2> QED
    BY <2>1, <2>2, <2>4 DEF n
<1>3. Written(t, i) \in [Tab -> [Item -> Mem]]
  <2>1. \A u \in Tab : Written(t, i)[u] \in [Item -> Mem]
    BY <1>1, <1>2
  <2>2. Written(t, i) = [u \in Tab |-> Written(t, i)[u]]
    BY DEF Written
  <2> QED
    BY <2>1, <2>2
<1>4. ASSUME NEW u \in Tab, NEW j \in Item, u # t
      PROVE  /\ Alike(Written(t, i)[u][j], mem[u][j])
             /\ mem[u][j].due => Written(t, i)[u][j].due
             /\ Written(t, i)[u][j].due => mem[u][j].due \/ Pending(u, j)
             /\ j # i => Written(t, i)[u][j].exposed = mem[u][j].exposed
             /\ j = i => Written(t, i)[u][j].exposed = e(u)
  <2>1. /\ Alike(Told(u)[j], mem[u][j]) /\ Told(u)[j].exposed = mem[u][j].exposed
        /\ mem[u][j].due => Told(u)[j].due
        /\ Told(u)[j].due => mem[u][j].due \/ Pending(u, j)
    BY ToldType
  <2>2. CASE j # i
    BY <1>2, <1>4, <2>1, <2>2
  <2>3. CASE j = i
    <3> HIDE DEF e
    <3>1. /\ Alike(Written(t, i)[u][j], Told(u)[j])
          /\ Written(t, i)[u][j].due = Told(u)[j].due
          /\ Written(t, i)[u][j].exposed = e(u)
      BY <1>2, <1>4, <2>3
    <3> QED
      BY <2>1, <2>3, <3>1 DEF Alike
  <2> QED
    BY <2>2, <2>3
<1>5. ASSUME NEW u \in Tab, NEW j \in Item, u = t
      PROVE  /\ Alike(Written(t, i)[u][j], mem[u][j])
             /\ Written(t, i)[u][j] = mem[u][j]
  BY <1>1, <1>5 DEF Alike
<1>6. ASSUME NEW u \in Tab, NEW j \in Item
      PROVE  /\ Alike(Written(t, i)[u][j], mem[u][j])
             /\ mem[u][j].due => Written(t, i)[u][j].due
             /\ Written(t, i)[u][j].due => mem[u][j].due \/ Pending(u, j)
             /\ j # i => Written(t, i)[u][j].exposed = mem[u][j].exposed
             /\ j = i /\ u # t => Written(t, i)[u][j].exposed = e(u)
  <2> HIDE DEF e
  <2> QED
    BY <1>4, <1>5
<1> QED
  BY <1>1, <1>3, <1>6

\* A step that changes leases, and what tabs know of the cover of their runs.
LEMMA WideStep ==
  ASSUME IInv, mem' \in [Tab -> [Item -> Mem]],
         \A u \in Tab, j \in Item :
           /\ mem'[u][j].status = mem[u][j].status
           /\ mem'[u][j].pc = "delete" => mem[u][j].pc = "delete"
           /\ LeaseOK(u, j)',
         lease' \in [Item -> [owner : Tab \cup {NoTab}, live : BOOLEAN]],
         lapses' \in 0..MaxLapses,
         UNCHANGED <<open, queue, net, server, chosen, reported, retries, closes, faults>>
  PROVE  IInv'
<1>1. TypeOK'
  BY DEF IInv, TypeOK
<1>2. \A r \in net' : RequestOK(r)'
  BY SameFile DEF IInv
<1>3. ReportedIsThere' /\ FileIsWhole' /\ QueueOK'
  BY DEF ReportedIsThere, FileIsWhole, QueueOK, IInv, NoFile, Part
<1>4. \A u \in Tab, j \in Item : StoredOK(u, j)'
  BY DEF IInv, StoredOK, NoFile
<1> QED
  BY <1>1, <1>2, <1>3, <1>4 DEF IInv

\* Whoever writes the lease exposes those who have read it, and, if it had
\* itself read it too early, the run that has it.
LEMMA TryWriteStep ==
  ASSUME IInv, NEW t \in Tab, NEW i \in Item, TryWrite(t, i)
  PROVE  IInv'
<1> DEFINE w == Written(t, i)
           n == [mem[t][i] EXCEPT !.pc = "confirm"]
<1>0. TypeOK /\ mem[t][i] \in Mem /\ LeaseOK(t, i) /\ mem[t][i].pc = "acquire"
  BY MemType DEF IInv, TryWrite
<1>1. n \in Mem /\ n.pc = "confirm" /\ n.status = mem[t][i].status /\ n.exposed = mem[t][i].exposed
  BY <1>0 DEF Mem
<1>2. w \in [Tab -> [Item -> Mem]] /\ w[t] = mem[t]
  BY <1>0, WrittenType
<1>3. mem' = [w EXCEPT ![t] = [mem[t] EXCEPT ![i] = n]]
  BY <1>2 DEF TryWrite
<1>4. mem[t] \in [Item -> Mem]
  BY <1>0 DEF TypeOK
<1> HIDE DEF n, w
<1>5. /\ mem' \in [Tab -> [Item -> Mem]]
      /\ mem'[t][i] = n
      /\ \A u \in Tab, j \in Item : u # t \/ j # i => mem'[u][j] = w[u][j]
  BY <1>1, <1>2, <1>3, <1>4
<1>6. /\ lease' \in [Item -> [owner : Tab \cup {NoTab}, live : BOOLEAN]]
      /\ lease'[i] = [owner |-> t, live |-> TRUE]
      /\ \A j \in Item \ {i} : lease'[j] = lease[j]
  BY <1>0 DEF TryWrite, TypeOK
<1>7. ASSUME NEW u \in Tab, NEW j \in Item
      PROVE  /\ mem'[u][j].status = mem[u][j].status
             /\ mem'[u][j].pc = "delete" => mem[u][j].pc = "delete"
             /\ LeaseOK(u, j)'
  <2>1. LeaseOK(u, j)
    BY DEF IInv
  <2>2. CASE u = t /\ j = i
    BY <1>1, <1>5, <2>2 DEF LeaseOK, Uploads, Sending
  <2>3. CASE j # i
    <3>1. /\ mem'[u][j].status = mem[u][j].status /\ mem'[u][j].pc = mem[u][j].pc
          /\ mem'[u][j].cancelled = mem[u][j].cancelled
          /\ mem'[u][j].exposed = mem[u][j].exposed
      BY <1>0, <1>5, <2>3, WrittenType DEF w, Alike
    <3> QED
      BY <1>6, <2>1, <2>3, <3>1 DEF LeaseOK, Uploads, Taken
  <2>4. CASE u # t /\ j = i
    <3>1. /\ mem'[u][i].status = mem[u][i].status /\ mem'[u][i].pc = mem[u][i].pc
          /\ mem'[u][i].cancelled = mem[u][i].cancelled
          /\ ~mem'[u][i].exposed =>
               /\ ~mem[u][i].exposed /\ mem[u][i].pc # "acquire"
               /\ Uploads(u, i) => ~mem[t][i].exposed
      BY <1>0, <1>5, <2>4, WrittenType DEF w, Alike
    <3>2. ~(~mem'[u][i].exposed /\ Uploads(u, i))
      BY <1>0, <2>1, <2>4, <3>1 DEF LeaseOK, Taken
    <3> QED
      BY <2>4, <3>1, <3>2 DEF LeaseOK, Uploads
  <2> QED
    BY <2>2, <2>3, <2>4
<1> QED
  BY <1>0, <1>5, <1>6, <1>7, WideStep DEF TryWrite, TypeOK

LEMMA HeartbeatStep ==
  ASSUME IInv, NEW t \in Tab, NEW i \in Item, Heartbeat(t, i)
  PROVE  IInv'
<1> DEFINE l == [lease[i] EXCEPT !.live = TRUE]
<1>0. TypeOK /\ mem[t][i].pc # "acquire" /\ lease[i].owner = t /\ ~lease[i].live
      /\ lease[i] \in [owner : Tab \cup {NoTab}, live : BOOLEAN]
  BY MemType DEF IInv, Heartbeat, Turn
<1>1. mem' \in [Tab -> [Item -> Mem]]
  BY <1>0, WrittenType DEF Heartbeat
<1>2. l \in [owner : Tab \cup {NoTab}, live : BOOLEAN]
      /\ l = [owner |-> t, live |-> TRUE] /\ lease' = [lease EXCEPT ![i] = l]
  <2>1. l \in [owner : Tab \cup {NoTab}, live : BOOLEAN] /\ l.owner = t /\ l.live
    BY <1>0
  <2>2. lease' = [lease EXCEPT ![i] = l]
    BY DEF Heartbeat
  <2> HIDE DEF l
  <2> QED
    BY <2>1, <2>2
<1> HIDE DEF l
<1>3. /\ lease' \in [Item -> [owner : Tab \cup {NoTab}, live : BOOLEAN]]
      /\ lease'[i] = [owner |-> t, live |-> TRUE]
      /\ \A j \in Item \ {i} : lease'[j] = lease[j]
  BY <1>0, <1>2 DEF TypeOK
<1>4. ASSUME NEW u \in Tab, NEW j \in Item
      PROVE  /\ mem'[u][j].status = mem[u][j].status
             /\ mem'[u][j].pc = "delete" => mem[u][j].pc = "delete"
             /\ LeaseOK(u, j)'
  <2>1. LeaseOK(u, j)
    BY DEF IInv
  <2>2. /\ mem'[u][j].status = mem[u][j].status /\ mem'[u][j].pc = mem[u][j].pc
        /\ mem'[u][j].cancelled = mem[u][j].cancelled
        /\ j # i => mem'[u][j].exposed = mem[u][j].exposed
        /\ j = i /\ u # t /\ ~mem'[u][j].exposed =>
             ~mem[u][i].exposed /\ mem[u][i].pc # "acquire"
    BY <1>0, WrittenType DEF Heartbeat, Alike
  <2>3. CASE j # i
    BY <1>3, <2>1, <2>2, <2>3 DEF LeaseOK, Uploads, Taken
  <2>4. CASE j = i /\ u = t
    BY <1>0, <1>3, <2>2, <2>4 DEF LeaseOK, Uploads
  <2>5. CASE j = i /\ u # t
    BY <1>0, <2>1, <2>2, <2>5 DEF LeaseOK, Uploads
  <2> QED
    BY <2>3, <2>4, <2>5
<1> QED
  BY <1>0, <1>1, <1>3, <1>4, WideStep DEF Heartbeat, TypeOK

\* A run whose lease runs out, or is given up, has lost its cover.
LEMMA LapseStep ==
  ASSUME IInv, NEW i \in Item, Lapse(i)
  PROVE  IInv'
<1> DEFINE t == lease[i].owner
           n == [mem[t][i] EXCEPT !.exposed = @ \/ Uploads(t, i)]
           l == [lease[i] EXCEPT !.live = FALSE]
<1>0. TypeOK /\ t \in Tab /\ lease[i] \in [owner : Tab \cup {NoTab}, live : BOOLEAN]
  BY DEF IInv, Lapse, TypeOK
<1>1. mem[t][i] \in Mem /\ mem[t][i].exposed \in BOOLEAN
  BY <1>0 DEF TypeOK, Mem
<1>2. /\ n \in Mem /\ n.status = mem[t][i].status /\ n.pc = mem[t][i].pc
      /\ n.cancelled = mem[t][i].cancelled
      /\ n.exposed = (mem[t][i].exposed \/ Uploads(t, i))
  <2>1. (mem[t][i].exposed \/ Uploads(t, i)) \in BOOLEAN
    OBVIOUS
  <2> QED
    BY <1>1, <2>1 DEF Mem
<1>3. l \in [owner : Tab \cup {NoTab}, live : BOOLEAN] /\ ~l.live
  BY <1>0
<1>4. mem' = [mem EXCEPT ![t][i] = n] /\ lease' = [lease EXCEPT ![i] = l]
  BY DEF Lapse
<1> HIDE DEF n, l
<1>5. /\ mem' \in [Tab -> [Item -> Mem]] /\ mem'[t][i] = n
      /\ \A u \in Tab, j \in Item : u # t \/ j # i => mem'[u][j] = mem[u][j]
      /\ lease' \in [Item -> [owner : Tab \cup {NoTab}, live : BOOLEAN]]
      /\ ~lease'[i].live
      /\ \A j \in Item \ {i} : lease'[j] = lease[j]
  BY <1>0, <1>2, <1>3, <1>4 DEF TypeOK
<1>6. ASSUME NEW u \in Tab, NEW j \in Item
      PROVE  /\ mem'[u][j].status = mem[u][j].status
             /\ mem'[u][j].pc = "delete" => mem[u][j].pc = "delete"
             /\ LeaseOK(u, j)'
  <2>1. LeaseOK(u, j)
    BY DEF IInv
  <2>2. CASE u = t /\ j = i
    BY <1>2, <1>5, <2>2 DEF LeaseOK, Uploads, Taken
  <2>3. CASE u # t /\ j = i
    <3>1. ~(Uploads(u, i) /\ ~mem[u][i].exposed)
      BY <2>1, <2>3 DEF LeaseOK
    <3> QED
      BY <1>5, <2>3, <3>1 DEF LeaseOK, Uploads, Taken
  <2>4. CASE j # i
    BY <1>5, <2>1, <2>4 DEF LeaseOK, Uploads, Taken
  <2> QED
    BY <2>2, <2>3, <2>4
<1>7. lapses' \in 0..MaxLapses
  BY <1>0, BoundAssumption DEF Lapse, TypeOK
<1> QED
  BY <1>5, <1>6, <1>7, WideStep DEF Lapse

LEMMA ReleaseAllStep ==
  ASSUME IInv, NEW t \in Tab, ReleaseAll(t)
  PROVE  IInv'
<1>0. TypeOK
  BY DEF IInv
<1>1. ASSUME NEW j \in Item
      PROVE  /\ [mem[t][j] EXCEPT !.exposed = @ \/ Uploads(t, j)] \in Mem
             /\ LET n == [mem[t][j] EXCEPT !.exposed = @ \/ Uploads(t, j)]
                IN /\ n.status = mem[t][j].status /\ n.pc = mem[t][j].pc
                   /\ n.cancelled = mem[t][j].cancelled
                   /\ n.exposed = (mem[t][j].exposed \/ Uploads(t, j))
  <2>1. mem[t][j] \in Mem /\ (mem[t][j].exposed \/ Uploads(t, j)) \in BOOLEAN
    BY <1>0, MemType
  <2> QED
    BY <2>1 DEF Mem
<1>2. /\ \A u \in Tab \ {t} : mem'[u] = Told(u)
      /\ \A j \in Item : mem'[t][j] = [mem[t][j] EXCEPT !.exposed = @ \/ Uploads(t, j)]
  BY DEF ReleaseAll
<1>3. mem' \in [Tab -> [Item -> Mem]]
  <2> DEFINE own == [j \in Item |-> [mem[t][j] EXCEPT !.exposed = @ \/ Uploads(t, j)]]
  <2>1. own \in [Item -> Mem]
    BY <1>1
  <2>2. mem' = [u \in Tab |-> IF u # t THEN Told(u) ELSE own]
    BY DEF ReleaseAll
  <2> HIDE DEF own
  <2> QED
    BY <1>0, <2>1, <2>2, ToldType
<1>4. /\ lease' \in [Item -> [owner : Tab \cup {NoTab}, live : BOOLEAN]]
      /\ \A j \in Item : lease'[j] = IF lease[j].owner = t THEN Free ELSE lease[j]
  BY <1>0 DEF ReleaseAll, TypeOK, Free
<1>5. ASSUME NEW u \in Tab, NEW j \in Item
      PROVE  /\ mem'[u][j].status = mem[u][j].status
             /\ mem'[u][j].pc = "delete" => mem[u][j].pc = "delete"
             /\ LeaseOK(u, j)'
  <2>1. LeaseOK(u, j)
    BY DEF IInv
  <2>2. Taken(u, j)' => Taken(u, j)
    BY <1>4 DEF Taken, Free
  <2>3. CASE u = t
    BY <1>1, <1>2, <2>1, <2>2, <2>3 DEF LeaseOK, Uploads
  <2>4. CASE u # t
    <3>1. /\ mem'[u][j].status = mem[u][j].status /\ mem'[u][j].pc = mem[u][j].pc
          /\ mem'[u][j].cancelled = mem[u][j].cancelled
          /\ mem'[u][j].exposed = mem[u][j].exposed
      <4>1. mem'[u][j] = Told(u)[j]
        BY <1>2, <2>4
      <4> QED
        BY <1>0, <4>1, ToldType DEF Alike
    <3>2. lease[j] = [owner |-> u, live |-> TRUE] => lease'[j] = lease[j]
      BY <1>4, <2>4
    <3> QED
      BY <2>1, <2>2, <3>1, <3>2 DEF LeaseOK, Uploads
  <2> QED
    BY <2>3, <2>4
<1>6. lapses' \in 0..MaxLapses
  BY <1>0, BoundAssumption DEF ReleaseAll, TypeOK
<1> QED
  BY <1>3, <1>4, <1>5, <1>6, WideStep DEF ReleaseAll

LEMMA ExpireStep ==
  ASSUME IInv, NEW i \in Item, Expire(i)
  PROVE  IInv'
<1>0. TypeOK /\ lease[i].owner = NoTab
  BY DEF IInv, Expire
<1>1. /\ lease' \in [Item -> [owner : Tab \cup {NoTab}, live : BOOLEAN]]
      /\ lease'[i] = Free
      /\ \A j \in Item \ {i} : lease'[j] = lease[j]
  BY <1>0 DEF Expire, TypeOK, Free
<1>2. ASSUME NEW u \in Tab, NEW j \in Item
      PROVE  LeaseOK(u, j)'
  <2>1. LeaseOK(u, j) /\ mem' = mem
    BY DEF IInv, Expire
  <2>2. lease[j] = [owner |-> u, live |-> TRUE] => j # i
    BY <1>0, TabAssumption
  <2>3. Taken(u, j)' => Taken(u, j)
    BY <1>1 DEF Taken, Free
  <2> QED
    BY <1>1, <2>1, <2>2, <2>3 DEF LeaseOK, Uploads
<1>3. mem' = mem /\ lapses' = lapses
  BY DEF Expire
<1>4. /\ mem' \in [Tab -> [Item -> Mem]] /\ lapses' \in 0..MaxLapses
      /\ \A u \in Tab, j \in Item : mem'[u][j] = mem[u][j]
  BY <1>0, <1>3 DEF TypeOK
<1> QED
  BY <1>1, <1>2, <1>4, WideStep DEF Expire
-----------------------------------------------------------------------------
(* Steps of the environment *)

LEMMA OpenStep ==
  ASSUME IInv, NEW t \in Tab, OpenTab(t)
  PROVE  IInv'
<1>0. TypeOK
  BY DEF IInv
<1>1. ASSUME NEW i \in Item
      PROVE  Hydrated(i) \in Mem /\ Hydrated(i).pc = "rest"
             /\ (Hydrated(i).status = "completed" => file # NoFile)
  <2>1. queue[i] \in Record /\ (queue[i].status = "completed" => file # NoFile)
    BY <1>0 DEF TypeOK, IInv, QueueOK
  <2>2. (queue[i].status = "queued") \in BOOLEAN
    OBVIOUS
  <2> QED
    BY <2>1, <2>2, UnknownType DEF Hydrated, Record, Mem
<1>2. /\ mem' \in [Tab -> [Item -> Mem]]
      /\ \A i \in Item : mem'[t][i] = Hydrated(i)
      /\ \A u \in Tab \ {t} : mem'[u] = mem[u]
  BY <1>0, <1>1 DEF OpenTab, TypeOK
<1>3. TypeOK'
  BY <1>0, <1>2 DEF OpenTab, TypeOK
<1>4. \A r \in net' : RequestOK(r)'
  BY SameFile DEF OpenTab, IInv
<1>5. ReportedIsThere' /\ FileIsWhole' /\ QueueOK'
  BY DEF OpenTab, ReportedIsThere, FileIsWhole, QueueOK, IInv, NoFile, Part
<1>6. ASSUME NEW u \in Tab, NEW j \in Item
      PROVE  StoredOK(u, j)' /\ LeaseOK(u, j)'
  <2>1. StoredOK(u, j) /\ LeaseOK(u, j)
    BY DEF IInv
  <2> QED
    BY <1>1, <1>2, <2>1 DEF OpenTab, StoredOK, LeaseOK, Uploads, Sending, Taken, NoFile
<1> QED
  BY <1>3, <1>4, <1>5, <1>6 DEF IInv

LEMMA CloseStep ==
  ASSUME IInv, NEW t \in Tab, CloseTab(t)
  PROVE  IInv'
<1>0. TypeOK
  BY DEF IInv
<1>1. /\ mem' \in [Tab -> [Item -> Mem]]
      /\ \A i \in Item : mem'[t][i] = Unknown
      /\ \A u \in Tab \ {t} : mem'[u] = mem[u]
  BY <1>0, UnknownType DEF CloseTab, TypeOK
<1>2. /\ lease' \in [Item -> [owner : Tab \cup {NoTab}, live : BOOLEAN]]
      /\ \A j \in Item : lease[j].owner # t => lease'[j] = lease[j]
      /\ \A j \in Item : lease'[j].live = lease[j].live
  <2>1. \A j \in Item : lease[j] \in [owner : Tab \cup {NoTab}, live : BOOLEAN]
    BY <1>0 DEF TypeOK
  <2>2. \A j \in Item : /\ [lease[j] EXCEPT !.owner = NoTab]
                             \in [owner : Tab \cup {NoTab}, live : BOOLEAN]
                        /\ [lease[j] EXCEPT !.owner = NoTab].live = lease[j].live
    BY <2>1
  <2> QED
    BY <2>1, <2>2 DEF CloseTab
<1>3. \A r \in net' : r \in Requests /\ RequestOK(r)
  BY WithoutOK DEF CloseTab
<1>4. closes' \in 0..MaxCloses
  BY <1>0, BoundAssumption DEF CloseTab, TypeOK
<1>5. TypeOK'
  BY <1>0, <1>1, <1>2, <1>3, <1>4 DEF CloseTab, TypeOK
<1>6. \A r \in net' : RequestOK(r)'
  BY <1>3, SameFile DEF CloseTab
<1>7. ReportedIsThere' /\ FileIsWhole' /\ QueueOK'
  BY DEF CloseTab, ReportedIsThere, FileIsWhole, QueueOK, IInv, NoFile, Part
<1>8. ASSUME NEW u \in Tab, NEW j \in Item
      PROVE  StoredOK(u, j)' /\ LeaseOK(u, j)'
  <2>1. StoredOK(u, j) /\ LeaseOK(u, j)
    BY DEF IInv
  <2>2. CASE u = t
    BY <1>1, <2>2, UnknownType DEF StoredOK, LeaseOK, Uploads, Sending
  <2>3. CASE u # t
    <3>1. mem'[u][j] = mem[u][j] /\ file' = file
      BY <1>1, <2>3 DEF CloseTab
    <3>2. lease[j] = [owner |-> u, live |-> TRUE] => lease'[j] = lease[j]
      BY <1>2, <2>3
    <3>3. mem[u][j].pc = "acquire" /\ ~Taken(u, j) => ~Taken(u, j)'
      BY <1>2, <2>3 DEF Taken
    <3> QED
      BY <2>1, <3>1, <3>2, <3>3 DEF StoredOK, LeaseOK, Uploads, NoFile
  <2> QED
    BY <2>2, <2>3
<1> QED
  BY <1>5, <1>6, <1>7, <1>8 DEF IInv

LEMMA LoseStep ==
  ASSUME IInv, NEW r \in net, Lose(r)
  PROVE  IInv'
<1> DEFINE s == [r EXCEPT !.at = "answer", !.out = "error"]
<1>0. TypeOK /\ r \in Requests /\ RequestOK(r)
  BY DEF IInv, TypeOK
<1>1. s \in Requests /\ RequestOK(s)
  BY <1>0 DEF Requests, RequestOK, At, Out
<1>2. \A x \in net' : x \in Requests /\ RequestOK(x)
  BY <1>1, WithoutOK DEF Lose
<1>3. faults' \in 0..MaxFaults
  BY <1>0, BoundAssumption DEF Lose, TypeOK
<1>4. TypeOK'
  BY <1>0, <1>2, <1>3 DEF Lose, TypeOK
<1>5. \A x \in net' : RequestOK(x)'
  BY <1>2, SameFile DEF Lose
<1>6. ReportedIsThere' /\ FileIsWhole' /\ QueueOK'
  BY DEF Lose, ReportedIsThere, FileIsWhole, QueueOK, IInv, NoFile, Part
<1>7. ASSUME NEW u \in Tab, NEW j \in Item
      PROVE  StoredOK(u, j)' /\ LeaseOK(u, j)'
  <2>1. StoredOK(u, j) /\ LeaseOK(u, j)
    BY DEF IInv
  <2> QED
    BY <2>1 DEF Lose, StoredOK, LeaseOK, Uploads, Taken, NoFile
<1> QED
  BY <1>4, <1>5, <1>6, <1>7 DEF IInv
-----------------------------------------------------------------------------
LEMMA InitInvariant == Init => IInv
<1> SUFFICES ASSUME Init PROVE IInv
  OBVIOUS
<1>1. TypeOK
  BY UnknownType, BoundAssumption
     DEF Init, TypeOK, Record, NoRecord, Upload, NoFile, Stage
<1>2. \A t \in Tab, i \in Item : StoredOK(t, i) /\ LeaseOK(t, i)
  BY UnknownType DEF Init, StoredOK, LeaseOK, Uploads, Sending
<1> QED
  BY <1>1, <1>2 DEF Init, IInv, FileIsWhole, ReportedIsThere, QueueOK, NoRecord

LEMMA StutterStep ==
  ASSUME IInv, UNCHANGED vars
  PROVE  IInv'
<1>1. TypeOK'
  BY DEF IInv, TypeOK, vars
<1>2. \A r \in net' : RequestOK(r)'
  BY SameFile DEF IInv, vars
<1>3. ReportedIsThere' /\ FileIsWhole' /\ QueueOK'
  BY DEF vars, ReportedIsThere, FileIsWhole, QueueOK, IInv, NoFile, Part
<1>4. ASSUME NEW u \in Tab, NEW j \in Item
      PROVE  StoredOK(u, j)' /\ LeaseOK(u, j)'
  <2>1. StoredOK(u, j) /\ LeaseOK(u, j)
    BY DEF IInv
  <2> QED
    BY <2>1 DEF vars, StoredOK, LeaseOK, Uploads, Taken, NoFile
<1> QED
  BY <1>1, <1>2, <1>3, <1>4 DEF IInv

LEMMA NextInvariant ==
  ASSUME IInv, [Next]_vars
  PROVE  IInv'
<1>1. ASSUME NEW t \in Tab, NEW i \in Item,
             Run(t, i) \/ Nudge(t, i) \/ Heartbeat(t, i)
      PROVE  IInv'
  BY <1>1, NudgeStep, TryReadStep, TryWriteStep, RunItemStep, RunEndsStep, HeartbeatStep
     DEF Run
<1>2. ASSUME NEW t \in Tab, NEW i \in Item, Receive(t, i)
      PROVE  IInv'
  BY <1>2, ReadyStep, CompleteReadyStep, RetryReadyStep DEF Receive
<1>3. ASSUME NEW t \in Tab, NEW i \in Item, User(t, i)
      PROVE  IInv'
  BY <1>3, StartStep, CancelStep, RetryStep DEF User
<1>4. ASSUME NEW t \in Tab, OpenTab(t) \/ ReleaseAll(t) \/ CloseTab(t)
      PROVE  IInv'
  BY <1>4, OpenStep, ReleaseAllStep, CloseStep
<1>5. ASSUME NEW i \in Item, Lapse(i) \/ Expire(i)
      PROVE  IInv'
  BY <1>5, LapseStep, ExpireStep
<1>6. ASSUME NEW r \in net, Serve(r) \/ Lose(r) \/ Throw(r)
      PROVE  IInv'
  BY <1>6, ServeStep, LoseStep, ThrowStep
<1> QED
  BY <1>1, <1>2, <1>3, <1>4, <1>5, <1>6, StutterStep DEF Next

(* Whatever tabs, users, connections and handlers do, the inductive        *)
(* invariant holds: what a completion has read, who may believe an item    *)
(* stored, and which tab holds the lease of a run that keeps its cover.    *)
THEOREM Invariance == Spec => []IInv
<1>1. Init => IInv
  BY InitInvariant
<1>2. IInv /\ [Next]_vars => IInv'
  BY NextInvariant
<1> QED
  BY <1>1, <1>2, PTL DEF Spec

(* The object at the path is one whole upload, whatever aborts and retries *)
(* do to the chunks while a completion reads them.                         *)
THEOREM Whole == Spec => []FileIsWhole
<1>1. IInv => FileIsWhole
  BY DEF IInv
<1> QED
  BY <1>1, Invariance, PTL

(* No batch is announced as uploaded unless there is a file at its path.   *)
THEOREM Reported == Spec => []ReportedIsThere
<1>1. IInv => ReportedIsThere
  BY DEF IInv
<1> QED
  BY <1>1, Invariance, PTL

(* No two tabs upload one item at once, though tabs read, write and read   *)
(* the lease in any order, unless the run of one of them was cancelled or  *)
(* has lost its cover: its lease ran out or was given up by a page that is *)
(* still there, or was overwritten by a tab that had read it before.       *)
THEOREM OneTab == Spec => []OneTabUploads
<1>1. ASSUME IInv PROVE OneTabUploads
  <2> SUFFICES ASSUME NEW i \in Item, NEW t \in Tab, NEW u \in Tab,
                      Uploads(t, i), ~mem[t][i].exposed,
                      Uploads(u, i), ~mem[u][i].exposed
               PROVE  t = u
    BY DEF OneTabUploads
  <2>1. LeaseOK(t, i) /\ LeaseOK(u, i)
    BY <1>1 DEF IInv
  <2>2. [owner |-> t, live |-> TRUE].owner = [owner |-> u, live |-> TRUE].owner
    BY <2>1 DEF LeaseOK
  <2> QED
    BY <2>2
<1> QED
  BY <1>1, Invariance, PTL
-----------------------------------------------------------------------------
(* What a tab knows of an item and the requests it waits for *)

Awake(m) ==
  /\ m.listed /\ m.status \in {"queued", "uploading"} =>
       m.due \/ m.retrying # {} \/ m.pc # "rest"
  /\ m.cancelled => ~m.listed
Sound(m, W) == Awake(m) /\ Matched(m, W)

LEMMA WakeInvIs ==
  WakeInv <=> /\ \A t \in Tab, i \in Item :
                   /\ Sound(mem[t][i], Awaited(t, i))
                   /\ mem[t][i].retrying \subseteq 1..retries
                   /\ t \notin open \/ i \notin chosen => mem[t][i] = Unknown
              /\ \A i \in Item \ chosen : queue[i] = NoRecord
BY DEF WakeInv, PendingIsDriven, Pending, AnswersAreAwaited, Sound, Awake

LEMMA WakeInvIsNext ==
  WakeInv' <=> /\ \A t \in Tab, i \in Item :
                    /\ Sound(mem[t][i], Awaited(t, i))'
                    /\ mem'[t][i].retrying \subseteq 1..retries'
                    /\ t \notin open' \/ i \notin chosen' => mem'[t][i] = Unknown
               /\ \A i \in Item \ chosen' : queue'[i] = NoRecord
BY DEF WakeInv, PendingIsDriven, Pending, AnswersAreAwaited, Sound, Awake,
       Unknown, NoRecord

\* What a run asks for while it waits.
LEMMA AsksAt ==
  /\ Asks("rest") = {} /\ Asks("delete") = {}
  /\ Asks("acquire") = {} /\ Asks("confirm") = {}
  /\ Asks("session") = {"create", "status"}
  /\ Asks("part") = {"part"} /\ Asks("complete") = {"complete"}
  /\ \A pc : "recheck" \notin Asks(pc)
BY DEF Asks

\* A request that stands for another of the same kind is awaited as well.
LEMMA Swapped ==
  ASSUME NEW m, NEW W, Matched(m, W), NEW r \in W,
         NEW s, s.op = r.op, s.op = "recheck" => s.part = r.part
  PROVE  Matched(m, (W \ {r}) \cup {s})
<1>1. \A q \in W \ {r} : ~(q.op \in Asks(m.pc) /\ s.op \in Asks(m.pc))
  BY DEF Matched
<1>2. \A q \in W \ {r} : ~(q.op = s.op /\ q.part = s.part)
  BY DEF Matched
<1> QED
  BY <1>1, <1>2 DEF Matched

\* A run that ends waits for nothing, one that starts for its request.
LEMMA RunLeaves ==
  ASSUME NEW m, NEW W, Matched(m, W), NEW r \in W, r.op # "recheck",
         NEW n, Asks(n.pc) = {}, n.retrying = m.retrying
  PROVE  Matched(n, W \ {r})
<1>1. \A q \in W \ {r} : q.op = "recheck" /\ q.part \in m.retrying
  BY DEF Matched
<1> QED
  BY <1>1 DEF Matched

LEMMA RunAsks ==
  ASSUME NEW m, NEW W, Matched(m, W), Asks(m.pc) = {},
         NEW n, n.retrying = m.retrying, NEW q, q.op \in Asks(n.pc)
  PROVE  Matched(n, W \cup {q})
<1>1. \A r \in W : r.op = "recheck" /\ r.part \in m.retrying
  BY DEF Matched
<1>2. q.op # "recheck" /\ \A r \in W : r.op \notin Asks(n.pc)
  BY <1>1, AsksAt
<1> QED
  BY <1>1, <1>2 DEF Matched

\* So does a retry, whose request has its number.
LEMMA RetryLeaves ==
  ASSUME NEW m, NEW W, Matched(m, W), NEW r \in W, r.op = "recheck",
         NEW n, n.pc = m.pc, n.retrying = m.retrying \ {r.part}
  PROVE  Matched(n, W \ {r})
<1>1. r.op \notin Asks(m.pc)
  BY AsksAt
<1>2. \A q \in W \ {r} : q.op = "recheck" => q.part # r.part
  BY DEF Matched
<1> QED
  BY <1>1, <1>2 DEF Matched

LEMMA RetryAsks ==
  ASSUME NEW m, NEW W, Matched(m, W), NEW q, q.op = "recheck", q.part \notin m.retrying,
         NEW n, n.pc = m.pc, n.retrying = m.retrying \cup {q.part}
  PROVE  Matched(n, W \cup {q})
<1>1. q.op \notin Asks(m.pc)
  BY AsksAt
<1>2. \A r \in W : r.op = "recheck" => r.part # q.part
  BY AsksAt DEF Matched
<1> QED
  BY <1>1, <1>2 DEF Matched

\* What is forgotten waited for nothing, and what is woken is driven.
LEMMA SoundTidy ==
  ASSUME NEW m \in Mem, NEW W, Sound(m, W)
  PROVE  Sound(Tidy(m), W)
<1>1. CASE Tidy(m) = m
  BY <1>1
<1>2. CASE m.pc = "rest" /\ m.retrying = {} /\ Tidy(m) = Unknown
  <2>1. W = {}
    BY <1>2, AsksAt DEF Sound, Matched
  <2> QED
    BY <1>2, <2>1, AsksAt DEF Sound, Awake, Matched, Unknown
<1> QED
  BY <1>1, <1>2 DEF Tidy

LEMMA SoundStays ==
  ASSUME NEW m, NEW n, NEW W, Sound(m, W), Alike(n, m), m.due => n.due
  PROVE  Sound(n, W)
BY DEF Sound, Awake, Matched, Alike

\* What a tab tells the others wakes them, no more.
LEMMA OthersAreTold ==
  ASSUME TypeOK, NEW t \in Tab, NEW i \in Item, NEW m \in Mem,
         Set(t, i, m) \/ SetAndTell(t, i, m),
         NEW u \in Tab, NEW j \in Item, u # t \/ j # i
  PROVE  /\ Alike(mem'[u][j], mem[u][j])
         /\ mem[u][j].due => mem'[u][j].due
         /\ mem[u][j] = Unknown => mem'[u][j] = Unknown
<1>1. CASE mem'[u][j] = mem[u][j]
  BY <1>1 DEF Alike
<1>2. CASE mem'[u][j] = Told(u)[j]
  <2>1. mem[u][j] = Unknown => ~Pending(u, j)
    BY UnknownType DEF Pending
  <2> QED
    BY <1>2, <2>1, ToldType
<1>3. mem'[u][j] = mem[u][j] \/ mem'[u][j] = Told(u)[j]
  BY DEF Set, SetAndTell, TypeOK
<1> QED
  BY <1>1, <1>2, <1>3

\* A step of an open tab is judged by the item it changes.
LEMMA WakeTab ==
  ASSUME TypeOK, WakeInv, NEW t \in Tab, NEW i \in Item, NEW m \in Mem,
         Set(t, i, m) \/ SetAndTell(t, i, m),
         Sound(m, Awaited(t, i)'), m.retrying \subseteq 1..retries',
         1..retries \subseteq 1..retries',
         \A u \in Tab, j \in Item : u # t \/ j # i => Awaited(u, j)' = Awaited(u, j),
         t \in open, open' = open, i \in chosen', chosen \subseteq chosen',
         \A j \in Item \ {i} : queue'[j] = queue[j]
  PROVE  WakeInv'
<1>0. \A j \in Item \ chosen' : queue'[j] = NoRecord
  BY WakeInvIs
<1> SUFFICES ASSUME NEW u \in Tab, NEW j \in Item
             PROVE  /\ Sound(mem[u][j], Awaited(u, j))'
                    /\ mem'[u][j].retrying \subseteq 1..retries'
                    /\ u \notin open' \/ j \notin chosen' => mem'[u][j] = Unknown
  BY <1>0, WakeInvIsNext
<1>1. CASE u = t /\ j = i
  <2>1. mem'[t][i] = Tidy(m)
    BY SetType
  <2>2. Sound(Tidy(m), Awaited(t, i)')
    BY SoundTidy
  <2>3. Tidy(m).retrying \subseteq 1..retries'
    BY DEF Tidy, Unknown
  <2> QED
    BY <1>1, <2>1, <2>2, <2>3 DEF Sound, Awake, Matched
<1>2. CASE u # t \/ j # i
  <2>1. /\ Sound(mem[u][j], Awaited(u, j)) /\ mem[u][j].retrying \subseteq 1..retries
        /\ u \notin open \/ j \notin chosen => mem[u][j] = Unknown
    BY WakeInvIs
  <2>2. /\ Alike(mem'[u][j], mem[u][j]) /\ (mem[u][j].due => mem'[u][j].due)
        /\ mem[u][j] = Unknown => mem'[u][j] = Unknown
    BY <1>2, OthersAreTold
  <2>3. Sound(mem'[u][j], Awaited(u, j)) /\ Awaited(u, j)' = Awaited(u, j)
    BY <1>2, <2>1, <2>2, SoundStays
  <2>4. Sound(mem[u][j], Awaited(u, j))'
    BY <2>3 DEF Sound, Awake, Matched
  <2> QED
    BY <2>1, <2>2, <2>4 DEF Alike
<1> QED
  BY <1>1, <1>2

\* The requests of a step that adds, replaces or takes one of those of one
\* item.
LEMMA WaitsMore ==
  ASSUME NEW t \in Tab, NEW i \in Item, NEW q, q.tab = t, q.item = i,
         net' = net \cup {q}
  PROVE  /\ Awaited(t, i)' = Awaited(t, i) \cup {q}
         /\ \A u \in Tab, j \in Item : u # t \/ j # i => Awaited(u, j)' = Awaited(u, j)
BY DEF Awaited

LEMMA WaitsNext ==
  ASSUME NEW t \in Tab, NEW i \in Item, NEW r, r.tab = t, r.item = i,
         NEW q, q.tab = t, q.item = i, net' = (net \ {r}) \cup {q}
  PROVE  /\ Awaited(t, i)' = (Awaited(t, i) \ {r}) \cup {q}
         /\ \A u \in Tab, j \in Item : u # t \/ j # i => Awaited(u, j)' = Awaited(u, j)
BY DEF Awaited

LEMMA WaitsLess ==
  ASSUME NEW t \in Tab, NEW i \in Item, NEW r, r.tab = t, r.item = i,
         net' = net \ {r}
  PROVE  /\ Awaited(t, i)' = Awaited(t, i) \ {r}
         /\ \A u \in Tab, j \in Item : u # t \/ j # i => Awaited(u, j)' = Awaited(u, j)
BY DEF Awaited

\* Only an open tab knows of an item, waits for an answer or has a call due.
LEMMA OpenActs ==
  ASSUME WakeInv, NEW t \in Tab, NEW i \in Item,
         \/ mem[t][i].listed \/ mem[t][i].due \/ mem[t][i].pc # "rest"
         \/ mem[t][i].retrying # {}
  PROVE  t \in open /\ i \in chosen
BY WakeInvIs DEF Unknown
-----------------------------------------------------------------------------
(* Handlers and requests *)

\* A handler goes on with a request of the same kind, for the same tab and
\* item, or drops one that nobody waits for.
LEMMA Handled ==
  ASSUME TypeOK, WakeInv, NEW r \in net, NEW s, NEW X,
         s.tab = r.tab /\ s.item = r.item /\ s.op = r.op,
         s.op = "recheck" => s.part = r.part,
         net' = (net \ {r}) \cup X,
         \A x \in X : x.tab = NoTab \/ x = s,
         r.tab = NoTab \/ s \in X,
         UNCHANGED <<mem, open, queue, chosen, retries>>
  PROVE  WakeInv'
<1> SUFFICES ASSUME NEW u \in Tab, NEW j \in Item
             PROVE  Sound(mem[u][j], Awaited(u, j))'
  BY WakeInvIs, WakeInvIsNext
<1>0. Sound(mem[u][j], Awaited(u, j)) /\ u # NoTab
  BY WakeInvIs, TabAssumption
<1>1. CASE r \in Awaited(u, j)
  <2>1. Awaited(u, j)' = (Awaited(u, j) \ {r}) \cup {s}
    BY <1>0, <1>1 DEF Awaited
  <2>2. Matched(mem[u][j], Awaited(u, j)')
    BY <1>0, <1>1, <2>1, Swapped DEF Sound
  <2> QED
    BY <1>0, <2>2 DEF Sound, Awake, Matched
<1>2. CASE r \notin Awaited(u, j)
  <2>1. Awaited(u, j)' = Awaited(u, j)
    BY <1>0, <1>2 DEF Awaited
  <2> QED
    BY <1>0, <2>1 DEF Sound, Awake, Matched
<1> QED
  BY <1>1, <1>2

LEMMA HandledOnce ==
  ASSUME TypeOK, WakeInv, NEW r \in net, NEW s,
         s.tab = r.tab /\ s.item = r.item /\ s.op = r.op,
         s.op = "recheck" => s.part = r.part,
         net' = (net \ {r}) \cup (IF r.tab = NoTab THEN {} ELSE {s}) \/ Replace(r, s),
         UNCHANGED <<mem, open, queue, chosen, retries>>
  PROVE  WakeInv'
<1>1. PICK X \in {{}, {s}} : net' = (net \ {r}) \cup X /\ (r.tab = NoTab \/ s \in X)
  BY DEF Replace
<1>2. \A x \in X : x.tab = NoTab \/ x = s
  OBVIOUS
<1> QED
  BY <1>1, <1>2, Handled

LEMMA HandledAnswer ==
  ASSUME TypeOK, WakeInv, NEW r \in net, NEW out, Answer(r, out),
         UNCHANGED <<mem, open, queue, chosen, retries>>
  PROVE  WakeInv'
<1> DEFINE s == [r EXCEPT !.at = "answer", !.out = out]
<1>1. s.tab = r.tab /\ s.item = r.item /\ s.op = r.op
      /\ (s.op = "recheck" => s.part = r.part)
  BY DEF TypeOK, Requests
<1>2. net' = (net \ {r}) \cup (IF r.tab = NoTab THEN {} ELSE {s}) \/ Replace(r, s)
  BY DEF Answer
<1> HIDE DEF s
<1> QED
  BY <1>1, <1>2, HandledOnce

LEMMA HandledAdvance ==
  ASSUME TypeOK, WakeInv, NEW r \in net, NEW at, Advance(r, at),
         UNCHANGED <<mem, open, queue, chosen, retries>>
  PROVE  WakeInv'
<1> DEFINE s == [r EXCEPT !.at = at]
<1>1. s.tab = r.tab /\ s.item = r.item /\ s.op = r.op
      /\ (s.op = "recheck" => s.part = r.part)
  BY DEF TypeOK, Requests
<1>2. Replace(r, s)
  BY DEF Advance
<1> HIDE DEF s
<1> QED
  BY <1>1, <1>2, HandledOnce

LEMMA ServeWakes ==
  ASSUME TypeOK, WakeInv, NEW r \in net, Serve(r) \/ Throw(r)
  PROVE  WakeInv'
<1>0. UNCHANGED <<mem, open, queue, chosen, retries>> /\ r \in Requests
  BY DEF Serve, Throw, CreateCheck, CreateRow, Status, PartRead, PartPut,
         CompleteRead, CompleteList, CompleteGet, CompletePut, Sweep,
         CompleteDelete, AbortRead, AbortDelete, AbortMark, TypeOK
<1>1. ASSUME NEW at, Advance(r, at) PROVE WakeInv'
  BY <1>0, <1>1, HandledAdvance
<1>2. ASSUME NEW out, Answer(r, out) PROVE WakeInv'
  BY <1>0, <1>2, HandledAnswer
<1>3. CASE CreateRow(r)
  <2> PICK n \in Session : net' = (net \ {r}) \cup
             IF r.tab = NoTab THEN {} ELSE {[r EXCEPT !.at = "answer", !.upload = n]}
    BY <1>3 DEF CreateRow
  <2> DEFINE s == [r EXCEPT !.at = "answer", !.upload = n]
  <2>1. s.tab = r.tab /\ s.item = r.item /\ s.op = r.op
        /\ (s.op = "recheck" => s.part = r.part)
    BY <1>0 DEF Requests
  <2>2. net' = (net \ {r}) \cup (IF r.tab = NoTab THEN {} ELSE {s})
    OBVIOUS
  <2> HIDE DEF s
  <2> QED
    BY <1>0, <2>1, <2>2, HandledOnce
<1>4. CASE Status(r)
  <2> DEFINE s == [r EXCEPT !.at = "answer", !.got = chunks[r.upload],
                            !.out = IF session[r.upload] = "aborted" THEN "aborted"
                                    ELSE IF file = NoFile THEN "ok" ELSE "completed"]
  <2>1. s.tab = r.tab /\ s.item = r.item /\ s.op = r.op
        /\ (s.op = "recheck" => s.part = r.part)
    BY <1>0 DEF Requests
  <2>2. net' = (net \ {r}) \cup (IF r.tab = NoTab THEN {} ELSE {s})
    BY <1>4 DEF Status
  <2> HIDE DEF s
  <2> QED
    BY <1>0, <2>1, <2>2, HandledOnce
<1>5. CASE CompleteList(r) /\ chunks[r.upload] = Part
  <2> DEFINE s == [r EXCEPT !.at = "get", !.part = 1]
  <2>1. s.tab = r.tab /\ s.item = r.item /\ s.op = r.op
        /\ (s.op = "recheck" => s.part = r.part)
    BY <1>0, <1>5 DEF Requests, CompleteList, Work
  <2>2. Replace(r, s)
    BY <1>5 DEF CompleteList
  <2> HIDE DEF s
  <2> QED
    BY <1>0, <2>1, <2>2, HandledOnce
<1>6. CASE CompleteGet(r) /\ r.part \in chunks[r.upload]
  <2> DEFINE g == [r EXCEPT !.got = @ \cup {r.part}]
             s == IF r.part = Parts THEN [g EXCEPT !.at = "put"]
                  ELSE [g EXCEPT !.part = @ + 1]
  <2>1. g.tab = r.tab /\ g.item = r.item /\ g.op = r.op
        /\ DOMAIN g = DOMAIN r
    BY <1>0 DEF Requests
  <2>2. s.tab = g.tab /\ s.item = g.item /\ s.op = g.op /\ r.op = "complete"
    BY <1>0, <1>6, <2>1 DEF Requests, CompleteGet, Work
  <2>3. Replace(r, s)
    BY <1>6 DEF CompleteGet
  <2> HIDE DEF s, g
  <2> QED
    BY <1>0, <2>1, <2>2, <2>3, HandledOnce
<1>7. CASE Sweep(r) \/ (AbortRead(r) /\ session[r.upload] # "aborted")
  <2> DEFINE s == [r EXCEPT !.at = "delete", !.got = chunks[r.upload]]
  <2>1. s.tab = r.tab /\ s.item = r.item /\ s.op = r.op
        /\ (s.op = "recheck" => s.part = r.part)
    BY <1>0 DEF Requests
  <2>2. Replace(r, s)
    BY <1>7 DEF Sweep, AbortRead
  <2> HIDE DEF s
  <2> QED
    BY <1>0, <2>1, <2>2, HandledOnce
<1>8. CASE \/ CreateCheck(r) \/ PartRead(r) \/ PartPut(r) \/ CompleteRead(r)
           \/ CompletePut(r) \/ CompleteDelete(r) \/ AbortDelete(r) \/ AbortMark(r)
           \/ Throw(r)
           \/ CompleteList(r) /\ chunks[r.upload] # Part
           \/ CompleteGet(r) /\ r.part \notin chunks[r.upload]
           \/ AbortRead(r) /\ session[r.upload] = "aborted"
  BY <1>1, <1>2, <1>8 DEF CreateCheck, PartRead, PartPut, CompleteRead,
     CompletePut, CompleteDelete, AbortDelete, AbortMark, Throw, CompleteList,
     CompleteGet, AbortRead
<1> QED
  BY <1>3, <1>4, <1>5, <1>6, <1>7, <1>8 DEF Serve

\* An answer that is lost comes as an error.
LEMMA LoseWakes ==
  ASSUME TypeOK, WakeInv, NEW r \in net, Lose(r)
  PROVE  WakeInv'
<1> DEFINE s == [r EXCEPT !.at = "answer", !.out = "error"]
           X == {s} \cup {Detached(x) : x \in {y \in {r} : y.at # "answer"}}
<1>1. s.tab = r.tab /\ s.item = r.item /\ s.op = r.op /\ Detached(r).tab = NoTab
      /\ s.part = r.part
  BY DEF TypeOK, Requests, Detached
<1>2. net' = (net \ {r}) \cup X
  BY DEF Lose, Without
<1>3. \A x \in X : x.tab = NoTab \/ x = s
  BY <1>1
<1>4. s \in X
  OBVIOUS
<1>5. UNCHANGED <<mem, open, queue, chosen, retries>>
  BY DEF Lose
<1> HIDE DEF s, X
<1> QED
  BY <1>1, <1>2, <1>3, <1>4, <1>5, Handled
-----------------------------------------------------------------------------
(* Runs *)

\* The record of one item changes at a time.
LEMMA OtherRecords ==
  ASSUME TypeOK, NEW i \in Item
  PROVE  /\ \A m : Put(i, m) => \A j \in Item \ {i} : queue'[j] = queue[j]
         /\ Drop(i) => \A j \in Item \ {i} : queue'[j] = queue[j]
         /\ UNCHANGED queue => \A j \in Item \ {i} : queue'[j] = queue[j]
BY DEF Put, Drop, TypeOK

\* A step that changes no request.
LEMMA QuietWakes ==
  ASSUME TypeOK, WakeInv, NEW t \in Tab, NEW i \in Item, NEW m \in Mem,
         Set(t, i, m) \/ SetAndTell(t, i, m),
         t \in open, i \in chosen', chosen \subseteq chosen',
         1..retries \subseteq 1..retries',
         \A j \in Item \ {i} : queue'[j] = queue[j],
         UNCHANGED <<open, net>>, Awake(m), Asks(m.pc) = Asks(mem[t][i].pc),
         m.retrying = mem[t][i].retrying
  PROVE  WakeInv'
<1>1. \A u \in Tab, j \in Item : Awaited(u, j)' = Awaited(u, j)
  BY DEF Awaited
<1>2. Matched(mem[t][i], Awaited(t, i)) /\ m.retrying \subseteq 1..retries'
  BY WakeInvIs DEF Sound
<1>3. Sound(m, Awaited(t, i)')
  BY <1>1, <1>2 DEF Sound, Matched
<1> QED
  BY <1>1, <1>2, <1>3, WakeTab

LEMMA IdleWakes ==
  ASSUME TypeOK, WakeInv, NEW t \in Tab, NEW i \in Item,
         \/ StartUpload(t, i) \/ Nudge(t, i) \/ RunIdle(t, i) \/ RunDone(t, i)
         \/ TryRead(t, i) \/ RunDeferred(t, i) \/ RunEnds(t, i)
  PROVE  WakeInv'
<1>0. /\ mem[t][i] \in Mem /\ Awake(mem[t][i]) /\ Unknown \in Mem
      /\ UNCHANGED <<open, net, retries>> /\ chosen \subseteq chosen'
      /\ \A j \in Item \ {i} : queue'[j] = queue[j]
  BY MemType, UnknownType, WakeInvIs, OtherRecords
     DEF StartUpload, Nudge, RunIdle, RunDone, TryRead, RunDeferred, RunEnds, Sound
<1>1. ASSUME NEW m \in Mem, Set(t, i, m) \/ SetAndTell(t, i, m), t \in open,
             i \in chosen', Awake(m), Asks(m.pc) = Asks(mem[t][i].pc),
             m.retrying = mem[t][i].retrying
      PROVE  WakeInv'
  BY <1>0, <1>1, QuietWakes
<1>2. CASE StartUpload(t, i)
  <2> DEFINE m == [Unknown EXCEPT !.listed = TRUE, !.due = TRUE]
  <2>1. m \in Mem /\ m.due /\ m.pc = "rest" /\ m.retrying = {} /\ ~m.cancelled
        /\ m.status = "queued"
    BY <1>0 DEF Mem, Unknown
  <2>2. Set(t, i, m) /\ t \in open /\ i \in chosen' /\ mem[t][i] = Unknown
    BY <1>2, WakeInvIs DEF StartUpload
  <2> HIDE DEF m
  <2>3. mem[t][i].pc = "rest" /\ mem[t][i].retrying = {}
    BY <2>2 DEF Unknown
  <2>4. Awake(m)
    BY <2>1 DEF Awake
  <2> QED
    BY <1>1, <2>1, <2>2, <2>3, <2>4
<1>3. CASE Nudge(t, i) \/ RunIdle(t, i)
  <2>1. PICK b \in BOOLEAN : /\ Set(t, i, [mem[t][i] EXCEPT !.due = b])
                             /\ b \/ mem[t][i].pc # "rest" \/ ~mem[t][i].listed
    BY <1>3 DEF Nudge, RunIdle
  <2> DEFINE m == [mem[t][i] EXCEPT !.due = b]
  <2>2. m \in Mem /\ m.due = b /\ m.pc = mem[t][i].pc /\ m.retrying = mem[t][i].retrying
        /\ m.cancelled = mem[t][i].cancelled /\ m.listed = mem[t][i].listed
    BY <1>0 DEF Mem
  <2>3. Set(t, i, m) /\ t \in open /\ i \in chosen'
    BY <1>3, <2>1, OpenActs DEF Nudge, RunIdle, Pending
  <2> HIDE DEF m
  <2> QED
    BY <1>0, <1>1, <2>1, <2>2, <2>3 DEF Awake
<1>4. CASE RunDone(t, i)
  <2> DEFINE m == [mem[t][i] EXCEPT !.listed = FALSE, !.due = FALSE]
  <2>1. m \in Mem /\ m.pc = mem[t][i].pc /\ m.retrying = mem[t][i].retrying /\ ~m.listed
    BY <1>0 DEF Mem
  <2>2. Set(t, i, m) /\ t \in open /\ i \in chosen'
    BY <1>4, OpenActs DEF RunDone, Runs
  <2> HIDE DEF m
  <2> QED
    BY <1>1, <2>1, <2>2 DEF Awake
<1>5. CASE TryRead(t, i)
  <2> DEFINE m == [mem[t][i] EXCEPT !.pc = "acquire", !.due = FALSE]
  <2>1. m \in Mem /\ m.pc = "acquire" /\ m.retrying = mem[t][i].retrying
        /\ m.cancelled = mem[t][i].cancelled /\ m.listed = mem[t][i].listed
    BY <1>0 DEF Mem
  <2>2. Set(t, i, m) /\ t \in open /\ i \in chosen' /\ mem[t][i].pc = "rest"
    BY <1>5, OpenActs DEF TryRead, Runs
  <2> HIDE DEF m
  <2> QED
    BY <1>0, <1>1, <2>1, <2>2, AsksAt DEF Awake
<1>6. CASE RunDeferred(t, i)
  <2> DEFINE m == [mem[t][i] EXCEPT !.status = "queued", !.pc = "rest", !.due = TRUE,
                                    !.exposed = FALSE]
  <2>1. m \in Mem /\ m.pc = "rest" /\ m.retrying = mem[t][i].retrying /\ m.due
        /\ m.cancelled = mem[t][i].cancelled /\ m.listed = mem[t][i].listed
    BY <1>0 DEF Mem, Stage
  <2>2. Set(t, i, m) /\ t \in open /\ i \in chosen'
    BY <1>6, OpenActs DEF RunDeferred, Refused, Runs
  <2>3. Asks(m.pc) = Asks(mem[t][i].pc)
    BY <1>6, <2>1, AsksAt DEF RunDeferred, Refused, Runs
  <2> HIDE DEF m
  <2> QED
    BY <1>0, <1>1, <2>1, <2>2, <2>3 DEF Awake
<1>7. CASE RunEnds(t, i)
  <2> DEFINE m == [AtRest(mem[t][i]) EXCEPT !.listed = FALSE]
  <2>1. m \in Mem /\ m.pc = "rest" /\ m.retrying = mem[t][i].retrying /\ ~m.listed
    BY <1>0 DEF Mem, AtRest
  <2>2. SetAndTell(t, i, m) /\ t \in open /\ i \in chosen' /\ mem[t][i].pc = "delete"
    BY <1>7, OpenActs DEF RunEnds
  <2> HIDE DEF m
  <2>3. Asks(m.pc) = Asks(mem[t][i].pc) /\ Awake(m)
    BY <2>1, <2>2, AsksAt DEF Awake
  <2> QED
    BY <1>1, <2>1, <2>2, <2>3
<1> QED
  BY <1>2, <1>3, <1>4, <1>5, <1>6, <1>7

\* A run that has the lease takes up the item, and asks for its session.
LEMMA RunItemWakes ==
  ASSUME TypeOK, WakeInv, NEW t \in Tab, NEW i \in Item, RunItem(t, i)
  PROVE  WakeInv'
<1> DEFINE m == [mem[t][i] EXCEPT !.status = "uploading", !.pc = "session",
                                  !.exposed = ~lease[i].live]
           q == Request(IF m.upload = 0 THEN "create" ELSE "status", t, i, m.upload, 0)
<1>0. mem[t][i] \in Mem /\ Sound(mem[t][i], Awaited(t, i))
      /\ mem[t][i].retrying \subseteq 1..retries
  BY MemType, WakeInvIs
<1>1. /\ m \in Mem /\ m.pc = "session"
      /\ m.retrying = mem[t][i].retrying /\ m.listed = mem[t][i].listed
      /\ m.cancelled = mem[t][i].cancelled
  <2>1. (~lease[i].live) \in BOOLEAN /\ "session" \in Sending
    BY DEF Sending
  <2> QED
    BY <1>0, <2>1 DEF Mem
<1>2. SetAndTell(t, i, m) /\ Put(i, m) /\ net' = net \cup {q}
  BY DEF RunItem
<1>3. q.tab = t /\ q.item = i /\ q.op \in {"create", "status"}
  BY DEF Request
<1> HIDE DEF m, q
<1>4. Awaited(t, i)' = Awaited(t, i) \cup {q}
      /\ \A u \in Tab, j \in Item : u # t \/ j # i => Awaited(u, j)' = Awaited(u, j)
  <2>1. net' = net \cup {q}
    BY <1>2
  <2> QED
    BY <1>3, <2>1, WaitsMore
<1>5. mem[t][i].pc = "confirm" /\ t \in open /\ i \in chosen
      /\ UNCHANGED <<open, chosen, retries>>
  BY OpenActs DEF RunItem
<1>6. Awake(m)
  BY <1>0, <1>1 DEF Sound, Awake
<1>7. Matched(m, Awaited(t, i) \cup {q})
  <2>1. Asks(mem[t][i].pc) = {} /\ q.op \in Asks(m.pc)
    BY <1>1, <1>3, <1>5, AsksAt
  <2> QED
    BY <1>0, <1>1, <2>1, RunAsks DEF Sound
<1>8. \A j \in Item \ {i} : queue'[j] = queue[j]
  BY <1>2, OtherRecords
<1> QED
  BY <1>0, <1>1, <1>2, <1>4, <1>5, <1>6, <1>7, <1>8, WakeTab DEF Sound

\* The tab of an answer is open.
LEMMA Found ==
  ASSUME WakeInv, NEW t \in Tab, NEW i \in Item, NEW r \in Awaited(t, i)
  PROVE  t \in open /\ i \in chosen
<1>1. Matched(mem[t][i], Awaited(t, i))
  BY WakeInvIs DEF Sound
<1>2. mem[t][i].retrying # {} \/ mem[t][i].pc # "rest"
  BY <1>1, AsksAt DEF Matched
<1> QED
  BY <1>2, OpenActs

\* The next request of a run stands for the one that was answered.
LEMMA ContinueWakes ==
  ASSUME TypeOK, WakeInv, NEW t \in Tab, NEW i \in Item, NEW m \in Mem,
         NEW r \in Awaited(t, i), r.op # "recheck", Continue(t, i, m, r),
         m.cancelled = mem[t][i].cancelled,
         m.listed = mem[t][i].listed, m.retrying = mem[t][i].retrying,
         UNCHANGED <<open, chosen, retries>>
  PROVE  WakeInv'
<1> PICK p \in m.todo \cup {0} :
      LET pc == IF p = 0 THEN "complete" ELSE "part"
          n == [m EXCEPT !.pc = pc]
      IN /\ Set(t, i, n) /\ Put(i, n)
         /\ net' = (net \ {r}) \cup {Request(pc, t, i, r.upload, p)}
  BY DEF Continue
<1> DEFINE pc == IF p = 0 THEN "complete" ELSE "part"
           n == [m EXCEPT !.pc = pc]
           k == [m EXCEPT !.pc = "rest"]
           q == Request(pc, t, i, r.upload, p)
<1>1. /\ n \in Mem /\ n.pc = pc /\ n.cancelled = m.cancelled
      /\ n.listed = m.listed /\ n.retrying = m.retrying
      /\ k.pc = "rest" /\ k.retrying = m.retrying
  BY DEF Mem, Sending
<1>2. q.tab = t /\ q.item = i /\ q.op = pc
  BY DEF Request
<1>3. pc \in {"complete", "part"} /\ Asks(pc) = {pc} /\ Asks(k.pc) = {}
  BY <1>1, AsksAt
<1>4. Set(t, i, n) /\ Put(i, n) /\ net' = (net \ {r}) \cup {q}
  OBVIOUS
<1> HIDE DEF pc, n, k, q
<1>5. r.tab = t /\ r.item = i
  BY DEF Awaited
<1>6. /\ Awaited(t, i)' = (Awaited(t, i) \ {r}) \cup {q}
      /\ \A u \in Tab, j \in Item : u # t \/ j # i => Awaited(u, j)' = Awaited(u, j)
  BY <1>2, <1>4, <1>5, WaitsNext
<1>7. t \in open /\ i \in chosen
  BY Found
<1>8. Sound(mem[t][i], Awaited(t, i)) /\ mem[t][i].retrying \subseteq 1..retries
  BY WakeInvIs
<1>9. Awake(n)
  BY <1>1, <1>3, <1>8 DEF Sound, Awake
<1>10. Matched(k, Awaited(t, i) \ {r})
  BY <1>1, <1>3, <1>8, RunLeaves DEF Sound
<1>11. Matched(n, (Awaited(t, i) \ {r}) \cup {q})
  BY <1>1, <1>2, <1>3, <1>10, RunAsks
<1>12. \A j \in Item \ {i} : queue'[j] = queue[j]
  BY <1>4, OtherRecords
<1> QED
  BY <1>1, <1>4, <1>6, <1>7, <1>8, <1>9, <1>11, <1>12, WakeTab DEF Sound

\* The end of a run leaves the answers of retries to come.
LEMMA EndWakes ==
  ASSUME TypeOK, WakeInv, NEW t \in Tab, NEW i \in Item, NEW m \in Mem,
         NEW r \in Awaited(t, i), r.op # "recheck", net' = net \ {r},
         Set(t, i, m) \/ SetAndTell(t, i, m), Awake(m), Asks(m.pc) = {},
         m.retrying = mem[t][i].retrying, UNCHANGED <<open, chosen, retries>>,
         \A j \in Item \ {i} : queue'[j] = queue[j]
  PROVE  WakeInv'
<1>1. r.tab = t /\ r.item = i
  BY DEF Awaited
<1>2. /\ Awaited(t, i)' = Awaited(t, i) \ {r}
      /\ \A u \in Tab, j \in Item : u # t \/ j # i => Awaited(u, j)' = Awaited(u, j)
  BY <1>1, WaitsLess
<1>3. t \in open /\ i \in chosen
  BY Found
<1>4. Matched(mem[t][i], Awaited(t, i)) /\ mem[t][i].retrying \subseteq 1..retries
  BY WakeInvIs DEF Sound
<1>5. Matched(m, Awaited(t, i) \ {r})
  BY <1>4, RunLeaves
<1> QED
  BY <1>2, <1>3, <1>4, <1>5, WakeTab DEF Sound

LEMMA FailedWakes ==
  ASSUME TypeOK, WakeInv, NEW t \in Tab, NEW i \in Item,
         NEW r \in Awaited(t, i), r.op # "recheck", net' = net \ {r}, Failed(t, i),
         UNCHANGED <<open, chosen, retries>>
  PROVE  WakeInv'
<1> DEFINE m == AtRest(mem[t][i])
           f == [m EXCEPT !.status = "failed"]
           n == IF mem[t][i].cancelled THEN m ELSE f
<1>0. mem[t][i] \in Mem /\ Awake(mem[t][i])
  BY MemType, WakeInvIs DEF Sound
<1>1. /\ n \in Mem /\ n.pc = "rest" /\ n.retrying = mem[t][i].retrying /\ ~n.cancelled
      /\ n.listed = mem[t][i].listed
      /\ mem[t][i].cancelled \/ n.status = "failed"
  BY <1>0 DEF Mem, AtRest, Stage
<1>2. SetAndTell(t, i, n) /\ (Put(i, n) \/ UNCHANGED queue)
  BY DEF Failed
<1> HIDE DEF n
<1>3. Awake(n)
  BY <1>0, <1>1 DEF Awake
<1>4. \A j \in Item \ {i} : queue'[j] = queue[j]
  BY <1>2, OtherRecords
<1>5. Asks(n.pc) = {}
  BY <1>1, AsksAt
<1> QED
  BY <1>1, <1>2, <1>3, <1>4, <1>5, EndWakes

LEMMA ReadyWakes ==
  ASSUME TypeOK, WakeInv, NEW t \in Tab, NEW i \in Item, NEW r \in net,
         SessionReady(t, i, r) \/ PartReady(t, i, r) \/ CompleteReady(t, i, r)
  PROVE  WakeInv'
<1>0. /\ mem[t][i] \in Mem /\ r \in Requests /\ Awake(mem[t][i])
      /\ r \in Awaited(t, i) /\ r.op # "recheck"
      /\ UNCHANGED <<open, chosen, retries>>
  BY MemType, WakeInvIs
     DEF SessionReady, PartReady, CompleteReady, Answered, Awaited, TypeOK, Sound
<1>1. CASE SessionReady(t, i, r) /\ r.out \in {"ok", "completed"}
  <2> DEFINE m == [mem[t][i] EXCEPT !.upload = r.upload, !.todo = Part \ r.got]
  <2>1. /\ m \in Mem /\ m.listed = mem[t][i].listed
        /\ m.cancelled = mem[t][i].cancelled /\ m.retrying = mem[t][i].retrying
    BY <1>0 DEF Mem, Requests
  <2>2. Continue(t, i, m, r)
    BY <1>1 DEF SessionReady
  <2> HIDE DEF m
  <2> QED
    BY <1>0, <2>1, <2>2, ContinueWakes
<1>2. CASE PartReady(t, i, r) /\ r.out = "ok"
  <2> DEFINE m == [mem[t][i] EXCEPT !.todo = @ \ {r.part}]
  <2>1. /\ m \in Mem /\ m.listed = mem[t][i].listed
        /\ m.cancelled = mem[t][i].cancelled /\ m.retrying = mem[t][i].retrying
    BY <1>0 DEF Mem
  <2>2. Continue(t, i, m, r)
    BY <1>2 DEF PartReady
  <2> HIDE DEF m
  <2> QED
    BY <1>0, <2>1, <2>2, ContinueWakes
<1>3. CASE CompleteReady(t, i, r) /\ r.out = "ok" /\ ~mem[t][i].cancelled
  <2> DEFINE m == [mem[t][i] EXCEPT !.status = "completed", !.pc = "delete"]
  <2>1. /\ m \in Mem /\ m.status = "completed" /\ m.pc = "delete"
        /\ m.cancelled = mem[t][i].cancelled /\ m.retrying = mem[t][i].retrying
    BY <1>0 DEF Mem, Sending, Stage
  <2>2. Set(t, i, m) /\ Drop(i) /\ net' = net \ {r}
    BY <1>3 DEF CompleteReady
  <2> HIDE DEF m
  <2>3. Awake(m) /\ Asks(m.pc) = {}
    BY <1>3, <2>1, AsksAt DEF Awake
  <2>4. \A j \in Item \ {i} : queue'[j] = queue[j]
    BY <2>2, OtherRecords
  <2> QED
    BY <1>0, <2>1, <2>2, <2>3, <2>4, EndWakes
<1>4. CASE Failed(t, i) /\ net' = net \ {r}
  BY <1>0, <1>4, FailedWakes
<1> QED
  BY <1>1, <1>2, <1>3, <1>4 DEF SessionReady, PartReady, CompleteReady

\* The answer of a retry wakes the run, or finds the item done.
LEMMA RetryReadyWakes ==
  ASSUME TypeOK, WakeInv, NEW t \in Tab, NEW i \in Item, NEW r \in net,
         RetryReady(t, i, r)
  PROVE  WakeInv'
<1> DEFINE m == [mem[t][i] EXCEPT !.retrying = @ \ {r.part}, !.due = TRUE]
           gone == [m EXCEPT !.upload = 0]
           done == [m EXCEPT !.status = "completed"]
<1>0. /\ mem[t][i] \in Mem /\ Sound(mem[t][i], Awaited(t, i)) /\ 0 \in Upload
      /\ mem[t][i].retrying \subseteq 1..retries
      /\ r.tab = t /\ r.item = i /\ r.op = "recheck" /\ r \in Awaited(t, i)
      /\ net' = net \ {r} /\ UNCHANGED <<open, chosen, retries>>
  <2>1. mem[t][i] \in Mem /\ Sound(mem[t][i], Awaited(t, i))
        /\ mem[t][i].retrying \subseteq 1..retries
    BY MemType, WakeInvIs
  <2>2. 0 \in Upload
    BY BoundAssumption DEF Upload
  <2>3. /\ r.tab = t /\ r.item = i /\ r.op = "recheck"
        /\ net' = net \ {r} /\ UNCHANGED <<open, chosen, retries>>
    BY DEF RetryReady
  <2>4. r \in Awaited(t, i)
    BY <2>3 DEF Awaited
  <2> QED
    BY <2>1, <2>2, <2>3, <2>4
<1>1. PICK n \in {m, gone, done} : Set(t, i, n) /\ (Put(i, n) \/ Drop(i))
  BY DEF RetryReady
<1>2. /\ n \in Mem /\ n.retrying = mem[t][i].retrying \ {r.part} /\ n.due
      /\ n.pc = mem[t][i].pc
      /\ n.cancelled = mem[t][i].cancelled /\ n.listed = mem[t][i].listed
  <2>1. /\ m \in Mem /\ m.retrying = mem[t][i].retrying \ {r.part} /\ m.due
        /\ m.pc = mem[t][i].pc
        /\ m.cancelled = mem[t][i].cancelled /\ m.listed = mem[t][i].listed
    BY <1>0 DEF Mem
  <2> HIDE DEF m
  <2>2. CASE n = m
    BY <2>1, <2>2
  <2>3. CASE n = gone
    BY <1>0, <2>1, <2>3 DEF Mem
  <2>4. CASE n = done
    BY <2>1, <2>4 DEF Mem, Stage
  <2> QED
    BY <2>2, <2>3, <2>4
<1> HIDE DEF m, gone, done
<1>3. /\ Awaited(t, i)' = Awaited(t, i) \ {r}
      /\ \A u \in Tab, j \in Item : u # t \/ j # i => Awaited(u, j)' = Awaited(u, j)
  BY <1>0, WaitsLess
<1>4. t \in open /\ i \in chosen
  BY <1>0, Found
<1>5. Awake(n)
  BY <1>0, <1>2 DEF Sound, Awake
<1>6. Matched(n, Awaited(t, i) \ {r})
  BY <1>0, <1>2, RetryLeaves DEF Sound
<1>7. n.retrying \subseteq 1..retries' /\ 1..retries \subseteq 1..retries'
  BY <1>0, <1>2
<1>8. \A j \in Item \ {i} : queue'[j] = queue[j]
  BY <1>1, OtherRecords
<1>9. Sound(n, Awaited(t, i)')
  BY <1>3, <1>5, <1>6 DEF Sound
<1>10. open' = open /\ i \in chosen' /\ chosen \subseteq chosen'
  BY <1>0, <1>4
<1>11. n \in Mem /\ Set(t, i, n)
  BY <1>1, <1>2
<1> QED
  BY <1>3, <1>4, <1>7, <1>8, <1>9, <1>10, <1>11, WakeTab
-----------------------------------------------------------------------------
(* Users, tabs and leases *)

\* A cancelled part is aborted with its run; what else the tab waits for
\* still has a run, or a retry, to come to.
LEMMA CancelWakes ==
  ASSUME TypeOK, WakeInv, NEW t \in Tab, NEW i \in Item, Cancel(t, i)
  PROVE  WakeInv'
<1> DEFINE a == [AtRest(mem[t][i]) EXCEPT !.listed = FALSE]
           b == [mem[t][i] EXCEPT !.listed = FALSE, !.cancelled = mem[t][i].pc # "rest"]
           parts == {r \in net : r.tab = t /\ r.item = i /\ r.op = "part"}
           abort == IF mem[t][i].upload = 0 THEN {}
                    ELSE {Request("abort", NoTab, i, mem[t][i].upload, 0)}
<1>0. mem[t][i] \in Mem /\ Sound(mem[t][i], Awaited(t, i))
      /\ mem[t][i].retrying \subseteq 1..retries
  BY MemType, WakeInvIs
<1>1. /\ a \in Mem /\ a.pc = "rest" /\ a.retrying = mem[t][i].retrying /\ ~a.listed
      /\ b \in Mem /\ b.pc = mem[t][i].pc /\ b.retrying = mem[t][i].retrying /\ ~b.listed
  BY <1>0 DEF Mem, AtRest
<1>2. \A x \in abort : x.tab = NoTab
  BY DEF Request
<1>3. t \in open /\ i \in chosen /\ UNCHANGED <<open, chosen, retries>>
  BY OpenActs DEF Cancel
<1>4. \A j \in Item \ {i} : queue'[j] = queue[j]
  BY OtherRecords DEF Cancel
<1> HIDE DEF abort
<1>5. CASE parts # {} /\ SetAndTell(t, i, a) /\ net' = Without(parts) \cup abort
  <2>1. \A x \in net : x \in Requests
    BY DEF TypeOK
  <2>2. \A x \in net : Detached(x).tab = NoTab
    BY <2>1 DEF Detached, Requests
  <2>3. \A u \in Tab, j \in Item : Awaited(u, j)' = Awaited(u, j) \ parts
    BY <1>2, <1>5, <2>2, TabAssumption DEF Without, Awaited
  <2>4. \A u \in Tab, j \in Item : u # t \/ j # i => Awaited(u, j)' = Awaited(u, j)
    BY <2>3 DEF Awaited
  <2>5. PICK r \in Awaited(t, i) : r.op = "part"
    BY <1>5 DEF Awaited
  <2>6. \A x \in Awaited(t, i) \ {r} : x.op # "part"
    BY <1>0, <2>5 DEF Sound, Matched
  <2>7. Awaited(t, i)' = Awaited(t, i) \ {r}
    BY <2>3, <2>5, <2>6 DEF Awaited
  <2> HIDE DEF a, parts
  <2>8. Awake(a) /\ Asks(a.pc) = {}
    BY <1>1, AsksAt DEF Awake
  <2>9. Matched(a, Awaited(t, i) \ {r})
    BY <1>0, <1>1, <2>5, <2>8, RunLeaves DEF Sound
  <2> QED
    BY <1>0, <1>1, <1>3, <1>4, <1>5, <2>4, <2>7, <2>8, <2>9, WakeTab DEF Sound
<1>6. CASE SetAndTell(t, i, b) /\ net' = net \cup abort
  <2>1. \A u \in Tab, j \in Item : Awaited(u, j)' = Awaited(u, j)
    BY <1>2, <1>6, TabAssumption DEF Awaited
  <2> HIDE DEF b
  <2>2. Awake(b)
    BY <1>1 DEF Awake
  <2>3. Matched(b, Awaited(t, i)')
    BY <1>0, <1>1, <2>1 DEF Sound, Matched
  <2> QED
    BY <1>0, <1>1, <1>3, <1>4, <1>6, <2>1, <2>2, <2>3, WakeTab DEF Sound
<1> QED
  BY <1>5, <1>6 DEF Cancel, abort

LEMMA RetryWakes ==
  ASSUME TypeOK, WakeInv, NEW t \in Tab, NEW i \in Item, Retry(t, i)
  PROVE  WakeInv'
<1> DEFINE m == [mem[t][i] EXCEPT !.status = "queued", !.due = FALSE]
           d == [m EXCEPT !.due = TRUE]
           w == [m EXCEPT !.retrying = @ \cup {retries'}]
           q == Request("recheck", t, i, m.upload, retries')
<1>0. mem[t][i] \in Mem /\ Sound(mem[t][i], Awaited(t, i))
      /\ mem[t][i].retrying \subseteq 1..retries
  BY MemType, WakeInvIs
<1>1. /\ retries' \in 1..MaxRetries /\ retries' \in 1..retries'
      /\ retries' \notin 1..retries /\ 1..retries \subseteq 1..retries'
  BY BoundAssumption DEF Retry, TypeOK
<1>2. /\ d \in Mem /\ d.due /\ d.pc = mem[t][i].pc
      /\ d.retrying = mem[t][i].retrying /\ d.cancelled = mem[t][i].cancelled
      /\ d.listed = mem[t][i].listed
      /\ w \in Mem /\ w.retrying = mem[t][i].retrying \cup {retries'}
      /\ w.pc = mem[t][i].pc
      /\ w.cancelled = mem[t][i].cancelled /\ w.listed = mem[t][i].listed
  BY <1>0, <1>1 DEF Mem, Stage
<1>3. t \in open /\ i \in chosen /\ UNCHANGED <<open, chosen>>
  BY OpenActs DEF Retry
<1>4. \A j \in Item \ {i} : queue'[j] = queue[j]
  BY OtherRecords DEF Retry
<1>5. q.tab = t /\ q.item = i /\ q.op = "recheck" /\ q.part = retries'
  BY DEF Request
<1>6. CASE Set(t, i, d) /\ UNCHANGED net
  <2> HIDE DEF m, d
  <2>1. Awake(d) /\ Asks(d.pc) = Asks(mem[t][i].pc)
    BY <1>0, <1>2 DEF Sound, Awake
  <2> QED
    BY <1>1, <1>2, <1>3, <1>4, <1>6, <2>1, QuietWakes
<1>7. CASE Set(t, i, w) /\ net' = net \cup {q}
  <2> HIDE DEF m, w, q
  <2>1. /\ Awaited(t, i)' = Awaited(t, i) \cup {q}
        /\ \A u \in Tab, j \in Item : u # t \/ j # i => Awaited(u, j)' = Awaited(u, j)
    BY <1>5, <1>7, WaitsMore
  <2>2. Awake(w) /\ w.retrying \subseteq 1..retries'
    BY <1>0, <1>1, <1>2 DEF Sound, Awake
  <2>3. q.part \notin mem[t][i].retrying
    BY <1>0, <1>1, <1>5
  <2>4. Matched(w, Awaited(t, i) \cup {q})
    BY <1>0, <1>2, <1>5, <2>3, RetryAsks DEF Sound
  <2> QED
    BY <1>1, <1>2, <1>3, <1>4, <1>7, <2>1, <2>2, <2>4, WakeTab DEF Sound
<1> QED
  BY <1>6, <1>7 DEF Retry

\* A tab that opens waits for nothing yet, and what IndexedDB holds is due.
LEMMA OpenWakes ==
  ASSUME TypeOK, WakeInv, NEW t \in Tab, OpenTab(t)
  PROVE  WakeInv'
<1>1. /\ \A i \in Item : mem'[t][i] = Hydrated(i)
      /\ \A u \in Tab \ {t} : mem'[u] = mem[u]
      /\ open' = open \cup {t} /\ UNCHANGED <<queue, net, chosen, retries>>
  BY DEF OpenTab, TypeOK
<1>2. \A u \in Tab, j \in Item : Awaited(u, j)' = Awaited(u, j)
  BY <1>1 DEF Awaited
<1> SUFFICES ASSUME NEW u \in Tab, NEW j \in Item
             PROVE  /\ Sound(mem[u][j], Awaited(u, j))'
                    /\ mem'[u][j].retrying \subseteq 1..retries'
                    /\ u \notin open' \/ j \notin chosen' => mem'[u][j] = Unknown
  BY <1>1, WakeInvIs, WakeInvIsNext
<1>3. CASE u # t
  <2>1. /\ Sound(mem[u][j], Awaited(u, j)) /\ mem'[u][j] = mem[u][j]
        /\ mem[u][j].retrying \subseteq 1..retries
        /\ u \notin open \/ j \notin chosen => mem[u][j] = Unknown
    BY <1>1, <1>3, WakeInvIs
  <2> QED
    BY <1>1, <1>2, <2>1 DEF Sound, Awake, Matched
<1>4. CASE u = t
  <2> DEFINE h == Hydrated(j)
  <2>1. mem[t][j] = Unknown /\ Matched(mem[t][j], Awaited(t, j))
    BY WakeInvIs DEF OpenTab, Sound
  <2>2. Awaited(t, j) = {}
    BY <2>1, AsksAt DEF Unknown, Matched
  <2>3. queue[j] \in Record /\ (j \notin chosen => h = Unknown)
    BY WakeInvIs DEF TypeOK, Hydrated, NoRecord
  <2>4. /\ h.pc = "rest" /\ h.retrying = {} /\ ~h.cancelled
        /\ h.listed => h.due \/ h.status \in {"completed", "failed"}
    <3>1. CASE queue[j].there
      <4> DEFINE c == queue[j].status
                 g == [Unknown EXCEPT !.listed = TRUE, !.upload = queue[j].upload,
                                      !.status = c, !.due = (c = "queued")]
      <4>1. h = g /\ c \in Stage
        BY <2>3, <3>1 DEF Hydrated, Record
      <4> HIDE DEF c, h
      <4> QED
        BY <4>1 DEF Unknown, Stage
    <3>2. CASE ~queue[j].there
      BY <3>2 DEF Hydrated, Unknown
    <3> QED
      BY <3>1, <3>2
  <2> HIDE DEF h
  <2>5. Awake(h) /\ Matched(h, {})
    BY <2>4, AsksAt DEF Awake, Matched
  <2>6. mem'[u][j] = h
    BY <1>1, <1>4 DEF h
  <2> QED
    BY <1>1, <1>2, <1>4, <2>2, <2>3, <2>4, <2>5, <2>6 DEF Sound, Awake, Matched
<1> QED
  BY <1>3, <1>4

\* A tab that is gone waits for nothing.
LEMMA CloseWakes ==
  ASSUME TypeOK, WakeInv, NEW t \in Tab, CloseTab(t)
  PROVE  WakeInv'
<1> DEFINE R == {r \in net : r.tab = t}
<1>1. /\ \A i \in Item : mem'[t][i] = Unknown
      /\ \A u \in Tab \ {t} : mem'[u] = mem[u]
      /\ open' = open \ {t} /\ UNCHANGED <<queue, chosen, retries>>
      /\ net' = Without(R)
  BY DEF CloseTab, TypeOK
<1>2. \A x \in net : Detached(x).tab = NoTab
  BY DEF Detached, Requests, TypeOK
<1>3. \A u \in Tab, j \in Item :
        Awaited(u, j)' = IF u = t THEN {} ELSE Awaited(u, j)
  BY <1>1, <1>2, TabAssumption DEF Without, Awaited
<1> SUFFICES ASSUME NEW u \in Tab, NEW j \in Item
             PROVE  /\ Sound(mem[u][j], Awaited(u, j))'
                    /\ mem'[u][j].retrying \subseteq 1..retries'
                    /\ u \notin open' \/ j \notin chosen' => mem'[u][j] = Unknown
  BY <1>1, WakeInvIs, WakeInvIsNext
<1>4. CASE u # t
  <2>1. /\ Sound(mem[u][j], Awaited(u, j)) /\ mem'[u][j] = mem[u][j]
        /\ mem[u][j].retrying \subseteq 1..retries
        /\ u \notin open \/ j \notin chosen => mem[u][j] = Unknown
    BY <1>1, <1>4, WakeInvIs
  <2> QED
    BY <1>1, <1>3, <1>4, <2>1 DEF Sound, Awake, Matched
<1>5. CASE u = t
  <2>1. Awake(Unknown) /\ Matched(Unknown, {}) /\ Unknown.retrying = {}
    BY AsksAt DEF Unknown, Awake, Matched
  <2> QED
    BY <1>1, <1>3, <1>5, <2>1 DEF Sound, Awake, Matched
<1> QED
  BY <1>4, <1>5

\* A step that changes leases and wakes tabs, but no request.
LEMMA WideWakes ==
  ASSUME WakeInv, UNCHANGED <<open, queue, chosen, net, retries>>,
         \A u \in Tab, j \in Item :
           /\ Sound(mem[u][j], Awaited(u, j)) => Sound(mem'[u][j], Awaited(u, j))
           /\ mem'[u][j].retrying = mem[u][j].retrying
           /\ mem[u][j] = Unknown => mem'[u][j] = Unknown
  PROVE  WakeInv'
<1>1. \A u \in Tab, j \in Item : Awaited(u, j)' = Awaited(u, j)
  BY DEF Awaited
<1> SUFFICES ASSUME NEW u \in Tab, NEW j \in Item
             PROVE  /\ Sound(mem[u][j], Awaited(u, j))'
                    /\ mem'[u][j].retrying \subseteq 1..retries'
                    /\ u \notin open' \/ j \notin chosen' => mem'[u][j] = Unknown
  BY WakeInvIs, WakeInvIsNext
<1>2. /\ Sound(mem[u][j], Awaited(u, j)) /\ mem[u][j].retrying \subseteq 1..retries
      /\ u \notin open \/ j \notin chosen => mem[u][j] = Unknown
  BY WakeInvIs
<1>3. Sound(mem'[u][j], Awaited(u, j)')
  BY <1>1, <1>2
<1> QED
  BY <1>2, <1>3 DEF Sound, Awake, Matched

\* A tab that writes the lease wakes the others.
LEMMA WrittenWakes ==
  ASSUME TypeOK, NEW t \in Tab, NEW i \in Item, NEW u \in Tab, NEW j \in Item
  PROVE  LET n == Written(t, i)[u][j] IN
         /\ Sound(mem[u][j], Awaited(u, j)) => Sound(n, Awaited(u, j))
         /\ n.retrying = mem[u][j].retrying
         /\ mem[u][j] = Unknown => n = Unknown
<1> DEFINE n == Written(t, i)[u][j]
<1>1. Alike(n, mem[u][j]) /\ (mem[u][j].due => n.due)
  BY WrittenType
<1>2. ASSUME mem[u][j] = Unknown
      PROVE  n = Unknown
  <2>1. CASE u = t
    BY <1>2, <2>1 DEF Written
  <2>2. CASE u # t
    <3>1. Told(u) \in [Item -> Mem] /\ Told(u)[j] = Unknown
      BY <1>2, ToldType, UnknownType DEF Pending
    <3> DEFINE e == \/ Told(u)[i].exposed \/ mem[u][i].pc = "acquire"
                    \/ /\ mem[t][i].pc = "acquire" /\ mem[t][i].exposed
                       /\ Uploads(u, i)
    <3>2. Written(t, i)[u] = [Told(u) EXCEPT ![i] = [Told(u)[i] EXCEPT !.exposed = e]]
      BY <2>2, <3>1 DEF Written
    <3>3. j = i => ~e
      BY <1>2, <3>1 DEF Uploads, Sending, Unknown
    <3>4. j = i => e = FALSE
      BY <3>3
    <3> HIDE DEF e
    <3>5. j = i => n = [Unknown EXCEPT !.exposed = FALSE]
      BY <3>1, <3>2, <3>4
    <3> QED
      BY <3>1, <3>2, <3>5 DEF Unknown
  <2> QED
    BY <2>1, <2>2
<1> HIDE DEF n
<1>3. Sound(mem[u][j], Awaited(u, j)) => Sound(n, Awaited(u, j))
  BY <1>1, SoundStays
<1> QED
  BY <1>1, <1>2, <1>3 DEF Alike, n

\* The lease is read, written and read again; it lapses and is renewed.
LEMMA LeaseWakes ==
  ASSUME TypeOK, WakeInv, NEW t \in Tab, NEW i \in Item,
         TryWrite(t, i) \/ Heartbeat(t, i)
  PROVE  WakeInv'
<1>0. UNCHANGED <<open, queue, chosen, net, retries>>
  BY DEF TryWrite, Heartbeat
<1>1. CASE Heartbeat(t, i)
  <2>1. mem' = Written(t, i)
    BY <1>1 DEF Heartbeat
  <2> QED
    BY <1>0, <2>1, WrittenWakes, WideWakes
<1>2. CASE TryWrite(t, i)
  <2> DEFINE n == [mem[t][i] EXCEPT !.pc = "confirm"]
             w == Written(t, i)
  <2>1. w \in [Tab -> [Item -> Mem]] /\ w[t] = mem[t] /\ mem[t] \in [Item -> Mem]
        /\ mem[t][i].pc = "acquire"
    BY <1>2, WrittenType DEF TypeOK, TryWrite
  <2>2. mem' = [w EXCEPT ![t] = [mem[t] EXCEPT ![i] = n]]
    BY <1>2, <2>1 DEF TryWrite
  <2>3. /\ n.pc = "confirm" /\ n.listed = mem[t][i].listed /\ n.status = mem[t][i].status
        /\ n.cancelled = mem[t][i].cancelled /\ n.retrying = mem[t][i].retrying
    BY <2>1 DEF Mem
  <2> HIDE DEF n, w
  <2>4. /\ mem'[t][i] = n
        /\ \A u \in Tab, j \in Item : u # t \/ j # i => mem'[u][j] = w[u][j]
    BY <2>1, <2>2
  <2>5. Sound(mem[t][i], Awaited(t, i)) => Sound(n, Awaited(t, i))
    BY <2>1, <2>3, AsksAt DEF Sound, Awake, Matched
  <2>6. mem[t][i] # Unknown
    BY <2>1 DEF Unknown
  <2>7. \A u \in Tab, j \in Item :
          /\ Sound(mem[u][j], Awaited(u, j)) => Sound(w[u][j], Awaited(u, j))
          /\ w[u][j].retrying = mem[u][j].retrying
          /\ mem[u][j] = Unknown => w[u][j] = Unknown
    BY WrittenWakes DEF w
  <2>8. \A u \in Tab, j \in Item :
          /\ Sound(mem[u][j], Awaited(u, j)) => Sound(mem'[u][j], Awaited(u, j))
          /\ mem'[u][j].retrying = mem[u][j].retrying
          /\ mem[u][j] = Unknown => mem'[u][j] = Unknown
    BY <2>3, <2>4, <2>5, <2>6, <2>7
  <2> QED
    BY <1>0, <2>8, WideWakes
<1> QED
  BY <1>1, <1>2

\* What is exposed has a run, and is as well driven as before.
LEMMA ExposedWakes ==
  ASSUME TypeOK, NEW u \in Tab, NEW j \in Item
  PROVE  LET n == [mem[u][j] EXCEPT !.exposed = @ \/ Uploads(u, j)] IN
         /\ Sound(mem[u][j], Awaited(u, j)) => Sound(n, Awaited(u, j))
         /\ n.retrying = mem[u][j].retrying
         /\ mem[u][j] = Unknown => n = Unknown
<1> DEFINE e == mem[u][j].exposed \/ Uploads(u, j)
           n == [mem[u][j] EXCEPT !.exposed = e]
<1>0. mem[u][j] \in Mem
  BY MemType
<1>1. mem[u][j] = Unknown => e = FALSE
  <2>1. mem[u][j] = Unknown => ~e
    BY DEF Uploads, Sending, Unknown
  <2> QED
    BY <2>1
<1> HIDE DEF e
<1>2. Alike(n, mem[u][j]) /\ n.due = mem[u][j].due
  BY <1>0 DEF Mem, Alike
<1>3. mem[u][j] = Unknown => n = Unknown
  <2>1. mem[u][j] = Unknown => n = [Unknown EXCEPT !.exposed = FALSE]
    BY <1>1
  <2> HIDE DEF n
  <2> QED
    BY <2>1 DEF Unknown
<1> HIDE DEF n
<1>4. Sound(mem[u][j], Awaited(u, j)) => Sound(n, Awaited(u, j))
  BY <1>2, SoundStays
<1> QED
  BY <1>2, <1>3, <1>4 DEF Alike, n, e

LEMMA LapseWakes ==
  ASSUME TypeOK, WakeInv, \/ \E i \in Item : Lapse(i)
                          \/ \E t \in Tab : ReleaseAll(t)
  PROVE  WakeInv'
<1>0. UNCHANGED <<open, queue, chosen, net, retries>>
  BY DEF Lapse, ReleaseAll
<1> SUFFICES ASSUME NEW u \in Tab, NEW j \in Item
             PROVE  /\ Sound(mem[u][j], Awaited(u, j)) => Sound(mem'[u][j], Awaited(u, j))
                    /\ mem'[u][j].retrying = mem[u][j].retrying
                    /\ mem[u][j] = Unknown => mem'[u][j] = Unknown
  BY <1>0, WideWakes
<1>1. CASE mem'[u][j] = mem[u][j]
  BY <1>1
<1>2. CASE mem'[u][j] = [mem[u][j] EXCEPT !.exposed = @ \/ Uploads(u, j)]
  BY <1>2, ExposedWakes
<1>3. CASE mem'[u][j] = Told(u)[j]
  <2>1. Alike(Told(u)[j], mem[u][j]) /\ (mem[u][j].due => Told(u)[j].due)
    BY ToldType
  <2>2. mem[u][j] = Unknown => Told(u)[j] = Unknown
    BY ToldType, UnknownType DEF Pending
  <2>3. Sound(mem[u][j], Awaited(u, j)) => Sound(Told(u)[j], Awaited(u, j))
    BY <2>1, SoundStays
  <2> QED
    BY <1>3, <2>1, <2>2, <2>3 DEF Alike
<1>4. \/ mem'[u][j] = mem[u][j]
      \/ mem'[u][j] = [mem[u][j] EXCEPT !.exposed = @ \/ Uploads(u, j)]
      \/ mem'[u][j] = Told(u)[j]
  <2>1. ASSUME NEW i \in Item, Lapse(i)
        PROVE  \/ mem'[u][j] = mem[u][j]
               \/ mem'[u][j] = [mem[u][j] EXCEPT !.exposed = @ \/ Uploads(u, j)]
    BY <2>1 DEF Lapse, TypeOK
  <2>2. ASSUME NEW t \in Tab, ReleaseAll(t)
        PROVE  \/ mem'[u][j] = [mem[u][j] EXCEPT !.exposed = @ \/ Uploads(u, j)]
               \/ mem'[u][j] = Told(u)[j]
    BY <2>2 DEF ReleaseAll
  <2> QED
    BY <2>1, <2>2
<1> QED
  BY <1>1, <1>2, <1>3, <1>4

LEMMA StillWakes ==
  ASSUME WakeInv, UNCHANGED <<mem, open, queue, chosen, net, retries>>
  PROVE  WakeInv'
BY WideWakes

LEMMA WakeInit == Init => WakeInv
<1> SUFFICES ASSUME Init, NEW t \in Tab, NEW i \in Item
             PROVE  Sound(mem[t][i], Awaited(t, i)) /\ mem[t][i] = Unknown
  BY WakeInvIs DEF Init, Unknown
<1>1. mem[t][i] = Unknown /\ Awaited(t, i) = {}
  BY DEF Init, Awaited
<1> QED
  BY <1>1, AsksAt DEF Unknown, Sound, Awake, Matched

LEMMA WakeNext ==
  ASSUME IInv, WakeInv, [Next]_vars
  PROVE  WakeInv'
<1>0. TypeOK
  BY DEF IInv
<1>1. ASSUME NEW t \in Tab, NEW i \in Item,
             Run(t, i) \/ Nudge(t, i) \/ Heartbeat(t, i)
      PROVE  WakeInv'
  BY <1>0, <1>1, IdleWakes, RunItemWakes, LeaseWakes DEF Run
<1>2. ASSUME NEW t \in Tab, NEW i \in Item, Receive(t, i)
      PROVE  WakeInv'
  BY <1>0, <1>2, ReadyWakes, RetryReadyWakes DEF Receive
<1>3. ASSUME NEW t \in Tab, NEW i \in Item, User(t, i)
      PROVE  WakeInv'
  BY <1>0, <1>3, IdleWakes, CancelWakes, RetryWakes DEF User
<1>4. ASSUME NEW t \in Tab, OpenTab(t) \/ ReleaseAll(t) \/ CloseTab(t)
      PROVE  WakeInv'
  BY <1>0, <1>4, OpenWakes, LapseWakes, CloseWakes
<1>5. ASSUME NEW i \in Item, Lapse(i) \/ Expire(i)
      PROVE  WakeInv'
  BY <1>0, <1>5, LapseWakes, StillWakes DEF Expire
<1>6. ASSUME NEW r \in net, Serve(r) \/ Lose(r) \/ Throw(r)
      PROVE  WakeInv'
  BY <1>0, <1>6, ServeWakes, LoseWakes
<1>7. CASE UNCHANGED vars
  BY <1>7, StillWakes DEF vars
<1> QED
  BY <1>1, <1>2, <1>3, <1>4, <1>5, <1>6, <1>7 DEF Next

LEMMA WakeInvariance == Spec => []WakeInv
BY WakeInit, WakeNext, Invariance, PTL DEF Spec

(* No item is left waiting with nothing to wake its run, in any number of  *)
(* tabs, whatever is taken, lost, cancelled, closed or late.               *)
THEOREM Driven == Spec => []PendingIsDriven
<1>1. WakeInv => PendingIsDriven
  BY DEF WakeInv
<1> QED
  BY <1>1, WakeInvariance, PTL

(* Every request a tab waits for has the run or the retry it was sent by   *)
(* still waiting at it, and every run and every retry that waits has its   *)
(* one request: no answer meets another run or retry, none is missed.      *)
THEOREM AnswersMeetTheirRun == Spec => []AnswersAreAwaited
<1>1. WakeInv => AnswersAreAwaited
  BY DEF WakeInv
<1> QED
  BY <1>1, WakeInvariance, PTL
-----------------------------------------------------------------------------
(* What IndexedDB forgets *)

Forgets(i) == queue[i].there /\ ~queue'[i].there
Excused(i) == file # NoFile \/ \E t \in Tab : mem[t][i].listed /\ ~mem'[t][i].listed

LEMMA PutForgetsNothing ==
  ASSUME TypeOK, NEW i \in Item, NEW j \in Item, NEW m, Put(j, m)
  PROVE  ~Forgets(i)
BY DEF TypeOK, Put, Forgets

LEMMA StaysUnforgotten ==
  ASSUME NEW i \in Item, UNCHANGED queue
  PROVE  ~Forgets(i)
BY DEF Forgets

LEMMA DropForgetsItsOwn ==
  ASSUME TypeOK, NEW i \in Item, NEW j \in Item, Drop(j), i # j
  PROVE  ~Forgets(i)
BY DEF TypeOK, Drop, Forgets

\* A record is dropped by an answer that tells of the file, or by a cancel.
LEMMA TabForgets ==
  ASSUME IInv, NEW t \in Tab, NEW j \in Item, NEW i \in Item, Forgets(i),
         Run(t, j) \/ Receive(t, j) \/ Nudge(t, j) \/ Heartbeat(t, j) \/ User(t, j)
  PROVE  Excused(i)
<1>0. TypeOK
  BY DEF IInv
<1>1. CASE Run(t, j) \/ Nudge(t, j) \/ Heartbeat(t, j) \/ StartUpload(t, j) \/ Retry(t, j)
  <2>1. UNCHANGED queue \/ \E m : Put(j, m)
    BY <1>1 DEF Run, RunIdle, RunDone, RunDeferred, RunItem, RunEnds, Nudge,
                TryRead, TryWrite, Heartbeat, StartUpload, Retry
  <2> QED
    BY <1>0, <2>1, PutForgetsNothing, StaysUnforgotten
<1>2. CASE Cancel(t, j)
  <2>1. i = j
    BY <1>0, <1>2, DropForgetsItsOwn DEF Cancel
  <2>2. /\ mem[t][j] \in Mem /\ mem \in [Tab -> [Item -> Mem]]
        /\ mem[t][j].listed
    BY <1>0, <1>2, MemType DEF Cancel, TypeOK
  <2>3. PICK m : /\ \/ m = [AtRest(mem[t][j]) EXCEPT !.listed = FALSE]
                    \/ m = [mem[t][j] EXCEPT !.listed = FALSE,
                                             !.cancelled = mem[t][j].pc # "rest"]
                 /\ SetAndTell(t, j, m)
    BY <1>2 DEF Cancel
  <2>4. m \in Mem /\ ~m.listed
    BY <2>2, <2>3 DEF Mem, AtRest
  <2>5. ~mem'[t][j].listed
    BY <1>0, <2>3, <2>4, SetType, UnknownType DEF Tidy
  <2> QED
    BY <2>1, <2>2, <2>5 DEF Excused
<1>3. CASE Receive(t, j)
  <2> PICK r \in net : \/ SessionReady(t, j, r) \/ PartReady(t, j, r)
                       \/ CompleteReady(t, j, r) \/ RetryReady(t, j, r)
    BY <1>3 DEF Receive
  <2>0. RequestOK(r)
    BY DEF IInv
  <2>1. CASE UNCHANGED queue \/ \E m : Put(j, m)
    BY <1>0, <2>1, PutForgetsNothing, StaysUnforgotten
  <2>2. CASE CompleteReady(t, j, r) /\ r.out = "ok"
    BY <2>0, <2>2 DEF CompleteReady, Answered, RequestOK, Excused
  <2>3. CASE RetryReady(t, j, r) /\ r.out = "completed"
    BY <2>0, <2>3 DEF RequestOK, Excused
  <2> QED
    BY <2>1, <2>2, <2>3
       DEF SessionReady, PartReady, CompleteReady, RetryReady, Continue, Failed
<1> QED
  BY <1>1, <1>2, <1>3 DEF User

(* A record leaves IndexedDB only when there is a file or its user cancels *)
(* the item, whatever fails, is lost or is aborted.                        *)
THEOREM ForgetsOnlyDone == Spec => QueueForgetsOnlyDone
<1> DEFINE A == \A i \in Item : Forgets(i) => Excused(i)
<1>1. ASSUME IInv, [Next]_vars PROVE [A]_vars
  <2>1. ASSUME NEW t \in Tab, NEW j \in Item,
               Run(t, j) \/ Receive(t, j) \/ Nudge(t, j) \/ Heartbeat(t, j) \/ User(t, j)
        PROVE  A
    BY <1>1, <2>1, TabForgets
  <2>2. ASSUME NEW t \in Tab, OpenTab(t) \/ ReleaseAll(t) \/ CloseTab(t)
        PROVE  UNCHANGED queue
    BY <2>2 DEF OpenTab, ReleaseAll, CloseTab
  <2>3. ASSUME NEW i \in Item, Lapse(i) \/ Expire(i)
        PROVE  UNCHANGED queue
    BY <2>3 DEF Lapse, Expire
  <2>4. ASSUME NEW r \in net, Serve(r) \/ Lose(r) \/ Throw(r)
        PROVE  UNCHANGED queue
    BY <2>4 DEF Serve, Throw, Lose, CreateCheck, CreateRow, Status, PartRead, PartPut,
         CompleteRead, CompleteList, CompleteGet, CompletePut, Sweep,
         CompleteDelete, AbortRead, AbortDelete, AbortMark
  <2>5. UNCHANGED queue => A
    BY StaysUnforgotten
  <2> HIDE DEF A
  <2> QED
    BY <1>1, <2>1, <2>2, <2>3, <2>4, <2>5 DEF Next
<1>2. [A]_vars =>
        [\A i \in Item : queue[i].there /\ ~queue'[i].there =>
           file # NoFile \/ \E t \in Tab : mem[t][i].listed /\ ~mem'[t][i].listed]_vars
  BY DEF Forgets, Excused
<1> HIDE DEF A
<1> QED
  BY <1>1, <1>2, Invariance, PTL DEF Spec, QueueForgetsOnlyDone

=============================================================================
