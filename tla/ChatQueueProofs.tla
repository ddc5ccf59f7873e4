--------------------------- MODULE ChatQueueProofs ---------------------------
(***************************************************************************)
(* The bound on the queued runs of a Studio, for any number of runs and    *)
(* requests.  A handler that has passed assertStudioRunAllowed will create *)
(* a queued row without another look, so it is counted as one (PastCheck): *)
(* passing the check adds one to at most RunLimit - 1 rows and the other   *)
(* handlers; creating the row moves one from one set to the other; nothing *)
(* else makes a row queued.                                                *)
(***************************************************************************)
EXTENDS ChatRunsProofs, FiniteSetTheorems

USE DEF Active, Terminal

\* No row becomes queued, no row moves to another chat, and no handler passes
\* the check: what a step other than StartLimit and StartCreate must satisfy.
NoRowQueued ==
  \A r \in Run : status'[r] = "queued" => status[r] = "queued" /\ chatOf'[r] = chatOf[r]
NonePasses ==
  \A q \in Request : req'[q].pc \in {"save", "create"} =>
    /\ req[q].pc \in {"save", "create"} /\ req'[q].chat = req[q].chat

\* The two sets of the count are finite.
LEMMA QueueFinite ==
  /\ IsFiniteSet(QueuedInStudio) /\ Cardinality(QueuedInStudio) \in Nat
  /\ IsFiniteSet(PastCheck) /\ Cardinality(PastCheck) \in Nat
  /\ Cardinality(PastCheck) <= Cardinality(Request)
  /\ Cardinality(Request) \in Nat
<1>1. QueuedInStudio \in SUBSET Run /\ PastCheck \in SUBSET Request
  BY DEF QueuedInStudio, PastCheck
<1>2. IsFiniteSet(QueuedInStudio) /\ IsFiniteSet(PastCheck)
  BY <1>1, FiniteAssumption, FS_Subset
<1>3. Cardinality(PastCheck) <= Cardinality(Request)
  BY <1>1, FiniteAssumption, FS_Subset
<1> QED BY <1>2, <1>3, FiniteAssumption, FS_CardinalityType

\* A step that queues nothing and lets nobody pass keeps the bound.
LEMMA QueueShrinks ==
  ASSUME QueueInv, NoRowQueued, NonePasses
  PROVE  QueueInv'
<1>1. QueuedInStudio' \in SUBSET QueuedInStudio /\ PastCheck' \in SUBSET PastCheck
  BY DEF NoRowQueued, NonePasses, QueuedInStudio, PastCheck
<1>2. /\ Cardinality(QueuedInStudio') <= Cardinality(QueuedInStudio)
      /\ Cardinality(PastCheck') <= Cardinality(PastCheck)
      /\ Cardinality(QueuedInStudio') \in Nat /\ Cardinality(PastCheck') \in Nat
  BY <1>1, QueueFinite, FS_Subset, FS_CardinalityType
<1> QED
  BY <1>2, QueueFinite, LimitAssumption DEF QueueInv

\* assertStudioRunAllowed lets a handler pass: then fewer rows than the limit
\* are active, so fewer are queued, and the others past the check are at most
\* the other handlers.
LEMMA QueueLimit ==
  ASSUME IInv, QueueInv, NEW q \in Request, StartLimit(q)
  PROVE  QueueInv'
<1> USE DEF rows
<1>0. TypeOK /\ QueuedInStudio' = QueuedInStudio
  BY DEF IInv, StartLimit, QueuedInStudio
<1>1. CASE StudioFull(req[q].chat) \/ req[q].chat \notin StudioChat
  <2>1. \A p \in Request \ {q} : req'[p] = req[p]
    BY <1>0 DEF StartLimit, Reply, TypeOK
  <2>2. q \notin PastCheck /\ q \notin PastCheck'
    BY <1>0, <1>1 DEF StartLimit, Reply, Idle, Handler, PastCheck, TypeOK
  <2>3. PastCheck' = PastCheck
    BY <2>1, <2>2 DEF PastCheck
  <2> QED BY <1>0, <2>3 DEF QueueInv
<1>2. CASE ~StudioFull(req[q].chat) /\ req[q].chat \in StudioChat
  <2>1. Cardinality(ActiveInStudio) < RunLimit /\ Cardinality(QueuedInStudio) < RunLimit
    <3>1. /\ ActiveInStudio \in SUBSET Run
          /\ QueuedInStudio \in SUBSET ActiveInStudio
      BY DEF ActiveInStudio, QueuedInStudio
    <3>2. IsFiniteSet(ActiveInStudio) /\ Cardinality(ActiveInStudio) \in Nat
      BY <3>1, FiniteAssumption, FS_Subset, FS_CardinalityType
    <3>3. Cardinality(QueuedInStudio) <= Cardinality(ActiveInStudio)
      BY <3>1, <3>2, FS_Subset
    <3>4. Cardinality(ActiveInStudio) < RunLimit
      BY <1>2, <3>2, LimitAssumption DEF StudioFull
    <3> QED BY <3>2, <3>3, <3>4, QueueFinite, LimitAssumption
  <2>2. PastCheck' \in SUBSET Request
    BY DEF PastCheck
  <2>3. Cardinality(PastCheck') <= Cardinality(Request) /\ Cardinality(PastCheck') \in Nat
    BY <2>2, FiniteAssumption, FS_Subset, FS_CardinalityType
  <2> QED
    BY <1>0, <2>1, <2>3, QueueFinite, LimitAssumption DEF QueueInv
<1> QED BY <1>1, <1>2

\* createChatRun takes its handler out of one set and, when the chat is the
\* Studio's, puts its row into the other.
LEMMA QueueCreate ==
  ASSUME IInv, QueueInv, NEW q \in Request, NEW r \in Run, StartCreate(q, r)
  PROVE  QueueInv'
<1>0. TypeOK
  BY DEF IInv
<1>1. /\ PastCheck' = PastCheck \ {q}
      /\ req[q].chat \in StudioChat => q \in PastCheck
  BY <1>0 DEF StartCreate, Handler, PastCheck, TypeOK
<1>2. QueuedInStudio' \in SUBSET
        (IF req[q].chat \in StudioChat THEN QueuedInStudio \cup {r} ELSE QueuedInStudio)
  BY <1>0 DEF StartCreate, CreateRow, QueuedInStudio, TypeOK
<1>3. CASE req[q].chat \in StudioChat
  <2>1. /\ Cardinality(QueuedInStudio \cup {r}) <= Cardinality(QueuedInStudio) + 1
        /\ IsFiniteSet(QueuedInStudio \cup {r})
        /\ Cardinality(QueuedInStudio \cup {r}) \in Nat
    <3>1. /\ IsFiniteSet(QueuedInStudio \cup {r})
          /\ Cardinality(QueuedInStudio \cup {r}) =
               IF r \in QueuedInStudio THEN Cardinality(QueuedInStudio)
               ELSE Cardinality(QueuedInStudio) + 1
      BY QueueFinite, FS_AddElement
    <3> QED BY <3>1, QueueFinite
  <2>2. /\ Cardinality(QueuedInStudio') <= Cardinality(QueuedInStudio) + 1
        /\ Cardinality(QueuedInStudio') \in Nat
    <3>1. QueuedInStudio' \in SUBSET (QueuedInStudio \cup {r})
      BY <1>2, <1>3
    <3>2. /\ Cardinality(QueuedInStudio') <= Cardinality(QueuedInStudio \cup {r})
          /\ Cardinality(QueuedInStudio') \in Nat
      BY <2>1, <3>1, FS_Subset, FS_CardinalityType
    <3> QED BY <2>1, <3>2, QueueFinite
  <2>3. /\ Cardinality(PastCheck') = Cardinality(PastCheck) - 1
    BY <1>1, <1>3, QueueFinite, FS_RemoveElement
  <2> QED
    BY <2>2, <2>3, QueueFinite, LimitAssumption DEF QueueInv
<1>4. CASE req[q].chat \notin StudioChat
  <2>1. /\ Cardinality(QueuedInStudio') <= Cardinality(QueuedInStudio)
        /\ Cardinality(QueuedInStudio') \in Nat
    BY <1>2, <1>4, QueueFinite, FS_Subset, FS_CardinalityType
  <2>2. /\ Cardinality(PastCheck') <= Cardinality(PastCheck)
        /\ Cardinality(PastCheck') \in Nat
    <3>1. PastCheck' \in SUBSET PastCheck
      BY <1>1
    <3> QED BY <3>1, QueueFinite, FS_Subset, FS_CardinalityType
  <2> QED
    BY <2>1, <2>2, QueueFinite, LimitAssumption DEF QueueInv
<1> QED BY <1>3, <1>4

\* The executor, its tools, the timer and time write no row queued.
LEMMA RunNextQueue ==
  ASSUME IInv, NEW r \in Run, RunNext(r)
  PROVE  NoRowQueued /\ NonePasses
<1> USE DEF rows, NoRowQueued, NonePasses
<1>0. TypeOK
  BY DEF IInv
<1>1. CASE MarkRunning(r) \/ MarkCompleted(r) \/ MarkFailed(r)
           \/ \E st \in {"running", "completed"} : RecordRuntimeEvent(r, st)
  BY <1>0, <1>1 DEF MarkRunning, MarkCompleted, MarkFailed, RecordRuntimeEvent,
     UpdateStatus, TypeOK
<1>2. CASE \/ PublishStart(r) \/ LoopThrows(r) \/ StreamError(r) \/ StreamEnds(r)
           \/ SaveReply(r) \/ Finish(r) \/ ExecutorFault(r) \/ ToolCall(r)
           \/ ToolReturns(r) \/ SessionExpires(r) \/ Tick(r)
  BY <1>2 DEF PublishStart, LoopThrows, StreamError, StreamEnds, SaveReply,
     Finish, ExecutorFault, ToolCall, ToolReturns, SessionExpires, Tick
<1> QED BY <1>1, <1>2 DEF RunNext, ExecutorStep

\* Nor does a handler, unless it passes the check or creates the row.
LEMMA RequestNextQueue ==
  ASSUME IInv, NEW q \in Request, RequestNext(q), ~StartLimit(q),
         \A r \in Run : ~StartCreate(q, r)
  PROVE  NoRowQueued /\ NonePasses
<1> USE DEF rows, NoRowQueued, NonePasses, Handler
<1>0. TypeOK /\ HandlerInv
  BY DEF IInv
<1>1. CASE \E c \in Chat : StartRead(q, c)
  <2>1. /\ req'[q].pc \in {"limit", "startPut", "look"}
        /\ \A p \in Request \ {q} : req'[p] = req[p]
    BY <1>0, <1>1 DEF StartRead, TypeOK
  <2>2. UNCHANGED rows
    BY <1>1 DEF StartRead
  <2> QED BY <1>0, <2>1, <2>2 DEF TypeOK
<1>2. CASE \/ \E c \in Chat, r \in Run : PageLoad(q, c, r)
           \/ \E r \in Run : ReconcileRead(q, r)
           \/ \E r \in Run, final \in {"aborted", "failed"} : StopOrMarkFailed(q, r, final)
  BY <1>0, <1>2 DEF PageLoad, ReconcileRead, StopOrMarkFailed, TypeOK
<1>3. CASE StartLook(q) \/ StartSave(q) \/ StartRegister(q) \/ RequestFault(q)
  BY <1>0, <1>3 DEF StartLook, StartSave, StartRegister, RequestFault, Reply,
     Idle, TypeOK
<1>4. CASE ReconcileDecide(q)
  <2>1. /\ req'[q].pc \in {"put", "idle"}
        /\ \A p \in Request \ {q} : req'[p] = req[p]
    BY <1>0, <1>4 DEF ReconcileDecide, Reply, Idle, TypeOK
  <2>2. UNCHANGED rows
    BY <1>4 DEF ReconcileDecide
  <2> QED BY <1>0, <2>1, <2>2 DEF TypeOK
<1>5. CASE StartFailLost(q) \/ PutStatus(q)
  <2>1. NoRowQueued
    <3>1. CASE StartFailLost(q)
      BY <1>0, <3>1 DEF StartFailLost, UpdateStatus, TypeOK
    <3>2. CASE PutStatus(q)
      <4>1. req[q].put # "queued"
        BY <1>0, <3>2 DEF PutStatus, HandlerInv
      <4>2. UpdateStatus(req[q].run, req[q].put)
        BY <3>2 DEF PutStatus
      <4> QED BY <1>0, <4>1, <4>2 DEF UpdateStatus, TypeOK
    <3> QED BY <1>5, <3>1, <3>2
  <2>2. /\ req'[q].pc \in {"limit", "idle"}
        /\ \A p \in Request \ {q} : req'[p] = req[p]
    BY <1>0, <1>5 DEF StartFailLost, PutStatus, Reply, Idle, TypeOK
  <2> QED BY <2>1, <2>2
<1> QED
  BY <1>1, <1>2, <1>3, <1>4, <1>5 DEF RequestNext, RequestStep

\* Every step of the system keeps the strengthened bound.
LEMMA NextQueue == IInv /\ QueueInv /\ [Next]_vars => QueueInv'
<1> SUFFICES ASSUME IInv, QueueInv, [Next]_vars PROVE QueueInv'
  OBVIOUS
<1>1. ASSUME NEW r \in Run, RunNext(r) PROVE QueueInv'
  BY <1>1, RunNextQueue, QueueShrinks
<1>2. ASSUME NEW q \in Request, RequestNext(q) PROVE QueueInv'
  <2>1. CASE StartLimit(q)
    BY <2>1, QueueLimit
  <2>2. CASE \E r \in Run : StartCreate(q, r)
    BY <2>2, QueueCreate
  <2>3. CASE ~StartLimit(q) /\ \A r \in Run : ~StartCreate(q, r)
    BY <1>2, <2>3, RequestNextQueue, QueueShrinks
  <2> QED BY <2>1, <2>2, <2>3
<1>3. ASSUME NEW s \in Stream, Disconnect(s) \/ \E r \in Run : Attach(s, r)
      PROVE  QueueInv'
  <2>1. NoRowQueued /\ NonePasses
    BY <1>3 DEF Disconnect, Attach, rows, NoRowQueued, NonePasses
  <2> QED BY <2>1, QueueShrinks
<1>4. CASE Crash
  <2>1. NoRowQueued /\ NonePasses
    BY <1>4 DEF Crash, rows, NoRowQueued, NonePasses, Idle, Handler
  <2> QED BY <2>1, QueueShrinks
<1>5. CASE UNCHANGED vars
  <2>1. NoRowQueued /\ NonePasses
    BY <1>5 DEF vars, rows, NoRowQueued, NonePasses
  <2> QED BY <2>1, QueueShrinks
<1> QED BY <1>1, <1>2, <1>3, <1>4, <1>5 DEF Next

\* Overlapping starts overshoot the Studio's limit by at most the other
\* handlers in progress, whatever else happens; with one handler at a time the
\* limit holds (assertStudioRunAllowed, createChatRun).
THEOREM QueueBounded == Spec => []QueueOvershootIsBounded
<1>1. Init => QueueInv
  <2> SUFFICES ASSUME Init PROVE QueueInv
    OBVIOUS
  <2>1. QueuedInStudio = {} /\ PastCheck = {}
    BY DEF Init, QueuedInStudio, PastCheck, Idle, Handler
  <2> QED
    BY <2>1, QueueFinite, FS_EmptySet, LimitAssumption DEF QueueInv
<1>2. QueueInv => QueueOvershootIsBounded
  BY QueueFinite, LimitAssumption DEF QueueInv, QueueOvershootIsBounded
<1> QED BY <1>1, <1>2, InductiveInvariant, NextQueue, PTL DEF Spec

=============================================================================
