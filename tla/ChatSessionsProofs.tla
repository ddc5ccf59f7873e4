-------------------------- MODULE ChatSessionsProofs --------------------------
(***************************************************************************)
(* ChatRuns implements RunSessions, and a queued row is served, for any    *)
(* number of runs, requests, streams, crashes and faults.  The argument: a *)
(* row is unborn until its one handler registers it; the first end of a    *)
(* session finds its streams open and closes them all, since none of them  *)
(* can throw; a later end finds none; and nothing but its request or its   *)
(* executor moves a row that is on its way.                                *)
(***************************************************************************)
EXTENDS ChatQueueProofs

USE DEF Active, Terminal, Status

\* What most steps leave alone as far as the mapping can see: the registry,
\* the streams, which rows exist, and which of them are on their way.
SameRows == \A r \in Run : status'[r] = "none" <=> status[r] = "none"
SameWay == \A r \in Run : OnItsWay(r)' <=> OnItsWay(r)

\* A step that moves no handler leaves the rows on their way as they are.
LEMMA WaySame ==
  ASSUME req' = req
  PROVE  SameWay
<1>1. \A r \in Run : OnItsWay(r)' = OnItsWay(r)
  BY DEF OnItsWay
<1> QED BY <1>1 DEF SameWay

\* So does a step that moves one handler, neither to nor from "created".
Elsewhere(q) ==
  /\ req[q].pc # "created" /\ req'[q].pc # "created"
  /\ \A p \in Request \ {q} : req'[p] = req[p]
LEMMA WayKept ==
  ASSUME NEW q \in Request, Elsewhere(q)
  PROVE  SameWay
BY DEF Elsewhere, SameWay, OnItsWay

\* So does every handler step other than the creation of a row, its
\* registration, or the failure of a handler.
LEMMA HandlerWay ==
  ASSUME IInv, NEW q \in Request, RequestNext(q), ~StartRegister(q),
         ~RequestFault(q), \A r \in Run : ~StartCreate(q, r)
  PROVE  SameWay
<1> USE DEF Handler, Idle, Reply
<1>0. TypeOK
  BY DEF IInv
<1>1. CASE \E c \in Chat : StartRead(q, c)
  <2> PICK c \in Chat : StartRead(q, c)
    BY <1>1
  <2>1. PICK r \in Run \cup {NoRun}, pc \in {"limit", "startPut", "look"} :
          req' = [req EXCEPT ![q] = Handler(pc, r, c, "none")]
    BY DEF StartRead
  <2>2. Elsewhere(q)
    BY <1>0, <2>1 DEF StartRead, Elsewhere, TypeOK
  <2> QED BY <2>2, WayKept
<1>2. CASE \E c \in Chat, r \in Run : PageLoad(q, c, r)
  <2>1. Elsewhere(q)
    BY <1>0, <1>2 DEF PageLoad, Elsewhere, TypeOK
  <2> QED BY <2>1, WayKept
<1>3. CASE \E r \in Run, final \in {"aborted", "failed"} : StopOrMarkFailed(q, r, final)
  <2>1. Elsewhere(q) \/ req' = req
    BY <1>0, <1>3 DEF StopOrMarkFailed, Elsewhere, TypeOK
  <2> QED BY <2>1, WayKept, WaySame
<1>4. CASE \E r \in Run : ReconcileRead(q, r)
  <2>1. Elsewhere(q)
    BY <1>0, <1>4 DEF ReconcileRead, Elsewhere, TypeOK
  <2> QED BY <2>1, WayKept
<1>5. CASE StartLook(q) \/ StartLimit(q) \/ StartSave(q)
  <2>1. Elsewhere(q)
    BY <1>0, <1>5 DEF StartLook, StartLimit, StartSave, Elsewhere, TypeOK
  <2> QED BY <2>1, WayKept
<1>6. CASE StartFailLost(q) \/ PutStatus(q)
  <2>1. Elsewhere(q)
    BY <1>0, <1>6 DEF StartFailLost, PutStatus, Elsewhere, TypeOK
  <2> QED BY <2>1, WayKept
<1>7. CASE ReconcileDecide(q)
  <2>1. Elsewhere(q)
    BY <1>0, <1>7 DEF ReconcileDecide, Elsewhere, TypeOK
  <2> QED BY <2>1, WayKept
<1> QED
  BY <1>1, <1>2, <1>3, <1>4, <1>5, <1>6, <1>7 DEF RequestNext, RequestStep

\* The executor, its tools and the timers move no handler.
LEMMA RunWay ==
  ASSUME NEW r \in Run, RunNext(r)
  PROVE  req' = req
BY DEF RunNext, ExecutorStep, MarkRunning, PublishStart, LoopThrows, StreamError,
   StreamEnds, SaveReply, MarkCompleted, MarkFailed, Finish, ExecutorFault,
   ToolCall, ToolReturns, RecordRuntimeEvent, SessionExpires, Tick

-----------------------------------------------------------------------------
(* SessionInv *)

\* The three parts of SessionInv.
ChunksOfEnded == \A r \in Run : finalChunk[r] # "none" => r \in sessions \ attachable
HandlersHoldRows ==
  \A q \in Request : req[q].pc \in {"look", "startPut", "put", "seen"} =>
    req[q].run \in Run /\ status[req[q].run] # "none"
ToolsOfBegun == \A r \in tool : exec[r] # "none"

\* Ending a session gives it an outcome and makes it an ended one.
LEMMA EndSessionChunks ==
  ASSUME IInv, ChunksOfEnded, NEW r \in Run, NEW final \in Terminal,
         EndSession(r, final)
  PROVE  ChunksOfEnded'
BY DEF EndSession, registry, ChunksOfEnded, IInv, TypeOK

\* A session keeps its outcome until it is gone, and a live one has none.
LEMMA NextChunks ==
  ASSUME IInv, ChunksOfEnded, Next
  PROVE  ChunksOfEnded'
<1>0. TypeOK /\ RegistryInv /\ HandlerInv
  BY DEF IInv
<1>1. ASSUME NEW r \in Run, RunNext(r) PROVE ChunksOfEnded'
  <2>1. CASE Finish(r)
    <3>1. EndSession(r, "completed") \/ EndSession(r, "failed")
      BY <2>1 DEF Finish
    <3> QED BY <3>1, EndSessionChunks
  <2>2. CASE SessionExpires(r)
    BY <1>0, <2>2 DEF SessionExpires, ChunksOfEnded, TypeOK
  <2>3. CASE ~Finish(r) /\ ~SessionExpires(r)
    <3>1. UNCHANGED registry
      BY <1>1, <2>3 DEF RunNext, ExecutorStep, MarkRunning, PublishStart,
         LoopThrows, StreamError, StreamEnds, SaveReply, MarkCompleted,
         MarkFailed, ExecutorFault, ToolCall, ToolReturns, RecordRuntimeEvent, Tick
    <3> QED BY <3>1 DEF registry, ChunksOfEnded
  <2> QED BY <2>1, <2>2, <2>3
<1>2. ASSUME NEW q \in Request, RequestNext(q) PROVE ChunksOfEnded'
  <2>1. CASE \E r \in Run, final \in {"aborted", "failed"} : StopOrMarkFailed(q, r, final)
    BY <2>1, EndSessionChunks DEF StopOrMarkFailed
  <2>2. CASE StartRegister(q)
    <3>1. Fresh(req[q].run) /\ req[q].run \in Run
      BY <1>0, <2>2 DEF StartRegister, HandlerInv
    <3> QED BY <2>2, <3>1 DEF StartRegister, Fresh, ChunksOfEnded
  <2>3. CASE \/ \E c \in Chat : StartRead(q, c)
             \/ \E c \in Chat, r \in Run : PageLoad(q, c, r)
             \/ \E r \in Run : ReconcileRead(q, r)
             \/ StartLook(q) \/ StartFailLost(q) \/ StartLimit(q) \/ StartSave(q)
             \/ \E r \in Run : StartCreate(q, r)
             \/ ReconcileDecide(q) \/ PutStatus(q) \/ RequestFault(q)
    <3>1. UNCHANGED registry
      BY <2>3 DEF StartRead, PageLoad, ReconcileRead, StartLook, StartFailLost,
         StartLimit, StartSave, StartCreate, ReconcileDecide, PutStatus, RequestFault
    <3> QED BY <3>1 DEF registry, ChunksOfEnded
  <2> QED BY <1>2, <2>1, <2>2, <2>3 DEF RequestNext, RequestStep
<1>3. ASSUME NEW s \in Stream, Disconnect(s) \/ \E r \in Run : Attach(s, r)
      PROVE  ChunksOfEnded'
  BY <1>3 DEF Disconnect, Attach, registry, ChunksOfEnded
<1>4. CASE Crash
  BY <1>4 DEF Crash, ChunksOfEnded
<1> QED BY <1>1, <1>2, <1>3, <1>4 DEF Next


\* A tool is in flight only after its executor has begun, and no step but a
\* restart takes an executor back.
LEMMA NextTools ==
  ASSUME IInv, ToolsOfBegun, Next
  PROVE  ToolsOfBegun'
<1> USE DEF Goto, rows, registry, streams, bounds
<1>0. TypeOK
  BY DEF IInv
<1>1. ASSUME NEW r \in Run, RunNext(r) PROVE ToolsOfBegun'
  <2>1. CASE ToolCall(r)
    BY <2>1 DEF ToolCall, ToolsOfBegun
  <2>2. CASE ToolReturns(r)
    BY <2>2 DEF ToolReturns, ToolsOfBegun
  <2>3. CASE \/ MarkRunning(r) \/ PublishStart(r) \/ LoopThrows(r) \/ StreamError(r)
             \/ StreamEnds(r) \/ SaveReply(r) \/ MarkCompleted(r) \/ MarkFailed(r)
             \/ ExecutorFault(r)
    <3>1. /\ exec'[r] # "none"
          /\ \A s \in Run \ {r} : exec'[s] = exec[s]
      BY <1>0, <2>3 DEF MarkRunning, PublishStart, LoopThrows, StreamError,
         StreamEnds, SaveReply, MarkCompleted, MarkFailed, ExecutorFault, TypeOK
    <3>2. tool' = tool
      BY <2>3 DEF MarkRunning, PublishStart, LoopThrows, StreamError,
         StreamEnds, SaveReply, MarkCompleted, MarkFailed, ExecutorFault
    <3> QED BY <1>0, <3>1, <3>2 DEF ToolsOfBegun, TypeOK
  <2>4. CASE Finish(r)
    BY <1>0, <2>4 DEF Finish, ToolsOfBegun, TypeOK
  <2>5. CASE \/ SessionExpires(r) \/ Tick(r)
             \/ \E st \in {"running", "completed"} : RecordRuntimeEvent(r, st)
    BY <2>5 DEF SessionExpires, Tick, RecordRuntimeEvent, ToolsOfBegun
  <2> QED BY <1>1, <2>1, <2>2, <2>3, <2>4, <2>5 DEF RunNext, ExecutorStep
<1>2. ASSUME NEW q \in Request, RequestNext(q) PROVE ToolsOfBegun'
  <2>1. CASE StartRegister(q)
    BY <1>0, <2>1 DEF StartRegister, ToolsOfBegun, TypeOK
  <2>2. CASE ~StartRegister(q)
    <3>1. UNCHANGED <<exec, tool>>
      BY <1>2, <2>2 DEF RequestNext, RequestStep, StartRead, PageLoad,
         StopOrMarkFailed, ReconcileRead, StartLook, StartFailLost, StartLimit,
         StartSave, StartCreate, ReconcileDecide, PutStatus, RequestFault
    <3> QED BY <3>1 DEF ToolsOfBegun
  <2> QED BY <2>1, <2>2
<1>3. ASSUME NEW s \in Stream, Disconnect(s) \/ \E r \in Run : Attach(s, r)
      PROVE  ToolsOfBegun'
  BY <1>3 DEF Disconnect, Attach, ToolsOfBegun
<1>4. CASE Crash
  BY <1>4 DEF Crash, ToolsOfBegun
<1> QED BY <1>1, <1>2, <1>3, <1>4 DEF Next

\* Only createChatRun makes a row: every other write finds its row there.
LEMMA UpdateRows ==
  ASSUME TypeOK, NEW r \in Run, status[r] # "none", NEW st \in Status \ {"none"},
         UpdateStatus(r, st)
  PROVE  SameRows
BY DEF UpdateStatus, SameRows, TypeOK

LEMMA RunRows ==
  ASSUME IInv, ToolsOfBegun, NEW r \in Run, RunNext(r)
  PROVE  SameRows
<1>0. TypeOK /\ (exec[r] # "none" => status[r] # "none")
  BY DEF IInv, HandlerInv, Fresh
<1>1. CASE MarkRunning(r) \/ MarkCompleted(r) \/ MarkFailed(r)
  <2>1. exec[r] # "none"
    BY <1>1 DEF MarkRunning, MarkCompleted, MarkFailed
  <2>2. PICK st \in Status \ {"none"} : UpdateStatus(r, st)
    BY <1>1 DEF MarkRunning, MarkCompleted, MarkFailed, Status
  <2> QED BY <1>0, <2>1, <2>2, UpdateRows
<1>2. CASE \E st \in {"running", "completed"} : RecordRuntimeEvent(r, st)
  <2>1. exec[r] # "none"
    BY <1>2 DEF RecordRuntimeEvent, ToolsOfBegun
  <2>2. PICK st \in Status \ {"none"} : UpdateStatus(r, st)
    BY <1>2 DEF RecordRuntimeEvent, Status
  <2> QED BY <1>0, <2>1, <2>2, UpdateRows
<1>3. CASE \/ PublishStart(r) \/ LoopThrows(r) \/ StreamError(r) \/ StreamEnds(r)
           \/ SaveReply(r) \/ Finish(r) \/ ExecutorFault(r) \/ ToolCall(r)
           \/ ToolReturns(r) \/ SessionExpires(r) \/ Tick(r)
  <2>1. status' = status
    BY <1>3 DEF PublishStart, LoopThrows, StreamError, StreamEnds, SaveReply,
       Finish, ExecutorFault, ToolCall, ToolReturns, SessionExpires, Tick, rows
  <2> QED BY <2>1 DEF SameRows
<1> QED BY <1>1, <1>2, <1>3 DEF RunNext, ExecutorStep

LEMMA HandlerRows ==
  ASSUME IInv, HandlersHoldRows, NEW q \in Request, RequestNext(q),
         \A r \in Run : ~StartCreate(q, r)
  PROVE  SameRows
<1>0. TypeOK /\ HandlerInv
  BY DEF IInv
<1>1. CASE StartFailLost(q) \/ PutStatus(q)
  <2>1. req[q].run \in Run /\ status[req[q].run] # "none"
    BY <1>1 DEF StartFailLost, PutStatus, HandlersHoldRows
  <2>2. PICK st \in Status \ {"none"} : UpdateStatus(req[q].run, st)
    BY <1>0, <1>1 DEF StartFailLost, PutStatus, HandlerInv, Status
  <2> QED BY <1>0, <2>1, <2>2, UpdateRows
<1>2. CASE ~StartFailLost(q) /\ ~PutStatus(q)
  <2>1. status' = status
    BY <1>2 DEF RequestNext, RequestStep, StartRead, PageLoad, StopOrMarkFailed,
       ReconcileRead, StartLook, StartLimit, StartSave, StartRegister,
       ReconcileDecide, RequestFault, rows
  <2> QED BY <2>1 DEF SameRows
<1> QED BY <1>1, <1>2

\* A handler that holds a row keeps holding one.
LEMMA HoldKept ==
  ASSUME SameRows, HandlersHoldRows, req' = req
  PROVE  HandlersHoldRows'
BY DEF SameRows, HandlersHoldRows

LEMMA HoldMoves ==
  ASSUME SameRows, HandlersHoldRows, NEW q \in Request,
         \A p \in Request \ {q} : req'[p] = req[p],
         \/ req'[q].pc \notin {"look", "startPut", "put", "seen"}
         \/ req'[q].run \in Run /\ status[req'[q].run] # "none"
  PROVE  HandlersHoldRows'
BY DEF SameRows, HandlersHoldRows

LEMMA NextHold ==
  ASSUME IInv, SessionInv, Next
  PROVE  HandlersHoldRows'
<1> USE DEF Handler, Idle, Reply
<1>0. TypeOK /\ HandlersHoldRows /\ ToolsOfBegun
  BY DEF IInv, SessionInv, HandlersHoldRows, ToolsOfBegun
<1>1. ASSUME NEW r \in Run, RunNext(r) PROVE HandlersHoldRows'
  BY <1>0, <1>1, RunRows, RunWay, HoldKept
<1>2. ASSUME NEW q \in Request, NEW r \in Run, StartCreate(q, r)
      PROVE  HandlersHoldRows'
  <2>1. /\ \A p \in Request \ {q} : req'[p] = req[p]
        /\ req'[q].pc = "created"
        /\ \A s \in Run : status[s] # "none" => status'[s] # "none"
    BY <1>0, <1>2 DEF StartCreate, CreateRow, TypeOK
  <2> QED BY <1>0, <2>1 DEF HandlersHoldRows
<1>3. ASSUME NEW q \in Request, RequestNext(q), \A r \in Run : ~StartCreate(q, r)
      PROVE  HandlersHoldRows'
  <2> DEFINE Holds == \/ req'[q].pc \notin {"look", "startPut", "put", "seen"}
                      \/ req'[q].run \in Run /\ status[req'[q].run] # "none"
             Others == \A p \in Request \ {q} : req'[p] = req[p]
  <2>1. CASE \E c \in Chat : StartRead(q, c)
    <3>1. Holds /\ Others
      BY <1>0, <2>1 DEF StartRead, IsLatest, ActiveIn, TypeOK
    <3> QED BY <1>0, <1>3, <3>1, HandlerRows, HoldMoves
  <2>2. CASE \E c \in Chat, r \in Run : PageLoad(q, c, r)
    <3>1. Holds /\ Others
      BY <1>0, <2>2 DEF PageLoad, IsLatest, ActiveIn, TypeOK
    <3> QED BY <1>0, <1>3, <3>1, HandlerRows, HoldMoves
  <2>3. CASE \E r \in Run, final \in {"aborted", "failed"} : StopOrMarkFailed(q, r, final)
    <3>1. (Holds /\ Others) \/ req' = req
      BY <1>0, <2>3 DEF StopOrMarkFailed, TypeOK
    <3> QED BY <1>0, <1>3, <3>1, HandlerRows, HoldMoves, HoldKept
  <2>4. CASE \E r \in Run : ReconcileRead(q, r)
    <3>1. Holds /\ Others
      BY <1>0, <2>4 DEF ReconcileRead, TypeOK
    <3> QED BY <1>0, <1>3, <3>1, HandlerRows, HoldMoves
  <2>5. CASE StartLook(q) \/ StartLimit(q) \/ StartSave(q)
    <3>1. Holds /\ Others
      BY <1>0, <2>5 DEF StartLook, StartLimit, StartSave, HandlersHoldRows, TypeOK
    <3> QED BY <1>0, <1>3, <3>1, HandlerRows, HoldMoves
  <2>6. CASE StartFailLost(q) \/ PutStatus(q) \/ RequestFault(q) \/ StartRegister(q)
    <3>1. Holds /\ Others
      BY <1>0, <2>6 DEF StartFailLost, PutStatus, RequestFault, StartRegister, TypeOK
    <3> QED BY <1>0, <1>3, <3>1, HandlerRows, HoldMoves
  <2>7. CASE ReconcileDecide(q)
    <3>1. Holds /\ Others
      BY <1>0, <2>7 DEF ReconcileDecide, HandlersHoldRows, TypeOK
    <3> QED BY <1>0, <1>3, <3>1, HandlerRows, HoldMoves
  <2> QED
    BY <1>3, <2>1, <2>2, <2>3, <2>4, <2>5, <2>6, <2>7 DEF RequestNext, RequestStep
<1>4. ASSUME NEW s \in Stream, Disconnect(s) \/ \E r \in Run : Attach(s, r)
      PROVE  HandlersHoldRows'
  BY <1>0, <1>4 DEF Disconnect, Attach, rows, HandlersHoldRows
<1>5. CASE Crash
  BY <1>5 DEF Crash, HandlersHoldRows
<1> QED BY <1>1, <1>2, <1>3, <1>4, <1>5 DEF Next

\* What the mapping needs holds in every reachable state.
THEOREM SessionInvariant == Spec => []SessionInv
<1>1. Init => SessionInv
  BY DEF Init, SessionInv, Idle, Handler
<1>2. IInv /\ SessionInv /\ [Next]_vars => SessionInv'
  <2>1. CASE Next
    BY <2>1, NextChunks, NextHold, NextTools
       DEF SessionInv, ChunksOfEnded, HandlersHoldRows, ToolsOfBegun
  <2>2. CASE UNCHANGED vars
    BY <2>2 DEF vars, rows, registry, streams, SessionInv
  <2> QED BY <2>1, <2>2
<1> QED BY InductiveInvariant, <1>1, <1>2, PTL DEF Spec

-----------------------------------------------------------------------------
(* QueuedRunIsServed *)

Served(r) == exec[r] = "scheduled" \/ OnItsWay(r)

\* The executor of a queued row starts it by marking it running; no tool and
\* no timer moves it (executeChatRun).
LEMMA RunServes ==
  ASSUME IInv, NEW r \in Run, RunNext(r), ~ExecutorFault(r),
         NEW s \in Run, status[s] = "queued" => Served(s), status'[s] = "queued"
  PROVE  Served(s)'
<1> USE DEF Goto
<1>0. TypeOK /\ status[s] = "queued" /\ Served(s)
  BY RunNextQueue DEF IInv, NoRowQueued
<1>1. OnItsWay(s) => OnItsWay(s)'
  BY RunWay, WaySame DEF SameWay
<1>2. exec[s] = "scheduled" => exec'[s] = "scheduled"
  <2>1. CASE MarkRunning(r)
    <3>1. s # r
      BY <1>0, <2>1 DEF MarkRunning, UpdateStatus, TypeOK
    <3> QED BY <1>0, <2>1, <3>1 DEF MarkRunning, TypeOK
  <2>2. CASE PublishStart(r) \/ LoopThrows(r) \/ StreamError(r) \/ StreamEnds(r)
    BY <1>0, <2>2 DEF PublishStart, LoopThrows, StreamError, StreamEnds, TypeOK
  <2>3. CASE SaveReply(r) \/ MarkCompleted(r) \/ MarkFailed(r) \/ Finish(r)
    BY <1>0, <2>3 DEF SaveReply, MarkCompleted, MarkFailed, Finish, TypeOK
  <2>4. CASE \/ ToolCall(r) \/ ToolReturns(r) \/ SessionExpires(r) \/ Tick(r)
             \/ \E st \in {"running", "completed"} : RecordRuntimeEvent(r, st)
    BY <2>4 DEF ToolCall, ToolReturns, SessionExpires, Tick, RecordRuntimeEvent
  <2> QED BY <2>1, <2>2, <2>3, <2>4 DEF RunNext, ExecutorStep
<1> QED BY <1>0, <1>1, <1>2 DEF Served

\* The request that makes a row hands it on to the executor; no other request
\* takes a queued row from either (startChatRunForChat).
LEMMA RequestServes ==
  ASSUME IInv, NEW q \in Request, RequestNext(q), ~RequestFault(q),
         NEW s \in Run, status[s] = "queued" => Served(s), status'[s] = "queued"
  PROVE  Served(s)'
<1>0. TypeOK /\ HandlerInv
  BY DEF IInv
<1>1. CASE \E r \in Run : StartCreate(q, r)
  <2> PICK r \in Run : StartCreate(q, r)
    BY <1>1
  <2>1. CASE s = r
    BY <1>0, <2>1 DEF StartCreate, Handler, Served, OnItsWay, TypeOK
  <2>2. CASE s # r
    <3>1. status[s] = "queued"
      BY <1>0, <2>2 DEF StartCreate, CreateRow, TypeOK
    <3>2. /\ exec' = exec /\ req[q].pc # "created"
          /\ \A p \in Request \ {q} : req'[p] = req[p]
      BY <1>0 DEF StartCreate, TypeOK
    <3> QED BY <3>1, <3>2 DEF Served, OnItsWay
  <2> QED BY <2>1, <2>2
<1>2. CASE StartRegister(q)
  <2>1. status[s] = "queued"
    BY <1>2 DEF StartRegister, rows
  <2>2. CASE s = req[q].run
    BY <1>0, <1>2, <2>2 DEF StartRegister, Served, TypeOK
  <2>3. CASE s # req[q].run
    <3>1. /\ exec'[s] = exec[s]
          /\ \A p \in Request \ {q} : req'[p] = req[p]
      BY <1>0, <1>2, <2>3 DEF StartRegister, Reply, TypeOK
    <3> QED BY <2>1, <2>3, <3>1 DEF Served, OnItsWay
  <2> QED BY <2>2, <2>3
<1>3. CASE ~StartRegister(q) /\ \A r \in Run : ~StartCreate(q, r)
  <2>1. status[s] = "queued"
    <3>1. CASE StartLimit(q)
      BY <3>1 DEF StartLimit, rows
    <3>2. CASE ~StartLimit(q)
      BY <1>3, <3>2, RequestNextQueue DEF NoRowQueued
    <3> QED BY <3>1, <3>2
  <2>2. OnItsWay(s) => OnItsWay(s)'
    BY <1>3, HandlerWay DEF SameWay
  <2>3. exec' = exec
    BY <1>3 DEF RequestNext, RequestStep, StartRead, PageLoad,
       StopOrMarkFailed, ReconcileRead, StartLook, StartFailLost, StartLimit,
       StartSave, ReconcileDecide, PutStatus
  <2> QED BY <2>1, <2>2, <2>3 DEF Served
<1> QED BY <1>1, <1>2, <1>3

\* As long as nothing was lost to a restart or a failing call, each step keeps
\* every queued row on its way.
LEMMA NextServed == IInv /\ QueuedRunIsServed /\ [Next]_vars => QueuedRunIsServed'
<1> SUFFICES ASSUME IInv, QueuedRunIsServed, [Next]_vars, crashes' + faults' = 0,
                    NEW s \in Run, status'[s] = "queued"
             PROVE  Served(s)'
  BY DEF QueuedRunIsServed, Served
<1>0. /\ TypeOK /\ crashes \in Nat /\ faults \in Nat
      /\ crashes + faults = 0 => (status[s] = "queued" => Served(s))
  BY LimitAssumption DEF IInv, TypeOK, QueuedRunIsServed, Served
<1>1. ASSUME NEW r \in Run, RunNext(r) PROVE Served(s)'
  <2>1. ~ExecutorFault(r)
    BY <1>0 DEF ExecutorFault
  <2>2. UNCHANGED <<crashes, faults>>
    BY <1>1, <2>1 DEF RunNext, ExecutorStep, MarkRunning, PublishStart,
       LoopThrows, StreamError, StreamEnds, SaveReply, MarkCompleted, MarkFailed,
       Finish, ToolCall, ToolReturns, RecordRuntimeEvent, SessionExpires, Tick, bounds
  <2> QED BY <1>0, <1>1, <2>1, <2>2, RunServes
<1>2. ASSUME NEW q \in Request, RequestNext(q) PROVE Served(s)'
  <2>1. ~RequestFault(q)
    BY <1>0 DEF RequestFault
  <2>2. UNCHANGED <<crashes, faults>>
    BY <1>2, <2>1 DEF RequestNext, RequestStep, StartRead, PageLoad,
       StopOrMarkFailed, ReconcileRead, StartLook, StartFailLost, StartLimit,
       StartSave, StartCreate, StartRegister, ReconcileDecide, PutStatus, bounds
  <2> QED BY <1>0, <1>2, <2>1, <2>2, RequestServes
<1>3. ASSUME NEW t \in Stream, Disconnect(t) \/ \E r \in Run : Attach(t, r)
      PROVE  Served(s)'
  BY <1>0, <1>3 DEF Disconnect, Attach, rows, bounds, Served, OnItsWay
<1>4. CASE Crash
  BY <1>0, <1>4 DEF Crash
<1>5. CASE UNCHANGED vars
  BY <1>0, <1>5 DEF vars, rows, bounds, Served, OnItsWay
<1> QED BY <1>1, <1>2, <1>3, <1>4, <1>5 DEF Next

\* A queued row, which counts against its Studio's limit, waits only for the
\* request that made it or for its executor's first step.
THEOREM QueuedServed == Spec => []QueuedRunIsServed
<1>1. Init => QueuedRunIsServed
  BY DEF Init, QueuedRunIsServed
<1> QED BY InductiveInvariant, <1>1, NextServed, PTL DEF Spec

-----------------------------------------------------------------------------
(* The refinement *)

\* A step that leaves all the mapping looks at alone is a stutter of RunSessions.
LEMMA StutterMaps ==
  ASSUME SameRows, SameWay, UNCHANGED <<sessions, attachable, finalChunk, streams>>
  PROVE  UNCHANGED Sessions!vars
<1>1. \A r \in Run : PhaseOf(r)' = PhaseOf(r)
  BY DEF SameRows, SameWay, PhaseOf
<1>2. \A s \in Stream : TunedTo(s)' = TunedTo(s)
  BY DEF streams, TunedTo
<1> QED BY <1>1, <1>2 DEF Sessions!vars

\* A run whose session is held is neither unborn nor on its way.
LEMMA HeldPhase ==
  ASSUME IInv, NEW r \in sessions
  PROVE  /\ r \in Run /\ status[r] # "none" /\ ~OnItsWay(r)
         /\ PhaseOf(r) = IF r \in attachable THEN "live" ELSE "ended"
BY DEF IInv, TypeOK, HandlerInv, Fresh, OnItsWay, PhaseOf

\* The first end of a session is the end RunSessions speaks of: none of its
\* streams is closed yet, so none throws and all are closed together.  A later
\* end, whatever throws, only changes the outcome.
LEMMA EndSessionMaps ==
  ASSUME IInv, SameRows, SameWay, NEW r \in Run, NEW final \in Terminal,
         EndSession(r, final), watch' = watch
  PROVE  [Sessions!Next]_(Sessions!vars)
<1> USE DEF EndSession, registry
<1>0. TypeOK /\ StreamsFollowSession /\ attachable \subseteq sessions
  BY DEF IInv, RegistryInv
<1>1. CASE r \notin sessions
  <2>1. UNCHANGED <<sessions, attachable, finalChunk, streams>>
    BY <1>1 DEF streams
  <2> QED BY <2>1, StutterMaps
<1>2. CASE r \in attachable
  <2>1. ~PublishThrows(r)
    BY <1>0, <1>2 DEF PublishThrows, StreamsFollowSession
  <2>2. /\ sessions' = sessions /\ attachable' = attachable \ {r}
        /\ stream' = [s \in Stream |->
             IF watch[s] = r /\ stream[s] = "open" THEN "closed" ELSE stream[s]]
        /\ finalChunk' = [finalChunk EXCEPT ![r] = final]
    BY <1>0, <1>2, <2>1
  <2>3. PhaseOf(r) = "live" /\ PhaseOf(r)' = "ended"
    BY <1>0, <1>2, <2>2, HeldPhase DEF PhaseOf, SameRows, SameWay
  <2>4. \A s \in Run \ {r} : PhaseOf(s)' = PhaseOf(s)
    BY <2>2 DEF PhaseOf, SameRows, SameWay
  <2>5. \A s \in Stream : TunedTo(s)' = IF TunedTo(s) = r THEN NoRun ELSE TunedTo(s)
    BY <2>2, RunAssumption DEF TunedTo
  <2>6. Sessions!End(r, final)
    BY <2>2, <2>3, <2>4, <2>5 DEF Sessions!End
  <2> QED BY <2>6 DEF Sessions!Next
<1>3. CASE r \in sessions \ attachable
  <2>1. /\ sessions' = sessions /\ attachable' = attachable
        /\ finalChunk' = [finalChunk EXCEPT ![r] = final]
    BY <1>3
  <2>2. \A s \in Stream : TunedTo(s)' = TunedTo(s)
    BY <1>0, <1>3 DEF StreamsFollowSession, TunedTo, TypeOK
  <2>3. \A s \in Run : PhaseOf(s)' = PhaseOf(s)
    BY <2>1 DEF PhaseOf, SameRows, SameWay
  <2>4. PhaseOf(r) = "ended"
    BY <1>3, HeldPhase
  <2>5. Sessions!EndAgain(r, final)
    BY <2>1, <2>2, <2>3, <2>4 DEF Sessions!EndAgain
  <2> QED BY <2>5 DEF Sessions!Next
<1> QED BY <1>0, <1>1, <1>2, <1>3

\* The steps of executor, tools and timers.
LEMMA RunNextMaps ==
  ASSUME IInv, SessionInv, NEW r \in Run, RunNext(r)
  PROVE  [Sessions!Next]_(Sessions!vars)
<1>0. TypeOK /\ RegistryInv /\ SameRows /\ SameWay
  BY RunRows, RunWay, WaySame DEF IInv, SessionInv, ToolsOfBegun
<1>1. CASE Finish(r)
  <2>1. (EndSession(r, "completed") \/ EndSession(r, "failed")) /\ watch' = watch
    BY <1>1 DEF Finish
  <2> QED BY <1>0, <2>1, EndSessionMaps
<1>2. CASE SessionExpires(r)
  <2>1. /\ sessions' = sessions \ {r} /\ attachable' = attachable
        /\ finalChunk' = [finalChunk EXCEPT ![r] = "none"]
        /\ UNCHANGED streams /\ r \in sessions \ attachable
    BY <1>0, <1>2 DEF SessionExpires, RegistryInv
  <2>2. PhaseOf(r) = "ended" /\ PhaseOf(r)' = "over"
    BY <1>0, <2>1, HeldPhase DEF PhaseOf, SameRows, SameWay
  <2>3. \A s \in Run \ {r} : PhaseOf(s)' = PhaseOf(s)
    BY <1>0, <2>1 DEF PhaseOf, SameRows, SameWay
  <2>4. \A s \in Stream : TunedTo(s)' = TunedTo(s)
    BY <2>1 DEF TunedTo, streams
  <2>5. Sessions!Forget(r)
    BY <2>1, <2>2, <2>3, <2>4 DEF Sessions!Forget
  <2> QED BY <2>5 DEF Sessions!Next
<1>3. CASE ~Finish(r) /\ ~SessionExpires(r)
  <2>1. UNCHANGED <<sessions, attachable, finalChunk, streams>>
    BY <1>3 DEF RunNext, ExecutorStep, MarkRunning, PublishStart, LoopThrows,
       StreamError, StreamEnds, SaveReply, MarkCompleted, MarkFailed,
       ExecutorFault, ToolCall, ToolReturns, RecordRuntimeEvent, Tick, registry
  <2> QED BY <1>0, <2>1, StutterMaps
<1> QED BY <1>1, <1>2, <1>3

\* createChatRun makes a row that is on its way: RunSessions does not see it.
LEMMA StartCreateMaps ==
  ASSUME IInv, NEW q \in Request, NEW r \in Run, StartCreate(q, r)
  PROVE  [Sessions!Next]_(Sessions!vars)
<1>0. TypeOK
  BY DEF IInv
<1>1. UNCHANGED <<sessions, attachable, finalChunk, streams>>
  BY DEF StartCreate, registry
<1>2. /\ \A s \in Run \ {r} : status'[s] = status[s]
      /\ status[r] = "none"
      /\ req[q].pc # "created" /\ req'[q].pc = "created" /\ req'[q].run = r
      /\ \A p \in Request \ {q} : req'[p] = req[p]
  BY <1>0 DEF StartCreate, CreateRow, Handler, TypeOK
<1>3. PhaseOf(r) = "unborn" /\ PhaseOf(r)' = "unborn"
  BY <1>2 DEF PhaseOf, OnItsWay
<1>4. \A s \in Run \ {r} : OnItsWay(s)' = OnItsWay(s)
  BY <1>2 DEF OnItsWay
<1>5. \A s \in Run \ {r} : PhaseOf(s)' = PhaseOf(s)
  BY <1>1, <1>2, <1>4 DEF PhaseOf
<1>6. \A s \in Stream : TunedTo(s)' = TunedTo(s)
  BY <1>1 DEF TunedTo, streams
<1> QED BY <1>1, <1>3, <1>5, <1>6 DEF Sessions!vars

\* registerRunSession is the one step that makes a run live, and a handler
\* that fails between the two the one that gives it up.
LEMMA StartRegisterMaps ==
  ASSUME IInv, NEW q \in Request, StartRegister(q)
  PROVE  [Sessions!Next]_(Sessions!vars)
<1> PICK r \in Run : r = req[q].run
  BY DEF IInv, HandlerInv, StartRegister
<1>0. TypeOK /\ HandlerInv /\ status[r] # "none" /\ OnItsWay(r)
  BY DEF IInv, HandlerInv, StartRegister, OnItsWay
<1>1. /\ sessions' = sessions \cup {r} /\ attachable' = attachable \cup {r}
      /\ UNCHANGED <<finalChunk, streams, status>>
  BY DEF StartRegister, rows
<1>2. /\ req[q].pc = "created" /\ req'[q].pc # "created"
      /\ \A p \in Request \ {q} : req'[p] = req[p]
  BY <1>0 DEF StartRegister, Reply, Idle, Handler, TypeOK
<1>3. ~OnItsWay(r)'
  BY <1>0, <1>2 DEF OnItsWay, HandlerInv
<1>4. \A s \in Run \ {r} : OnItsWay(s)' = OnItsWay(s)
  BY <1>2 DEF OnItsWay
<1>5. PhaseOf(r) = "unborn" /\ PhaseOf(r)' = "live"
  BY <1>0, <1>1, <1>3 DEF PhaseOf
<1>6. \A s \in Run \ {r} : PhaseOf(s)' = PhaseOf(s)
  BY <1>1, <1>4 DEF PhaseOf
<1>7. \A s \in Stream : TunedTo(s)' = TunedTo(s)
  BY <1>1 DEF TunedTo, streams
<1>8. Sessions!Open(r)
  BY <1>1, <1>5, <1>6, <1>7 DEF Sessions!Open
<1> QED BY <1>0, <1>8 DEF Sessions!Next

LEMMA RequestFaultMaps ==
  ASSUME IInv, NEW q \in Request, RequestFault(q)
  PROVE  [Sessions!Next]_(Sessions!vars)
<1>0. TypeOK /\ HandlerInv
  BY DEF IInv
<1>1. UNCHANGED <<sessions, attachable, finalChunk, streams, status>>
  BY DEF RequestFault, registry, rows
<1>2. /\ req'[q].pc # "created"
      /\ \A p \in Request \ {q} : req'[p] = req[p]
  BY <1>0 DEF RequestFault, Reply, Idle, Handler, TypeOK
<1>3. CASE req[q].pc = "created"
  <2> PICK r \in Run : r = req[q].run
    BY <1>0, <1>3 DEF HandlerInv
  <2>0. /\ status[r] # "none" /\ OnItsWay(r) /\ Fresh(r)
        /\ attachable \subseteq sessions
    BY <1>0, <1>3 DEF HandlerInv, OnItsWay, IInv, RegistryInv
  <2>1. ~OnItsWay(r)'
    BY <1>0, <1>2, <1>3 DEF OnItsWay, HandlerInv
  <2>2. \A s \in Run \ {r} : OnItsWay(s)' = OnItsWay(s)
    BY <1>2 DEF OnItsWay
  <2>3. PhaseOf(r) = "unborn" /\ PhaseOf(r)' = "over"
    BY <1>1, <2>0, <2>1 DEF PhaseOf, Fresh
  <2>4. \A s \in Run \ {r} : PhaseOf(s)' = PhaseOf(s)
    BY <1>1, <2>2 DEF PhaseOf
  <2>5. \A s \in Stream : TunedTo(s)' = TunedTo(s)
    BY <1>1 DEF TunedTo, streams
  <2>6. Sessions!Abandon(r)
    BY <1>1, <2>3, <2>4, <2>5 DEF Sessions!Abandon
  <2> QED BY <2>0, <2>6 DEF Sessions!Next
<1>4. CASE req[q].pc # "created"
  <2>1. SameWay /\ SameRows
    BY <1>1, <1>2, <1>4, WayKept DEF Elsewhere, SameRows
  <2> QED BY <1>1, <2>1, StutterMaps
<1> QED BY <1>3, <1>4

\* The steps of the handlers.
LEMMA RequestNextMaps ==
  ASSUME IInv, SessionInv, NEW q \in Request, RequestNext(q)
  PROVE  [Sessions!Next]_(Sessions!vars)
<1>1. CASE StartRegister(q)
  BY <1>1, StartRegisterMaps
<1>2. CASE RequestFault(q)
  BY <1>2, RequestFaultMaps
<1>3. CASE \E r \in Run : StartCreate(q, r)
  BY <1>3, StartCreateMaps
<1>4. CASE ~StartRegister(q) /\ ~RequestFault(q) /\ \A r \in Run : ~StartCreate(q, r)
  <2>1. SameRows /\ SameWay
    BY <1>4, HandlerRows, HandlerWay DEF SessionInv, HandlersHoldRows
  <2>2. CASE \E r \in Run, final \in {"aborted", "failed"} : StopOrMarkFailed(q, r, final)
    <3>1. PICK r \in Run, final \in Terminal : EndSession(r, final) /\ watch' = watch
      BY <2>2 DEF StopOrMarkFailed
    <3> QED BY <2>1, <3>1, EndSessionMaps
  <2>3. CASE ~\E r \in Run, final \in {"aborted", "failed"} : StopOrMarkFailed(q, r, final)
    <3>1. UNCHANGED <<sessions, attachable, finalChunk, streams>>
      BY <1>4, <2>3 DEF RequestNext, RequestStep, StartRead, PageLoad,
         ReconcileRead, StartLook, StartFailLost, StartLimit, StartSave,
         ReconcileDecide, PutStatus, registry
    <3> QED BY <2>1, <3>1, StutterMaps
  <2> QED BY <2>2, <2>3
<1> QED BY <1>1, <1>2, <1>3, <1>4

\* Browsers that join and leave.
LEMMA StreamMaps ==
  ASSUME IInv, NEW s \in Stream, Disconnect(s) \/ \E r \in Run : Attach(s, r)
  PROVE  [Sessions!Next]_(Sessions!vars)
<1>0. TypeOK /\ UNCHANGED <<status, req, sessions, attachable, finalChunk>>
  BY DEF IInv, Disconnect, Attach, rows, registry
<1>1. \A r \in Run : PhaseOf(r)' = PhaseOf(r)
  BY <1>0 DEF PhaseOf, OnItsWay
<1>2. CASE Disconnect(s)
  <2>1. TunedTo(s)' = NoRun /\ \A t \in Stream \ {s} : TunedTo(t)' = TunedTo(t)
    BY <1>0, <1>2 DEF Disconnect, TunedTo, TypeOK
  <2>2. Sessions!Leave(s)
    BY <1>0, <1>1, <2>1 DEF Sessions!Leave
  <2> QED BY <2>2 DEF Sessions!Next
<1>3. CASE \E r \in Run : Attach(s, r)
  <2> PICK r \in Run : Attach(s, r)
    BY <1>3
  <2>1. r \in attachable /\ attachable \subseteq sessions
    BY DEF Attach, IInv, RegistryInv
  <2>2. PhaseOf(r) = "live"
    BY <2>1, HeldPhase
  <2>3. /\ TunedTo(s) = NoRun /\ TunedTo(s)' = r
        /\ \A t \in Stream \ {s} : TunedTo(t)' = TunedTo(t)
    BY <1>0 DEF Attach, TunedTo, TypeOK
  <2>4. Sessions!Tune(s, r)
    BY <1>0, <1>1, <2>2, <2>3 DEF Sessions!Tune
  <2> QED BY <2>4 DEF Sessions!Next
<1> QED BY <1>2, <1>3

\* A restart ends every run that had begun, and those on their way too.
LEMMA CrashMaps ==
  ASSUME IInv, Crash
  PROVE  [Sessions!Next]_(Sessions!vars)
<1>1. \A r \in Run : ~OnItsWay(r)'
  BY DEF Crash, OnItsWay, Idle, Handler
<1>2. \A r \in Run : PhaseOf(r)' = IF status[r] = "none" THEN "unborn" ELSE "over"
  BY <1>1 DEF Crash, rows, PhaseOf
<1>3. \A r \in Run : status[r] = "none" => PhaseOf(r) = "unborn"
  BY DEF PhaseOf
<1>4. \A s \in Stream : TunedTo(s)' = NoRun
  BY DEF Crash, TunedTo
<1>5. finalChunk' = [r \in Run |-> "none"]
  BY DEF Crash
<1>6. Sessions!Restart
  BY <1>2, <1>3, <1>4, <1>5 DEF Sessions!Restart
<1> QED BY <1>6 DEF Sessions!Next

\* Every step of the system is a step of RunSessions or a stutter.
LEMMA StepMaps ==
  ASSUME IInv, SessionInv, [Next]_vars
  PROVE  [Sessions!Next]_(Sessions!vars)
<1>1. ASSUME NEW r \in Run, RunNext(r) PROVE [Sessions!Next]_(Sessions!vars)
  BY <1>1, RunNextMaps
<1>2. ASSUME NEW q \in Request, RequestNext(q) PROVE [Sessions!Next]_(Sessions!vars)
  BY <1>2, RequestNextMaps
<1>3. ASSUME NEW s \in Stream, Disconnect(s) \/ \E r \in Run : Attach(s, r)
      PROVE  [Sessions!Next]_(Sessions!vars)
  BY <1>3, StreamMaps
<1>4. CASE Crash
  BY <1>4, CrashMaps
<1>5. CASE UNCHANGED vars
  <2>1. SameRows /\ SameWay /\ UNCHANGED <<sessions, attachable, finalChunk, streams>>
    BY <1>5, WaySame DEF vars, rows, registry, SameRows
  <2> QED BY <2>1, StutterMaps
<1> QED BY <1>1, <1>2, <1>3, <1>4, <1>5 DEF Next

\* The registry and its users implement RunSessions: whatever starts, stops,
\* reconciles, fails or restarts, a run is live at most once, all who watch it
\* are told of its end together, and its outcome is kept with its session.
THEOREM SessionsRefinement == Spec => ImplementsSessions
<1>1. Init => Sessions!Init
  BY DEF Init, Sessions!Init, PhaseOf, TunedTo
<1> QED
  BY <1>1, StepMaps, InductiveInvariant, SessionInvariant, PTL
     DEF Spec, ImplementsSessions, Sessions!Spec
=============================================================================
