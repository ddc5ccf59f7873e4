--------------------------- MODULE ChatRunsProofs ---------------------------
(***************************************************************************)
(* Proofs about ChatRuns for any number of runs, chats, requests, streams, *)
(* crashes and faults.  The argument: a row that is created but not yet    *)
(* registered has one handler and is unknown to the registry (HandlerInv), *)
(* so registration opens a session exactly once; every end of a session    *)
(* closes its streams together, so none is left open or found closed on a  *)
(* live session.                                                           *)
(***************************************************************************)
EXTENDS ChatRuns, TLAPS

USE DEF Active, Terminal, Status, Working, ExecState, RequestPC

\* A write of a row keeps the types of the row variables (updateChatRunStatus).
LEMMA UpdateStatusType ==
  ASSUME TypeOK, NEW r, NEW st \in Status, UpdateStatus(r, st)
  PROVE  /\ status' \in [Run -> Status] /\ chatOf' \in [Run -> Chat \cup {NoChat}]
         /\ age' \in [Run -> 0..PolicyAge] /\ older' \in [Run -> SUBSET Run]
BY DEF UpdateStatus, Touch, TypeOK

\* So does the creation of a row (createChatRun).
LEMMA CreateRowType ==
  ASSUME TypeOK, NEW r, NEW c \in Chat \cup {NoChat}, CreateRow(r, c)
  PROVE  /\ status' \in [Run -> Status] /\ chatOf' \in [Run -> Chat \cup {NoChat}]
         /\ age' \in [Run -> 0..PolicyAge] /\ older' \in [Run -> SUBSET Run]
BY DEF CreateRow, Touch, TypeOK

\* Ending a session keeps the types of the registry and of the streams
\* (publishRunChunk, completeRunSession).
LEMMA EndSessionType ==
  ASSUME TypeOK, NEW r \in Run, NEW final \in Terminal, EndSession(r, final)
  PROVE  /\ sessions' \subseteq Run /\ attachable' \subseteq Run
         /\ expiring' \subseteq Run
         /\ finalChunk' \in [Run -> {"none"} \cup Terminal]
         /\ stream' \in [Stream -> {"idle", "open", "closed"}]
BY DEF EndSession, registry, TypeOK

\* The parts of a handler have their types (startChatRunForChat and the routes).
LEMMA ReqType ==
  ASSUME TypeOK, NEW q \in Request
  PROVE  /\ req[q].pc \in RequestPC /\ req[q].run \in Run \cup {NoRun}
         /\ req[q].chat \in Chat \cup {NoChat} /\ req[q].put \in Status
BY DEF TypeOK

\* The steps of executeChatRun, of its tools and of the session timer keep
\* the types.
LEMMA RunNextType ==
  ASSUME TypeOK, NEW r \in Run, RunNext(r)
  PROVE  TypeOK'
<1> USE DEF rows, registry, streams, bounds, Goto
<1>1. CASE MarkRunning(r)
  BY <1>1, UpdateStatusType DEF MarkRunning, TypeOK
<1>2. CASE PublishStart(r)
  BY <1>2 DEF PublishStart, TypeOK
<1>3. CASE LoopThrows(r)
  BY <1>3 DEF LoopThrows, TypeOK
<1>4. CASE StreamError(r)
  BY <1>4 DEF StreamError, TypeOK
<1>5. CASE StreamEnds(r)
  BY <1>5 DEF StreamEnds, TypeOK
<1>6. CASE SaveReply(r)
  BY <1>6 DEF SaveReply, TypeOK
<1>7. CASE MarkCompleted(r)
  BY <1>7, UpdateStatusType DEF MarkCompleted, TypeOK
<1>8. CASE MarkFailed(r)
  <2>1. UpdateStatus(r, "failed") /\ exec' \in [Run -> ExecState]
    BY <1>8 DEF MarkFailed, TypeOK
  <2> QED BY <1>8, <2>1, UpdateStatusType DEF MarkFailed, TypeOK
<1>9. CASE Finish(r)
  <2>1. exec' \in [Run -> ExecState]
    BY <1>9 DEF Finish, TypeOK
  <2>2. EndSession(r, "completed") \/ EndSession(r, "failed")
    BY <1>9 DEF Finish
  <2> QED BY <1>9, <2>1, <2>2, EndSessionType DEF Finish, TypeOK
<1>10. CASE ExecutorFault(r)
  BY <1>10, LimitAssumption DEF ExecutorFault, TypeOK
<1>11. CASE ToolCall(r)
  BY <1>11 DEF ToolCall, TypeOK
<1>12. CASE ToolReturns(r)
  BY <1>12 DEF ToolReturns, TypeOK
<1>13. CASE \E st \in {"running", "completed"} : RecordRuntimeEvent(r, st)
  BY <1>13, UpdateStatusType DEF RecordRuntimeEvent, TypeOK
<1>14. CASE SessionExpires(r)
  BY <1>14 DEF SessionExpires, TypeOK
<1>15. CASE Tick(r)
  BY <1>15, LimitAssumption DEF Tick, TypeOK
<1> QED
  BY <1>1, <1>2, <1>3, <1>4, <1>5, <1>6, <1>7, <1>8, <1>9, <1>10, <1>11,
     <1>12, <1>13, <1>14, <1>15 DEF RunNext, ExecutorStep

\* So do the steps of the handlers.
LEMMA RequestNextType ==
  ASSUME TypeOK, HandlerInv, NEW q \in Request, RequestNext(q)
  PROVE  TypeOK'
<1> USE DEF rows, registry, streams, bounds, Handler, Idle, Reply
<1>0. /\ req[q].pc \in RequestPC /\ req[q].run \in Run \cup {NoRun}
      /\ req[q].chat \in Chat \cup {NoChat} /\ req[q].put \in Status
  BY ReqType
<1>1. CASE \E c \in Chat : StartRead(q, c)
  <2> PICK c \in Chat : StartRead(q, c)
    BY <1>1
  <2>1. PICK r \in Run \cup {NoRun}, pc \in {"limit", "startPut", "look"} :
          req' = [req EXCEPT ![q] = Handler(pc, r, c, "none")]
    BY DEF StartRead
  <2> QED BY <2>1 DEF StartRead, TypeOK
<1>2. CASE \E c \in Chat, r \in Run : PageLoad(q, c, r)
  BY <1>2 DEF PageLoad, TypeOK
<1>3. CASE \E r \in Run, final \in {"aborted", "failed"} : StopOrMarkFailed(q, r, final)
  <2> PICK r \in Run, final \in {"aborted", "failed"} : StopOrMarkFailed(q, r, final)
    BY <1>3
  <2> QED BY EndSessionType DEF StopOrMarkFailed, TypeOK
<1>4. CASE \E r \in Run : ReconcileRead(q, r)
  BY <1>4 DEF ReconcileRead, TypeOK
<1>5. CASE StartLook(q)
  BY <1>5, <1>0 DEF StartLook, TypeOK
<1>6. CASE StartFailLost(q)
  BY <1>6, <1>0, UpdateStatusType DEF StartFailLost, TypeOK
<1>7. CASE StartLimit(q)
  BY <1>7, <1>0 DEF StartLimit, TypeOK
<1>8. CASE StartSave(q)
  BY <1>8, <1>0 DEF StartSave, TypeOK
<1>9. CASE \E r \in Run : StartCreate(q, r)
  BY <1>9, <1>0, CreateRowType DEF StartCreate, TypeOK
<1>10. CASE StartRegister(q)
  <2>1. req[q].run \in Run
    BY <1>10 DEF StartRegister, HandlerInv
  <2>2. exec' \in [Run -> ExecState]
    BY <1>10, <2>1 DEF StartRegister, TypeOK
  <2>3. req' = [req EXCEPT ![q] = Idle]
    BY <1>10 DEF StartRegister
  <2>4. sessions' \subseteq Run /\ attachable' \subseteq Run
    BY <1>10, <2>1 DEF StartRegister, TypeOK
  <2>5. UNCHANGED <<rows, finalChunk, expiring, tool, streams, bounds>>
    BY <1>10 DEF StartRegister
  <2>6. req' \in [Request -> [pc : RequestPC, run : Run \cup {NoRun},
                           chat : Chat \cup {NoChat}, put : Status]]
    BY <2>3 DEF TypeOK
  <2> QED BY <2>2, <2>4, <2>5, <2>6  DEF TypeOK
<1>11. CASE ReconcileDecide(q)
  <2>1. finalChunk[req[q].run] \in Status
    BY <1>11 DEF ReconcileDecide, HandlerInv, TypeOK
  <2>2. \/ \E st \in Status :
             req' = [req EXCEPT ![q] = Handler("put", req[q].run, NoChat, st)]
        \/ Reply(q)
    BY <1>11, <2>1 DEF ReconcileDecide
  <2> QED BY <1>0, <1>11, <2>2 DEF ReconcileDecide, TypeOK
<1>12. CASE PutStatus(q)
  BY <1>12, <1>0, UpdateStatusType DEF PutStatus, TypeOK
<1>13. CASE RequestFault(q)
  BY <1>13, LimitAssumption DEF RequestFault, TypeOK
<1> QED
  BY <1>1, <1>2, <1>3, <1>4, <1>5, <1>6, <1>7, <1>8, <1>9, <1>10, <1>11,
     <1>12, <1>13 DEF RequestNext, RequestStep

RegistryAll ==
  RegistryInv /\ StreamsFollowSession /\ ClosedSessionIsFinal
              /\ LiveSessionIsServed

\* What ending a session does to the registry's invariants, whichever handler
\* or executor step does it.
LEMMA EndSessionInv ==
  ASSUME IInv, NEW r \in Run, NEW final \in Terminal, EndSession(r, final),
         watch' = watch,
         \A s \in Run : exec'[s] = exec[s] \/ s = r
  PROVE  RegistryAll'
<1> USE DEF EndSession, registry, TypeOK, IInv, RegistryInv
<1>1. r \notin attachable'
  OBVIOUS
<1>2. RegistryInv' /\ attachable' \subseteq attachable
  OBVIOUS
<1>3. LiveSessionIsServed'
  BY <1>1, <1>2 DEF LiveSessionIsServed
<1>4. ClosedSessionIsFinal'
  BY DEF ClosedSessionIsFinal, PublishThrows, StreamsFollowSession
<1>5. StreamsFollowSession'
  BY DEF StreamsFollowSession, PublishThrows
<1> QED BY <1>2, <1>3, <1>4, <1>5 DEF RegistryAll

\* A step that leaves the registry and the streams alone, and moves an
\* executor only to a place where it still works or whose session is over,
\* keeps the registry's invariants.
LEMMA QuietStep ==
  ASSUME IInv, UNCHANGED <<registry, streams>>,
         \A r \in attachable : exec'[r] \in Working \cup {"dead"}
  PROVE  RegistryAll'
BY DEF IInv, RegistryAll, RegistryInv, StreamsFollowSession,
       ClosedSessionIsFinal, LiveSessionIsServed, registry, streams

\* The executor, its tools and the timers keep the registry's invariants.
LEMMA RunNextRegistry ==
  ASSUME IInv, NEW r \in Run, RunNext(r)
  PROVE  RegistryAll'
<1> USE DEF rows, registry, streams, bounds, Goto
<1>0. /\ TypeOK /\ \A s \in attachable : exec[s] \in Working \cup {"dead"}
      /\ attachable \subseteq Run
  BY DEF IInv, LiveSessionIsServed, TypeOK
<1>1. CASE Finish(r)
  <2>1. EndSession(r, "completed") \/ EndSession(r, "failed")
    BY <1>1 DEF Finish
  <2>2. watch' = watch /\ \A s \in Run : exec'[s] = exec[s] \/ s = r
    BY <1>0, <1>1 DEF Finish, TypeOK
  <2> QED BY <2>1, <2>2, EndSessionInv
<1>2. CASE SessionExpires(r)
  BY <1>0, <1>2 DEF SessionExpires, IInv, RegistryAll, RegistryInv,
     StreamsFollowSession, ClosedSessionIsFinal, LiveSessionIsServed, TypeOK
<1>3. CASE MarkRunning(r) \/ MarkFailed(r) \/ MarkCompleted(r)
  <2>1. /\ UNCHANGED <<registry, streams>>
        /\ \A s \in attachable : exec'[s] \in Working \cup {"dead"}
    BY <1>0, <1>3 DEF MarkRunning, MarkFailed, MarkCompleted, TypeOK
  <2> QED BY <2>1, QuietStep
<1>4. CASE PublishStart(r) \/ LoopThrows(r) \/ StreamError(r) \/ StreamEnds(r)
             \/ SaveReply(r) \/ ExecutorFault(r)
  <2>1. /\ UNCHANGED <<registry, streams>>
        /\ \A s \in attachable : exec'[s] \in Working \cup {"dead"}
    BY <1>0, <1>4 DEF PublishStart, LoopThrows, StreamError, StreamEnds,
       SaveReply, ExecutorFault, TypeOK
  <2> QED BY <2>1, QuietStep
<1>5. CASE \/ ToolCall(r) \/ ToolReturns(r) \/ Tick(r)
           \/ \E st \in {"running", "completed"} : RecordRuntimeEvent(r, st)
  <2>1. UNCHANGED <<registry, streams, exec>>
    BY <1>5 DEF ToolCall, ToolReturns, Tick, RecordRuntimeEvent
  <2> QED BY <1>0, <2>1, QuietStep
<1> QED
  BY <1>1, <1>2, <1>3, <1>4, <1>5 DEF RunNext, ExecutorStep

\* So do the handlers: the one that registers a session opens a fresh one.
LEMMA RequestNextRegistry ==
  ASSUME IInv, NEW q \in Request, RequestNext(q)
  PROVE  RegistryAll'
<1> USE DEF rows, registry, streams, bounds
<1>0. /\ TypeOK /\ \A s \in attachable : exec[s] \in Working \cup {"dead"}
      /\ attachable \subseteq Run
  BY DEF IInv, LiveSessionIsServed, TypeOK
<1>1. CASE StartRegister(q)
  <2> DEFINE r == req[q].run
  <2>1. r \in Run /\ Fresh(r)
    BY <1>1 DEF StartRegister, IInv, HandlerInv
  <2>2. /\ sessions' = sessions \cup {r} /\ attachable' = attachable \cup {r}
        /\ exec' = [exec EXCEPT ![r] = "scheduled"]
        /\ UNCHANGED <<finalChunk, expiring, streams>>
    BY <1>1 DEF StartRegister
  <2> HIDE DEF r
  <2>3. RegistryInv' /\ LiveSessionIsServed' /\ ClosedSessionIsFinal'
    BY <1>0, <2>1, <2>2 DEF IInv, RegistryInv, LiveSessionIsServed,
       ClosedSessionIsFinal, Fresh, TypeOK
  <2>4. StreamsFollowSession'
    BY <2>1, <2>2 DEF IInv, StreamsFollowSession, Fresh
  <2> QED BY <2>3, <2>4 DEF RegistryAll
<1>2. CASE \E r \in Run, final \in {"aborted", "failed"} : StopOrMarkFailed(q, r, final)
  <2> PICK r \in Run, final \in {"aborted", "failed"} : StopOrMarkFailed(q, r, final)
    BY <1>2
  <2> QED BY EndSessionInv DEF StopOrMarkFailed
<1>3. CASE \/ \E c \in Chat : StartRead(q, c)
           \/ \E c \in Chat, r \in Run : PageLoad(q, c, r)
           \/ \E r \in Run : ReconcileRead(q, r)
           \/ StartLook(q) \/ StartFailLost(q) \/ StartLimit(q) \/ StartSave(q)
           \/ \E r \in Run : StartCreate(q, r)
           \/ ReconcileDecide(q) \/ PutStatus(q) \/ RequestFault(q)
  <2>1. UNCHANGED <<registry, streams, exec>>
    BY <1>3 DEF StartRead, PageLoad, ReconcileRead, StartLook, StartFailLost,
       StartLimit, StartSave, StartCreate, ReconcileDecide, PutStatus,
       RequestFault
  <2> QED BY <1>0, <2>1, QuietStep
<1> QED
  BY <1>1, <1>2, <1>3 DEF RequestNext, RequestStep

\* A row is never taken back, and a run stays fresh until it is registered:
\* what a step must satisfy for the fresh runs to stay fresh.
RowsKept == \A r \in Run : status'[r] = "none" => status[r] = "none"
FreshKept == \A r \in Run : Fresh(r) => Fresh(r)'

\* A step that moves no handler keeps HandlerInv (executeChatRun, streams).
LEMMA ExecutorKeepsHandlers ==
  ASSUME IInv, RowsKept, FreshKept, req' = req
  PROVE  HandlerInv'
BY DEF IInv, HandlerInv, RowsKept, FreshKept

\* So the steps of the executor, its tools and the timer keep it.
LEMMA RunNextHandlers ==
  ASSUME IInv, NEW r \in Run, RunNext(r)
  PROVE  HandlerInv'
<1> USE DEF rows, registry, streams, bounds, Goto, Fresh
<1>0. TypeOK
  BY DEF IInv
<1>1. CASE MarkRunning(r) \/ MarkFailed(r) \/ MarkCompleted(r)
  <2>1. RowsKept /\ FreshKept /\ req' = req
    BY <1>0, <1>1 DEF MarkRunning, MarkFailed, MarkCompleted, UpdateStatus,
       TypeOK, RowsKept, FreshKept
  <2> QED BY <2>1, ExecutorKeepsHandlers
<1>2. CASE PublishStart(r) \/ LoopThrows(r) \/ StreamError(r) \/ StreamEnds(r)
             \/ SaveReply(r) \/ ExecutorFault(r)
  <2>1. RowsKept /\ FreshKept /\ req' = req
    BY <1>0, <1>2 DEF PublishStart, LoopThrows, StreamError, StreamEnds,
       SaveReply, ExecutorFault, TypeOK, RowsKept, FreshKept
  <2> QED BY <2>1, ExecutorKeepsHandlers
<1>3. CASE Finish(r)
  <2>1. sessions' = sessions
    BY <1>3 DEF Finish, EndSession
  <2>2. RowsKept /\ FreshKept /\ req' = req
    BY <1>0, <1>3, <2>1 DEF Finish, TypeOK, RowsKept, FreshKept
  <2> QED BY <2>2, ExecutorKeepsHandlers
<1>4. CASE ToolCall(r) \/ ToolReturns(r) \/ Tick(r) \/ SessionExpires(r)
  <2>1. RowsKept /\ FreshKept /\ req' = req
    BY <1>4 DEF ToolCall, ToolReturns, Tick, SessionExpires, RowsKept, FreshKept
  <2> QED BY <2>1, ExecutorKeepsHandlers
<1>5. CASE \E st \in {"running", "completed"} : RecordRuntimeEvent(r, st)
  <2>1. RowsKept /\ FreshKept /\ req' = req
    BY <1>0, <1>5 DEF RecordRuntimeEvent, UpdateStatus, TypeOK, RowsKept, FreshKept
  <2> QED BY <2>1, ExecutorKeepsHandlers
<1> QED
  BY <1>1, <1>2, <1>3, <1>4, <1>5 DEF RunNext, ExecutorStep

\* A handler that moves on, other than to "created", keeps HandlerInv.
LEMMA HandlerMoves ==
  ASSUME IInv, RowsKept, FreshKept, NEW q \in Request, NEW h,
         req' = [req EXCEPT ![q] = h],
         h.pc # "created",
         h.pc = "put" => h.put \in Terminal,
         h.pc = "seen" => h.run \in Run
  PROVE  HandlerInv'
<1>1. req'[q] = h /\ \A p \in Request \ {q} : req'[p] = req[p]
  BY DEF IInv, TypeOK
<1>2. \A r \in Run : status'[r] = "none" => Fresh(r)'
  BY DEF IInv, HandlerInv, RowsKept, FreshKept
<1>3. \A p \in Request : req'[p].pc = "created" => p # q /\ req'[p] = req[p]
  BY <1>1
<1>4. \A p \in Request : req'[p].pc = "created" =>
        /\ req'[p].run \in Run /\ status'[req'[p].run] # "none"
        /\ Fresh(req[p].run)'
  <2> SUFFICES ASSUME NEW p \in Request, req'[p].pc = "created"
               PROVE  /\ req'[p].run \in Run /\ status'[req'[p].run] # "none"
                      /\ Fresh(req[p].run)'
    OBVIOUS
  <2>1. PICK r \in Run : r = req[p].run /\ r = req'[p].run
    BY <1>3 DEF IInv, HandlerInv
  <2>2. status[r] # "none" /\ Fresh(r)
    BY <1>3, <2>1 DEF IInv, HandlerInv
  <2>3. status'[r] # "none" /\ Fresh(r)'
    BY <2>2 DEF RowsKept, FreshKept
  <2> QED BY <2>1, <2>3 DEF Fresh
<1> QED BY <1>1, <1>2, <1>3, <1>4 DEF IInv, HandlerInv

\* The same for a handler given by its parts.
LEMMA HandlerMovesTo ==
  ASSUME IInv, RowsKept, FreshKept, NEW q \in Request,
         NEW pc, NEW r, NEW c, NEW st,
         req' = [req EXCEPT ![q] = Handler(pc, r, c, st)],
         pc # "created", pc = "put" => st \in Terminal, pc = "seen" => r \in Run
  PROVE  HandlerInv'
<1> DEFINE h == Handler(pc, r, c, st)
<1>1. h.pc = pc /\ h.put = st /\ h.run = r
  BY DEF Handler
<1>2. req' = [req EXCEPT ![q] = h]
  OBVIOUS
<1>3. /\ h.pc # "created"
      /\ h.pc = "put" => h.put \in Terminal
      /\ h.pc = "seen" => h.run \in Run
  BY <1>1
<1> HIDE DEF h
<1> QED BY <1>2, <1>3, HandlerMoves

\* createChatRun's answer arrives: the handler holds a fresh row of its own.
LEMMA HandlerCreated ==
  ASSUME IInv, RowsKept, FreshKept, NEW q \in Request, NEW r \in Run, NEW c,
         status'[r] # "none", Fresh(r)',
         \A p \in Request : req[p].pc = "created" => req[p].run # r,
         req' = [req EXCEPT ![q] = Handler("created", r, c, "none")]
  PROVE  HandlerInv'
<1>1. /\ req'[q] = Handler("created", r, c, "none")
      /\ \A p \in Request \ {q} : req'[p] = req[p]
  BY DEF IInv, TypeOK
<1>2. \A s \in Run : status'[s] = "none" => Fresh(s)'
  BY DEF IInv, HandlerInv, RowsKept, FreshKept
<1>3. ASSUME NEW p \in Request, req'[p].pc = "created"
      PROVE  \E s \in Run : /\ s = req'[p].run /\ status'[s] # "none" /\ Fresh(s)'
                            /\ p # q => s = req[p].run /\ req[p].pc = "created"
                            /\ p = q => s = r
  <2>1. CASE p = q
    BY <1>1, <2>1 DEF Handler
  <2>2. CASE p # q
    <3>1. PICK s \in Run : s = req[p].run /\ s = req'[p].run
      BY <1>1, <1>3, <2>2 DEF IInv, HandlerInv
    <3>2. status[s] # "none" /\ Fresh(s)
      BY <1>1, <1>3, <2>2, <3>1 DEF IInv, HandlerInv
    <3> QED BY <1>1, <1>3, <2>2, <3>1, <3>2 DEF RowsKept, FreshKept
  <2> QED BY <2>1, <2>2
<1>4. \A p \in Request : req'[p].pc = "created" =>
        req'[p].run \in Run /\ status'[req'[p].run] # "none" /\ Fresh(req[p].run)'
  BY <1>3 DEF Fresh
<1>5. \A p, o \in Request :
        req'[p].pc = "created" /\ req'[o].pc = "created" /\ req'[p].run = req'[o].run
          => p = o
  BY <1>3 DEF IInv, HandlerInv
<1>6. \A p \in Request : /\ req'[p].pc = "put" => req'[p].put \in Terminal
                         /\ req'[p].pc = "seen" => req'[p].run \in Run
  BY <1>1 DEF IInv, HandlerInv, Handler
<1> QED BY <1>2, <1>4, <1>5, <1>6 DEF HandlerInv

\* registerRunSession: the registered row leaves the fresh ones, the other
\* handlers keep theirs.
LEMMA HandlerRegisters ==
  ASSUME IInv, NEW q \in Request, NEW r \in Run, r = req[q].run,
         req[q].pc = "created", status[r] # "none", status' = status,
         \A s \in Run \ {r} : Fresh(s) => Fresh(s)',
         req' = [req EXCEPT ![q] = Idle]
  PROVE  HandlerInv'
<1>1. req'[q] = Idle /\ \A p \in Request \ {q} : req'[p] = req[p]
  BY DEF IInv, TypeOK
<1>2. \A s \in Run : status'[s] = "none" => Fresh(s)'
  BY DEF IInv, HandlerInv
<1>3. ASSUME NEW p \in Request, req'[p].pc = "created"
      PROVE  \E s \in Run : /\ s = req'[p].run /\ status'[s] # "none" /\ Fresh(s)'
                            /\ p # q /\ req'[p] = req[p]
  <2>1. p # q /\ req'[p] = req[p]
    BY <1>1, <1>3 DEF Idle, Handler
  <2>2. PICK s \in Run : s = req[p].run /\ s # r
    BY <1>3, <2>1 DEF IInv, HandlerInv
  <2>3. status[s] # "none" /\ Fresh(s)
    BY <1>3, <2>1, <2>2 DEF IInv, HandlerInv
  <2> QED BY <2>1, <2>2, <2>3
<1>4. \A p \in Request : req'[p].pc = "created" =>
        req'[p].run \in Run /\ status'[req'[p].run] # "none" /\ Fresh(req[p].run)'
  BY <1>3 DEF Fresh
<1>5. \A p, o \in Request :
        req'[p].pc = "created" /\ req'[o].pc = "created" /\ req'[p].run = req'[o].run
          => p = o
  BY <1>3 DEF IInv, HandlerInv
<1>6. \A p \in Request : /\ req'[p].pc = "put" => req'[p].put \in Terminal
                         /\ req'[p].pc = "seen" => req'[p].run \in Run
  BY <1>1 DEF IInv, HandlerInv, Idle, Handler
<1> QED BY <1>2, <1>4, <1>5, <1>6 DEF HandlerInv

\* The steps of the handlers keep HandlerInv: each moves one handler, and only
\* createChatRun and registerRunSession touch a fresh row.
LEMMA RequestNextHandlers ==
  ASSUME IInv, NEW q \in Request, RequestNext(q)
  PROVE  HandlerInv'
<1> USE DEF rows, registry, streams, bounds, Idle, Reply
<1>0. TypeOK /\ HandlerInv
  BY DEF IInv
<1>1. CASE \E c \in Chat : StartRead(q, c)
  <2> PICK c \in Chat : StartRead(q, c)
    BY <1>1
  <2>1. PICK r \in Run \cup {NoRun}, pc \in {"limit", "startPut", "look"} :
          req' = [req EXCEPT ![q] = Handler(pc, r, c, "none")]
    BY DEF StartRead
  <2>2. RowsKept /\ FreshKept
    BY DEF StartRead, RowsKept, FreshKept, Fresh
  <2> QED BY <2>1, <2>2, HandlerMovesTo
<1>2. CASE \E c \in Chat, r \in Run : PageLoad(q, c, r)
  <2> PICK c \in Chat, r \in Run : PageLoad(q, c, r)
    BY <1>2
  <2>1. RowsKept /\ FreshKept
    BY DEF PageLoad, RowsKept, FreshKept, Fresh
  <2>2. req' = [req EXCEPT ![q] = Handler("put", r, NoChat, "failed")]
    BY DEF PageLoad
  <2> QED BY <2>1, <2>2, HandlerMovesTo
<1>3. CASE \E r \in Run, final \in {"aborted", "failed"} : StopOrMarkFailed(q, r, final)
  <2> PICK r \in Run, final \in {"aborted", "failed"} : StopOrMarkFailed(q, r, final)
    BY <1>3
  <2>1. sessions' = sessions
    BY DEF StopOrMarkFailed, EndSession
  <2>2. RowsKept /\ FreshKept
    BY <2>1 DEF StopOrMarkFailed, RowsKept, FreshKept, Fresh
  <2>3. CASE PublishThrows(r)
    BY <1>0, <2>2, <2>3, ExecutorKeepsHandlers DEF StopOrMarkFailed
  <2>4. CASE ~PublishThrows(r)
    BY <2>2, <2>4, HandlerMovesTo DEF StopOrMarkFailed
  <2> QED BY <2>3, <2>4
<1>4. CASE \E r \in Run : ReconcileRead(q, r)
  <2> PICK r \in Run : ReconcileRead(q, r)
    BY <1>4
  <2>1. RowsKept /\ FreshKept
    BY DEF ReconcileRead, RowsKept, FreshKept, Fresh
  <2> QED BY <2>1, HandlerMovesTo DEF ReconcileRead
<1>5. CASE StartLook(q) \/ StartLimit(q) \/ StartSave(q) \/ RequestFault(q)
  <2>1. PICK h : /\ req' = [req EXCEPT ![q] = h]
                 /\ h.pc \in {"idle", "startPut", "save", "create"}
    BY <1>0, <1>5 DEF Handler,  StartLook, StartLimit, StartSave, RequestFault, TypeOK
  <2>2. RowsKept /\ FreshKept
    BY <1>5 DEF StartLook, StartLimit, StartSave, RequestFault, RowsKept,
       FreshKept, Fresh
  <2> QED BY <2>1, <2>2, HandlerMoves
<1>6. CASE StartFailLost(q) \/ PutStatus(q)
  <2>1. RowsKept /\ FreshKept
    BY <1>0, <1>6 DEF StartFailLost, PutStatus, UpdateStatus, HandlerInv,
       TypeOK, RowsKept, FreshKept, Fresh
  <2>2. \/ req' = [req EXCEPT ![q] = Handler("limit", NoRun, req[q].chat, "none")]
        \/ req' = [req EXCEPT ![q] = Idle]
    BY <1>6 DEF StartFailLost, PutStatus
  <2> QED BY <2>1, <2>2, HandlerMovesTo
<1>7. CASE \E r \in Run : StartCreate(q, r)
  <2> PICK r \in Run : StartCreate(q, r)
    BY <1>7
  <2>1. RowsKept /\ FreshKept /\ status'[r] # "none" /\ Fresh(r)'
    BY <1>0 DEF StartCreate, CreateRow, HandlerInv, TypeOK, RowsKept,
       FreshKept, Fresh
  <2>2. \A p \in Request : req[p].pc = "created" => req[p].run # r
    BY <1>0 DEF StartCreate, HandlerInv
  <2>3. req' = [req EXCEPT ![q] = Handler("created", r, req[q].chat, "none")]
    BY DEF StartCreate
  <2> QED BY <2>1, <2>2, <2>3, HandlerCreated
<1>8. CASE StartRegister(q)
  <2> PICK r \in Run : r = req[q].run
    BY <1>0, <1>8 DEF StartRegister, HandlerInv
  <2>1. /\ \A s \in Run \ {r} : Fresh(s) => Fresh(s)'
        /\ status[r] # "none"
    BY <1>0, <1>8 DEF StartRegister, TypeOK, HandlerInv, Fresh
  <2>2. /\ status' = status /\ req' = [req EXCEPT ![q] = Idle]
        /\ req[q].pc = "created"
    BY <1>8 DEF StartRegister
  <2> QED BY <2>1, <2>2, HandlerRegisters
<1>9. CASE ReconcileDecide(q)
  <2>1. \/ \E r, st : /\ st \in Terminal
                      /\ req' = [req EXCEPT ![q] = Handler("put", r, NoChat, st)]
        \/ req' = [req EXCEPT ![q] = Idle]
    BY <1>0, <1>9 DEF ReconcileDecide, HandlerInv, TypeOK
  <2>2. RowsKept /\ FreshKept
    BY <1>9 DEF ReconcileDecide, RowsKept, FreshKept, Fresh
  <2> QED BY <2>1, <2>2, HandlerMovesTo
<1> QED
  BY <1>1, <1>2, <1>3, <1>4, <1>5, <1>6, <1>7, <1>8, <1>9
     DEF RequestNext, RequestStep

\* Browsers that attach and leave keep the invariant.
LEMMA StreamIInv ==
  ASSUME IInv, NEW s \in Stream,
         Disconnect(s) \/ \E r \in Run : Attach(s, r)
  PROVE  IInv'
<1> USE DEF rows, registry, streams, bounds
<1>0. IInv
  OBVIOUS
<1>1. CASE Disconnect(s)
  <2>1. TypeOK'
    BY <1>0, <1>1 DEF Disconnect, IInv, TypeOK
  <2>2. RegistryAll'
    BY <1>0, <1>1, RunAssumption DEF Disconnect, IInv, TypeOK, RegistryAll, RegistryInv,
       StreamsFollowSession, ClosedSessionIsFinal, LiveSessionIsServed
  <2>3. RowsKept /\ FreshKept /\ req' = req
    BY <1>0, <1>1, RunAssumption DEF Disconnect, IInv, TypeOK, RowsKept, FreshKept, Fresh
  <2> QED BY <1>0, <2>1, <2>2, <2>3, ExecutorKeepsHandlers DEF IInv, RegistryAll
<1>2. CASE \E r \in Run : Attach(s, r)
  <2> PICK r \in Run : Attach(s, r)
    BY <1>2
  <2>1. TypeOK'
    BY <1>0 DEF Attach, IInv, TypeOK
  <2>2. RegistryAll'
    BY <1>0 DEF Attach, IInv, TypeOK, RegistryAll, RegistryInv,
       StreamsFollowSession, ClosedSessionIsFinal, LiveSessionIsServed
  <2>3. r \in sessions
    BY <1>0 DEF Attach, IInv, RegistryInv
  <2>4. RowsKept /\ FreshKept /\ req' = req
    BY <1>0, <2>3 DEF Attach, IInv, TypeOK, RowsKept, FreshKept, Fresh
  <2> QED BY <1>0, <2>1, <2>2, <2>4, ExecutorKeepsHandlers DEF IInv, RegistryAll
<1> QED BY <1>1, <1>2

\* So does a restart, which forgets everything but the rows.
LEMMA CrashIInv == ASSUME IInv, Crash PROVE IInv'
<1> USE DEF rows, registry, streams, bounds
<1>1. TypeOK'
  BY LimitAssumption DEF Crash, IInv, TypeOK, Idle, Handler
<1>2. RegistryAll'
  BY RunAssumption DEF Crash, IInv, TypeOK, RegistryAll, RegistryInv,
     StreamsFollowSession, ClosedSessionIsFinal, LiveSessionIsServed
<1>3. HandlerInv'
  BY RunAssumption DEF Crash, IInv, TypeOK, HandlerInv, Fresh, Idle, Handler
<1> QED BY <1>1, <1>2, <1>3 DEF IInv, RegistryAll

\* The inductive invariant holds when the server starts on an empty database.
LEMMA InitIInv == Init => IInv
<1> SUFFICES ASSUME Init PROVE IInv
  OBVIOUS
<1>1. TypeOK
  BY LimitAssumption DEF Init, TypeOK, Idle, Handler
<1>2. HandlerInv
  BY RunAssumption DEF Init, HandlerInv, Fresh, Idle, Handler
<1>3. /\ RegistryInv /\ StreamsFollowSession
      /\ ClosedSessionIsFinal /\ LiveSessionIsServed
  BY DEF Init, RegistryInv, StreamsFollowSession, ClosedSessionIsFinal,
     LiveSessionIsServed
<1> QED BY <1>1, <1>2, <1>3 DEF IInv

\* Every step of the system keeps the inductive invariant.
LEMMA NextIInv == IInv /\ [Next]_vars => IInv'
<1> SUFFICES ASSUME IInv, [Next]_vars PROVE IInv'
  OBVIOUS
<1>0. TypeOK /\ HandlerInv
  BY DEF IInv
<1>1. ASSUME NEW r \in Run, RunNext(r) PROVE IInv'
  BY <1>0, <1>1, RunNextType, RunNextRegistry, RunNextHandlers DEF IInv, RegistryAll
<1>2. ASSUME NEW q \in Request, RequestNext(q) PROVE IInv'
  BY <1>0, <1>2, RequestNextType, RequestNextRegistry, RequestNextHandlers
     DEF IInv, RegistryAll
<1>3. ASSUME NEW s \in Stream, Disconnect(s) \/ \E r \in Run : Attach(s, r)
      PROVE  IInv'
  BY <1>3, StreamIInv
<1>4. CASE Crash
  BY <1>4, CrashIInv
<1>5. CASE UNCHANGED vars
  BY <1>5 DEF vars, rows, registry, streams, bounds, IInv, TypeOK, RegistryInv,
     HandlerInv, Fresh, StreamsFollowSession, ClosedSessionIsFinal,
     LiveSessionIsServed
<1> QED BY <1>1, <1>2, <1>3, <1>4, <1>5 DEF Next

\* The inductive invariant is an invariant.
THEOREM InductiveInvariant == Spec => []IInv
<1> QED BY InitIInv, NextIInv, PTL DEF Spec

\* Every variable keeps its type: rows, registry, executors, handlers, streams.
THEOREM TypeCorrect == Spec => []TypeOK
<1>1. IInv => TypeOK
  BY DEF IInv
<1> QED BY InductiveInvariant, <1>1, PTL

\* No viewer is left on the stream of a session that is over, and no live
\* session has a listener that throws (publishRunChunk, attachRunListener).
THEOREM StreamsFollow == Spec => []StreamsFollowSession
<1>1. IInv => StreamsFollowSession
  BY DEF IInv
<1> QED BY InductiveInvariant, <1>1, PTL

\* A session that is over has its terminal chunk and its deletion timer,
\* however many of stop, reconcile and the executor end it, and whichever of
\* their publications throws (completeRunSession).
THEOREM ClosedIsFinal == Spec => []ClosedSessionIsFinal
<1>1. IInv => ClosedSessionIsFinal
  BY DEF IInv
<1> QED BY InductiveInvariant, <1>1, PTL

\* A run that is reused or attached to has an executor that will end it, but
\* for the failure of the write in its catch block (executeChatRun).
THEOREM LiveIsServed == Spec => []LiveSessionIsServed
<1>1. IInv => LiveSessionIsServed
  BY DEF IInv
<1> QED BY InductiveInvariant, <1>1, PTL

\* Only registerRunSession opens a session, once for a run, before the
\* executor starts: a run that was stopped, failed or deleted stays so.
THEOREM OpensOnce == Spec => SessionOpensOnce
<1> USE DEF rows, registry, streams, bounds
<1>1. ASSUME IInv, NEW q \in Request, StartRegister(q)
      PROVE  \A r \in attachable' \ attachable :
               r \notin sessions /\ exec[r] = "none" /\ exec'[r] = "scheduled"
  <2>1. req[q].run \in Run /\ Fresh(req[q].run)
    BY <1>1 DEF StartRegister, IInv, HandlerInv
  <2> QED BY <1>1, <2>1 DEF StartRegister, Fresh, IInv, TypeOK
<1>2. ASSUME Next, \A q \in Request : ~StartRegister(q)
      PROVE  attachable' \subseteq attachable
  <2>1. ASSUME NEW r \in Run, RunNext(r) PROVE attachable' \subseteq attachable
    BY <2>1 DEF RunNext, ExecutorStep, MarkRunning, PublishStart, LoopThrows,
       StreamError, StreamEnds, SaveReply, MarkCompleted, MarkFailed, Finish,
       EndSession, ExecutorFault, ToolCall, ToolReturns, RecordRuntimeEvent,
       SessionExpires, Tick
  <2>2. ASSUME NEW q \in Request, RequestNext(q) PROVE attachable' \subseteq attachable
    BY <1>2, <2>2 DEF RequestNext, RequestStep, StartRead, PageLoad,
       StopOrMarkFailed, EndSession, ReconcileRead, StartLook, StartFailLost,
       StartLimit, StartSave, StartCreate, ReconcileDecide, PutStatus,
       RequestFault
  <2>3. ASSUME NEW s \in Stream, Disconnect(s) \/ \E r \in Run : Attach(s, r)
        PROVE  attachable' \subseteq attachable
    BY <2>3 DEF Disconnect, Attach
  <2>4. CASE Crash
    BY <2>4 DEF Crash
  <2> QED BY <1>2, <2>1, <2>2, <2>3, <2>4 DEF Next
<1>3. IInv /\ [Next]_vars =>
        [\A r \in attachable' \ attachable :
           r \notin sessions /\ exec[r] = "none" /\ exec'[r] = "scheduled"]_vars
  BY <1>1, <1>2
<1> QED BY InductiveInvariant, <1>3, PTL DEF Spec, SessionOpensOnce

=============================================================================
