------------------------------ MODULE ChatRuns ------------------------------
(***************************************************************************)
(* The life of an agent run in nova-cloud, from the request that starts it *)
(* to the last stream that shows it:                                       *)
(*                                                                         *)
(*   lib/server/start-chat-run.ts      a request starts or reuses a run    *)
(*   lib/server/surreal-chat-runs.ts   the persisted chat_run rows         *)
(*   lib/server/chat-run-registry.ts   the sessions held in memory         *)
(*   lib/server/chat-run-executor.ts   the agent loop of a run             *)
(*   lib/agent/tools/runtime.ts        tools that write the run's row      *)
(*   routes/api/..chat-runs..          stream, stop, reconcile handlers    *)
(*                                                                         *)
(* The server is one Node process: code between two awaits is atomic, and  *)
(* a handler is cut into one action per await.  An action that writes the  *)
(* database is the moment the write takes effect; the code that runs when  *)
(* its promise resolves is the next action, so other handlers run between  *)
(* the two.  The rows survive a restart of the process, the rest does not. *)
(*                                                                         *)
(* All chats belong to one user; those of StudioChat belong to one Studio, *)
(* the others to none.  Of a row the model keeps its status, its chat, its *)
(* age and the order of updatedAt; endedAt, error and liveAttachable are   *)
(* read by no server code that branches.  Message texts are not modelled.  *)
(***************************************************************************)
EXTENDS Naturals, FiniteSets

CONSTANTS
  Run,          \* identities for chat_run rows; a run has one streamKey
  Chat,         \* chats of the user
  StudioChat,   \* the chats whose studioId is the Studio's
  Request,      \* handlers of HTTP requests that may be in progress together
  Stream,       \* event streams browsers may hold open together
  NoRun, NoChat,
  RunLimit,     \* maxConcurrentRunsPerStudio
  LoaderAge,    \* age at which the chat page calls a run stale
  PolicyAge,    \* age at which the plan's maxRunDurationMs has passed
  MaxCrashes,   \* bound: restarts of the process
  MaxFaults     \* bound: database calls that fail

ASSUME ChatAssumption == StudioChat \subseteq Chat /\ NoChat \notin Chat
ASSUME RunAssumption == NoRun \notin Run
ASSUME FiniteAssumption == IsFiniteSet(Run) /\ IsFiniteSet(Request)
ASSUME LimitAssumption ==
  /\ RunLimit \in Nat \ {0}
  /\ LoaderAge \in Nat \ {0} /\ PolicyAge \in Nat /\ LoaderAge <= PolicyAge
  /\ MaxCrashes \in Nat /\ MaxFaults \in Nat

VARIABLES
  status,      \* status[r]: the row's status, "none" before it is created
  chatOf,      \* chatOf[r]: the row's chat
  age,         \* age[r]: how long ago the row's startedAt is
  older,       \* older[r]: the rows whose updatedAt is before that of r
  sessions,    \* the runs with an entry in runSessions
  attachable,  \* those whose session is attachable
  finalChunk,  \* finalChunk[r]: the terminal chunk the session holds
  expiring,    \* sessions whose deletion timer is set
  exec,        \* exec[r]: where executeChatRun of r is
  tool,        \* the runs with a tool call in flight
  req,         \* req[q]: the handler of request q
  stream,      \* stream[s]: "idle", "open", or "closed" by a terminal chunk
  watch,       \* watch[s]: the run stream s listens to
  crashes, faults

rows == <<status, chatOf, age, older>>
registry == <<sessions, attachable, finalChunk, expiring>>
streams == <<stream, watch>>
bounds == <<crashes, faults>>
vars == <<rows, registry, exec, tool, req, streams, bounds>>

Active == {"queued", "running"}
Terminal == {"completed", "failed", "aborted"}
Status == {"none"} \cup Active \cup Terminal

\* Places where executeChatRun waits.  "finished": it has returned or its
\* rejection was logged; "dead": the write in its catch block failed.
Working == {"scheduled", "marked", "streaming", "replying", "replied",
            "recorded", "errReplying", "errReplied", "errored",
            "catch", "caught"}
ExecState == {"none", "finished", "dead"} \cup Working

\* A handler in progress: where it waits, its run and chat, and the status it
\* read or is about to write.
Handler(pc, r, c, st) == [pc |-> pc, run |-> r, chat |-> c, put |-> st]
Idle == Handler("idle", NoRun, NoChat, "none")
RequestPC == {"idle", "look", "startPut", "limit", "save", "create",
              "created", "put", "seen"}

TypeOK ==
  /\ status \in [Run -> Status]
  /\ chatOf \in [Run -> Chat \cup {NoChat}]
  /\ age \in [Run -> 0..PolicyAge]
  /\ older \in [Run -> SUBSET Run]
  /\ sessions \subseteq Run
  /\ attachable \subseteq Run
  /\ finalChunk \in [Run -> {"none"} \cup Terminal]
  /\ expiring \subseteq Run
  /\ exec \in [Run -> ExecState]
  /\ tool \subseteq Run
  /\ req \in [Request -> [pc : RequestPC, run : Run \cup {NoRun},
                          chat : Chat \cup {NoChat}, put : Status]]
  /\ stream \in [Stream -> {"idle", "open", "closed"}]
  /\ watch \in [Stream -> Run \cup {NoRun}]
  /\ crashes \in 0..MaxCrashes
  /\ faults \in 0..MaxFaults

Init ==
  /\ status = [r \in Run |-> "none"]
  /\ chatOf = [r \in Run |-> NoChat]
  /\ age = [r \in Run |-> 0]
  /\ older = [r \in Run |-> {}]
  /\ sessions = {}
  /\ attachable = {}
  /\ finalChunk = [r \in Run |-> "none"]
  /\ expiring = {}
  /\ exec = [r \in Run |-> "none"]
  /\ tool = {}
  /\ req = [q \in Request |-> Idle]
  /\ stream = [s \in Stream |-> "idle"]
  /\ watch = [s \in Stream |-> NoRun]
  /\ crashes = 0
  /\ faults = 0

-----------------------------------------------------------------------------
(* The rows *)

\* Mutant: the query's status list without 'running'.
ActiveInQueuedOnly(c) == {r \in Run : chatOf[r] = c /\ status[r] = "queued"}

ActiveIn(c) == {r \in Run : chatOf[r] = c /\ status[r] \in Active}

\* getActiveRunForChat's query: the active row with the latest updatedAt.
IsLatest(r, c) ==
  /\ r \in ActiveIn(c)
  /\ \A s \in ActiveIn(c) \ {r} : s \in older[r]

\* Every write of a row sets its updatedAt to now.
Touch(r) ==
  older' = [s \in Run |-> IF s = r THEN Run \ {r} ELSE older[s] \ {r}]

\* updateChatRunStatus merges the status in, whatever the row held before.
UpdateStatus(r, st) ==
  /\ status' = [status EXCEPT ![r] = st]
  /\ Touch(r)
  /\ UNCHANGED <<chatOf, age>>

\* createChatRun
CreateRow(r, c) ==
  /\ status' = [status EXCEPT ![r] = "queued"]
  /\ chatOf' = [chatOf EXCEPT ![r] = c]
  /\ Touch(r)
  /\ UNCHANGED age

-----------------------------------------------------------------------------
(* The registry *)

\* A stream's listener enqueues on its controller.  A terminal chunk closes
\* the controller and leaves the listener in the session's set, so the next
\* chunk makes it throw, inside publishRunChunk.
PublishThrows(r) ==
  r \in sessions /\ \E s \in Stream : watch[s] = r /\ stream[s] = "closed"

\* Mutant: the session is completed without a terminal chunk for the streams.
EndSessionSilently(r, final) ==
  IF r \notin sessions
  THEN UNCHANGED <<registry, stream>>
  ELSE /\ attachable' = attachable \ {r}
       /\ finalChunk' = [finalChunk EXCEPT ![r] = final]
       /\ expiring' = expiring \cup {r}
       /\ UNCHANGED <<sessions, stream>>

\* Mutant: the terminal chunk is published, the deletion timer is not set.
EndSessionUntimed(r, final) ==
  IF r \notin sessions
  THEN UNCHANGED <<registry, stream>>
  ELSE /\ attachable' = attachable \ {r}
       /\ finalChunk' = [finalChunk EXCEPT ![r] = final]
       /\ stream' = [s \in Stream |->
            IF watch[s] = r /\ stream[s] = "open" THEN "closed" ELSE stream[s]]
       /\ UNCHANGED <<sessions, expiring>>

\* publishRunChunk with a done or error chunk, then completeRunSession:
\* abortRunSession, failRunSession and the end of executeChatRun.  When a
\* listener throws, what follows the publication does not happen.
EndSession(r, final) ==
  IF r \notin sessions
  THEN UNCHANGED <<registry, stream>>
  ELSE /\ attachable' = attachable \ {r}
       /\ finalChunk' = [finalChunk EXCEPT ![r] = final]
       /\ IF PublishThrows(r)
          THEN UNCHANGED <<expiring, stream>>
          ELSE /\ expiring' = expiring \cup {r}
               /\ stream' = [s \in Stream |->
                    IF watch[s] = r /\ stream[s] = "open" THEN "closed"
                    ELSE stream[s]]
       /\ UNCHANGED sessions

\* The timer set by completeRunSession.
SessionExpires(r) ==
  /\ r \in expiring
  /\ sessions' = sessions \ {r}
  /\ expiring' = expiring \ {r}
  /\ finalChunk' = [finalChunk EXCEPT ![r] = "none"]
  /\ UNCHANGED <<rows, attachable, exec, tool, req, streams, bounds>>

-----------------------------------------------------------------------------
(* executeChatRun.  Nothing hands it an AbortController: no action below    *)
(* looks at the registry except to publish.                                 *)

Goto(r, pc) == exec' = [exec EXCEPT ![r] = pc]

\* The first await: the row becomes "running", whatever it was.
MarkRunning(r) ==
  /\ exec[r] = "scheduled"
  /\ UpdateStatus(r, "running")
  /\ Goto(r, "marked")
  /\ UNCHANGED <<registry, tool, req, streams, bounds>>

\* Mutant: the "start" chunk makes the session attachable.
PublishStartReopens(r) ==
  /\ exec[r] = "marked"
  /\ attachable' = attachable \cup ({r} \cap sessions)
  /\ Goto(r, IF PublishThrows(r) THEN "catch" ELSE "streaming")
  /\ UNCHANGED <<rows, sessions, finalChunk, expiring, tool, req, streams,
                 bounds>>

PublishStart(r) ==
  /\ exec[r] = "marked"
  /\ Goto(r, IF PublishThrows(r) THEN "catch" ELSE "streaming")
  /\ UNCHANGED <<rows, registry, tool, req, streams, bounds>>

\* Loading the messages, creating the tools or the model's stream throws, or
\* a text or tool chunk reaches a closed stream.
LoopThrows(r) ==
  /\ exec[r] = "streaming"
  /\ Goto(r, "catch")
  /\ UNCHANGED <<rows, registry, tool, req, streams, bounds>>

\* The model's stream holds an error event; a tool may still be in flight.
StreamError(r) ==
  /\ exec[r] = "streaming"
  /\ Goto(r, "errReplying")
  /\ UNCHANGED <<rows, registry, tool, req, streams, bounds>>

ToolCall(r) ==
  /\ exec[r] = "streaming"
  /\ tool' = tool \cup {r}
  /\ UNCHANGED <<rows, registry, exec, req, streams, bounds>>

\* recordRuntimeEvent: a tool that starts, reuses, uses or previews the
\* runtime writes "running"; the one that stops the runtime writes
\* "completed".  (Its chunk goes to an attachable session, which has no
\* closed stream, and a failing write is ignored.)
RecordRuntimeEvent(r, st) ==
  /\ r \in tool
  /\ UpdateStatus(r, st)
  /\ UNCHANGED <<registry, exec, tool, req, streams, bounds>>

ToolReturns(r) ==
  /\ r \in tool
  /\ tool' = tool \ {r}
  /\ UNCHANGED <<rows, registry, exec, req, streams, bounds>>

\* The stream ends once every tool call has its result.
StreamEnds(r) ==
  /\ exec[r] = "streaming" /\ r \notin tool
  /\ Goto(r, "replying")
  /\ UNCHANGED <<rows, registry, tool, req, streams, bounds>>

\* saveMessage of the assistant's text, on either path.
SaveReply(r) ==
  /\ \/ exec[r] = "replying" /\ Goto(r, "replied")
     \/ exec[r] = "errReplying" /\ Goto(r, "errReplied")
  /\ UNCHANGED <<rows, registry, tool, req, streams, bounds>>

MarkCompleted(r) ==
  /\ exec[r] = "replied"
  /\ UpdateStatus(r, "completed")
  /\ Goto(r, "recorded")
  /\ UNCHANGED <<registry, tool, req, streams, bounds>>

MarkFailed(r) ==
  /\ \/ exec[r] = "errReplied" /\ Goto(r, "errored")
     \/ exec[r] = "catch" /\ Goto(r, "caught")
  /\ UpdateStatus(r, "failed")
  /\ UNCHANGED <<registry, tool, req, streams, bounds>>

\* Mutant: the catch block records the failure and leaves the session alone.
FinishUncaught(r) ==
  /\ \/ /\ exec[r] \in {"recorded", "errored"}
        /\ EndSession(r, IF exec[r] = "recorded" THEN "completed" ELSE "failed")
        /\ Goto(r, IF PublishThrows(r) THEN "catch" ELSE "finished")
     \/ exec[r] = "caught" /\ Goto(r, "finished") /\ UNCHANGED <<registry, stream>>
  /\ UNCHANGED <<rows, tool, req, watch, bounds>>

\* The last, synchronous part; inside the try block a listener that throws
\* sends the run through the catch block.
Finish(r) ==
  /\ \/ /\ exec[r] = "recorded"
        /\ EndSession(r, "completed")
        /\ Goto(r, IF PublishThrows(r) THEN "catch" ELSE "finished")
     \/ /\ exec[r] = "errored"
        /\ EndSession(r, "failed")
        /\ Goto(r, IF PublishThrows(r) THEN "catch" ELSE "finished")
     \/ /\ exec[r] = "caught"
        /\ EndSession(r, "failed")
        /\ Goto(r, "finished")
  /\ UNCHANGED <<rows, tool, req, watch, bounds>>

\* A database call of the executor fails.
ExecutorFault(r) ==
  /\ faults < MaxFaults
  /\ \/ /\ exec[r] \in {"scheduled", "replying", "replied",
                         "errReplying", "errReplied"}
        /\ Goto(r, "catch")
     \/ exec[r] = "catch" /\ Goto(r, "dead")
  /\ faults' = faults + 1
  /\ UNCHANGED <<rows, registry, tool, req, streams, crashes>>

ExecutorStep(r) ==
  \/ MarkRunning(r) \/ PublishStart(r) \/ LoopThrows(r) \/ StreamError(r)
  \/ StreamEnds(r) \/ SaveReply(r) \/ MarkCompleted(r) \/ MarkFailed(r)
  \/ Finish(r)

-----------------------------------------------------------------------------
(* Requests *)

Reply(q) == req' = [req EXCEPT ![q] = Idle]

\* Bound: a start begins only if an identity is left for the row it creates.
RunsLeft ==
  Cardinality({q \in Request : req[q].chat # NoChat /\ req[q].pc # "created"})
    < Cardinality({r \in Run : status[r] = "none"})

\* startChatRunForChat: the query for the chat's active run.  A run older
\* than the plan allows is failed next; the session of a younger one is
\* looked at when the query's answer is here.
StartRead(q, c) ==
  /\ req[q] = Idle /\ RunsLeft
  /\ \/ /\ ActiveIn(c) = {}
        /\ req' = [req EXCEPT ![q] = Handler("limit", NoRun, c, "none")]
     \/ \E r \in Run :
          /\ IsLatest(r, c)
          /\ req' = [req EXCEPT ![q] =
               Handler(IF age[r] >= PolicyAge THEN "startPut" ELSE "look",
                       r, c, "none")]
  /\ UNCHANGED <<rows, registry, exec, tool, streams, bounds>>

\* An attachable session: the request reuses the run.  Else the run counts
\* as lost.
StartLook(q) ==
  /\ req[q].pc = "look"
  /\ IF req[q].run \in attachable
     THEN Reply(q)
     ELSE req' = [req EXCEPT ![q].pc = "startPut"]
  /\ UNCHANGED <<rows, registry, exec, tool, streams, bounds>>

StartFailLost(q) ==
  /\ req[q].pc = "startPut"
  /\ UpdateStatus(req[q].run, "failed")
  /\ req' = [req EXCEPT ![q] = Handler("limit", NoRun, req[q].chat, "none")]
  /\ UNCHANGED <<registry, exec, tool, streams, bounds>>

\* assertStudioRunAllowed counts the Studio's active rows.
ActiveInStudio ==
  {r \in Run : chatOf[r] \in StudioChat /\ status[r] \in Active}

\* Mutant: the comparison lets one run too many in.
StudioFullLate(c) ==
  c \in StudioChat /\ Cardinality(ActiveInStudio) > RunLimit

StudioFull(c) ==
  c \in StudioChat /\ Cardinality(ActiveInStudio) >= RunLimit

StartLimit(q) ==
  /\ req[q].pc = "limit"
  /\ IF StudioFull(req[q].chat)
     THEN Reply(q)                       \* 409
     ELSE req' = [req EXCEPT ![q].pc = "save"]
  /\ UNCHANGED <<rows, registry, exec, tool, streams, bounds>>

\* Mutant: the run is registered and started before its row is created.
StartSaveThenRegister(q) ==
  /\ req[q].pc = "save"
  /\ req' = [req EXCEPT ![q].pc = "created"]
  /\ UNCHANGED <<rows, registry, exec, tool, streams, bounds>>

\* saveMessage of the user's text
StartSave(q) ==
  /\ req[q].pc = "save"
  /\ req' = [req EXCEPT ![q].pc = "create"]
  /\ UNCHANGED <<rows, registry, exec, tool, streams, bounds>>

StartCreate(q, r) ==
  /\ req[q].pc = "create" /\ status[r] = "none"
  /\ CreateRow(r, req[q].chat)
  /\ req' = [req EXCEPT ![q] = Handler("created", r, req[q].chat, "none")]
  /\ UNCHANGED <<registry, exec, tool, streams, bounds>>

\* Mutant: the answer gets lost and the handler registers the run again.
StartRegisterAgain(q) ==
  /\ req[q].pc = "created"
  /\ sessions' = sessions \cup {req[q].run}
  /\ attachable' = attachable \cup {req[q].run}
  /\ exec' = [exec EXCEPT ![req[q].run] = "scheduled"]
  /\ UNCHANGED <<rows, finalChunk, expiring, tool, req, streams, bounds>>

\* Mutant: the answer is given before the executor is scheduled.
StartRegisterUnscheduled(q) ==
  /\ req[q].pc = "created"
  /\ sessions' = sessions \cup {req[q].run}
  /\ attachable' = attachable \cup {req[q].run}
  /\ Reply(q)
  /\ UNCHANGED <<rows, finalChunk, expiring, exec, tool, streams, bounds>>

\* registerRunSession, the executor's timer, and the answer.
StartRegister(q) ==
  /\ req[q].pc = "created"
  /\ sessions' = sessions \cup {req[q].run}
  /\ attachable' = attachable \cup {req[q].run}
  /\ exec' = [exec EXCEPT ![req[q].run] = "scheduled"]
  /\ Reply(q)
  /\ UNCHANGED <<rows, finalChunk, expiring, tool, streams, bounds>>

\* The chat page's loader calls getActiveRunForChat with its default age.
PageLoad(q, c, r) ==
  /\ req[q] = Idle
  /\ IsLatest(r, c) /\ age[r] >= LoaderAge
  /\ req' = [req EXCEPT ![q] = Handler("put", r, NoChat, "failed")]
  /\ UNCHANGED <<rows, registry, exec, tool, streams, bounds>>

\* The stop handler, and the reconcile handler's "abort" (final "aborted")
\* and "mark_failed" (final "failed"): end the session, then write the row.
\* A listener that throws answers the request with an error instead.
StopOrMarkFailed(q, r, final) ==
  /\ req[q] = Idle /\ status[r] # "none"
  /\ EndSession(r, final)
  /\ IF PublishThrows(r)
     THEN UNCHANGED req
     ELSE req' = [req EXCEPT ![q] = Handler("put", r, NoChat, final)]
  /\ UNCHANGED <<rows, exec, tool, watch, bounds>>

\* "reconcile" reads the row, and looks at the session when it has it.
ReconcileRead(q, r) ==
  /\ req[q] = Idle /\ status[r] # "none"
  /\ req' = [req EXCEPT ![q] = Handler("seen", r, NoChat, status[r])]
  /\ UNCHANGED <<rows, registry, exec, tool, streams, bounds>>

ReconcileDecide(q) ==
  /\ req[q].pc = "seen"
  /\ LET r == req[q].run
         put(st) == req' = [req EXCEPT ![q] = Handler("put", r, NoChat, st)]
         lost == req[q].put \in Active /\ r \notin attachable
     IN  \/ finalChunk[r] # "none" /\ put(finalChunk[r])
         \/ finalChunk[r] = "none" /\ lost /\ put("failed")
         \/ finalChunk[r] = "none" /\ ~lost /\ Reply(q)
  /\ UNCHANGED <<rows, registry, exec, tool, streams, bounds>>

PutStatus(q) ==
  /\ req[q].pc = "put"
  /\ UpdateStatus(req[q].run, req[q].put)
  /\ Reply(q)
  /\ UNCHANGED <<registry, exec, tool, streams, bounds>>

\* A database call of a handler fails: the request is answered with an error.
RequestFault(q) ==
  /\ req[q].pc \notin {"idle", "look", "seen"}
  /\ faults < MaxFaults /\ faults' = faults + 1
  /\ Reply(q)
  /\ UNCHANGED <<rows, registry, exec, tool, streams, crashes>>

RequestStep(q) ==
  \/ StartLook(q) \/ StartFailLost(q) \/ StartLimit(q) \/ StartSave(q)
  \/ \E r \in Run : StartCreate(q, r)
  \/ StartRegister(q) \/ ReconcileDecide(q) \/ PutStatus(q)

-----------------------------------------------------------------------------
(* Streams, time and restarts *)

\* Mutant: the listener also joins a session that has ended.
AttachEnded(s, r) ==
  /\ stream[s] = "idle" /\ r \in sessions
  /\ stream' = [stream EXCEPT ![s] = "open"]
  /\ watch' = [watch EXCEPT ![s] = r]
  /\ UNCHANGED <<rows, registry, exec, tool, req, bounds>>

\* GET .../stream while the session is attachable: the listener joins.
Attach(s, r) ==
  /\ stream[s] = "idle" /\ r \in attachable
  /\ stream' = [stream EXCEPT ![s] = "open"]
  /\ watch' = [watch EXCEPT ![s] = r]
  /\ UNCHANGED <<rows, registry, exec, tool, req, bounds>>

\* The browser goes away: the abort signal unsubscribes the listener.
Disconnect(s) ==
  /\ stream[s] # "idle"
  /\ stream' = [stream EXCEPT ![s] = "idle"]
  /\ watch' = [watch EXCEPT ![s] = NoRun]
  /\ UNCHANGED <<rows, registry, exec, tool, req, bounds>>

Tick(r) ==
  /\ status[r] # "none" /\ age[r] < PolicyAge
  /\ age' = [age EXCEPT ![r] = @ + 1]
  /\ UNCHANGED <<status, chatOf, older, registry, exec, tool, req, streams,
                 bounds>>

Crash ==
  /\ crashes < MaxCrashes /\ crashes' = crashes + 1
  /\ sessions' = {} /\ attachable' = {} /\ expiring' = {}
  /\ finalChunk' = [r \in Run |-> "none"]
  /\ exec' = [r \in Run |-> "none"]
  /\ tool' = {}
  /\ req' = [q \in Request |-> Idle]
  /\ stream' = [s \in Stream |-> "idle"]
  /\ watch' = [s \in Stream |-> NoRun]
  /\ UNCHANGED <<rows, faults>>

RunNext(r) ==
  \/ ExecutorStep(r) \/ ExecutorFault(r)
  \/ ToolCall(r) \/ ToolReturns(r)
  \/ \E st \in {"running", "completed"} : RecordRuntimeEvent(r, st)
  \/ SessionExpires(r) \/ Tick(r)

RequestNext(q) ==
  \/ \E c \in Chat : StartRead(q, c)
  \/ \E c \in Chat, r \in Run : PageLoad(q, c, r)
  \/ \E r \in Run, final \in {"aborted", "failed"} : StopOrMarkFailed(q, r, final)
  \/ \E r \in Run : ReconcileRead(q, r)
  \/ RequestStep(q) \/ RequestFault(q)

Next ==
  \/ \E r \in Run : RunNext(r)
  \/ \E q \in Request : RequestNext(q)
  \/ \E s \in Stream : Disconnect(s) \/ \E r \in Run : Attach(s, r)
  \/ Crash

Spec == Init /\ [][Next]_vars

\* What the code's scheduling gives: promises resolve, timers fire, time
\* passes, and the model's stream ends (the provider's part).  Nothing makes
\* a user send, stop, open or leave.
Progress ==
  /\ \A r \in Run : /\ WF_vars(ExecutorStep(r)) /\ WF_vars(ToolReturns(r))
                     /\ WF_vars(SessionExpires(r)) /\ WF_vars(Tick(r))
  /\ \A q \in Request : WF_vars(RequestStep(q))

\* A chat with a stale run is opened again some day.
ChatsAreOpened ==
  \A r \in Run :
    SF_vars(\E q \in Request, c \in Chat : PageLoad(q, c, r))

FairSpec == Spec /\ Progress

-----------------------------------------------------------------------------
(* Safety *)

\* A stream is open exactly as long as its run's session is live: no viewer
\* is left on a stream whose terminal chunk is past, whichever of executor,
\* stop, mark_failed or a throwing listener ended it (attachRunListener,
\* publishRunChunk and the stream route).
StreamsFollowSession ==
  \A s \in Stream :
    /\ stream[s] = "open" => watch[s] \in attachable
    /\ stream[s] = "closed" => watch[s] \notin attachable

\* A session that is no longer attachable has the terminal chunk reconcile
\* reads from it, and its deletion timer runs, even when a later publication
\* throws half way (completeRunSession is skipped then).
ClosedSessionIsFinal ==
  \A r \in sessions \ attachable : finalChunk[r] # "none" /\ r \in expiring

\* A request that is told to reuse a run, and a browser that attaches to one,
\* find an executor that will end it: a session is live only while its
\* executor is at work, or the write in the executor's catch block failed.
LiveSessionIsServed ==
  \A r \in attachable : exec[r] \in Working \cup {"dead"}

\* The check of the limit and the creation of the row are separate awaits:
\* starts that overlap may all pass the check.  They overshoot the Studio's
\* limit by at most the other handlers in progress; starts that follow one
\* another do not, whatever stops, tools and stale rows do meanwhile
\* (assertStudioRunAllowed, createChatRun).
QueuedInStudio ==
  {r \in Run : chatOf[r] \in StudioChat /\ status[r] = "queued"}
QueueOvershootIsBounded ==
  Cardinality(QueuedInStudio) <= RunLimit + Cardinality(Request) - 1

\* A session is opened once, before its executor starts, and never reopened:
\* not by the late "start" chunk of a run stopped in the queue, not by a
\* tool, not after its deletion.
SessionOpensOnce ==
  [][\A r \in attachable' \ attachable :
       r \notin sessions /\ exec[r] = "none" /\ exec'[r] = "scheduled"]_vars

\* A run nothing in memory knows of.
Fresh(r) ==
  /\ exec[r] = "none" /\ r \notin sessions
  /\ \A s \in Stream : watch[s] # r

\* The inductive invariant: the safety properties above, and that between
\* createChatRun and registerRunSession a row has one handler and is fresh.
RegistryInv ==
  /\ attachable \subseteq sessions
  /\ expiring \subseteq sessions \ attachable
HandlerInv ==
  /\ \A r \in Run : status[r] = "none" => Fresh(r)
  /\ \A q \in Request : req[q].pc = "created" =>
       req[q].run \in Run /\ status[req[q].run] # "none" /\ Fresh(req[q].run)
  /\ \A p, q \in Request :
       req[p].pc = "created" /\ req[q].pc = "created" /\ req[p].run = req[q].run
         => p = q
  /\ \A q \in Request :
       /\ req[q].pc = "put" => req[q].put \in Terminal
       /\ req[q].pc = "seen" => req[q].run \in Run
IInv ==
  /\ TypeOK /\ RegistryInv /\ HandlerInv
  /\ StreamsFollowSession /\ ClosedSessionIsFinal /\ LiveSessionIsServed

\* Its strengthening: a handler past the check counts as a row.
PastCheck ==
  {q \in Request : req[q].pc \in {"save", "create"} /\ req[q].chat \in StudioChat}
QueueInv ==
  Cardinality(QueuedInStudio) + Cardinality(PastCheck)
    <= RunLimit + Cardinality(Request) - 1

\* A queued row counts against the Studio's limit, and nothing but its own
\* executor takes it further: unless a restart or a failing call intervened,
\* the request that made it is about to register it, or its executor is about
\* to begin, whoever reads, fails or stops it meanwhile (startChatRunForChat).
OnItsWay(r) == \E q \in Request : req[q].pc = "created" /\ req[q].run = r
QueuedRunIsServed ==
  crashes + faults = 0 =>
    \A r \in Run : status[r] = "queued" =>
      exec[r] = "scheduled" \/ OnItsWay(r)

\* The registry, its streams and the requests on their way to it, as what
\* RunSessions promises.  A run is unborn until its request registers it.
PhaseOf(r) ==
  IF status[r] = "none" \/ OnItsWay(r) THEN "unborn"
  ELSE IF r \in attachable THEN "live"
  ELSE IF r \in sessions THEN "ended" ELSE "over"
TunedTo(s) == IF stream[s] = "open" THEN watch[s] ELSE NoRun

Sessions == INSTANCE RunSessions WITH
  phase <- [r \in Run |-> PhaseOf(r)],
  tuned <- [s \in Stream |-> TunedTo(s)],
  outcome <- finalChunk,
  Outcome <- Terminal

\* Whatever starts, stops, reconciles, fails or restarts, no run is live
\* twice, all who watch one learn of its end at once, and its outcome is kept
\* as long as its session (chat-run-registry.ts as RunSessions).
ImplementsSessions == Sessions!Spec

\* What the mapping needs beyond IInv: a session has an outcome only once it
\* has ended, handlers return to rows that are there, and a tool's executor
\* has begun.
SessionInv ==
  /\ \A r \in Run : finalChunk[r] # "none" => r \in sessions \ attachable
  /\ \A q \in Request : req[q].pc \in {"look", "startPut", "put", "seen"} =>
       req[q].run \in Run /\ status[req[q].run] # "none"
  /\ \A r \in tool : exec[r] # "none"

(* Liveness *)

\* Every stream a browser holds ends, or the browser leaves it, unless the
\* write in the executor's catch block failed too (the stream route).
StreamsEnd ==
  \A s \in Stream :
    stream[s] = "open" ~> stream[s] # "open" \/ exec[watch[s]] = "dead"

\* Every session leaves the registry, with the same exception: runSessions
\* does not grow for ever.
SessionsReclaimed ==
  \A r \in Run : r \in sessions ~> r \notin sessions \/ exec[r] = "dead"

\* A row that says queued or running is settled, after a crash, a late tool
\* event or a handler that failed too, if its chat is opened again.
RowsSettle ==
  ChatsAreOpened =>
    \A r \in Run : status[r] \in Active ~> status[r] \notin Active

=============================================================================
