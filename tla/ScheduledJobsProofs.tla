------------------------ MODULE ScheduledJobsProofs ------------------------
(***************************************************************************)
(* Proofs about ScheduledJobs for any jobs, pollers, manual runs and chats *)
(* and any number of crashes and failing calls.  The argument: a lock is   *)
(* written between a claim and a mark of the same poller, a claim is left  *)
(* by a mark, by a refusal or an exception that leads to one, or because   *)
(* the row is gone and its lock with it; the promise of a job is settled   *)
(* by the one handler that entered it.                                     *)
(***************************************************************************)
EXTENDS ScheduledJobs, TLAPS

USE DEF Worker, Ensuring, Claimed, PC, rows, world, bounds, Goto, At, Exists, Due

Handlers == [pc : PC, job : Job \cup {NoJob}, chat : Chat \cup {NoChat},
             todo : SUBSET Job, seen : {"none", "enabled", "paused"},
             caught : BOOLEAN]

\* What follows an exception has the type of a handler (the try block of
\* runDueScheduledJobs).
LEMMA CaughtType ==
  ASSUME TypeOK, NEW w \in Worker
  PROVE  Caught(w) \in Handlers
<1>1. worker[w] \in Handlers
  BY DEF TypeOK, Handlers
<1>2. [worker[w] EXCEPT !.pc = "readFail", !.caught = TRUE] \in Handlers
  BY <1>1 DEF Handlers
<1>3. Idle \in Handlers
  BY DEF Idle, Handlers
<1> QED
  BY <1>2, <1>3 DEF Caught

\* Where an exception leads: to the failed mark of the same job, if a poller
\* threw it outside the catch block, and else to the end of the request.
LEMMA CaughtGoes ==
  ASSUME TypeOK, NEW w \in Worker
  PROVE  \/ Caught(w) = Idle
            /\ ~(w \in Poller /\ worker[w].pc \in Claimed /\ ~worker[w].caught)
         \/ /\ w \in Poller /\ worker[w].pc \in PC \ {"idle", "scan", "claim"}
            /\ Caught(w).pc = "readFail" /\ Caught(w).caught
            /\ Caught(w).job = worker[w].job /\ Caught(w).todo = worker[w].todo
<1>1. worker[w] \in Handlers
  BY DEF TypeOK, Handlers
<1>2. CASE w \in Poller /\ worker[w].pc \in Claimed \cup {"event", "failEvent"}
             /\ ~worker[w].caught
  <2>1. Caught(w) = [worker[w] EXCEPT !.pc = "readFail", !.caught = TRUE]
    BY <1>2 DEF Caught
  <2> QED
    BY <1>1, <1>2, <2>1 DEF Handlers
<1>3. CASE ~(w \in Poller /\ worker[w].pc \in Claimed \cup {"event", "failEvent"}
             /\ ~worker[w].caught)
  BY <1>3 DEF Caught
<1> QED
  BY <1>2, <1>3

-----------------------------------------------------------------------------
(* Types *)

\* A handler that moves, and nothing else of the handlers, keeps their type.
LEMMA MoveType ==
  ASSUME TypeOK, NEW w \in Worker, NEW h \in Handlers,
         worker' = [worker EXCEPT ![w] = h]
  PROVE  worker' \in [Worker -> Handlers]
BY DEF TypeOK, Handlers

\* A change of parts of a handler is a handler.
LEMMA PartType ==
  ASSUME TypeOK, NEW w \in Worker, NEW pc \in PC,
         NEW job \in Job \cup {NoJob}, NEW chat \in Chat \cup {NoChat},
         NEW todo \in SUBSET Job, NEW seen \in {"none", "enabled", "paused"}
  PROVE  /\ worker \in [Worker -> Handlers] /\ worker[w] \in Handlers
         /\ [worker[w] EXCEPT !.pc = pc] \in Handlers
         /\ [worker[w] EXCEPT !.pc = pc, !.chat = chat] \in Handlers
         /\ [worker[w] EXCEPT !.pc = pc, !.job = job] \in Handlers
         /\ [worker[w] EXCEPT !.pc = pc, !.todo = todo] \in Handlers
         /\ [worker[w] EXCEPT !.pc = pc, !.seen = seen] \in Handlers
         /\ Idle \in Handlers
         /\ [Idle EXCEPT !.pc = pc, !.todo = todo] \in Handlers
         /\ [Idle EXCEPT !.pc = pc, !.job = job, !.todo = todo] \in Handlers
<1>1. worker \in [Worker -> Handlers] /\ worker[w] \in Handlers
  BY DEF TypeOK, Handlers
<1>2. [worker[w] EXCEPT !.pc = pc] \in Handlers
  BY <1>1 DEF Handlers
<1>3. [worker[w] EXCEPT !.pc = pc, !.chat = chat] \in Handlers
  BY <1>1 DEF Handlers
<1>5. [worker[w] EXCEPT !.pc = pc, !.job = job] \in Handlers
  BY <1>1 DEF Handlers
<1>6. [worker[w] EXCEPT !.pc = pc, !.todo = todo] \in Handlers
  BY <1>1 DEF Handlers
<1>7. [worker[w] EXCEPT !.pc = pc, !.seen = seen] \in Handlers
  BY <1>1 DEF Handlers
<1>4. /\ Idle \in Handlers
      /\ [Idle EXCEPT !.pc = pc, !.todo = todo] \in Handlers
      /\ [Idle EXCEPT !.pc = pc, !.job = job, !.todo = todo] \in Handlers
  BY DEF Idle, Handlers
<1> QED
  BY <1>1, <1>2, <1>3, <1>4, <1>5, <1>6, <1>7

\* So do the two ways to settle a promise (ensureScheduledJobChat).
LEMMA SettledType ==
  ASSUME TypeOK, NEW w \in Worker,
         Reject(w) \/ \E c \in Chat \cup {NoChat} : Resolve(w, c)
  PROVE  worker' \in [Worker -> Handlers] /\ binding' \subseteq Job
<1>1. binding' \subseteq Job
  BY DEF Reject, Resolve, TypeOK
<1>2. CASE Reject(w)
  BY <1>1, <1>2, CaughtType, PartType DEF Reject
<1>3. ASSUME NEW c \in Chat \cup {NoChat}, Resolve(w, c)
      PROVE  worker' \in [Worker -> Handlers]
  <2> SUFFICES ASSUME NEW v \in Worker
               PROVE  (IF v = w \/ v \in Waiting(worker[w].job)
                       THEN [worker[v] EXCEPT !.pc = "start", !.chat = c]
                       ELSE worker[v]) \in Handlers
    BY <1>3 DEF Resolve
  <2>1. "start" \in PC /\ {} \in SUBSET Job /\ NoJob \in Job \cup {NoJob}
    OBVIOUS
  <2>2. [worker[v] EXCEPT !.pc = "start", !.chat = c] \in Handlers /\ worker[v] \in Handlers
    BY <2>1, PartType
  <2> QED
    BY <2>2
<1> QED
  BY <1>1, <1>2, <1>3

\* The steps of handlers keep the types.
LEMMA WorkerNextType ==
  ASSUME TypeOK, HandlerInv, NEW w \in Worker,
         Poll(w) \/ WorkerStep(w) \/ Fault(w) \/ \E j \in Job : RunNow(w, j)
  PROVE  TypeOK'
<1>0. /\ \A pc \in PC : [worker[w] EXCEPT !.pc = pc] \in Handlers
      /\ \A pc \in PC, c \in Chat \cup {NoChat} :
           [worker[w] EXCEPT !.pc = pc, !.chat = c] \in Handlers
      /\ \A pc \in PC, j \in Job \cup {NoJob} :
           [worker[w] EXCEPT !.pc = pc, !.job = j] \in Handlers
      /\ \A pc \in PC, todo \in SUBSET Job :
           /\ [worker[w] EXCEPT !.pc = pc, !.todo = todo] \in Handlers
           /\ [Idle EXCEPT !.pc = pc, !.todo = todo] \in Handlers
      /\ \A pc \in PC, seen \in {"none", "enabled", "paused"} :
           [worker[w] EXCEPT !.pc = pc, !.seen = seen] \in Handlers
      /\ \A pc \in PC, j \in Job \cup {NoJob}, todo \in SUBSET Job :
           [Idle EXCEPT !.pc = pc, !.job = j, !.todo = todo] \in Handlers
      /\ Idle \in Handlers /\ Caught(w) \in Handlers
      /\ worker \in [Worker -> Handlers] /\ worker[w] \in Handlers
  BY PartType, CaughtType
<1>1. \A h \in Handlers : worker' = [worker EXCEPT ![w] = h]
                            => worker' \in [Worker -> Handlers]
  BY MoveType
<1>2. worker[w].todo \subseteq Job
  BY <1>0 DEF Handlers
<1>3. Onward(w) => worker' \in [Worker -> Handlers]
  BY <1>0, <1>1, <1>2 DEF Onward
<1>4. Throw(w) => worker' \in [Worker -> Handlers]
  BY <1>0, <1>1 DEF Throw
<1>5. ASSUME NEW pc \in PC, Goto(w, pc)
      PROVE  worker' \in [Worker -> Handlers]
  BY <1>0, <1>1, <1>5
<1>6. Refuse(w) => worker' \in [Worker -> Handlers]
  BY <1>4, <1>5 DEF Refuse
<1> DEFINE Kept == /\ status' \in [Job -> {"none", "enabled", "paused"}]
                   /\ next' \in [Job -> {"null", "future", "due"}]
                   /\ locked' \subseteq Job
                   /\ bound' \in [Job -> Chat \cup {NoChat}]
                   /\ chats' \subseteq Chat /\ busy' \subseteq Chat
                   /\ binding' \subseteq Job
                   /\ crashes' \in 0..MaxCrashes /\ faults' \in 0..MaxFaults
<1>7. worker' \in [Worker -> Handlers] /\ Kept => TypeOK'
  BY DEF TypeOK, Handlers
<1>a. CASE Poll(w)
  BY <1>a, <1>0, <1>1, <1>7 DEF Poll, TypeOK
<1>b. ASSUME NEW j \in Job, LockRead(w, j) PROVE TypeOK'
  <2>1. worker[w].todo \ {j} \subseteq Job
    BY <1>2
  <2>2. worker' \in [Worker -> Handlers]
    BY <1>b, <1>0, <1>1, <2>1 DEF LockRead
  <2> QED
    BY <1>b, <1>7, <2>2 DEF LockRead, TypeOK
<1>c. CASE LockWrite(w)
  <2>1. worker[w].job \in Job
    BY <1>c DEF LockWrite, HandlerInv
  <2> QED
    BY <1>c, <1>4, <1>5, <1>7, <2>1 DEF LockWrite, TypeOK
<1>d. CASE Ensure(w)
  <2>1. worker[w].job \in Job
    BY <1>d DEF Ensure, HandlerInv
  <2> QED
    BY <1>d, <1>5, <1>7, <2>1 DEF Ensure, TypeOK
<1>e. CASE EnsureReadJob(w)
  <2>1. bound[worker[w].job] \in Chat \cup {NoChat}
    BY <1>e DEF EnsureReadJob, HandlerInv, TypeOK
  <2>2. worker' \in [Worker -> Handlers] /\ binding' \subseteq Job
    BY <1>e, <1>0, <1>1, <2>1, SettledType DEF EnsureReadJob, TypeOK
  <2> QED
    BY <1>e, <1>7, <2>2 DEF EnsureReadJob, TypeOK
<1>f. CASE EnsureReadChat(w)
  <2>1. worker[w].chat \in Chat \cup {NoChat}
    BY <1>0 DEF Handlers
  <2>2. worker' \in [Worker -> Handlers] /\ binding' \subseteq Job
    BY <1>f, <1>0, <1>1, <2>1, SettledType DEF EnsureReadChat, TypeOK
  <2> QED
    BY <1>f, <1>7, <2>2 DEF EnsureReadChat, TypeOK
<1>g. ASSUME NEW c \in Chat, EnsureCreateChat(w, c) PROVE TypeOK'
  <2>1. worker' \in [Worker -> Handlers]
    BY <1>g, <1>0, <1>1 DEF EnsureCreateChat
  <2> QED
    BY <1>g, <1>7, <2>1 DEF EnsureCreateChat, TypeOK
<1>h. CASE EnsureBind(w)
  <2>1. worker[w].chat \in Chat \cup {NoChat}
    BY <1>0 DEF Handlers
  <2>2. worker' \in [Worker -> Handlers] /\ binding' \subseteq Job
    BY <1>h, <2>1, SettledType DEF EnsureBind
  <2> QED
    BY <1>h, <1>7, <2>1, <2>2 DEF EnsureBind, TypeOK
<1>i. CASE StartCheck(w)
  BY <1>i, <1>5, <1>6, <1>7 DEF StartCheck, TypeOK
<1>j. CASE StartCreate(w)
  <2>1. worker[w].chat \in Chat
    BY <1>j DEF StartCreate, HandlerInv
  <2> QED
    BY <1>j, <1>5, <1>7, <2>1 DEF StartCreate, TypeOK
<1>k. CASE MarkRead(w)
  <2>1. worker[w].job \in Job /\ status[worker[w].job] \in {"none", "enabled", "paused"}
    BY <1>k DEF MarkRead, HandlerInv, TypeOK
  <2>2. worker' \in [Worker -> Handlers]
    BY <1>k, <1>0, <1>1, <1>3, <2>1 DEF MarkRead
  <2> QED
    BY <1>k, <1>7, <2>2 DEF MarkRead, TypeOK
<1>l. CASE MarkRun(w)
  <2>1. worker[w].chat \in Chat \cup {NoChat}
    BY <1>0 DEF Handlers
  <2>2. worker' \in [Worker -> Handlers]
    BY <1>l, <1>4, <1>5 DEF MarkRun
  <2> QED
    BY <1>l, <1>7, <2>1, <2>2 DEF MarkRun, Settle, NextOf, TypeOK
<1>m. CASE MarkAttemptFailed(w)
  <2>1. worker' \in [Worker -> Handlers]
    BY <1>m, <1>4, <1>5 DEF MarkAttemptFailed
  <2> QED
    BY <1>m, <1>7, <2>1 DEF MarkAttemptFailed, Settle, NextOf, TypeOK
<1>n. CASE Announce(w)
  BY <1>n, <1>3, <1>7 DEF Announce, TypeOK
<1>o. CASE Fault(w)
  <2>1. worker' \in [Worker -> Handlers] /\ binding' \subseteq Job
    BY <1>o, <1>0, <1>1, <1>4, SettledType DEF Fault, TypeOK
  <2>2. faults' \in 0..MaxFaults
    BY <1>o, BoundAssumption DEF Fault, TypeOK
  <2> QED
    BY <1>o, <1>7, <2>1, <2>2 DEF Fault, TypeOK
<1>p. ASSUME NEW j \in Job, RunNow(w, j) PROVE TypeOK'
  <2>1. worker' \in [Worker -> Handlers]
    BY <1>p, <1>0, <1>1 DEF RunNow
  <2> QED
    BY <1>p, <1>7, <2>1 DEF RunNow, TypeOK
<1> QED
  BY <1>a, <1>b, <1>c, <1>d, <1>e, <1>f, <1>g, <1>h, <1>i, <1>j, <1>k, <1>l, <1>m,
     <1>n, <1>o, <1>p DEF WorkerStep

\* The steps of users, of runs, of time, and a crash keep the types.
LEMMA WorldNextType ==
  ASSUME TypeOK,
         \/ \E j \in Job : JobNext(j)
         \/ \E c \in Chat : DeleteChat(c) \/ RunEnds(c)
         \/ Crash
  PROVE  TypeOK'
<1>1. ASSUME NEW j \in Job, JobNext(j) PROVE TypeOK'
  <2>1. ASSUME NEW st \in {"enabled", "paused"}, CreateJob(j, st) PROVE TypeOK'
    BY <2>1 DEF CreateJob, NextOf, TypeOK
  <2>2. ASSUME NEW st \in {"enabled", "paused"}, EditJob(j, st) PROVE TypeOK'
    BY <2>2 DEF EditJob, NextOf, TypeOK
  <2>3. CASE DeleteJob(j)
    BY <2>3 DEF DeleteJob, TypeOK
  <2>4. CASE BecomesDue(j)
    BY <2>4 DEF BecomesDue, TypeOK
  <2>5. CASE LockExpires(j)
    BY <2>5 DEF LockExpires, TypeOK
  <2> QED
    BY <1>1, <2>1, <2>2, <2>3, <2>4, <2>5 DEF JobNext
<1>2. ASSUME NEW c \in Chat, DeleteChat(c) \/ RunEnds(c) PROVE TypeOK'
  BY <1>2 DEF DeleteChat, RunEnds, TypeOK
<1>3. CASE Crash
  <2>1. Idle \in Handlers
    BY DEF Idle, Handlers
  <2>2. worker' \in [Worker -> Handlers]
    BY <1>3, <2>1 DEF Crash
  <2> QED
    BY <1>3, <2>2, BoundAssumption DEF Crash, TypeOK, Handlers
<1> QED
  BY <1>1, <1>2, <1>3

-----------------------------------------------------------------------------
(* Handlers *)

\* HandlerInv of one handler w in state h.
HandlerOK(h, w) ==
  /\ h.pc \notin {"idle", "scan"} => h.job \in Job
  /\ h.pc \in {"scan", "claim"} \/ h.todo # {} => w \in Poller
  /\ h.pc = "create" => h.chat \in Chat
  /\ h.caught => w \in Poller /\ h.pc \in {"readFail", "fail", "failEvent"}

\* HandlerInv is HandlerOK of every handler.
LEMMA HandlersOK == HandlerInv <=> \A w \in Worker : HandlerOK(worker[w], w)
BY DEF HandlerInv, HandlerOK

\* An exception leaves a handler in order (the catch block).
LEMMA CaughtOK ==
  ASSUME TypeOK, HandlerInv, NEW w \in Worker
  PROVE  HandlerOK(Caught(w), w)
<1>1. CASE Caught(w) = Idle
  BY <1>1 DEF Idle, HandlerOK
<1>2. CASE /\ w \in Poller /\ worker[w].pc \in PC \ {"idle", "scan", "claim"}
           /\ Caught(w).pc = "readFail" /\ Caught(w).caught
           /\ Caught(w).job = worker[w].job /\ Caught(w).todo = worker[w].todo
  BY <1>2 DEF HandlerOK, HandlerInv
<1> QED
  BY <1>1, <1>2, CaughtGoes

\* A single handler that moves to a state in order keeps them all in order.
LEMMA HandlerMoves ==
  ASSUME TypeOK, HandlerInv, NEW w \in Worker, NEW h, HandlerOK(h, w),
         worker' = [worker EXCEPT ![w] = h]
  PROVE  HandlerInv'
<1>1. worker \in [Worker -> Handlers]
  BY DEF TypeOK, Handlers
<1>2. \A v \in Worker : worker'[v] = IF v = w THEN h ELSE worker[v]
  BY <1>1
<1> QED
  BY <1>2 DEF HandlerInv, HandlerOK

\* To settle a promise keeps the handlers in order (ensureScheduledJobChat).
LEMMA SettledHandlers ==
  ASSUME TypeOK, HandlerInv, NEW w \in Worker, worker[w].pc \in Ensuring,
         Reject(w) \/ \E c \in Chat \cup {NoChat} : Resolve(w, c)
  PROVE  HandlerInv'
<1>0. worker \in [Worker -> Handlers]
  BY DEF TypeOK, Handlers
<1>1. CASE Reject(w)
  <2>1. \A v \in Worker : worker'[v] \in {Caught(v), worker[v]}
    BY <1>1 DEF Reject
  <2> QED
    BY <2>1, CaughtOK DEF HandlerInv, HandlerOK
<1>2. ASSUME NEW c \in Chat \cup {NoChat}, Resolve(w, c) PROVE HandlerInv'
  <2> SUFFICES ASSUME NEW v \in Worker PROVE HandlerOK(worker'[v], v)
    BY DEF HandlerInv, HandlerOK
  <2>1. CASE v = w \/ v \in Waiting(worker[w].job)
    <3>1. worker'[v] = [worker[v] EXCEPT !.pc = "start", !.chat = c]
      BY <1>2, <2>1 DEF Resolve
    <3>2. worker'[v].pc = "start" /\ worker'[v].job = worker[v].job
            /\ worker'[v].caught = worker[v].caught
            /\ worker'[v].todo = worker[v].todo
      BY <1>0, <3>1 DEF Handlers
    <3>3. worker[v].pc \in Ensuring \cup {"wait"}
      BY <2>1 DEF Waiting
    <3> QED
      BY <3>2, <3>3 DEF HandlerInv, HandlerOK
  <2>2. CASE ~(v = w \/ v \in Waiting(worker[w].job))
    <3>1. worker'[v] = worker[v]
      BY <1>2, <2>2 DEF Resolve
    <3> QED
      BY <3>1 DEF HandlerInv, HandlerOK
  <2> QED
    BY <2>1, <2>2
<1> QED
  BY <1>1, <1>2

\* The steps of handlers keep them in order.
LEMMA WorkerNextHandlers ==
  ASSUME TypeOK, HandlerInv, NEW w \in Worker,
         Poll(w) \/ WorkerStep(w) \/ Fault(w) \/ \E j \in Job : RunNow(w, j)
  PROVE  HandlerInv'
<1>0. worker[w] \in Handlers /\ HandlerOK(worker[w], w)
  BY HandlersOK DEF TypeOK, Handlers
<1>1. \A h : HandlerOK(h, w) /\ worker' = [worker EXCEPT ![w] = h] => HandlerInv'
  BY HandlerMoves
<1>2. Throw(w) => HandlerInv'
  BY <1>1, CaughtOK DEF Throw
<1>3. Onward(w) => HandlerInv'
  <2>1. HandlerOK(Idle, w)
    BY DEF HandlerOK, Idle
  <2>2. HandlerOK([Idle EXCEPT !.pc = "scan", !.todo = worker[w].todo], w)
          \/ worker[w].todo = {}
    BY <1>0 DEF HandlerOK, Idle
  <2> QED
    BY <1>1, <2>1, <2>2 DEF Onward
<1>4. ASSUME NEW pc \in PC \ {"create", "scan", "claim"}, Goto(w, pc),
             pc = "idle" \/ worker[w].job \in Job,
             worker[w].caught => pc \in {"readFail", "fail", "failEvent"}
      PROVE  HandlerInv'
  BY <1>0, <1>1, <1>4 DEF HandlerOK, Handlers
<1>5. Refuse(w) /\ worker[w].pc = "start" => HandlerInv'
  BY <1>0, <1>2, <1>4 DEF Refuse, HandlerOK
<1>a. CASE Poll(w)
  <2>1. HandlerOK([worker[w] EXCEPT !.pc = "scan", !.todo = {j \in Job : Due(j)}], w)
    BY <1>a DEF Poll, Idle, HandlerOK
  <2> QED
    BY <1>a, <1>1, <2>1 DEF Poll
<1>b. ASSUME NEW j \in Job, LockRead(w, j) PROVE HandlerInv'
  <2>1. \A todo : /\ HandlerOK([Idle EXCEPT !.pc = "claim", !.job = j, !.todo = todo], w)
                  /\ HandlerOK([Idle EXCEPT !.pc = "scan", !.todo = todo], w)
                  /\ HandlerOK(Idle, w)
    BY <1>b, <1>0 DEF LockRead, HandlerOK, Idle
  <2> QED
    BY <1>b, <1>1, <2>1 DEF LockRead
<1>c. CASE LockWrite(w)
  BY <1>c, <1>0, <1>2, <1>4 DEF LockWrite, HandlerOK
<1>d. CASE Ensure(w)
  BY <1>d, <1>0, <1>4 DEF Ensure, HandlerOK
<1>e. CASE EnsureReadJob(w)
  <2>1. HandlerOK([worker[w] EXCEPT !.pc = "readChat", !.chat = bound[worker[w].job]], w)
    BY <1>e, <1>0 DEF EnsureReadJob, HandlerOK, Handlers
  <2> QED
    BY <1>e, <1>1, <2>1, SettledHandlers DEF EnsureReadJob
<1>f. CASE EnsureReadChat(w)
  <2>1. HandlerOK([worker[w] EXCEPT !.pc = "createChat", !.chat = NoChat], w)
    BY <1>f, <1>0 DEF EnsureReadChat, HandlerOK, Handlers
  <2>2. worker[w].chat \in Chat \cup {NoChat}
    BY <1>0 DEF Handlers
  <2> QED
    BY <1>f, <1>1, <2>1, <2>2, SettledHandlers DEF EnsureReadChat
<1>g. ASSUME NEW c \in Chat, EnsureCreateChat(w, c) PROVE HandlerInv'
  <2>1. HandlerOK([worker[w] EXCEPT !.pc = "bindChat", !.chat = c], w)
    BY <1>g, <1>0 DEF EnsureCreateChat, HandlerOK, Handlers
  <2> QED
    BY <1>g, <1>1, <2>1 DEF EnsureCreateChat
<1>h. CASE EnsureBind(w)
  <2>1. worker[w].chat \in Chat \cup {NoChat}
    BY <1>0 DEF Handlers
  <2> QED
    BY <1>h, <2>1, SettledHandlers DEF EnsureBind
<1>i. CASE StartCheck(w)
  <2>1. CASE Goto(w, "create") /\ worker[w].chat \in chats
    <3>1. HandlerOK([worker[w] EXCEPT !.pc = "create"], w)
      BY <1>i, <2>1, <1>0 DEF StartCheck, HandlerOK, Handlers, TypeOK
    <3> QED
      BY <2>1, <3>1, <1>1
  <2>2. CASE Goto(w, "readMark")
    BY <1>i, <2>2, <1>0, <1>4 DEF StartCheck, HandlerOK
  <2> QED
    BY <1>i, <2>1, <2>2, <1>5 DEF StartCheck
<1>j. CASE StartCreate(w)
  BY <1>j, <1>0, <1>4 DEF StartCreate, HandlerOK
<1>k. CASE MarkRead(w)
  <2>1. ASSUME NEW pc \in {"mark", "fail"}, worker[w].caught => pc = "fail",
               worker[w].job \in Job,
               worker' = [worker EXCEPT ![w].pc = pc, ![w].seen = status[worker[w].job]]
        PROVE  HandlerInv'
    <3>1. HandlerOK([worker[w] EXCEPT !.pc = pc, !.seen = status[worker[w].job]], w)
      BY <2>1, <1>0 DEF HandlerOK, Handlers
    <3>2. worker' = [worker EXCEPT ![w] =
                       [worker[w] EXCEPT !.pc = pc, !.seen = status[worker[w].job]]]
      BY <2>1
    <3> QED
      BY <3>1, <3>2, <1>1
  <2> QED
    BY <1>k, <1>0, <1>3, <2>1 DEF MarkRead, HandlerOK
<1>l. CASE MarkRun(w)
  BY <1>l, <1>0, <1>2, <1>4 DEF MarkRun, HandlerOK
<1>m. CASE MarkAttemptFailed(w)
  BY <1>m, <1>0, <1>2, <1>4 DEF MarkAttemptFailed, HandlerOK
<1>n. CASE Announce(w)
  BY <1>n, <1>3 DEF Announce
<1>o. CASE Fault(w)
  <2>1. worker[w].pc = "readChat" =>
          HandlerOK([worker[w] EXCEPT !.pc = "createChat", !.chat = NoChat], w)
    BY <1>0 DEF HandlerOK, Handlers
  <2>2. CASE worker[w].pc \in Ensuring \ {"readChat"} /\ Reject(w)
    <3>1. worker[w].pc \in Ensuring
      BY <2>2
    <3> QED
      BY <2>2, <3>1, SettledHandlers
  <2>3. CASE /\ At(w, "readChat")
             /\ worker' = [worker EXCEPT ![w].pc = "createChat", ![w].chat = NoChat]
    <3>1. worker' = [worker EXCEPT ![w] =
                       [worker[w] EXCEPT !.pc = "createChat", !.chat = NoChat]]
      BY <2>3
    <3> QED
      BY <2>1, <2>3, <3>1, <1>1
  <2> QED
    BY <1>o, <1>2, <2>2, <2>3 DEF Fault
<1>p. ASSUME NEW j \in Job, RunNow(w, j) PROVE HandlerInv'
  <2>1. HandlerOK([worker[w] EXCEPT !.pc = "ensure", !.job = j], w)
    BY <1>p DEF RunNow, Idle, HandlerOK
  <2>2. worker' = [worker EXCEPT ![w] = [worker[w] EXCEPT !.pc = "ensure", !.job = j]]
    BY <1>p DEF RunNow
  <2> QED
    BY <1>1, <2>1, <2>2
<1> QED
  BY <1>a, <1>b, <1>c, <1>d, <1>e, <1>f, <1>g, <1>h, <1>i, <1>j, <1>k, <1>l, <1>m,
     <1>n, <1>o, <1>p DEF WorkerStep

\* The steps of users, of runs, of time, and a crash keep them in order.
LEMMA WorldNextHandlers ==
  ASSUME TypeOK, HandlerInv,
         \/ \E j \in Job : JobNext(j)
         \/ \E c \in Chat : DeleteChat(c) \/ RunEnds(c)
         \/ Crash
  PROVE  HandlerInv'
<1>1. CASE Crash
  <2>1. \A w \in Worker : worker'[w] = Idle
    BY <1>1 DEF Crash
  <2> QED
    BY <2>1 DEF HandlerInv, Idle
<1>2. CASE worker' = worker
  BY <1>2 DEF HandlerInv
<1> QED
  BY <1>1, <1>2 DEF JobNext, CreateJob, EditJob, DeleteJob, BecomesDue,
     LockExpires, DeleteChat, RunEnds

-----------------------------------------------------------------------------
(* Locks *)

LocksHaveRows == \A j \in locked : Exists(j)

\* ClaimsAreReleased is kept by a step that takes no lock, if the pollers that
\* hold a claim of a job that stays locked go on holding it.
LEMMA ClaimsKept ==
  ASSUME TypeOK, ClaimsAreReleased, locked' \subseteq locked,
         crashes' \in Nat, faults' \in Nat,
         crashes' + faults' = 0 => crashes + faults = 0,
         \A j \in locked', w \in Poller :
           worker[w].pc \in Claimed /\ worker[w].job = j
             => worker'[w].pc \in Claimed /\ worker'[w].job = j
  PROVE  ClaimsAreReleased'
BY DEF ClaimsAreReleased

\* One handler moves: it keeps its claim, or its job is not locked.
LEMMA ClaimsMove ==
  ASSUME TypeOK, ClaimsAreReleased, NEW w \in Worker, locked' \subseteq locked,
         UNCHANGED bounds,
         NEW h, worker' = [worker EXCEPT ![w] = h],
         w \in Poller /\ worker[w].pc \in Claimed /\ worker[w].job \in locked'
           => h.pc \in Claimed /\ h.job = worker[w].job
  PROVE  ClaimsAreReleased'
<1>1. worker \in [Worker -> Handlers]
  BY DEF TypeOK, Handlers
<1>2. \A v \in Worker : worker'[v] = IF v = w THEN h ELSE worker[v]
  BY <1>1
<1>3. crashes' \in Nat /\ faults' \in Nat
  BY BoundAssumption DEF TypeOK
<1> QED
  BY <1>2, <1>3, ClaimsKept

\* The promise of a job is settled: those that awaited it keep their claims.
LEMMA SettledClaims ==
  ASSUME TypeOK, HandlerInv, ClaimsAreReleased, NEW w \in Worker,
         worker[w].pc \in Ensuring, UNCHANGED <<locked, bounds>>,
         Reject(w) \/ \E c \in Chat \cup {NoChat} : Resolve(w, c)
  PROVE  ClaimsAreReleased'
<1>1. worker \in [Worker -> Handlers]
  BY DEF TypeOK, Handlers
<1>2. ASSUME NEW v \in Poller, worker[v].pc \in Claimed
      PROVE  worker'[v].pc \in Claimed /\ worker'[v].job = worker[v].job
  <2>0. v \in Worker
    OBVIOUS
  <2>1. CASE v = w \/ v \in Waiting(worker[w].job)
    <3>1. worker[v].pc \in Ensuring \cup {"wait"}
      BY <2>1 DEF Waiting
    <3>2. ~worker[v].caught
      BY <2>0, <3>1 DEF HandlerInv
    <3>3. CASE Reject(w)
      <4>1. worker'[v] = Caught(v)
        BY <2>0, <2>1, <3>3 DEF Reject
      <4>2. Caught(v).pc = "readFail" /\ Caught(v).job = worker[v].job
        BY <2>0, <1>2, <3>2, CaughtGoes
      <4> QED
        BY <4>1, <4>2
    <3>4. ASSUME NEW c \in Chat \cup {NoChat}, Resolve(w, c)
          PROVE  worker'[v].pc \in Claimed /\ worker'[v].job = worker[v].job
      <4>1. worker'[v] = [worker[v] EXCEPT !.pc = "start", !.chat = c]
        BY <2>0, <2>1, <3>4 DEF Resolve
      <4> QED
        BY <4>1, <2>0, <1>1 DEF Handlers
    <3> QED
      BY <3>3, <3>4
  <2>2. CASE ~(v = w \/ v \in Waiting(worker[w].job))
    BY <2>0, <2>2, <1>2 DEF Reject, Resolve
  <2> QED
    BY <2>1, <2>2
<1>3. crashes' \in Nat /\ faults' \in Nat
  BY BoundAssumption DEF TypeOK
<1> QED
  BY <1>2, <1>3, ClaimsKept

\* A handler locks only a row that exists, for itself, and every way it gives
\* up its claim has released the lock (runDueScheduledJobs).
LEMMA WorkerNextLocks ==
  ASSUME TypeOK, HandlerInv, LocksHaveRows, ClaimsAreReleased, NEW w \in Worker,
         Poll(w) \/ WorkerStep(w) \/ Fault(w) \/ \E j \in Job : RunNow(w, j)
  PROVE  LocksHaveRows' /\ ClaimsAreReleased'
<1>0. /\ worker \in [Worker -> Handlers] /\ locked \subseteq Job
      /\ worker[w] \in Handlers /\ worker[w].chat \in Chat \cup {NoChat}
  BY DEF TypeOK, Handlers
<1>1. ASSUME UNCHANGED <<status, bounds>>, locked' \subseteq locked, NEW h,
             worker' = [worker EXCEPT ![w] = h],
             w \in Poller /\ worker[w].pc \in Claimed /\ worker[w].job \in locked'
               => h.pc \in Claimed /\ h.job = worker[w].job
      PROVE  LocksHaveRows' /\ ClaimsAreReleased'
  BY <1>1, ClaimsMove DEF LocksHaveRows
<1>2. ASSUME UNCHANGED <<status, bounds>>, locked' \subseteq locked, NEW pc,
             Goto(w, pc),
             w \in Poller /\ worker[w].pc \in Claimed /\ worker[w].job \in locked'
               => pc \in Claimed
      PROVE  LocksHaveRows' /\ ClaimsAreReleased'
  BY <1>0, <1>1, <1>2 DEF Handlers
<1>3. ASSUME UNCHANGED <<status, bounds>>, locked' = locked, Throw(w),
             w \in Poller /\ worker[w].pc \in Claimed /\ worker[w].job \in locked
               => ~worker[w].caught
      PROVE  LocksHaveRows' /\ ClaimsAreReleased'
  BY <1>1, <1>3, CaughtGoes DEF Throw
<1>4. ASSUME UNCHANGED <<locked, status, bounds>>, worker[w].pc \in Ensuring,
             Reject(w) \/ \E c \in Chat \cup {NoChat} : Resolve(w, c)
      PROVE  LocksHaveRows' /\ ClaimsAreReleased'
  BY <1>4, SettledClaims DEF LocksHaveRows
<1>5. ASSUME UNCHANGED <<locked, status, bounds>>, Onward(w),
             worker[w].pc \notin Claimed \/ worker[w].job \notin locked
      PROVE  LocksHaveRows' /\ ClaimsAreReleased'
  BY <1>1, <1>5 DEF Onward
<1>6. worker[w].pc \notin Claimed \/ worker[w].job \in Job
  BY DEF HandlerInv
<1>a. CASE Poll(w)
  BY <1>a, <1>1 DEF Poll, Idle
<1>b. ASSUME NEW j \in Job, LockRead(w, j) PROVE LocksHaveRows' /\ ClaimsAreReleased'
  BY <1>b, <1>1 DEF LockRead
<1>c. CASE LockWrite(w)
  <2>1. worker[w].job \in Job
    BY <1>c DEF LockWrite, HandlerInv
  <2>2. CASE Exists(worker[w].job)
    <3>2. worker' = [worker EXCEPT ![w] = [worker[w] EXCEPT !.pc = "ensure"]]
      BY <1>c, <2>2 DEF LockWrite
    <3>3. worker'[w].pc = "ensure" /\ worker'[w].job = worker[w].job
      BY <1>0, <3>2 DEF Handlers
    <3>4. \A v \in Worker \ {w} : worker'[v] = worker[v]
      BY <1>0, <3>2
    <3>5. LocksHaveRows'
      BY <1>c, <2>1, <2>2 DEF LockWrite, LocksHaveRows
    <3>6. w \in Poller
      BY <1>c DEF LockWrite, HandlerInv
    <3>7. \A j \in locked' : j \in locked \/ j = worker[w].job
      BY <1>c, <2>2 DEF LockWrite
    <3>8. worker[w].pc \notin Claimed
      BY <1>c DEF LockWrite
    <3>9. crashes' = crashes /\ faults' = faults
      BY <1>c DEF LockWrite
    <3> QED
      BY <3>3, <3>4, <3>5, <3>6, <3>7, <3>8, <3>9 DEF ClaimsAreReleased
  <2>3. CASE ~Exists(worker[w].job)
    BY <1>c, <2>3, <1>3 DEF LockWrite
  <2> QED
    BY <2>2, <2>3
<1>d. CASE Ensure(w)
  BY <1>d, <1>2 DEF Ensure
<1>7. ASSUME UNCHANGED <<status, bounds>>, locked' = locked, NEW pc \in Claimed, NEW c,
             worker' = [worker EXCEPT ![w].pc = pc, ![w].chat = c]
      PROVE  LocksHaveRows' /\ ClaimsAreReleased'
  <2>1. worker' = [worker EXCEPT ![w] = [worker[w] EXCEPT !.pc = pc, !.chat = c]]
    BY <1>7
  <2> QED
    BY <1>0, <1>1, <1>7, <2>1 DEF Handlers
<1>e. CASE EnsureReadJob(w)
  BY <1>e, <1>4, <1>7 DEF EnsureReadJob
<1>f. CASE EnsureReadChat(w)
  BY <1>0, <1>f, <1>4, <1>7 DEF EnsureReadChat
<1>g. ASSUME NEW c \in Chat, EnsureCreateChat(w, c)
      PROVE  LocksHaveRows' /\ ClaimsAreReleased'
  BY <1>g, <1>7 DEF EnsureCreateChat
<1>h. CASE EnsureBind(w)
  BY <1>0, <1>h, <1>4 DEF EnsureBind
<1>i. CASE StartCheck(w)
  <2>1. worker[w].pc = "start" /\ ~worker[w].caught
    BY <1>i DEF StartCheck, HandlerInv
  <2>2. Refuse(w) => LocksHaveRows' /\ ClaimsAreReleased'
    BY <1>i, <2>1, <1>2, <1>3 DEF StartCheck, Refuse
  <2> QED
    BY <1>i, <2>2, <1>2 DEF StartCheck
<1>j. CASE StartCreate(w)
  BY <1>j, <1>2 DEF StartCreate
<1>k. CASE MarkRead(w)
  <2>1. CASE ~Exists(worker[w].job) /\ Onward(w)
    BY <1>k, <2>1, <1>5 DEF MarkRead, LocksHaveRows
  <2>2. ASSUME NEW pc \in {"mark", "fail"},
               worker' = [worker EXCEPT ![w].pc = pc, ![w].seen = status[worker[w].job]]
        PROVE  LocksHaveRows' /\ ClaimsAreReleased'
    <3>1. worker' = [worker EXCEPT ![w] =
                       [worker[w] EXCEPT !.pc = pc, !.seen = status[worker[w].job]]]
      BY <2>2
    <3> QED
      BY <1>0, <1>k, <3>1, <1>1 DEF MarkRead, Handlers
  <2> QED
    BY <1>k, <2>1, <2>2 DEF MarkRead
<1>l. CASE MarkRun(w)
  BY <1>l, <1>2, <1>3 DEF MarkRun, Settle, LocksHaveRows
<1>m. CASE MarkAttemptFailed(w)
  BY <1>m, <1>2, <1>3 DEF MarkAttemptFailed, Settle, LocksHaveRows
<1>n. CASE Announce(w)
  BY <1>n, <1>5 DEF Announce
<1>o. CASE Fault(w)
  <2>1. crashes' + faults' # 0
    BY <1>o, BoundAssumption DEF Fault, TypeOK
  <2> QED
    BY <1>o, <2>1 DEF Fault, LocksHaveRows, ClaimsAreReleased
<1>p. ASSUME NEW j \in Job, RunNow(w, j) PROVE LocksHaveRows' /\ ClaimsAreReleased'
  <2>1. worker' = [worker EXCEPT ![w] = [worker[w] EXCEPT !.pc = "ensure", !.job = j]]
    BY <1>p DEF RunNow
  <2>2. worker[w].pc \notin Claimed
    BY <1>p DEF RunNow, Idle
  <2>3. UNCHANGED <<status, bounds>> /\ locked' = locked
    BY <1>p DEF RunNow
  <2> QED
    BY <1>1, <2>1, <2>2, <2>3
<1> QED
  BY <1>a, <1>b, <1>c, <1>d, <1>e, <1>f, <1>g, <1>h, <1>i, <1>j, <1>k, <1>l, <1>m,
     <1>n, <1>o, <1>p DEF WorkerStep

\* Users, runs and time never lock a job, and a row is deleted with its lock.
LEMMA WorldNextLocks ==
  ASSUME TypeOK, LocksHaveRows, ClaimsAreReleased,
         \/ \E j \in Job : JobNext(j)
         \/ \E c \in Chat : DeleteChat(c) \/ RunEnds(c)
         \/ Crash
  PROVE  LocksHaveRows' /\ ClaimsAreReleased'
<1>1. CASE Crash
  BY <1>1, BoundAssumption DEF Crash, LocksHaveRows, ClaimsAreReleased, TypeOK
<1>2. ASSUME NEW j \in Job, JobNext(j) PROVE LocksHaveRows' /\ ClaimsAreReleased'
  <2>1. ASSUME NEW st \in {"enabled", "paused"}, CreateJob(j, st) \/ EditJob(j, st)
        PROVE  LocksHaveRows' /\ ClaimsAreReleased'
    BY <2>1 DEF CreateJob, EditJob, LocksHaveRows, ClaimsAreReleased, TypeOK
  <2>2. CASE DeleteJob(j)
    BY <2>2 DEF DeleteJob, LocksHaveRows, ClaimsAreReleased, TypeOK
  <2>3. CASE BecomesDue(j) \/ LockExpires(j)
    BY <2>3 DEF BecomesDue, LockExpires, LocksHaveRows, ClaimsAreReleased
  <2> QED
    BY <1>2, <2>1, <2>2, <2>3 DEF JobNext
<1>3. ASSUME NEW c \in Chat, DeleteChat(c) \/ RunEnds(c)
      PROVE  LocksHaveRows' /\ ClaimsAreReleased'
  BY <1>3 DEF DeleteChat, RunEnds, LocksHaveRows, ClaimsAreReleased
<1> QED
  BY <1>1, <1>2, <1>3

-----------------------------------------------------------------------------
(* The promises of ensureScheduledJobChat *)

\* One handler moves, the map of promises stays: it enters and leaves none.
LEMMA EnsureMove ==
  ASSUME TypeOK, EnsureIsExclusive, NEW w \in Worker, binding' = binding,
         NEW h, worker' = [worker EXCEPT ![w] = h],
         h.pc \in Ensuring <=> worker[w].pc \in Ensuring,
         h.pc \in Ensuring => h.job = worker[w].job,
         h.pc = "wait" => h.job \in binding
  PROVE  EnsureIsExclusive'
<1>1. worker \in [Worker -> Handlers]
  BY DEF TypeOK, Handlers
<1>2. \A v \in Worker : worker'[v] = IF v = w THEN h ELSE worker[v]
  BY <1>1
<1>3. \A v \in Worker : worker'[v].pc \in Ensuring =>
        worker[v].pc \in Ensuring /\ worker'[v].job = worker[v].job
  BY <1>2
<1>4. \A j \in binding :
        \E v \in Worker : worker'[v].job = j /\ worker'[v].pc \in Ensuring
  BY <1>2 DEF EnsureIsExclusive
<1>5. \A v \in Worker : worker'[v].pc = "wait" => worker'[v].job \in binding
  BY <1>2 DEF EnsureIsExclusive
<1> QED
  BY <1>3, <1>4, <1>5 DEF EnsureIsExclusive

\* To settle a promise takes its entry, its handler and all who wait together.
LEMMA SettledEnsure ==
  ASSUME TypeOK, EnsureIsExclusive, NEW w \in Worker, worker[w].pc \in Ensuring,
         Reject(w) \/ \E c \in Chat \cup {NoChat} : Resolve(w, c)
  PROVE  EnsureIsExclusive'
<1> DEFINE settled == {w} \cup Waiting(worker[w].job)
<1>0. worker \in [Worker -> Handlers]
  BY DEF TypeOK, Handlers
<1>1. \A v \in settled : v \in Worker /\ worker'[v].pc \notin Ensuring \cup {"wait"}
  <2> SUFFICES ASSUME NEW v \in settled
               PROVE  v \in Worker /\ worker'[v].pc \notin Ensuring \cup {"wait"}
    OBVIOUS
  <2>0. v \in Worker
    BY DEF Waiting
  <2>1. CASE Reject(w)
    <3>1. worker'[v] = Caught(v)
      BY <2>0, <2>1 DEF Reject
    <3>2. Caught(v).pc \in {"idle", "readFail"}
      BY <2>0, CaughtGoes DEF Idle
    <3> QED
      BY <2>0, <3>1, <3>2
  <2>2. ASSUME NEW c \in Chat \cup {NoChat}, Resolve(w, c)
        PROVE  worker'[v].pc \notin Ensuring \cup {"wait"}
    <3>1. worker'[v] = [worker[v] EXCEPT !.pc = "start", !.chat = c]
      BY <2>0, <2>2 DEF Resolve
    <3> QED
      BY <2>0, <3>1, <1>0 DEF Handlers
  <2> QED
    BY <2>0, <2>1, <2>2
<1>2. \A v \in Worker \ settled : worker'[v] = worker[v]
  BY DEF Reject, Resolve
<1>3. binding' = binding \ {worker[w].job}
  BY DEF Reject, Resolve
<1>4. \A v \in Worker : worker[v].pc \in Ensuring /\ worker[v].job = worker[w].job => v = w
  BY DEF EnsureIsExclusive
<1>5. ASSUME NEW j \in binding'
      PROVE  \E v \in Worker : worker'[v].job = j /\ worker'[v].pc \in Ensuring
  <2>1. PICK v \in Worker : worker[v].job = j /\ worker[v].pc \in Ensuring
    BY <1>3, <1>5 DEF EnsureIsExclusive
  <2>2. v \notin settled
    BY <1>3, <1>5, <2>1 DEF Waiting
  <2> QED
    BY <1>2, <2>1, <2>2
<1>6. ASSUME NEW v \in Worker, worker'[v].pc \in Ensuring \cup {"wait"}
      PROVE  v \notin settled /\ worker'[v] = worker[v] /\ worker'[v].job \in binding'
  <2>1. v \notin settled /\ worker'[v] = worker[v]
    BY <1>1, <1>2, <1>6
  <2>2. worker[v].job \in binding
    BY <1>6, <2>1 DEF EnsureIsExclusive
  <2>3. worker[v].job # worker[w].job
    BY <1>4, <1>6, <2>1 DEF Waiting
  <2> QED
    BY <1>3, <2>1, <2>2, <2>3
<1> QED
  BY <1>5, <1>6 DEF EnsureIsExclusive

\* The steps of handlers keep the promises exclusive.
LEMMA WorkerNextEnsure ==
  ASSUME TypeOK, HandlerInv, EnsureIsExclusive, NEW w \in Worker,
         Poll(w) \/ WorkerStep(w) \/ Fault(w) \/ \E j \in Job : RunNow(w, j)
  PROVE  EnsureIsExclusive'
<1>0. /\ worker \in [Worker -> Handlers]
      /\ worker[w] \in Handlers /\ worker[w].chat \in Chat \cup {NoChat}
  BY DEF TypeOK, Handlers
<1>1. ASSUME binding' = binding, worker[w].pc \notin Ensuring, NEW h,
             worker' = [worker EXCEPT ![w] = h], h.pc \notin Ensuring \cup {"wait"}
      PROVE  EnsureIsExclusive'
  BY <1>1, EnsureMove
<1>2. ASSUME binding' = binding, worker[w].pc \notin Ensuring,
             NEW pc, pc \notin Ensuring \cup {"wait"}, Goto(w, pc)
      PROVE  EnsureIsExclusive'
  BY <1>0, <1>1, <1>2 DEF Handlers
<1>3. ASSUME binding' = binding, worker[w].pc \notin Ensuring, Throw(w)
      PROVE  EnsureIsExclusive'
  <2>1. Caught(w).pc \in {"idle", "readFail"}
    BY CaughtGoes DEF Idle
  <2> QED
    BY <1>1, <1>3, <2>1 DEF Throw
<1>4. ASSUME binding' = binding, worker[w].pc \notin Ensuring, Onward(w)
      PROVE  EnsureIsExclusive'
  <2>1. Idle.pc \notin Ensuring \cup {"wait"}
    BY DEF Idle
  <2>2. [Idle EXCEPT !.pc = "scan", !.todo = worker[w].todo].pc \notin Ensuring \cup {"wait"}
    BY DEF Idle
  <2> QED
    BY <1>1, <1>4, <2>1, <2>2 DEF Onward
<1>5. ASSUME binding' = binding, worker[w].pc \in Ensuring, NEW pc \in Ensuring, NEW c,
             worker' = [worker EXCEPT ![w].pc = pc, ![w].chat = c]
      PROVE  EnsureIsExclusive'
  <2>1. worker' = [worker EXCEPT ![w] = [worker[w] EXCEPT !.pc = pc, !.chat = c]]
    BY <1>5
  <2>2. /\ [worker[w] EXCEPT !.pc = pc, !.chat = c].pc = pc
        /\ [worker[w] EXCEPT !.pc = pc, !.chat = c].job = worker[w].job
    BY <1>0 DEF Handlers
  <2> QED
    BY <1>5, <2>1, <2>2, EnsureMove
<1>a. CASE Poll(w)
  <2>1. worker' = [worker EXCEPT ![w] =
          [worker[w] EXCEPT !.pc = "scan", !.todo = {j \in Job : Due(j)}]]
    BY <1>a DEF Poll
  <2> QED
    BY <1>a, <1>1, <2>1 DEF Poll, Idle
<1>b. ASSUME NEW j \in Job, LockRead(w, j) PROVE EnsureIsExclusive'
  BY <1>b, <1>1 DEF LockRead, Idle
<1>c. CASE LockWrite(w)
  BY <1>c, <1>2, <1>3 DEF LockWrite
<1>d. CASE Ensure(w)
  <2>1. CASE worker[w].job \in binding
    <3>1. worker' = [worker EXCEPT ![w] = [worker[w] EXCEPT !.pc = "wait"]]
      BY <1>d, <2>1 DEF Ensure
    <3> QED
      BY <1>0, <1>d, <2>1, <3>1, EnsureMove DEF Ensure, Handlers
  <2>2. CASE worker[w].job \notin binding
    <3>1. worker' = [worker EXCEPT ![w] = [worker[w] EXCEPT !.pc = "readJob"]]
      BY <1>d, <2>2 DEF Ensure
    <3>2. worker'[w].pc = "readJob" /\ worker'[w].job = worker[w].job
      BY <1>0, <3>1 DEF Handlers
    <3>3. \A v \in Worker \ {w} : worker'[v] = worker[v]
      BY <1>0, <3>1
    <3>4. binding' = binding \cup {worker[w].job} /\ worker[w].pc \notin Ensuring
      BY <1>d, <2>2 DEF Ensure
    <3>5. \A v \in Worker \ {w} : worker[v].pc \in Ensuring
                                   => worker[v].job # worker[w].job
      BY <2>2 DEF EnsureIsExclusive
    <3>6. ASSUME NEW j \in binding'
          PROVE  \E v \in Worker : worker'[v].job = j /\ worker'[v].pc \in Ensuring
      <4>1. CASE j = worker[w].job
        BY <3>2, <4>1
      <4>2. CASE j \in binding
        <5>1. PICK v \in Worker : worker[v].job = j /\ worker[v].pc \in Ensuring
          BY <4>2 DEF EnsureIsExclusive
        <5> QED
          BY <3>3, <3>4, <5>1
      <4> QED
        BY <3>4, <4>1, <4>2
    <3>7. \A v \in Worker : worker'[v].pc \in Ensuring \cup {"wait"}
            => worker'[v].job \in binding'
      BY <3>2, <3>3, <3>4 DEF EnsureIsExclusive
    <3>8. \A u, v \in Worker : worker'[u].pc \in Ensuring /\ worker'[v].pc \in Ensuring
            /\ worker'[u].job = worker'[v].job => u = v
      BY <3>2, <3>3, <3>5 DEF EnsureIsExclusive
    <3> QED
      BY <3>6, <3>7, <3>8 DEF EnsureIsExclusive
  <2> QED
    BY <2>1, <2>2
<1>e. CASE EnsureReadJob(w)
  BY <1>e, <1>5, SettledEnsure DEF EnsureReadJob
<1>f. CASE EnsureReadChat(w)
  BY <1>0, <1>f, <1>5, SettledEnsure DEF EnsureReadChat
<1>g. ASSUME NEW c \in Chat, EnsureCreateChat(w, c) PROVE EnsureIsExclusive'
  BY <1>g, <1>5 DEF EnsureCreateChat
<1>h. CASE EnsureBind(w)
  BY <1>0, <1>h, SettledEnsure DEF EnsureBind
<1>i. CASE StartCheck(w)
  BY <1>i, <1>2, <1>3 DEF StartCheck, Refuse
<1>j. CASE StartCreate(w)
  BY <1>j, <1>2 DEF StartCreate
<1>k. CASE MarkRead(w)
  <2>1. ASSUME NEW pc \in {"mark", "fail"}, worker[w].pc \notin Ensuring,
               binding' = binding,
               worker' = [worker EXCEPT ![w].pc = pc, ![w].seen = status[worker[w].job]]
        PROVE  EnsureIsExclusive'
    <3>1. worker' = [worker EXCEPT ![w] =
                       [worker[w] EXCEPT !.pc = pc, !.seen = status[worker[w].job]]]
      BY <2>1
    <3>2. [worker[w] EXCEPT !.pc = pc, !.seen = status[worker[w].job]].pc = pc
      BY <1>0 DEF Handlers
    <3> QED
      BY <2>1, <3>1, <3>2, <1>1
  <2> QED
    BY <1>k, <1>4, <2>1 DEF MarkRead
<1>l. CASE MarkRun(w)
  BY <1>l, <1>2, <1>3 DEF MarkRun
<1>m. CASE MarkAttemptFailed(w)
  BY <1>m, <1>2, <1>3 DEF MarkAttemptFailed
<1>n. CASE Announce(w)
  BY <1>n, <1>4 DEF Announce
<1>o. CASE Fault(w)
  BY <1>o, <1>3, <1>5, SettledEnsure DEF Fault
<1>p. ASSUME NEW j \in Job, RunNow(w, j) PROVE EnsureIsExclusive'
  <2>1. worker' = [worker EXCEPT ![w] = [worker[w] EXCEPT !.pc = "ensure", !.job = j]]
    BY <1>p DEF RunNow
  <2>2. [worker[w] EXCEPT !.pc = "ensure", !.job = j].pc = "ensure"
    BY <1>0 DEF Handlers
  <2>3. worker[w].pc \notin Ensuring /\ binding' = binding
    BY <1>p DEF RunNow, Idle
  <2> QED
    BY <1>1, <2>1, <2>2, <2>3
<1> QED
  BY <1>a, <1>b, <1>c, <1>d, <1>e, <1>f, <1>g, <1>h, <1>i, <1>j, <1>k, <1>l, <1>m,
     <1>n, <1>o, <1>p DEF WorkerStep

\* Users, runs and time settle nothing; a crash takes all promises at once.
LEMMA WorldNextEnsure ==
  ASSUME EnsureIsExclusive,
         \/ \E j \in Job : JobNext(j)
         \/ \E c \in Chat : DeleteChat(c) \/ RunEnds(c)
         \/ Crash
  PROVE  EnsureIsExclusive'
<1>1. CASE Crash
  <2>1. binding' = {} /\ \A w \in Worker : worker'[w].pc = "idle"
    BY <1>1 DEF Crash, Idle
  <2> QED
    BY <2>1 DEF EnsureIsExclusive
<1>2. CASE UNCHANGED <<worker, binding>>
  BY <1>2 DEF EnsureIsExclusive
<1> QED
  BY <1>1, <1>2 DEF JobNext, CreateJob, EditJob, DeleteJob, BecomesDue,
     LockExpires, DeleteChat, RunEnds

-----------------------------------------------------------------------------
(* The theorems *)

\* The inductive invariant holds before the first request.
LEMMA InitIInv == Init => IInv
<1> SUFFICES ASSUME Init PROVE IInv
  OBVIOUS
<1>1. TypeOK
  <2>1. Idle \in Handlers
    BY DEF Idle, Handlers
  <2> QED
    BY <2>1, BoundAssumption DEF Init, TypeOK, Handlers
<1>2. \A w \in Worker : worker[w] = Idle
  BY DEF Init
<1>3. HandlerInv /\ EnsureIsExclusive
  BY <1>2 DEF Init, Idle, HandlerInv, EnsureIsExclusive
<1> QED
  BY <1>1, <1>3 DEF Init, IInv, ClaimsAreReleased

\* Every step keeps the inductive invariant.
LEMMA NextIInv == IInv /\ [Next]_vars => IInv'
<1> SUFFICES ASSUME IInv, [Next]_vars PROVE IInv'
  OBVIOUS
<1>0. TypeOK /\ HandlerInv /\ LocksHaveRows /\ ClaimsAreReleased /\ EnsureIsExclusive
  BY DEF IInv, LocksHaveRows
<1>1. CASE \E w \in Worker :
             Poll(w) \/ WorkerStep(w) \/ Fault(w) \/ \E j \in Job : RunNow(w, j)
  BY <1>0, <1>1, WorkerNextType, WorkerNextHandlers, WorkerNextLocks,
     WorkerNextEnsure DEF IInv, LocksHaveRows
<1>2. CASE \/ \E j \in Job : JobNext(j)
           \/ \E c \in Chat : DeleteChat(c) \/ RunEnds(c)
           \/ Crash
  BY <1>0, <1>2, WorldNextType, WorldNextHandlers, WorldNextLocks,
     WorldNextEnsure DEF IInv, LocksHaveRows
<1>3. CASE UNCHANGED vars
  BY <1>3 DEF vars, IInv, TypeOK, HandlerInv, ClaimsAreReleased, EnsureIsExclusive
<1> QED
  BY <1>1, <1>2, <1>3 DEF Next

\* The inductive invariant holds in every reachable state.
THEOREM JobsInvariant == Spec => []IInv
BY InitIInv, NextIInv, PTL DEF Spec

\* No scan leaves a job locked behind it, for any number of jobs, pollers and
\* manual runs (runDueScheduledJobs).
THEOREM ClaimsReleased == Spec => []ClaimsAreReleased
<1>1. IInv => ClaimsAreReleased
  BY DEF IInv
<1> QED
  BY <1>1, JobsInvariant, PTL

\* The map of promises is a mutex, crashes and failing calls included
\* (ensureScheduledJobChat).
THEOREM EnsureExclusive == Spec => []EnsureIsExclusive
<1>1. IInv => EnsureIsExclusive
  BY DEF IInv
<1> QED
  BY <1>1, JobsInvariant, PTL
=============================================================================
