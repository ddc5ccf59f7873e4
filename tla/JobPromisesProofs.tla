-------------------------- MODULE JobPromisesProofs --------------------------
(***************************************************************************)
(* ScheduledJobs implements SingleFlight, for any jobs, handlers, chats,   *)
(* crashes and failing calls.  The argument: a step moves one handler that *)
(* neither works on a promise nor awaits one, or moves a handler on within *)
(* its work, or enters ensureScheduledJobChat, or settles the promise of a *)
(* job for the one handler that works on it and all that await it.         *)
(***************************************************************************)
EXTENDS ScheduledJobsProofs

USE DEF Worker, Ensuring, Claimed, PC, rows, world, bounds, Goto, At, Exists, Due

\* How a step moves the handlers.
Promised == Ensuring \cup {"wait"}
Moves(w, h) == worker' = [worker EXCEPT ![w] = h]
Away(w, h) ==
  /\ Moves(w, h)
  /\ worker[w].pc \notin Promised /\ h.pc \notin Promised \cup {"start"}
Works(w, h) ==
  /\ Moves(w, h)
  /\ worker[w].pc \in Ensuring /\ h.pc \in Ensuring /\ h.job = worker[w].job
Settles(w) ==
  /\ worker[w].pc \in Ensuring
  /\ Reject(w) \/ \E c \in Chat \cup {NoChat} : Resolve(w, c)
WorksAt(w, pc, c) == worker' = [worker EXCEPT ![w].pc = pc, ![w].chat = c]
Shape(w) == \E h : Away(w, h) \/ Works(w, h)

\* Every step of a handler has one of these shapes.
LEMMA Shapes ==
  ASSUME TypeOK, HandlerInv, NEW w \in Worker,
         Poll(w) \/ WorkerStep(w) \/ Fault(w) \/ \E j \in Job : RunNow(w, j)
  PROVE  Shape(w) \/ Ensure(w) \/ Settles(w)
<1>0. /\ worker \in [Worker -> Handlers] /\ worker[w] \in Handlers
      /\ worker[w].chat \in Chat \cup {NoChat}
  BY DEF TypeOK, Handlers
<1>1. ASSUME NEW pc \in PC \ (Promised \cup {"start"}), Goto(w, pc),
             worker[w].pc \notin Promised
      PROVE  Shape(w)
  <2>1. Away(w, [worker[w] EXCEPT !.pc = pc])
    BY <1>0, <1>1 DEF Away, Moves, Promised, Handlers
  <2> QED
    BY <2>1 DEF Shape
<1>2. ASSUME Throw(w), worker[w].pc \notin Promised PROVE Shape(w)
  <2>1. Caught(w).pc \in {"readFail", "idle"}
    BY CaughtGoes DEF Idle
  <2>2. Away(w, Caught(w))
    BY <1>2, <2>1 DEF Away, Moves, Promised, Throw
  <2> QED
    BY <2>2 DEF Shape
<1>3. ASSUME Onward(w), worker[w].pc \notin Promised PROVE Shape(w)
  <2> DEFINE h == IF worker[w].todo = {} THEN Idle
                  ELSE [Idle EXCEPT !.pc = "scan", !.todo = worker[w].todo]
  <2>1. Moves(w, h)
    BY <1>3 DEF Onward, Moves
  <2>2. h.pc \in {"idle", "scan"}
    BY DEF Idle
  <2>3. Away(w, h)
    BY <1>3, <2>1, <2>2 DEF Away, Promised
  <2> QED
    BY <2>3 DEF Shape
<1>4. ASSUME NEW pc \in Ensuring, NEW c, worker[w].pc \in Ensuring,
             WorksAt(w, pc, c)
      PROVE  Shape(w)
  <2>1. Moves(w, [worker[w] EXCEPT !.pc = pc, !.chat = c])
    BY <1>4 DEF Moves, WorksAt
  <2>2. Works(w, [worker[w] EXCEPT !.pc = pc, !.chat = c])
    BY <1>0, <1>4, <2>1 DEF Works, Handlers
  <2> QED
    BY <2>2 DEF Shape
<1>a. CASE Poll(w)
  <2> DEFINE due == {j \in Job : Due(j)}
  <2>0. worker[w].pc = "idle"
    BY <1>a DEF Poll, Idle
  <2>1. worker' = [worker EXCEPT ![w] = [worker[w] EXCEPT !.pc = "scan", !.todo = due]]
    BY <1>a DEF Poll
  <2> HIDE DEF due
  <2>2. Away(w, [worker[w] EXCEPT !.pc = "scan", !.todo = due])
    BY <1>0, <2>0, <2>1 DEF Away, Moves, Promised, Handlers
  <2> QED
    BY <2>2 DEF Shape
<1>b. ASSUME NEW j \in Job, LockRead(w, j) PROVE Shape(w)
  <2> DEFINE rest == worker[w].todo \ {j}
             h == IF Due(j) THEN [Idle EXCEPT !.pc = "claim", !.job = j, !.todo = rest]
                  ELSE IF rest = {} THEN Idle
                  ELSE [Idle EXCEPT !.pc = "scan", !.todo = rest]
  <2>1. Moves(w, h) /\ worker[w].pc = "scan"
    BY <1>b DEF LockRead, Moves
  <2>2. h.pc \in {"claim", "idle", "scan"}
    BY DEF Idle
  <2>3. Away(w, h)
    BY <2>1, <2>2 DEF Away, Promised
  <2> QED
    BY <2>3 DEF Shape
<1>c. CASE LockWrite(w)
  BY <1>c, <1>1, <1>2 DEF LockWrite, Promised
<1>d. CASE EnsureReadJob(w)
  <2>1. CASE Reject(w)
    <3>1. Settles(w)
      BY <1>d, <2>1 DEF EnsureReadJob, Settles
    <3> QED
      BY <3>1
  <2>2. CASE worker' = [worker EXCEPT ![w].pc = "readChat", ![w].chat = bound[worker[w].job]]
    <3>1. worker[w].pc \in Ensuring /\ WorksAt(w, "readChat", bound[worker[w].job])
      BY <1>d, <2>2 DEF EnsureReadJob, WorksAt
    <3> QED
      BY <1>4, <3>1
  <2> QED
    BY <1>d, <2>1, <2>2 DEF EnsureReadJob
<1>e. CASE EnsureReadChat(w)
  <2>1. CASE Resolve(w, worker[w].chat)
    <3>1. Settles(w)
      BY <1>0, <1>e, <2>1 DEF EnsureReadChat, Settles
    <3> QED
      BY <3>1
  <2>2. CASE worker' = [worker EXCEPT ![w].pc = "createChat", ![w].chat = NoChat]
    <3>1. worker[w].pc \in Ensuring /\ WorksAt(w, "createChat", NoChat)
      BY <1>e, <2>2 DEF EnsureReadChat, WorksAt
    <3> QED
      BY <1>4, <3>1
  <2> QED
    BY <1>e, <2>1, <2>2 DEF EnsureReadChat
<1>f. ASSUME NEW c \in Chat, EnsureCreateChat(w, c) PROVE Shape(w)
  <2>1. worker[w].pc \in Ensuring /\ WorksAt(w, "bindChat", c)
    BY <1>f DEF EnsureCreateChat, WorksAt
  <2> QED
    BY <1>4, <2>1
<1>g. CASE EnsureBind(w)
  BY <1>0, <1>g DEF EnsureBind, Settles
<1>h. CASE StartCheck(w)
  BY <1>h, <1>1, <1>2 DEF StartCheck, Refuse, Promised
<1>i. CASE StartCreate(w)
  BY <1>i, <1>1 DEF StartCreate, Promised
<1>j. CASE MarkRead(w)
  <2>1. CASE Onward(w)
    BY <1>j, <1>3, <2>1 DEF MarkRead, Promised
  <2>2. ASSUME NEW pc \in {"mark", "fail"},
               worker' = [worker EXCEPT ![w].pc = pc, ![w].seen = status[worker[w].job]]
        PROVE  Shape(w)
    <3>1. Moves(w, [worker[w] EXCEPT !.pc = pc, !.seen = status[worker[w].job]])
      BY <2>2 DEF Moves
    <3>2. Away(w, [worker[w] EXCEPT !.pc = pc, !.seen = status[worker[w].job]])
      BY <1>0, <1>j, <3>1 DEF MarkRead, Away, Promised, Handlers
    <3> QED
      BY <3>2 DEF Shape
  <2> QED
    BY <1>j, <2>1, <2>2 DEF MarkRead
<1>k. CASE MarkRun(w)
  BY <1>k, <1>1, <1>2 DEF MarkRun, Promised
<1>l. CASE MarkAttemptFailed(w)
  BY <1>l, <1>1, <1>2 DEF MarkAttemptFailed, Promised
<1>m. CASE Announce(w)
  BY <1>m, <1>3 DEF Announce, Promised
<1>n. CASE Fault(w)
  <2>1. CASE /\ At(w, "readChat")
             /\ worker' = [worker EXCEPT ![w].pc = "createChat", ![w].chat = NoChat]
    <3>1. worker[w].pc \in Ensuring /\ WorksAt(w, "createChat", NoChat)
      BY <2>1 DEF WorksAt
    <3> QED
      BY <1>4, <3>1
  <2>2. CASE worker[w].pc \in Ensuring \ {"readChat"} /\ Reject(w)
    BY <2>2 DEF Settles
  <2>3. CASE worker[w].pc \notin Ensuring \cup {"idle", "ensure", "wait"} /\ Throw(w)
    BY <1>2, <2>3 DEF Promised
  <2> QED
    BY <1>n, <2>1, <2>2, <2>3 DEF Fault
<1>o. ASSUME NEW j \in Job, RunNow(w, j) PROVE Shape(w)
  <2>0. worker[w].pc = "idle"
    BY <1>o DEF RunNow, Idle
  <2>1. Moves(w, [worker[w] EXCEPT !.pc = "ensure", !.job = j])
    BY <1>o DEF RunNow, Moves
  <2>2. Away(w, [worker[w] EXCEPT !.pc = "ensure", !.job = j])
    BY <1>0, <2>0, <2>1 DEF Away, Promised, Handlers
  <2> QED
    BY <2>2 DEF Shape
<1> QED
  BY <1>a, <1>b, <1>c, <1>d, <1>e, <1>f, <1>g, <1>h, <1>i, <1>j, <1>k, <1>l,
     <1>m, <1>n, <1>o DEF WorkerStep

-----------------------------------------------------------------------------
(* Those who await the promise *)

\* The action AnswersAreShared asks of each handler that awaits a promise.
Shared(v) ==
  worker[v].pc = "wait" /\ worker'[v].pc # "wait" =>
    \E w \in Worker :
      /\ worker[w].pc \in Ensuring /\ worker'[w].pc \notin Ensuring
      /\ worker[w].job = worker[v].job
      /\ worker'[v].pc = "start" <=> worker'[w].pc = "start"
      /\ worker'[v].pc = "start" => worker'[v].chat = worker'[w].chat

\* A settled promise leaves alone the handlers that do not await it.
LEMMA SettledApart ==
  ASSUME NEW w \in Worker, Settles(w),
         NEW v \in Worker, v # w, v \notin Waiting(worker[w].job)
  PROVE  worker'[v] = worker[v]
BY DEF Settles, Reject, Resolve

\* A step of a handler shares the answer with all that await it.
LEMMA StepShares ==
  ASSUME TypeOK, NEW w \in Worker, Shape(w) \/ Ensure(w) \/ Settles(w),
         NEW v \in Worker
  PROVE  Shared(v)
<1>0. worker \in [Worker -> Handlers]
  BY DEF TypeOK, Handlers
<1>1. CASE Shape(w)
  <2>1. v # w => worker'[v] = worker[v]
    BY <1>0, <1>1 DEF Shape, Away, Works, Moves
  <2>2. worker[w].pc # "wait"
    BY <1>1 DEF Shape, Away, Works, Promised
  <2> QED
    BY <2>1, <2>2 DEF Shared
<1>2. CASE Ensure(w)
  BY <1>0, <1>2 DEF Ensure, Shared
<1>3. CASE Settles(w)
  <2>1. CASE v \in Waiting(worker[w].job)
    <3>1. /\ worker[w].pc \in Ensuring
          /\ worker[w].job = worker[v].job
      BY <1>3, <2>1 DEF Settles, Waiting
    <3>2. CASE Reject(w)
      <4>1. worker'[v] = Caught(v) /\ worker'[w] = Caught(w)
        BY <2>1, <3>2 DEF Reject
      <4>2. Caught(v).pc \in {"idle", "readFail"} /\ Caught(w).pc \in {"idle", "readFail"}
        BY CaughtGoes DEF Idle
      <4> QED
        BY <3>1, <4>1, <4>2 DEF Shared
    <3>3. ASSUME NEW c \in Chat \cup {NoChat}, Resolve(w, c) PROVE Shared(v)
      <4>1. /\ worker'[v] = [worker[v] EXCEPT !.pc = "start", !.chat = c]
            /\ worker'[w] = [worker[w] EXCEPT !.pc = "start", !.chat = c]
        BY <2>1, <3>3 DEF Resolve
      <4>2. /\ worker'[v].pc = "start" /\ worker'[v].chat = c
            /\ worker'[w].pc = "start" /\ worker'[w].chat = c
        BY <1>0, <4>1 DEF Handlers
      <4> QED
        BY <3>1, <4>2 DEF Shared
    <3> QED
      BY <1>3, <3>2, <3>3 DEF Settles
  <2>2. CASE v = w
    BY <1>3, <2>2 DEF Settles, Shared
  <2>3. CASE v # w /\ v \notin Waiting(worker[w].job)
    BY <1>3, <2>3, SettledApart DEF Shared
  <2> QED
    BY <2>1, <2>2, <2>3
<1> QED
  BY <1>1, <1>2, <1>3

\* So does a crash: whoever awaits a promise has the handler it awaits, and
\* that one is gone as well.
LEMMA CrashShares ==
  ASSUME IInv, Crash, NEW v \in Worker
  PROVE  Shared(v)
<1> SUFFICES ASSUME worker[v].pc = "wait" PROVE Shared(v)
  BY DEF Shared
<1>1. worker[v].job \in binding
  BY DEF IInv, EnsureIsExclusive
<1>2. PICK w \in Worker : worker[w].job = worker[v].job /\ worker[w].pc \in Ensuring
  BY <1>1 DEF IInv, EnsureIsExclusive
<1>3. worker'[v].pc = "idle" /\ worker'[w].pc = "idle"
  BY DEF Crash, Idle
<1> QED
  BY <1>2, <1>3 DEF Shared

\* Handlers that await the promise of a job leave it with the handler that
\* worked on it, all to the same chat or all without one, for any number of
\* them (ensureScheduledJobChat).
THEOREM SharedAnswers == Spec => AnswersAreShared
<1> DEFINE A == \A v \in Worker : Shared(v)
<1>1. ASSUME IInv, [Next]_vars PROVE [A]_vars
  <2>1. ASSUME NEW w \in Worker,
               Poll(w) \/ WorkerStep(w) \/ Fault(w) \/ \E j \in Job : RunNow(w, j)
        PROVE  A
    BY <1>1, <2>1, Shapes, StepShares DEF IInv
  <2>2. CASE Crash
    BY <1>1, <2>2, CrashShares
  <2>3. ASSUME NEW j \in Job, JobNext(j) PROVE UNCHANGED worker
    BY <2>3 DEF JobNext, CreateJob, EditJob, DeleteJob, BecomesDue, LockExpires
  <2>4. ASSUME NEW c \in Chat, DeleteChat(c) \/ RunEnds(c) PROVE UNCHANGED worker
    BY <2>4 DEF DeleteChat, RunEnds
  <2>5. UNCHANGED worker => A
    BY DEF Shared
  <2> QED
    BY <1>1, <2>1, <2>2, <2>3, <2>4, <2>5 DEF Next
<1>2. [A]_vars =>
        [\A v \in Worker : worker[v].pc = "wait" /\ worker'[v].pc # "wait" =>
           \E w \in Worker :
             /\ worker[w].pc \in Ensuring /\ worker'[w].pc \notin Ensuring
             /\ worker[w].job = worker[v].job
             /\ worker'[v].pc = "start" <=> worker'[w].pc = "start"
             /\ worker'[v].pc = "start" => worker'[v].chat = worker'[w].chat]_vars
  BY DEF Shared
<1> HIDE DEF A
<1> QED
  BY <1>1, <1>2, JobsInvariant, PTL DEF Spec, AnswersAreShared

-----------------------------------------------------------------------------
(* The refinement *)

Calls == [w \in Worker |-> CallOf(w)]

\* What a handler is to the map of promises, by where it waits.
LEMMA Roles ==
  ASSUME NEW w \in Worker
  PROVE  /\ worker[w].pc \notin Promised \cup {"start"} =>
              CallOf(w) = Promises!Out(NoChat)
         /\ worker[w].pc = "start" => CallOf(w) = Promises!Out(worker[w].chat)
         /\ worker[w].pc \in Ensuring => CallOf(w) = Promises!Leading(worker[w].job)
         /\ worker[w].pc = "wait" => CallOf(w) = Promises!Following(worker[w].job)
BY DEF CallOf, Promised, Promises!Out, Promises!Leading, Promises!Following

LEMMA RolesNext ==
  ASSUME NEW w \in Worker
  PROVE  /\ worker'[w].pc \notin Promised \cup {"start"} =>
              CallOf(w)' = Promises!Out(NoChat)
         /\ worker'[w].pc = "start" => CallOf(w)' = Promises!Out(worker'[w].chat)
         /\ worker'[w].pc \in Ensuring => CallOf(w)' = Promises!Leading(worker'[w].job)
         /\ worker'[w].pc = "wait" => CallOf(w)' = Promises!Following(worker'[w].job)
BY DEF CallOf, Promised, Promises!Out, Promises!Leading, Promises!Following

\* A handler that moves alone changes its own call only.
LEMMA CallMoves ==
  ASSUME TypeOK, NEW w \in Worker, NEW h, Moves(w, h)
  PROVE  /\ worker'[w] = h
         /\ Calls' = [Calls EXCEPT ![w] = CallOf(w)']
<1>1. worker'[w] = h /\ \A v \in Worker \ {w} : worker'[v] = worker[v]
  BY DEF TypeOK, Moves
<1>2. \A v \in Worker \ {w} : CallOf(v)' = CallOf(v)
  BY <1>1 DEF CallOf
<1> QED
  BY <1>1, <1>2 DEF Calls

\* A job has an entry in the map exactly when some handler leads it.
LEMMA EntriesAreLed ==
  ASSUME EnsureIsExclusive, NEW j \in Job
  PROVE  j \in binding <=> \E v \in Worker : CallOf(v) = Promises!Leading(j)
<1>1. ASSUME j \in binding PROVE \E v \in Worker : CallOf(v) = Promises!Leading(j)
  BY <1>1, Roles DEF EnsureIsExclusive
<1>2. ASSUME NEW v \in Worker, CallOf(v) = Promises!Leading(j) PROVE j \in binding
  <2>1. CallOf(v).role = "lead" /\ CallOf(v).key = j
    BY <1>2 DEF Promises!Leading
  <2>2. worker[v].pc \in Ensuring /\ worker[v].job = j
    BY <2>1 DEF CallOf
  <2> QED
    BY <2>2 DEF EnsureIsExclusive
<1> QED
  BY <1>1, <1>2

LEMMA ShapeMaps ==
  ASSUME TypeOK, NEW w \in Worker, Shape(w)
  PROVE  [Promises!Next]_Calls
<1>1. PICK h : Away(w, h) \/ Works(w, h)
  BY DEF Shape
<1>2. /\ worker'[w] = h
      /\ Calls' = [Calls EXCEPT ![w] = CallOf(w)']
  BY <1>1, CallMoves DEF Away, Works
<1>3. CASE Away(w, h)
  <2>1. CallOf(w)' = Promises!Out(NoChat)
    BY <1>2, <1>3, RolesNext DEF Away
  <2>2. CallOf(w).role = "out"
    BY <1>3 DEF Away, CallOf, Promised
  <2>3. Promises!Use(w)
    BY <1>2, <2>1, <2>2 DEF Calls, Promises!Use
  <2> QED
    BY <2>3 DEF Promises!Next
<1>4. CASE Works(w, h)
  <2>1. CallOf(w)' = CallOf(w)
    BY <1>2, <1>4, Roles, RolesNext DEF Works
  <2> QED
    BY <1>2, <2>1 DEF Calls
<1> QED
  BY <1>1, <1>3, <1>4

LEMMA EnsureMaps ==
  ASSUME TypeOK, HandlerInv, EnsureIsExclusive, NEW w \in Worker, Ensure(w)
  PROVE  Promises!Next
<1> DEFINE j == worker[w].job
<1>0. j \in Job /\ worker \in [Worker -> Handlers]
  BY DEF Ensure, HandlerInv, TypeOK, Handlers
<1>1. CallOf(w) = Promises!Out(NoChat)
  BY Roles DEF Ensure, Promised
<1>2. Promises!Led(j) <=> j \in binding
  BY <1>0, EntriesAreLed DEF Promises!Led, Promises!Leading, Calls
<1>3. PICK pc \in {"wait", "readJob"} :
        Goto(w, pc) /\ (pc = "wait" <=> j \in binding)
  BY DEF Ensure
<1>4. Moves(w, [worker[w] EXCEPT !.pc = pc])
  BY <1>3 DEF Moves
<1>5. worker'[w].pc = pc /\ worker'[w].job = j
  BY <1>0, <1>4, CallMoves DEF Handlers
<1>6. CallOf(w)' = IF Promises!Led(j) THEN Promises!Following(j)
                   ELSE Promises!Leading(j)
  BY <1>2, <1>3, <1>5, RolesNext
<1>7. Promises!Enter(w, j)
  BY <1>1, <1>4, <1>6, CallMoves DEF Calls, Promises!Enter
<1> QED
  BY <1>0, <1>7 DEF Promises!Next

LEMMA SettleMaps ==
  ASSUME TypeOK, HandlerInv, EnsureIsExclusive, NEW w \in Worker, Settles(w)
  PROVE  Promises!Next
<1> DEFINE j == worker[w].job
<1>0. worker[w].pc \in Ensuring /\ j \in Job /\ j # NoJob
  BY JobAssumption DEF Settles, HandlerInv
<1>1. PICK a \in Chat \cup {NoChat} :
        \A v \in {w} \cup Waiting(j) : CallOf(v)' = Promises!Out(a)
  <2>1. CASE Reject(w)
    <3>1. \A v \in {w} \cup Waiting(j) :
            v \in Worker /\ worker'[v] = Caught(v) /\ Caught(v).pc \in {"idle", "readFail"}
      BY <2>1, CaughtGoes DEF Reject, Waiting, Idle
    <3>2. \A v \in {w} \cup Waiting(j) : CallOf(v)' = Promises!Out(NoChat)
      BY <3>1, RolesNext DEF Promised
    <3> QED
      BY <3>2
  <2>2. ASSUME NEW c \in Chat \cup {NoChat}, Resolve(w, c)
        PROVE  \A v \in {w} \cup Waiting(j) : CallOf(v)' = Promises!Out(c)
    <3>1. \A v \in {w} \cup Waiting(j) :
            /\ v \in Worker /\ worker[v] \in Handlers
            /\ worker'[v] = [worker[v] EXCEPT !.pc = "start", !.chat = c]
      BY <2>2 DEF Resolve, Waiting, TypeOK, Handlers
    <3>2. \A v \in {w} \cup Waiting(j) :
            v \in Worker /\ worker'[v].pc = "start" /\ worker'[v].chat = c
      BY <3>1 DEF Handlers
    <3> QED
      BY <3>2, RolesNext
  <2> QED
    BY <2>1, <2>2 DEF Settles
<1>2. ASSUME NEW v \in Worker
      PROVE  CallOf(v).key = j <=> v \in {w} \cup Waiting(j)
  <2>1. CASE worker[v].pc \in Ensuring
    BY <1>0, <2>1 DEF CallOf, EnsureIsExclusive, Waiting
  <2>2. CASE worker[v].pc \notin Ensuring
    BY <1>0, <2>2 DEF CallOf, Waiting
  <2> QED
    BY <2>1, <2>2
<1>3. \A v \in Worker \ ({w} \cup Waiting(j)) : CallOf(v)' = CallOf(v)
  BY SettledApart DEF CallOf
<1>4. Promises!Led(j)
  BY <1>0, Roles DEF Promises!Led, Promises!Leading, Calls
<1>5. Calls' = [v \in Worker |-> IF Calls[v].key = j THEN Promises!Out(a) ELSE Calls[v]]
  BY <1>1, <1>2, <1>3 DEF Calls
<1>6. Promises!Settle(j, a)
  BY <1>4, <1>5 DEF Calls, Promises!Settle
<1> QED
  BY <1>0, <1>6 DEF Promises!Next

LEMMA CrashMaps ==
  ASSUME Crash
  PROVE  Promises!Next
<1>1. \A w \in Worker : CallOf(w)' = Promises!Out(NoChat)
  BY RolesNext DEF Crash, Idle, Promised
<1>2. Promises!Reset
  BY <1>1 DEF Promises!Reset
<1> QED
  BY <1>2 DEF Promises!Next

\* Every step is a step of SingleFlight or a stutter.
LEMMA StepMaps ==
  ASSUME IInv, [Next]_vars
  PROVE  [Promises!Next]_Calls
<1>0. TypeOK /\ HandlerInv /\ EnsureIsExclusive
  BY DEF IInv
<1>1. ASSUME NEW w \in Worker,
             Poll(w) \/ WorkerStep(w) \/ Fault(w) \/ \E j \in Job : RunNow(w, j)
      PROVE  [Promises!Next]_Calls
  BY <1>0, <1>1, Shapes, ShapeMaps, EnsureMaps, SettleMaps
<1>2. CASE Crash
  BY <1>2, CrashMaps
<1>3. ASSUME NEW j \in Job, JobNext(j) PROVE UNCHANGED worker
  BY <1>3 DEF JobNext, CreateJob, EditJob, DeleteJob, BecomesDue, LockExpires
<1>4. ASSUME NEW c \in Chat, DeleteChat(c) \/ RunEnds(c) PROVE UNCHANGED worker
  BY <1>4 DEF DeleteChat, RunEnds
<1>5. CASE UNCHANGED worker
  BY <1>5 DEF Calls, CallOf
<1>6. CASE UNCHANGED vars
  BY <1>5, <1>6 DEF vars
<1> QED
  BY <1>1, <1>2, <1>3, <1>4, <1>5, <1>6 DEF Next

\* ensureScheduledJobChat keeps what SingleFlight promises, for any number of
\* handlers, jobs, chats, crashes and failing calls.
THEOREM SingleFlightRefinement == Spec => ImplementsSingleFlight
<1>1. Init => Promises!Init
  <2>1. ASSUME Init, NEW w \in Worker PROVE CallOf(w) = Promises!Out(NoChat)
    BY <2>1, Roles DEF Init, Idle, Promised
  <2> QED
    BY <2>1 DEF Promises!Init
<1>2. IInv /\ [Next]_vars => [Promises!Next]_Calls
  BY StepMaps
<1> QED
  BY <1>1, <1>2, JobsInvariant, PTL
     DEF Spec, ImplementsSingleFlight, Promises!Spec, Calls

=============================================================================
