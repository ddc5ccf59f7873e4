--------------------------- MODULE ScheduledJobs ---------------------------
(***************************************************************************)
(* Scheduled jobs of a Studio: rows with the time they are due next and a  *)
(* lock, pollers that run what is due, and users who run a job now, edit,  *)
(* pause or delete it.                                                     *)
(*                                                                         *)
(*   lib/server/scheduled-job-runner.ts      runDueScheduledJobs           *)
(*   lib/server/surreal-scheduled-jobs.ts    the rows and their writes     *)
(*   routes/api/..scheduled-jobs..           run-due, run now, PATCH, ...  *)
(*                                                                         *)
(* As in ChatRuns a handler is one action per await, a write of the row is *)
(* the moment it takes effect, and rows survive a restart.  A write of a   *)
(* deleted row changes nothing and answers nothing, which the row's        *)
(* normalisation then throws on.  Times are kept relative to now: nextRunAt *)
(* is null, in the future or due, lockedUntil is in the future or not.     *)
(* Studio events, titles and prompts are not modelled.                     *)
(***************************************************************************)
EXTENDS Naturals, FiniteSets

CONSTANTS
  Job,
  Poller,       \* POSTs to run-due that may be in progress together
  Manual,       \* POSTs to a job's run route
  Chat,         \* identities for chats
  NoJob, NoChat,
  MaxCrashes, MaxFaults    \* bounds: restarts, and database calls that fail

Worker == Poller \cup Manual

ASSUME JobAssumption == NoJob \notin Job /\ NoChat \notin Chat
ASSUME WorkerAssumption == Poller \cap Manual = {}
ASSUME BoundAssumption == MaxCrashes \in Nat /\ MaxFaults \in Nat

VARIABLES
  status,    \* status[j]: "none" until created and once deleted
  next,      \* next[j]: nextRunAt
  locked,    \* the jobs whose lockedUntil is in the future
  bound,     \* bound[j]: chatId
  chats,     \* the chats that exist
  busy,      \* those with a live run: a start there reuses it
  binding,   \* the jobs with an entry in scheduledJobChatLocks
  worker,    \* worker[w]: the handler of a request
  crashes, faults

rows == <<status, next, locked, bound>>
world == <<chats, busy>>
bounds == <<crashes, faults>>
vars == <<rows, world, binding, worker, bounds>>

Exists(j) == status[j] # "none"
Due(j) == status[j] = "enabled" /\ next[j] = "due" /\ j \notin locked

\* Where a handler waits.  A poller holds its claim of the job in Claimed, and
\* runs the job's entry in scheduledJobChatLocks in Ensuring.
Ensuring == {"readJob", "readChat", "createChat", "bindChat"}
Claimed == Ensuring \cup {"ensure", "wait", "start", "create", "readMark",
                          "mark", "readFail", "fail"}
PC == Claimed \cup {"idle", "scan", "claim", "event", "failEvent"}

\* A handler: its job and chat, the jobs of the scan still to come, the status
\* it read, and whether it is in the catch block.
Idle == [pc |-> "idle", job |-> NoJob, chat |-> NoChat, todo |-> {},
         seen |-> "none", caught |-> FALSE]

TypeOK ==
  /\ status \in [Job -> {"none", "enabled", "paused"}]
  /\ next \in [Job -> {"null", "future", "due"}]
  /\ locked \subseteq Job
  /\ bound \in [Job -> Chat \cup {NoChat}]
  /\ chats \subseteq Chat /\ busy \subseteq Chat
  /\ binding \subseteq Job
  /\ worker \in [Worker -> [pc : PC, job : Job \cup {NoJob},
                            chat : Chat \cup {NoChat}, todo : SUBSET Job,
                            seen : {"none", "enabled", "paused"},
                            caught : BOOLEAN]]
  /\ crashes \in 0..MaxCrashes /\ faults \in 0..MaxFaults

Init ==
  /\ status = [j \in Job |-> "none"]
  /\ next = [j \in Job |-> "null"]
  /\ locked = {}
  /\ bound = [j \in Job |-> NoChat]
  /\ chats = {} /\ busy = {} /\ binding = {}
  /\ worker = [w \in Worker |-> Idle]
  /\ crashes = 0 /\ faults = 0

-----------------------------------------------------------------------------
(* How a handler goes on *)

Goto(w, pc) == worker' = [worker EXCEPT ![w].pc = pc]
At(w, pc) == worker[w].pc = pc

\* The handler is done with its job: a poller takes the next of its scan.
Onward(w) ==
  worker' = [worker EXCEPT ![w] =
    IF @.todo = {} THEN Idle
    ELSE [Idle EXCEPT !.pc = "scan", !.todo = worker[w].todo]]

\* An exception: a poller's loop catches it, once, while it holds a claim;
\* else the request is answered with an error and the scan is over.
Caught(w) ==
  IF w \in Poller /\ worker[w].pc \in Claimed \cup {"event", "failEvent"} /\ ~worker[w].caught
  THEN [worker[w] EXCEPT !.pc = "readFail", !.caught = TRUE]
  ELSE Idle
Throw(w) == worker' = [worker EXCEPT ![w] = Caught(w)]

\* startChatRunForChat answers with an error, which is no exception.
Refuse(w) == IF w \in Poller THEN Goto(w, "readFail") ELSE Throw(w)

\* Nobody refers to the identity c.
Unused(c) ==
  /\ \A j \in Job : bound[j] # c
  /\ \A w \in Worker : worker[w].chat # c

-----------------------------------------------------------------------------
(* The scan *)

\* listDueScheduledJobs
Poll(w) ==
  /\ w \in Poller /\ worker[w] = Idle
  /\ \E j \in Job : Due(j)
  /\ worker' = [worker EXCEPT ![w].pc = "scan", ![w].todo = {j \in Job : Due(j)}]
  /\ UNCHANGED <<rows, world, binding, bounds>>

\* lockScheduledJob reads the row and skips it unless it is still due.
LockRead(w, j) ==
  /\ At(w, "scan") /\ j \in worker[w].todo
  /\ LET rest == worker[w].todo \ {j}
     IN  worker' = [worker EXCEPT ![w] =
           IF Due(j) THEN [Idle EXCEPT !.pc = "claim", !.job = j, !.todo = rest]
           ELSE IF rest = {} THEN Idle
           ELSE [Idle EXCEPT !.pc = "scan", !.todo = rest]]
  /\ UNCHANGED <<rows, world, binding, bounds>>

\* lockScheduledJob writes lockedUntil, whatever the row holds by now.
LockWrite(w) ==
  /\ At(w, "claim")
  /\ LET j == worker[w].job
     IN  IF Exists(j) THEN locked' = locked \cup {j} /\ Goto(w, "ensure")
         ELSE UNCHANGED locked /\ Throw(w)
  /\ UNCHANGED <<status, next, bound, world, binding, bounds>>

\* Run now: the route reads the row and takes no lock.
RunNow(w, j) ==
  /\ w \in Manual /\ worker[w] = Idle /\ Exists(j)
  /\ worker' = [worker EXCEPT ![w].pc = "ensure", ![w].job = j]
  /\ UNCHANGED <<rows, world, binding, bounds>>

-----------------------------------------------------------------------------
(* ensureScheduledJobChat: the first handler of a job does the work, those   *)
(* that come meanwhile await its promise.                                    *)

Waiting(j) == {v \in Worker : At(v, "wait") /\ worker[v].job = j}

\* Mutant: those that await the promise read the row's chat themselves.
ResolveStale(w, c) ==
  LET j == worker[w].job
  IN  /\ binding' = binding \ {j}
      /\ worker' = [v \in Worker |->
           IF v = w THEN [worker[v] EXCEPT !.pc = "start", !.chat = c]
           ELSE IF v \in Waiting(j) THEN [worker[v] EXCEPT !.pc = "start", !.chat = bound[j]]
           ELSE worker[v]]

\* The promise is settled and its entry deleted: with a chat, or rejected.
Resolve(w, c) ==
  LET j == worker[w].job
  IN  /\ binding' = binding \ {j}
      /\ worker' = [v \in Worker |->
           IF v = w \/ v \in Waiting(j)
           THEN [worker[v] EXCEPT !.pc = "start", !.chat = c]
           ELSE worker[v]]
Reject(w) ==
  LET j == worker[w].job
  IN  /\ binding' = binding \ {j}
      /\ worker' = [v \in Worker |->
           IF v = w \/ v \in Waiting(j) THEN Caught(v) ELSE worker[v]]

\* Mutant: the entry is set after the first await, too late for a second call.
EnsureLate(w) ==
  /\ At(w, "ensure")
  /\ Goto(w, "readJob")
  /\ binding' = binding \cup {worker[w].job}
  /\ UNCHANGED <<rows, world, bounds>>

Ensure(w) ==
  /\ At(w, "ensure")
  /\ LET j == worker[w].job
     IN  IF j \in binding
         THEN Goto(w, "wait") /\ UNCHANGED binding
         ELSE Goto(w, "readJob") /\ binding' = binding \cup {j}
  /\ UNCHANGED <<rows, world, bounds>>

EnsureReadJob(w) ==
  /\ At(w, "readJob")
  /\ LET j == worker[w].job
     IN  \/ ~Exists(j) /\ Reject(w)
         \/ /\ Exists(j)
            /\ worker' = [worker EXCEPT ![w].pc = "readChat", ![w].chat = bound[j]]
            /\ UNCHANGED binding
  /\ UNCHANGED <<rows, world, bounds>>

EnsureReadChat(w) ==
  /\ At(w, "readChat")
  /\ IF worker[w].chat \in chats THEN Resolve(w, worker[w].chat)
     ELSE /\ worker' = [worker EXCEPT ![w].pc = "createChat", ![w].chat = NoChat]
          /\ UNCHANGED binding
  /\ UNCHANGED <<rows, world, bounds>>

EnsureCreateChat(w, c) ==
  /\ At(w, "createChat") /\ Unused(c)
  /\ chats' = chats \cup {c} /\ busy' = busy \ {c}
  /\ worker' = [worker EXCEPT ![w].pc = "bindChat", ![w].chat = c]
  /\ UNCHANGED <<rows, binding, bounds>>

EnsureBind(w) ==
  /\ At(w, "bindChat")
  /\ LET j == worker[w].job
     IN  bound' = IF Exists(j) THEN [bound EXCEPT ![j] = worker[w].chat] ELSE bound
  /\ Resolve(w, worker[w].chat)
  /\ UNCHANGED <<status, next, locked, world, bounds>>

-----------------------------------------------------------------------------
(* startChatRunForChat, as far as a job sees it: ChatRuns has the details.   *)

\* The chat is gone; or its live run is reused; or, also where that run's
\* session is gone or not registered yet, the Studio's limit decides.
StartCheck(w) ==
  /\ At(w, "start")
  /\ \/ worker[w].chat \notin chats /\ Refuse(w)
     \/ worker[w].chat \in chats \cap busy /\ Goto(w, "readMark")
     \/ worker[w].chat \in chats /\ (Refuse(w) \/ Goto(w, "create"))
  /\ UNCHANGED <<rows, world, binding, bounds>>

StartCreate(w) ==
  /\ At(w, "create")
  /\ busy' = busy \cup {worker[w].chat}
  /\ Goto(w, "readMark")
  /\ UNCHANGED <<rows, chats, binding, bounds>>

-----------------------------------------------------------------------------
(* markScheduledJobRun and markScheduledJobAttemptFailed: a read, and a      *)
(* write of what follows from it.                                            *)

NextOf(st) == IF st = "enabled" THEN "future" ELSE "null"

\* Mutant: the row is written back without releasing its lock.
SettleLocked(j, seen) ==
  /\ next' = [next EXCEPT ![j] = NextOf(seen)]
  /\ UNCHANGED locked

\* Mutant: the lock is released and nextRunAt stays where it was.
SettleStill(j, seen) ==
  /\ locked' = locked \ {j}
  /\ UNCHANGED next

Settle(j, seen) ==
  /\ next' = [next EXCEPT ![j] = NextOf(seen)]
  /\ locked' = locked \ {j}

MarkRead(w) ==
  /\ \/ At(w, "readMark") /\ Exists(worker[w].job)
        /\ worker' = [worker EXCEPT ![w].pc = "mark", ![w].seen = status[worker[w].job]]
     \/ At(w, "readFail") /\ Exists(worker[w].job)
        /\ worker' = [worker EXCEPT ![w].pc = "fail", ![w].seen = status[worker[w].job]]
     \/ worker[w].pc \in {"readMark", "readFail"} /\ ~Exists(worker[w].job)
        /\ Onward(w)
  /\ UNCHANGED <<rows, world, binding, bounds>>

MarkRun(w) ==
  /\ At(w, "mark")
  /\ LET j == worker[w].job
     IN  IF Exists(j)
         THEN /\ Settle(j, worker[w].seen)
              /\ bound' = [bound EXCEPT ![j] = worker[w].chat]
              /\ Goto(w, "event")
         ELSE Throw(w) /\ UNCHANGED <<next, locked, bound>>
  /\ UNCHANGED <<status, world, binding, bounds>>

MarkAttemptFailed(w) ==
  /\ At(w, "fail")
  /\ LET j == worker[w].job
     IN  IF Exists(j)
         THEN Settle(j, worker[w].seen) /\ Goto(w, "failEvent")
         ELSE Throw(w) /\ UNCHANGED <<next, locked>>
  /\ UNCHANGED <<status, bound, world, binding, bounds>>

\* createStudioEvent, the last await of both.
Announce(w) ==
  /\ worker[w].pc \in {"event", "failEvent"}
  /\ Onward(w)
  /\ UNCHANGED <<rows, world, binding, bounds>>

-----------------------------------------------------------------------------
(* The user, the runs, time, failures *)

\* createScheduledJob: a chat, then the row.
CreateJob(j, st) ==
  /\ ~Exists(j)
  /\ \A w \in Worker : worker[w].job # j /\ j \notin worker[w].todo
  /\ \E c \in Chat :
       /\ Unused(c)
       /\ chats' = chats \cup {c} /\ busy' = busy \ {c}
       /\ bound' = [bound EXCEPT ![j] = c]
  /\ status' = [status EXCEPT ![j] = st]
  /\ next' = [next EXCEPT ![j] = NextOf(st)]
  /\ UNCHANGED <<locked, binding, worker, bounds>>

\* updateScheduledJob: the new schedule, with its nextRunAt.
EditJob(j, st) ==
  /\ Exists(j)
  /\ status' = [status EXCEPT ![j] = st]
  /\ next' = [next EXCEPT ![j] = NextOf(st)]
  /\ UNCHANGED <<locked, bound, world, binding, worker, bounds>>

\* Mutant: the row is marked as deleted, its lock and its chat stay.
DeleteJobSoftly(j) ==
  /\ Exists(j)
  /\ status' = [status EXCEPT ![j] = "none"]
  /\ UNCHANGED <<next, locked, bound, world, binding, worker, bounds>>

DeleteJob(j) ==
  /\ Exists(j)
  /\ status' = [status EXCEPT ![j] = "none"]
  /\ next' = [next EXCEPT ![j] = "null"]
  /\ locked' = locked \ {j}
  /\ bound' = [bound EXCEPT ![j] = NoChat]
  /\ UNCHANGED <<world, binding, worker, bounds>>

DeleteChat(c) ==
  /\ c \in chats
  /\ chats' = chats \ {c}
  /\ UNCHANGED <<rows, busy, binding, worker, bounds>>

RunEnds(c) ==
  /\ c \in busy
  /\ busy' = busy \ {c}
  /\ UNCHANGED <<rows, chats, binding, worker, bounds>>

BecomesDue(j) ==
  /\ next[j] = "future"
  /\ next' = [next EXCEPT ![j] = "due"]
  /\ UNCHANGED <<status, locked, bound, world, binding, worker, bounds>>

LockExpires(j) ==
  /\ j \in locked
  /\ locked' = locked \ {j}
  /\ UNCHANGED <<status, next, bound, world, binding, worker, bounds>>

\* A database call of a handler fails.  The read of a bound chat answers null
\* instead, and the promise of others fails with it in ensure.
Fault(w) ==
  /\ faults < MaxFaults /\ faults' = faults + 1
  /\ \/ /\ At(w, "readChat") /\ UNCHANGED binding
        /\ worker' = [worker EXCEPT ![w].pc = "createChat", ![w].chat = NoChat]
     \/ worker[w].pc \in Ensuring \ {"readChat"} /\ Reject(w)
     \/ /\ worker[w].pc \notin Ensuring \cup {"idle", "ensure", "wait"}
        /\ Throw(w) /\ UNCHANGED binding
  /\ UNCHANGED <<rows, world, crashes>>

Crash ==
  /\ crashes < MaxCrashes /\ crashes' = crashes + 1
  /\ busy' = {} /\ binding' = {}
  /\ worker' = [w \in Worker |-> Idle]
  /\ UNCHANGED <<rows, chats, faults>>

WorkerStep(w) ==
  \/ \E j \in Job : LockRead(w, j)
  \/ LockWrite(w) \/ Ensure(w) \/ EnsureReadJob(w) \/ EnsureReadChat(w)
  \/ \E c \in Chat : EnsureCreateChat(w, c)
  \/ EnsureBind(w) \/ StartCheck(w) \/ StartCreate(w)
  \/ MarkRead(w) \/ MarkRun(w) \/ MarkAttemptFailed(w) \/ Announce(w)

JobNext(j) ==
  \/ \E st \in {"enabled", "paused"} : CreateJob(j, st) \/ EditJob(j, st)
  \/ DeleteJob(j) \/ BecomesDue(j) \/ LockExpires(j)

Next ==
  \/ \E w \in Worker : Poll(w) \/ WorkerStep(w) \/ Fault(w) \/ \E j \in Job : RunNow(w, j)
  \/ \E j \in Job : JobNext(j)
  \/ \E c \in Chat : DeleteChat(c) \/ RunEnds(c)
  \/ Crash

Spec == Init /\ [][Next]_vars

\* Promises resolve, the cron posts every minute, and locks run out.
FairSpec ==
  /\ Spec
  /\ \A w \in Worker : WF_vars(WorkerStep(w))
  /\ \A w \in Poller : WF_vars(Poll(w))
  /\ \A j \in Job : WF_vars(LockExpires(j))

-----------------------------------------------------------------------------
(* Safety *)

\* A scan never leaves a job locked behind it: a lock has a poller at work on
\* its job, unless a restart or a failing call cut that work short (then only
\* its ten minutes free the job).  Refused starts, jobs deleted or edited half
\* way, and other handlers' writes included (runDueScheduledJobs).
ClaimsAreReleased ==
  crashes + faults = 0 =>
    \A j \in locked : \E w \in Poller : worker[w].job = j /\ worker[w].pc \in Claimed

\* The map of promises is a mutex: a job with an entry has one handler that
\* looks for its chat, and those that await the promise have it settled by that
\* handler, found, created, failed or crashed (ensureScheduledJobChat).
EnsureIsExclusive ==
  /\ \A j \in binding :
       \E w \in Worker : worker[w].job = j /\ worker[w].pc \in Ensuring
  /\ \A v, w \in Worker :
       /\ worker[v].pc \in Ensuring => worker[v].job \in binding
       /\ worker[v].pc = "wait" => worker[v].job \in binding
       /\ worker[v].pc \in Ensuring /\ worker[w].pc \in Ensuring
            /\ worker[v].job = worker[w].job => v = w

\* Those who await the promise leave it in the step that settles it: all with
\* the handler that worked on it, and to the same chat, or all without one,
\* whatever is bound, deleted, edited or fails meanwhile.
AnswersAreShared ==
  [][\A v \in Worker : worker[v].pc = "wait" /\ worker'[v].pc # "wait" =>
       \E w \in Worker :
         /\ worker[w].pc \in Ensuring /\ worker'[w].pc \notin Ensuring
         /\ worker[w].job = worker[v].job
         /\ worker'[v].pc = "start" <=> worker'[w].pc = "start"
         /\ worker'[v].pc = "start" => worker'[v].chat = worker'[w].chat]_vars

\* The handlers of ensureScheduledJobChat as callers of SingleFlight.
CallOf(w) ==
  LET out == worker[w].pc \notin Ensuring \cup {"wait"}
  IN  [role |-> IF out THEN "out" ELSE IF worker[w].pc = "wait" THEN "follow" ELSE "lead",
       key |-> IF out THEN NoJob ELSE worker[w].job,
       answer |-> IF worker[w].pc = "start" THEN worker[w].chat ELSE NoChat]

Promises == INSTANCE SingleFlight WITH
  Caller <- Worker, Key <- Job, NoKey <- NoJob, Answer <- Chat, NoAnswer <- NoChat,
  call <- [w \in Worker |-> CallOf(w)]

\* Handlers that need a job's chat at once have one of them look for it or
\* make it; all go on to start a run in that one chat in the same step, or all
\* fail with it, whatever is deleted, edited or fails to be read or written
\* meanwhile (ensureScheduledJobChat as SingleFlight).
ImplementsSingleFlight == Promises!Spec

\* The inductive invariant: a lock lies on a row, and a handler past its
\* scan has a job, the chat it starts a run in has an identity, only pollers
\* scan and enter the catch block, and they leave it by a failed mark.
HandlerInv ==
  \A w \in Worker :
    /\ worker[w].pc \notin {"idle", "scan"} => worker[w].job \in Job
    /\ worker[w].pc \in {"scan", "claim"} \/ worker[w].todo # {} => w \in Poller
    /\ worker[w].pc = "create" => worker[w].chat \in Chat
    /\ worker[w].caught =>
         w \in Poller /\ worker[w].pc \in {"readFail", "fail", "failEvent"}
IInv ==
  /\ TypeOK /\ HandlerInv
  /\ \A j \in locked : Exists(j)
  /\ ClaimsAreReleased /\ EnsureIsExclusive

(* Liveness *)

\* A due job is attempted: its nextRunAt moves on, or it is paused or deleted,
\* whatever crashes, fails, is refused or edited meanwhile.
DueJobsAreAttempted ==
  \A j \in Job : status[j] = "enabled" /\ next[j] = "due"
    ~> ~(status[j] = "enabled" /\ next[j] = "due")

-----------------------------------------------------------------------------
(* What the repository says, and the code does not do *)

\* "so scheduled jobs can be safely picked up once when they become due"
\* (CHANGELOG.md:137): one poller at a time works on a job.
PickedUpOnce ==
  \A v, w \in Poller :
    worker[v].pc \in Claimed /\ worker[w].pc \in Claimed
      /\ worker[v].job = worker[w].job => v = w

=============================================================================
