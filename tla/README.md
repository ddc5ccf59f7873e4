# nova-cloud: models, checks and proofs

This directory holds TLA+ models of the parts of nova that race: the server of
`apps/nova-cloud` with the two browser parts that depend on its order of events
(the upload manager, and a page that listens to a Studio's events), and the
control plane `apps/nova-domain-control`. With them are the TLC configurations
that check the models on small instances, and TLAPS proofs of what matters most
for every instance. Paths without a prefix are below `apps/nova-cloud/src/`.

## 1. The system

nova-cloud is a SvelteKit server (one Node process) over a SurrealDB database.
A user owns Studios; a Studio holds chats, scheduled jobs, files, a sandbox
runtime and domains. Posting to a chat starts an agent *run*: a loop that calls
a language model and tools, writes messages, and is watched by browsers over
server-sent events. Other processes are a cron poller that posts to
`run-due`, `apps/nova-domain-control` (which host goes to which proxy),
`apps/nova-runtime-control` (an adapter over kubectl) and a fork of frp.

| component | state it keeps | operations | interacts with | what is hard | what makes it correct |
|---|---|---|---|---|---|
| chat run lifecycle (`lib/server/start-chat-run.ts`, `chat-run-executor.ts`, `surreal-chat-runs.ts`, `runtime-limits.ts`) | `chat_run` rows | start or reuse, execute, stop, reconcile, fail stale | registry, messages, tools | every handler reads, awaits and writes; rows outlive the process | a live session has an executor; rows settle; the Studio's limit |
| run sessions and streams (`chat-run-registry.ts`, `routes/api/chat-runs/[runId]/stream`) | `runSessions` in memory, one listener per browser | register, publish, attach, complete, fail, abort, delete by timer | executor, stop, reconcile, tools | a listener that throws inside a publication; chunks after the end | no stream outlives its session; terminal chunk last; no session leaks |
| chat client (`lib/nova/chat/chat-store.svelte.ts`) | messages and runs in the browser | apply chunk, reconnect, stop | streams | replay after reconnect | text shown once |
| scheduled jobs (`scheduled-job-runner.ts`, `surreal-scheduled-jobs.ts`, `lib/jobs/schedule.ts`) | `scheduled_job` rows, `lockedUntil`, `nextRunAt` | claim, run, mark, edit, delete, run now | start, chats, events | claim by read then write; crash while claimed | a due job is started once and again when next due |
| uploads (`lib/files/upload-*.ts`, `routes/api/studios/[studioId]/files/uploads`, `surreal-upload-sessions.ts`, `r2-files.ts`) | a tab's batches, the queue in IndexedDB, a lease per item in localStorage, session rows, chunks and the file in the bucket | choose, run, resume, cancel, retry, close; create, status, part, complete, abort | tabs among each other, bucket, database | a lease that outlives or escapes its tab, requests that outlive their tab, completions beside aborts | the file is one whole upload; what is announced is there; one tab uploads an item |
| Studio events (`surreal-studio-events.ts`, `routes/api/studios/[studioId]/events/stream`, the jobs page) | `studio_event` rows, a cursor and the ids it has sent per stream, refreshes in flight per page | append, poll, send; load, handle, refresh, show | every mutation | stamps against the order of storage, page size, bounded memory, replies that overtake | an event is sent once and in order; a page never goes back |
| sandboxes, workspaces (`k3s-runtime.ts`, `surreal-runtime-processes.ts`, `workspace-runner.ts`, `surreal-workspaces.ts`) | sandbox and process rows, the cluster's pods | start, reuse, stop, preview, dev servers | runtime control, tools | select then create; status from two sources | one primary process; ports not shared |
| domain control (`apps/nova-domain-control/src`: `store.ts`, `server.ts`, `domain.ts`, `verification.ts`, `caddy.ts`) | proxy and domain rows, the routes of Caddy | upsert, verify, sync, disable, remove, resolve | DNS, Caddy, frp, nova-cloud | a row read before an await is written back after it; two status writes around a route | a row of a customer's host is active or routed only when its own token was seen |
| runtime control (`apps/nova-runtime-control/src`) | none of its own | kubectl calls | cluster | the cluster's | - |
| canvas editor (`packages/canvas/src/lib/base/editor`) | document tree, history | insert, move, remove, undo, redo | - | tree edits | the tree stays a tree; undo restores |
| skills, sidebar, integrations, memory, authentication | rows | one query each | - | little | - |

## 2. Plan

In order of importance:

1. **`ChatRuns`**: runs, sessions, streams and the handlers that race
   on them. Safety, liveness, and proofs. *Done.*
2. `ChatRunsProofs`, `ChatQueueProofs`, `ChatSessionsProofs`: the inductive invariant and the bound on
   queued runs, and the refinement of `RunSessions`, for every instance. *Done.*
3. `ScheduledJobs`, `ScheduledJobsProofs` and `JobPromisesProofs`: claims, cron runs, manual runs,
   edits, crashes. *Done.*
4. `DomainControl` and `DomainControlProofs`: the requests of the domain control
   plane, shown to implement the abstract `HostLifecycle`. *Done.*
5. `Uploads` and `UploadsProofs`: the tabs, their lease, the queue, the sessions
   and chunks. *Done.*
6. `StudioEvents` and `StudioEventsProofs`: the polling stream's cursor and the
   page that refreshes on events. *Done.*
7. `RunStream`: what a listener that joins late is replayed (`bufferedText`, the
   last 40 events). *Not started.*
8. `RuntimePreview`: the primary preview's row against the servers in the pod,
   between the runtime tools and the workspace requests. *Not started.*
9. `CanvasDocument`: the editor's tree, selection and history. *Not started.*
10. Abstract specifications of what each component promises, and proofs that the
   detailed ones implement them: `HostLifecycle`, `RunSessions`, `StudioFeed`,
   `SingleFlight`. *Done.* One for uploads (an item from chosen to stored or
   failed, whatever tabs, leases and sessions do). *Not started.*

Compositions: `ScheduledJobs` uses the outcome of a start from `ChatRuns`
(started, reused, refused). Four components instantiate an abstract
specification under a refinement mapping:

| component | abstract specification | property | proved in |
|---|---|---|---|
| `ChatRuns` | `RunSessions`: a run is live at most once, those who watch it are told of its end at once, nobody joins later | `ImplementsSessions` | `ChatSessionsProofs` |
| `ScheduledJobs` | `SingleFlight`: of those who ask for a job's chat at once one works and the others follow it | `ImplementsSingleFlight` | `JobPromisesProofs` |
| `DomainControl` | `HostLifecycle`: a host is claimed, proved, moved and released | `ImplementsLifecycle` | `DomainControlProofs` |
| `StudioEvents` | `StudioFeed`: a page is sent events once and in order | `ImplementsFeed` | `StudioEventsProofs` |

The other components meet only
through calls whose outcome is all that the caller uses.

## 3. `ChatRuns`

The code is one Node process, so what runs between two awaits is atomic and a
handler becomes one action per await. An action that writes the database is the
moment the write takes effect; the continuation that runs when its promise
resolves is the next action. Database rows survive `Crash`, everything in
memory is lost.

| state | code |
|---|---|
| `status`, `chatOf`, `age`, `older` | columns of a `chat_run` row: `status`, `chatId`, how far `startedAt` is back, the order of `updatedAt` |
| `sessions`, `attachable`, `finalChunk`, `expiring` | `runSessions` and the fields of a `RunSession`; `expiring` is the 60 s timer of `completeRunSession` |
| `exec`, `tool` | the await `executeChatRun` is at, and a tool call in flight |
| `req` | the await the handler of a request is at, with its local variables |
| `stream`, `watch` | a browser's event stream: listening, closed by a terminal chunk but still in `listeners`, or gone |

| actions | code |
|---|---|
| `StartRead` .. `StartRegister` | `startChatRunForChat`, with `getActiveRunForChat`, `assertStudioRunAllowed`, `createChatRun`, `registerRunSession` |
| `PageLoad` | the chat page's loader, which fails a stale run |
| `StopOrMarkFailed`, `PutStatus` | the stop route, and reconcile's `abort` and `mark_failed` |
| `ReconcileRead`, `ReconcileDecide`, `PutStatus` | reconcile |
| `MarkRunning` .. `Finish`, `ExecutorFault` | `executeChatRun` with both its error paths |
| `ToolCall`, `RecordRuntimeEvent`, `ToolReturns` | runtime tools, which write the run's row |
| `Attach`, `Disconnect` | the stream route |
| `SessionExpires`, `Tick`, `Crash` | timer, time, restart |

### Runs

Constants: one chat or two, all of one Studio; `RunLimit` 1 as both plans say.

| run | instance | what it asks |
|---|---|---|
| `chat_safety` | 1 run, 2 requests, 2 streams, ages to 2, 1 restart, 1 failing call | streams, sessions, executors and rows agree in every interleaving; a queued row is on its way to its executor; the registry implements `RunSessions`; `IInv` is an invariant |
| `chat_queue` | 3 runs, 2 chats, 2 requests, executors up to their first await (`BeforeTheLoop`) | overlapping starts overshoot the Studio's limit by the other handlers at most |
| `chat_live` | 1 run, 1 request, 1 stream, 1 restart, 1 failing call | streams end, sessions are deleted, rows settle when chats are opened |

`RunSessions` is what those who watch a run may rely on. Its `phase` of a run is
read off the row, the session and the requests on their way to it (`PhaseOf`): a
run is `unborn` until its request registers it, `live` while its session can be
attached to, `ended` while the session is kept, and then, or when a restart or a
failure of its request came first, `over`. The
mapping hides the order of the rows, the executor, tools, timers and the listeners
that stay behind closed streams.

Sessions, streams and executors of different runs never touch: they meet only in
the rows that `StartRead` and `StartLimit` query. One run therefore suffices for
the registry's properties, and two for the Studio's limit. Two requests are
needed for the races (stop against start, reconcile against stop); two streams
for one that is closed while another browser attaches or leaves. One restart and one failing
call are enough to reach every state a second one could start from; the bounds
`MaxCrashes`, `MaxFaults`, `PolicyAge` and `RunsLeft` name them.

### Fairness

`Progress` is weak fairness of the executor's next step, of a tool's return, of
a handler's next step, of the timer and of time: promises resolve and timers
fire. It includes that the provider's stream ends, which is the provider's part:
`streamText` is called without a timeout, so the code alone does not make it.
Nothing makes a user act, and nothing makes calls fail or the process crash.
`RowsSettle` assumes `ChatsAreOpened` on top: strong fairness of `PageLoad` on a
stale run, a statement about the user, because the server has no sweeper of its
own: without a page load nothing settles a row that outlived its session. `StreamsEnd` and
`SessionsReclaimed` except one case, a run whose catch block failed as well
(`exec` is `"dead"`): its session stays attachable until the process restarts.

## 4. `ScheduledJobs`

Pollers post to `run-due` once a minute, from outside, so two scans may
overlap; users run, edit, pause and delete jobs and delete chats at any time.

| state | code |
|---|---|
| `status`, `next`, `locked`, `bound` | the `scheduled_job` row: `status` (`"none"` if it is not there), `nextRunAt` (null, in the future, due), `lockedUntil` in the future, `chatId` |
| `chats`, `busy` | the `chat` rows, and those with an active run |
| `binding` | the keys of `scheduledJobChatLocks` |
| `worker` | per request: the await it is at, its job and chat, the rest of its scan, the status it read, whether it is in the catch block |

| actions | code |
|---|---|
| `Poll`, `LockRead`, `LockWrite` | `listDueScheduledJobs`, and the read and the write of `lockScheduledJob` |
| `RunNow` | the job's run route, which takes no lock |
| `Ensure` .. `EnsureBind` | `ensureScheduledJobChat`; `Resolve` and `Reject` settle its promise, for all who await it |
| `StartCheck`, `StartCreate` | `startChatRunForChat`, reduced to its outcomes in `ChatRuns`: refused, reused, started |
| `MarkRead`, `MarkRun`, `MarkAttemptFailed`, `Announce` | the two marks: read, write, Studio event |
| `CreateJob`, `EditJob`, `DeleteJob`, `DeleteChat`, `RunEnds` | the other writers |
| `BecomesDue`, `LockExpires`, `Fault`, `Crash` | time, a failing call, a restart |

An exception is `Throw`: in a poller's try block it leads to the catch block's
`markScheduledJobAttemptFailed`, once; elsewhere, and also in `lockScheduledJob`,
which is called before the try block, it ends the request and with it the scan.
A write of a row that was deleted creates nothing and answers nothing, on which
`normalizeSurrealRow` throws. A read of the chat that fails counts as a missing
chat (`Fault` at `readChat`), as `getChat(..).catch(() => null)` does.

| run | instance | what it asks |
|---|---|---|
| `jobs_safety` | 1 job, 2 pollers, 1 manual run, 2 chats | a lock on a row has a scan at work that will release it; the promises are a mutex, and who waits for one gets the chat its holder got; `IInv` |
| `jobs_live` | 1 job, 1 poller, 3 chats, 1 restart, 1 failing call | a due job is attempted |
| `jobs_once` | 1 job, 2 pollers | section 9 |

`SingleFlight` is what a map of promises promises. The mapping `CallOf` takes a
handler inside `ensureScheduledJobChat` to a caller that leads, one that awaits
the promise to one that follows, and one that has the chat and has not read it yet
to a caller with an answer. `ImplementsSingleFlight` is proved, and not part of
`jobs_safety`: with the mapping evaluated at every step TLC does not finish that
instance in five minutes. It does on one with 1 poller, 1 manual run, 2 chats and 1
failing call (357,824 states), without a violation.

Jobs meet only in a scan that ends early when one of them throws, which a restart
at the same point shows as well, so one job suffices. Failing calls are in
`jobs_live`; that they do not break the safety properties is proved.
Fairness: handlers go on, a poller that may scan does some day (the cron posts
every minute), locks run out. Nothing makes a run end or a user act. The scan's
`LIMIT 10` is not modelled: with more than ten due jobs, those that keep being
listed first could keep others waiting.

## 5. `DomainControl` and `HostLifecycle`

The control plane decides which host goes to which workspace. Its clients are
nova-cloud and operators, so requests about one host overlap. A request is cut
at its awaits. A row has a number: a request that comes back to a row by its id
may find it gone, or find another row of the same host. The token is made with
the row, so the number stands for it, and a TXT record is the set of tokens the
owner has published. Only the configuration with a Caddy endpoint is modelled.

| state | code |
|---|---|
| `made`, `enabled` | `workspace_proxy` rows and their flag |
| `dom` | the `proxy_domain` row of a host: id and token, proxy, kind, status |
| `routes` | the managed routes in Caddy, each with the row it was made for |
| `txt`, `proved` | the DNS, and a history of the rows whose own token it has shown |
| `contested` | a history of the rows created while a verify of an earlier row of the host was under way |
| `req` | the await a request is at, with its local variables |

| actions | code |
|---|---|
| `Upsert`, `UpsertProxy`, `UpsertRead`, `UpsertDomain` | `POST /admin/proxies` and `upsertProxy`: proxy first, then per host a read and a write |
| `Verify`, `VerifyDns`, `SetRead`, `SetPut` | `POST /admin/domains/verify`: the DNS query, `setDomainStatus` to verified, the route, `setDomainStatus` to active |
| `Sync`, `SyncProxy`, `SyncRead`, `SyncLoad` | `sync-caddy`: `listProxyDomains`, `buildRouteSpecs`, `mergeWorkspaceRoutes` |
| `Disable`, `Remove`, `RemoveRow` | `DELETE` of a proxy and of a domain |
| `PublishTxt`, `WithdrawTxt`, `Fail` | the owner of a host; a failing call, which ends the request |

`proved` is kept per row, so a host that was proved, removed and claimed again
starts anew: `ActiveIsProved` and `RoutesAreProved` ask for the token of the very
row that is active, or for which Caddy has a route (a route outlives its row). The
code meets this with one exception, which both properties name. A verify reads
the token, asks the DNS, and then sets the status of whatever row its host has by
then (`server.ts:177-207`, `store.ts:360-376`); if the host is removed and claimed
again in between, the new row is routed and active without its own token ever
having been published (section 9). `contested` holds exactly the rows created in
such a window; of every other row the properties speak without exception.

`HostLifecycle` is the abstract specification: a claim on a host has a number that
no proof has been given for; it may be asked about, proved, moved between its
statuses only once it is proved or contested, and released. `ImplementsLifecycle`
says that every behaviour of `DomainControl` is one of `HostLifecycle` with the
rows' statuses as its stages, their numbers as its claims, and the verifies under
way as what is asked.

| run | instance | what it asks |
|---|---|---|
| `domain_safety` | a customer's host and a subdomain, 1 proxy, 2 requests, 1 removal | `IInv`; no row is active or routed before its own token was seen, but for contested rows; the refinement |
| `domain_live` | 1 customer's host, 1 proxy, 2 requests, 1 removal, 1 failing call | a verified host gets on |

Two requests are what the races take: one that has read a row, and one that
writes it meanwhile. One removal makes a host be claimed a second time under a
request that remembers the first. Proxies differ only in the flag and in which
one's routes Caddy holds; that more of them, and failing calls, keep the safety
properties is proved. Within these bounds a row is contested and activated by the
earlier row's verify, so the exception is not idle. Handlers go on (weak fairness of `Step`); clients and
owners owe nothing. `VerifiedSettles` therefore assumes two things of them in its
own statement: that the owner keeps the token published (`OwnerPublishes`), and
that the user asks for the verification again (`UserRetries`, strong fairness,
since a handler must be free to take the request).

## 6. `Uploads`

A browser tab uploads a file in chunks, and keeps a record of it in IndexedDB, so
that another tab, or the same one after a restart, goes on where it stopped. A
lease in localStorage keeps two tabs from uploading one item.

| state | code |
|---|---|
| `open`, `mem` | the tabs, and the batches each holds: status, `uploadId`, where `#runBatch` is or waits, what it has still to send, the retries that wait (`retrying`), and the history `exposed` |
| `queue`, `lease` | the records in IndexedDB, the leases in localStorage |
| `net` | requests at work on the server, each at its await, or answered; one whose tab is gone or has aborted it goes on without a reader |
| `session`, `chunks`, `file` | the `upload_session` rows, the chunks in the bucket, the object at the path |
| `chosen`, `reported` | histories: items a user has started, items announced as uploaded |

| actions | code |
|---|---|
| `StartUpload`, `OpenTab`, `CloseTab` | the choice of a file; `hydrate`; a tab that is left, closed or dies |
| `TryRead`, `TryWrite`, and `RunItem` or `RunDeferred` | `tryAcquire`: its read, its write, its confirming read |
| `RunIdle`, `RunItem`, `RunDone`, `RunEnds` | `#runBatch` and `#uploadItem` up to and after their awaits |
| `SessionReady`, `PartReady`, `CompleteReady` | the continuation at an answer |
| `Cancel`, `Retry`, `RetryReady` | `cancelBatch`, `retryBatch` |
| `Nudge`, `Lapse`, `Heartbeat`, `Expire` | the lease's heartbeats and its end |
| `ReleaseAll` | `releaseAll` on `beforeunload` or `pagehide`: the leases go, the page and its uploads go on until `CloseTab`, or for good |
| `Create*`, `Status`, `Part*`, `Complete*`, `Sweep`, `Abort*` | the five routes, cut at their awaits |
| `Lose`, `Throw` | an answer that is lost, a call that fails |

localStorage is shared by tabs that run at the same time, so the three accesses of
`tryAcquire` are three steps, between which other tabs read, write and release the
lease; the tab itself does nothing else in between (`Turn`), since there is no
await. `releaseAll` does not end a tab: a page that is asked to leave may stay (the
user cancels, the navigation is a download, the page is kept and restored), and
until it is left its `#runBatch` and its requests go on while another tab, told by
"lease-released", takes the lease. `destroy` has no caller.

`exposed` marks the runs that have lost the cover of their lease, in one of three
ways: it ran out because heartbeats were late (`Lapse`), it was given up by a page
that is still there (`ReleaseAll`), or it was overwritten by a tab that had read it
before it was written and writes only now (`Written`). `OneTabUploads` says that
these, and cancelled runs, are the only ways to two tabs uploading one item. A
cover once lost stays lost for that run, also when a heartbeat renews the lease.

Assumptions: localStorage is sequentially consistent; a heartbeat and a `release`,
which each read the lease before they write or remove it, are one step: another tab
can get in between only when the lease has run out or was overwritten already, and
would then lose its own lease to the late write, which is not modelled. Timers that
are late are `Lapse`; the status route's three reads are one step, as are the
deletions of a sweep; IndexedDB applies what one tab issues in order and does not
fail; a batch has one item; all items are for one path, since items for different
paths never meet. A tab is one upload manager: a second one in the same page, of a
layout that is mounted anew, is another tab.

Retries are numbered, because `retryBatch` may overlap itself: a run that is woken
while a retry awaits the session's status can fail and be retried again.

| run | instance | what it asks |
|---|---|---|
| `uploads_safety` | 2 tabs, 1 item of 1 chunk, 2 sessions, 2 retries, 1 lease that runs out or page that is asked to leave | `IInv`; what is announced is there; one tab uploads; an item that waits is woken; answers meet the run or retry that asked; the queue forgets only what is stored or cancelled |
| `uploads_live` | 1 tab, 1 item of 2 chunks, 2 sessions, 1 close, 1 failing call or lost answer | an item settles; the file is whole; what is announced is there |
| `uploads_stored` | 1 tab, 2 items of 1 chunk, 2 sessions | section 9 |

`MaxLapses` bounds lapses and `ReleaseAll` together: one is enough for a run to be
exposed and another tab to take the item, and the overwriting of a lease takes
none. Two sessions allow one to be cancelled or lost and the item to be made anew;
two retries are the least that overlap. `FewRequests` bounds the requests at once:
two tabs at work and an abort, or, once a lease is lost, two tabs at work. Two
chunks are the least at which a completion can have read one and not the other; in
`uploads_live` a tab that closes leaves its part or its completion at work beside
those of the next run, and beside an abort. Closes, failing calls and lost answers
are excluded from `uploads_safety` for its size, and a second tab from
`uploads_live`; that the invariants hold with all of them together is proved. In
`uploads_live` two sessions are as many as one close can ask for; with a retry
beside it a third would be needed, and its lack would look like an item that waits
for ever. Users owe nothing, so the system may stop and `CHECK_DEADLOCK` is off.
Fairness: a tab's continuations run, handlers go on, and the lease of a tab that
died runs out.

## 7. `StudioEvents`

| state | code |
|---|---|
| `row` | the version of the rows a page shows |
| `created`, `stored` | events by the order of their stamps with `createdAt`, and those whose row is in the table |
| `source`, `cursor`, `seen`, `rows` | a page's connection, and the stream's local variables |
| `sent`, `handled` | what the stream has sent, and how much of it the page's listener was called with |
| `fetch`, `shown` | refreshes in flight with the version they have read, and the version on the page |

| actions | code |
|---|---|
| `Write`, `Stamp`, `Store`, `Tick` | a mutation, and `createStudioEvent`, which stamps before it stores |
| `Connect`, `Poll`, `Skip`, `Send`, `Close` | the stream's `pump` |
| `Load`, `Handle`, `Refresh`, `Read`, `Show`, `Miss` | the page: loader, listener, `refreshJobsState` and its answers |

Assumptions: one clock; all events are of kinds the page listens to; a stream
begins at the clock of its connection minus `Window`; and the events of one
millisecond are fewer than the rows of a poll and no more than the remembered ids
(50 and 200 in the code). Without the last the stream would stand still, or send
twice. Storing an event may fail, and no handler tries again: `EventuallySent`
is about events that are stored.

`StudioFeed` is what a page may rely on, without cursors, memories and polls:
events are delivered at most once, none after a later one, and a delivery is not
taken back before the page is loaded anew. What it does not say, that every event
is delivered, is not true of the code. `NothingSkipped` says how far it is: no
step of the stream loses an event that its answer holds or its next polls will find.

The run `events_stream` has a page and its stream, a page of 3 rows, 2 remembered
ids, 2 stamps of at most 2 events, 4 writes. So a poll's answer is cut within a
stamp, ids are forgotten while their rows are still asked for, and events are
stored behind the cursor. A stream meets nothing but the events, so one suffices.
Fairness is that `pump` goes on; nothing makes a page refresh, so the system may
stop and `CHECK_DEADLOCK` is off.

## 8. Proofs

`ChatRunsProofs` proves, for every value of the constants that satisfies the
assumptions of `ChatRuns`, that `IInv` is inductive, and from it
`TypeOK`, `StreamsFollowSession`, `ClosedSessionIsFinal`, `LiveSessionIsServed`
and the action property `SessionOpensOnce`.

Why the strengthening: `StartRegister` opens a session for the run its handler
remembers from an earlier await. That it does not open one for a run that is
served already follows only from `HandlerInv`: between `createChatRun` and
`registerRunSession` the run belongs to one handler and nothing in memory knows
it (`Fresh`), although other handlers may see its row, and fail it. `RegistryInv`
ties the timer to sessions that have ended, so that an expiry never takes a
session with listeners. `EndSessionInv` is the heart: what ending a session
does to streams, timer and terminal chunk, whichever caller it has and also when
a closed listener throws.

The proof has one lemma per component of the state (`RunNextRegistry`,
`RequestNextRegistry`, `RunNextHandlers`, `RequestNextHandlers`, `StreamIInv`,
`CrashIInv`) and `NextIInv` combines them.

`ChatQueueProofs` proves `QueueOvershootIsBounded`. The rows alone are no
inductive invariant: a handler that has passed the check will create a row
without another look. `QueueInv` counts these handlers (`PastCheck`) as rows.
`QueueLimit` is the step that passes the check, `QueueCreate` the one that moves
a handler to a row, and every other step satisfies `NoRowQueued` and
`NonePasses`.

`ChatSessionsProofs` proves `QueuedRunIsServed` and that `ChatRuns` implements
`RunSessions`. With `IInv`, `QueuedRunIsServed` is inductive: `RunServes` and
`RequestServes` show that nothing but its request or its executor moves a row that
is on its way, whoever fails or stops it in between. The refinement needs
`SessionInv` beside `IInv`: a session has an outcome only once it has ended,
handlers return to rows that are there, and a tool's executor has begun. Each step
then has a lemma that names the abstract step it is. `StartRegister` is `Open`, a
failure between the row and its registration `Abandon`, `SessionExpires` is
`Forget`, and `Crash` is `Restart`, which also ends the runs on their way.
`EndSessionMaps` is the heart: the first end of a session is `End`, because none of
its streams is closed yet, so none throws and all are closed together; a later end
is `EndAgain`, whatever throws.

`ScheduledJobsProofs` proves `IInv` of `ScheduledJobs` inductive, and from it
`ClaimsAreReleased` and `EnsureIsExclusive`, for any number of jobs, pollers,
manual runs and chats and with failing calls. `ClaimsAreReleased` is not
inductive alone: that a refusal or an exception leads to a mark needs that the
handler is not in its catch block yet (`HandlerInv`), and that a handler may drop
its claim of a deleted job needs that a lock lies on a row. The proof has one
lemma for types, handlers, locks and promises each, and a step per action in each.
`SettledClaims` and `SettledEnsure` hold what the others rely on: settling a
promise moves its handler and all who wait at once, and none loses its claim.

`JobPromisesProofs` proves `AnswersAreShared` and that `ScheduledJobs` implements
`SingleFlight`. Every step of a handler has one of four shapes, which the module
names and proves once: it stays outside, enters, settles the promise for all that
wait, or stays inside. The two theorems follow shape by shape, from
`EnsureIsExclusive` (nobody else leads the job) and from the fact that a job is in
`binding` exactly while someone leads it.

`DomainControlProofs` proves `IInv` of `DomainControl` for any hosts, proxies and
requests, with removals and failing calls, and from it `ActiveIsProved` and
`RoutesAreProved`. The rows alone are not inductive, because requests write back
what they have read: `SoundRequest` says what a request may carry at each await (a
row it read was sound then, and a row stays vouched for, proved or contested; the
rows it routes are; the token of a verify past its DNS query was seen).
`FindsItsRow` is the heart: the row a verify finds under its host is the one whose
token it asked for, or a contested one. `Fresh` says that a number is never given
twice, so that a new row owes nothing to the proofs of earlier ones. `Refinement`
proves that the specification implements `HostLifecycle`: `UpsertDomain`, `SetPut`,
`RemoveRow`, `Verify` and `VerifyDns` each have a lemma that names the abstract step
they are; a request that ends gives its question up, and all others stutter
(`QuietMaps`).

`UploadsProofs` proves `IInv` of `Uploads` for any tabs, items, number of chunks
and faults, and from it `FileIsWhole`, `ReportedIsThere` and `OneTabUploads`. The
strengthening is `RequestOK`: a completion that is about to read chunk `p` has
read exactly those before it, so what it stores is whole although the chunks
may be deleted behind it; and an answer that says "stored" is on its way only if
there is a file. `StoredOK` carries that over to the tabs and `QueueOK` to the
records. `LeaseOK` is the heart of `OneTabUploads`: a run that is neither cancelled
nor exposed holds a live lease, and a tab between the read and the write of its
`tryAcquire` that is not exposed has read the lease as it still is. So whoever
writes the lease either takes it from nobody or exposes the run it takes it from
(`Written`), and a confirming read that finds its own name finds the lease that
covers the run it begins, or knows that it has run out.

`PendingIsDriven`, `AnswersAreAwaited` and `QueueForgetsOnlyDone` rest on a second
inductive invariant, `WakeInv`. `PendingIsDriven` alone is not inductive: that an
answer drives its item needs that there is one to come, which is `AnswersAreAwaited`;
and that one needs that every retry has a number of its own (`retrying` holds numbers
given before, so a new one is new), that a cancelled run is not listed any more, so
that a new upload does not inherit its requests, and that a tab that is closed knows
of nothing. The liveness
property `ItemsSettle` rests on the same fact: nothing waits without a cause to go on.

`StudioEventsProofs` proves `IInv` of `StudioEvents` for any streams and any page
and memory sizes that satisfy the assumptions, and from it `SentOnce`,
`SentInOrder` and `PageNeverGoesBack`. Its heart is `SendStream`: an event that is
asked for again was sent with the cursor's own stamp; since what was sent is
ordered, it is among the last of it, and since one stamp has at most `PerTick`
events (a pigeonhole argument over injections) it is among the remembered ids.
From it follow `NothingSkipped` (the cursor only moves to the stamp of the row that
was sent or skipped, and an answer that is cut holds the first of what was asked
for) and `FeedRefinement`: `Send` is `Deliver`, the page's `Load` is `Reload`, `Stamp` is
`Make`, `Store` is `Publish`, and the rest of the stream and the page stutters.

Only model-checked: the liveness properties (`StreamsEnd`, `SessionsReclaimed`,
`RowsSettle`, `DueJobsAreAttempted`, `ItemsSettle`, `VerifiedSettles`,
`EventuallySent`), because fairness is out of the prover's reach. Each is checked
on one instance only. Every invariant and action property of the passing runs is
proved. The other way round, `ImplementsSingleFlight` is proved and in no run
(section 4).

## 9. Where the repository says otherwise

Two runs end in a violation, each of one sentence of the repository:

- `jobs_once`: "so scheduled jobs can be safely picked up once"
  (`CHANGELOG.md:137`). `lockScheduledJob` reads, checks and then writes without
  a condition, so two scans that overlap both claim the job.
- `uploads_stored`: "finalization rechecks path conflicts" (plan of 26-04-19,
  lines 398-399). A completion that finds a file at its path answers success,
  and the tab announces a file that was never stored.

The following were met while modelling and have no run of their own:

- "1 active run per Studio" (`lib/server/runtime-limits.ts:29`): overlapping starts
  pass the check before either row exists. `QueueOvershootIsBounded` is what holds.
- "stopping an active run cleanly ends execution" (`CHANGELOG.md:316`): no abort
  signal reaches `streamText`, `setRunAbortController` has no caller.
- "Wait for that run to finish" (`lib/server/runtime-limits.ts:103`): after a
  restart the row stays active until its own chat is opened or posted to.
- A mark writes a `nextRunAt` that follows from a row it read earlier: paused then
  and enabled since, the job is never due again
  (`lib/server/surreal-scheduled-jobs.ts:269`).
- "require verification before `status = "active"`"
  (`apps/nova-cloud/planning/2026-04-25-nova-domain-control-frp-plan.md:375`; the
  test `keeps custom domains pending until verification`,
  `apps/nova-domain-control/tests/store.test.ts:25`): a verify that is under way
  when its host is removed and claimed again activates the new row, whose token
  nobody has published (`server.ts:193`, `:207`). Checked without its exception,
  `ActiveIsProved` fails on the instance of `domain_safety` in twenty steps: claim,
  verify, the DNS shows the token, remove, claim again, and the verify goes on.
- `mergeWorkspaceRoutes` drops the managed routes of every other proxy
  (`apps/nova-domain-control/src/caddy.ts:50`).
- An event that reaches the jobs page while a refresh has read the rows already is
  dropped by the refresh's guard
  (`routes/(app)/app/studios/[studioId]/jobs/+page.svelte:115`).
- A cancel between two requests of an upload is seen only when `#uploadItem` is
  through (`lib/files/upload-manager.svelte.ts:409`).
- Two tabs may upload one item at once: the lease is given up on `beforeunload` while
  the page and its upload go on (`lib/files/upload-coordination.ts:64`), and two
  `tryAcquire` that overlap may both succeed, when one reads before the other writes
  and writes after the other has confirmed (`:72-83`). The plan asks for a "simple
  active-owner lock" only
  (`apps/nova-cloud/planning/2026-04-19-resumable-upload-persistence-plan.md:484`).
  `OneTabUploads` is what holds.

## 10. Not modelled

Of the modelled component: message contents, prompts and tools other than the
runtime's row writes; `endedAt`, `error`, `liveAttachable` and the session's
`status`, which no server code branches on; the status `preparing`, which no
code writes; ownership checks (one user). Reads that precede a handler's first
branch (`getChat`, the plan) change nothing and are part of its first action.
The chat page's loader fails a run at the default age of 5 minutes although the
pro plan allows 15: `LoaderAge` and `PolicyAge` keep the two apart.
Of scheduled jobs: calendar arithmetic (`nextRunAt` is in the future, or null),
titles, prompts, Studio events, and the messages a start saves. One hazard was
met that no property covers: a mark writes back the chat its handler started
with, so that a chat deleted meanwhile is bound over its replacement and the next
run makes a third.
Of domain control: the requests that only read, the frp plugin's among them, the
store in memory for a server without a database, addresses and ports. Of uploads:
batches of several items, progress, folders and moves of files. Of Studio events:
the pages other than the jobs page; the sidebar and the sandbox page refresh
without a guard, which is the mutant `AskAlways`, and the sandbox page opens its
stream again after an error.

Components without a module, and why:

- What a late listener of a run is replayed. Attaching and publishing are each one
  step of one process, so only the cut at 40 events is left to a property.
- The chat client: which of its handlers run, and when, is decided by Svelte's
  tracking of effects, which the source does not show.
- Sandboxes, previews and workspaces: rows that are selected and then created or
  written back (`upsertPrimaryForStudio`, `runtime_dev_logs`) against a cluster
  whose behaviour is not in the source of these handlers. The first candidate for an
  extension.
- The canvas editor: sequential. Its hazards are local: a move that changes
  nothing, or a delete that finds nothing, adds a history entry and drops what
  could be redone (`store.ts:441`), and moving another component leaves the
  selection's path where it was (`store.ts:426`).
- Skills, chats, sidebar, search, integrations, memory, authentication, database
  access: one query or one write per request, no protocol of their own.
- nova-frp, puck, the generated parts and the user interface, which are most of the
  repository's lines: third-party, generated or presentation.
