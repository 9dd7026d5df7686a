# fimidara server: a TLA+ verification of its queues, jobs, uploads, access and counters

fimidara is a file server: workspaces hold folders and files, which live in one or several file
backends; agents with permission items read and write them. Most endpoints are one MongoDB
transaction. What is hard to get right is what spans several: jobs that run jobs on worker threads,
request queues that serialise work, uploads that keep a file over many requests, deletions that
cascade, cached counters that are written back later. This directory models those parts, checks them
with TLC and proves what matters most with TLAPS.

## 1. The system

### Components

| Component (directory under `src/src`) | State it keeps | Operations | What makes it correct | Modelled by |
|---|---|---|---|---|
| Job queue (`endpoints/jobs`) | job documents in MongoDB: status, runner, parents, conditions, cooldown | `queueJobs`, `getNextJob`, `runJob`, `completeJob` | a job is run by one worker at a time; a job is completed when everything below it is; a failure reaches the ancestors; queued jobs end | `JobQueue` |
| Worker threads and pool (`endpoints/jobs/fworker`, `fimidaraWorker`) | threads, message ports, acknowledgements waited for, a lock per thread | start, ask for a job, stop, dispose | a job that was given is run; a worker is stopped after the job it runs | `WorkerPool` |
| Request queues (`utils/shardRunner`, `contexts/queue`, `contexts/pubsub`) | a Redis stream or an array; subscriptions; an active flag per queue and process | `queueShardRunner`, `startShardRunner`, `handleShardQueue` | an item is handled once, a caller gets the answer of its item or an error, nobody waits for ever | `RequestReply`, `ShardRunner` |
| File uploads (`endpoints/files`) | file documents with a write flag, a client id and a multipart id; parts; mount entries; the backend's objects and parts | prepare, upload, start, complete, abort, delete | one upload writes a file at a time; an object is one upload's; no file stays checked out for ever | `FileUpload` |
| Deletion (`endpoints/jobs/runners/runDeleteResourceJob`, `runDeletePermissionItemsJob`) | job meta with the page reached, soft-deleted documents | pages of children, artifacts, the resource itself | everything below a deleted resource is deleted, and nothing else | `Cascade`, `Access` |
| Creating folders (`endpoints/folders/addFolder`) | folder documents, queues chosen by a part of the path | `addFolder`, `ensureFolders` in batches | one folder for a path, with its parents; only who may adds one | `AddFolder` |
| Permissions (`contexts/authorizationChecks`, `contexts/semantic/permission`, `endpoints/permissionItems`, `permissionGroups`) | permission items, assigned groups | check, list, add, delete, assign | the most specific item decides; what is removed leaves nothing | `Permissions`, `Access` |
| Collaboration requests (`endpoints/collaborationRequests`, `collaborators`) | requests, memberships | send, revoke, respond, delete, remove | who is removed has nothing left | `Access` |
| Usage (`contexts/usage`) | monthly records in a cache, two batches of writes, per thread | increment, decrement, commit, dispose | what is permitted is counted once; the budget holds; nothing counted is lost | `Usage` |
| Other runners (`endpoints/jobs/runners`) | job meta | ingest, mails, multipart completion, waitlist | as the job queue | `JobQueue`, `FileUpload` |
| Server app (`endpoints/app`) | an app document with a heartbeat, a cached list of active apps | `startApp`, heartbeat, refresh | a live app is listed | not modelled |
| Create-or-retrieve (`utils/concurrency`, `contexts/redlock`) | a lock, an acknowledgement, waiters | `createOrRetrieve`, `deleteAck` | one creator | not modelled (called by tests only) |
| Users, sessions, tokens, tags, presigned paths, workspaces | documents | one transaction each | uniqueness, expiry | not modelled |
| File backends (`contexts/file`) | none | calls of S3, file system, memory | input and output | what an upload sees of them: `FileUpload` |
| Data layer (`contexts/data`, `contexts/semantic`) | MongoDB collections, transactions | queries, `withTxn` | a transaction that lost a write conflict runs again | in `JobQueue`, `AddFolder` |

### How they interact

Endpoints write documents and queue jobs in a transaction. The main thread of a runner process
starts worker threads; a thread asks the main thread, over a message port, for its next job, the main
thread marks one as started in a transaction, and the thread runs the job's handler, which may queue
children, and completes it. `addFolder`, `prepareFile`, usage and multipart-id requests go
through a request queue: the caller adds an item to a Redis stream, publishes a wakeup and waits on a
channel of its own; the process that handles the queue's shard reads batches, handles them and
publishes results. An upload prepares its file through such a queue, makes the folders it lacks through
another, counts its usage through a third, and leaves the completion of its parts and the deletion of
files to jobs. Usage is counted in the memory of the process that handles the usage queue, and
written to MongoDB every ten minutes; a job that deletes a file decrements in its own thread's memory.

The modules meet where the code does. `JobQueue` takes workers as they are and `WorkerPool` says what
they are; `Cascade`, `Access` and `FileUpload` take from `JobQueue` that a queued job is run, perhaps
again after a crash, and that a job waits for its children; `AddFolder` and `Usage` take
from `ShardRunner` that an item is handled once at most and that a caller may give up at any time.
Putting two of them into one specification multiplies their states without a shared variable that
would make it worth it; what one takes of the other is an action of it (`GetNextJobLate`, `Start`, `GiveUp`).

### What is hard

- Two transactions that read the same documents and write different ones both commit
  (`completeJob` of a parent and of its child; a file that is created twice).
- Calls that nobody awaits: the update of a parent, the wakeup, the results, the writes of job meta, the
  reset of a write flag, the cleanup of a multipart upload.
- A worker or a server that dies between two steps; an answer that comes after its timeout.
- Sums that are cached for ever and written back as absolute values, by more than one thread.
- Reading before an await and deciding after it: the status in `completeJob`, the empty queue in
  `handleShardQueue`, a file that is free, a folder that is there, an entity that exists.
- Pages by number over a collection that is being emptied.
- A handler that throws half way: what it has queued goes on, what it has not done nobody does.
- Time as an identity: idempotency tokens and the ids of in-memory messages are `Date.now()`.

`PROJECT.json` lists each hazard at its line with the properties that are about it.

## 2. Modules

| Module | Role |
|---|---|
| `JobQueue` | job documents, workers, `completeJob` transactions, faults; properties; inductive invariant |
| `RequestReply` | what a request queue promises its callers (abstract) |
| `ShardRunner` | callers, the queue, wakeups and servers in detail; implements `RequestReply` |
| `Usage` | the usage provider of the server and those of worker threads |
| `FileUpload` | single and multipart uploads of one path, their completion, abortion, expiry and deletion |
| `Cascade` | what deleting a folder, a file or the permission items of a query takes with it |
| `AddFolder` | batches of requests for folders |
| `Permissions` | who may do what, as operators over stored items (no state) |
| `Access` | permission items, groups, collaborators and their removal; evaluates `Permissions` |
| `WorkerPool` | threads, ports, the run lock, stop and dispose |
| `JobQueueProofs`, `ShardRunnerProofs`, `UsageProofs`, `FileUploadProofs`, `CascadeProofs`, `AddFolderProofs`, `AccessProofs`, `WorkerPoolProofs` | theorems |
| `MCJobQueue`, `MCShardRunner`, `MCUsage`, `MCFileUpload`, `MCCascade`, `MCAddFolder`, `MCAccess`, `MCWorkerPool` | instances and symmetry for TLC |

Definitions named `X_Something` under the comment "Mutant" are wrong versions of `X`; `PROJECT.json`
says which property each of them breaks. They are in no specification.

### JobQueue

`status`, `runnerId` and `cooling` (cooldownTill still to come) are the documents; `exec[w]` is the job
whose handler worker `w` runs, `inserting[w]` the jobs its `queueJobs` call has yet to commit, and
`call[c]` a `completeJob` call: a slot per worker for its own, and the slots `Calls` for the updates of
parents, which nobody awaits and so overlap with everything. A call has two steps, as a transaction
has: `ReadJob` takes the snapshot, `SaveStatus` commits. MongoDB refuses the commit, and the callback
runs again (`RetryTxn`), only when *the written* document was changed since; `Touch` marks the open
transactions that a write conflicts with. A child that changes between the two steps goes unnoticed.

`GetNextJob` is one step: both searches, the cooldowns of the jobs they pass over, and `markJobStarted`
are one transaction on the documents it returns. `GetNextJobLate` is the same with an answer that comes
after the worker's ack timeout. `Crash` is a thread that dies with its handler, its calls and the
updates of parents it has started. A cooldown ends at any time if `RunsOutlastCooldown`, and otherwise
not while the job is being run.

History variables: `lost` (parents one of whose updates died with a worker), `threw` (jobs whose last
handler threw).

Properties, and what they assume:

- `OneRunner`: a job is run by one worker at a time. It needs runs that are shorter than the
  cooldown, as nothing else protects a job: the list of active runners does not (section 5).
- `CompletedIsSettled`, `FailureReachesParent`, `TerminalIsFinal`, `DependenciesHold` assume `Orderly`:
  in addition no cron job (it starts over on purpose) and no handler that returns before its
  `queueJobs` calls have committed (ingest does).
  `DependenciesHold` is about conditions on jobs that are in the collection when the job is fetched:
  `areJobRunConditionsSatisfied` ignores missing ones, so that a condition on a job that is queued
  later may be unmet while the job runs.
- `LeafJobsEnd`, `FailureSpreads`, `CronRunsAgain` are liveness properties.

### ShardRunner

`step[c]`, `answer[c]` and `queueId[c]` are the caller's `IRunArtifacts`; `queue` is the stream, a set of
messages
with an id, a caller and, for their order, the callers whose messages were there before them (`behind`), from
which
`First` and `Batch` read and `Without` removes;
`deletes` and `alerts` are the `deleteMessages` and `publish` calls that are made and not awaited;
`wakeups`, `listening` and `outputs` are the pubsub channels; `active` and `runner[s]` the state of a
server's `handleShardQueue`, whose rounds go `reading` (getMessages is called), `removing` (Redis has
returned the messages and the removal is on its way; in memory this is one step), `read`.
`config` is the setup, chosen once from the constant `Configs`: Redis or memory, and a handler that is
given the batch or one item after the other.
An ack only makes the caller's timer run for longer. As the timer may fire at any time it is set, acks
are left out. A server that has ended finishes its round and publishes nothing; one that crashes loses
what it holds.

A queue number is given to one process by the configuration (`addFolderQueueNo` and its likes): a server
starts when the one before it has stopped (`MayStart`), and one that takes another's place is another
element of `Servers`. What two servers that read one queue at the same time would do is not claimed:
both could read an item before either removes it.

`RequestReply` is the promise: an item is handled once at most, a request is resolved only after its
item has been handled, and is settled once. `KeepsPromises` is the refinement, with the history
variable `runs` in place of the abstract one. `MessageAccounted` says where the item of a request that
is still waited for can be. It is claimed for Redis only: in-memory ids are `Date.now()`, and a caller
that gives up removes every message with its id.

### Usage

One process at a time handles a workspace's usage queue, one request after the other. `cache`, `batch`,
`committing` and `busy` are `usageL2Cache`, `usageL2BatchedUpdates`, `committingUsageL2BatchedUpdated`
and its flag; `l1Batch`, `l1Committing` and `l1Busy` the same for the records of single requests; `db`
and `l1Db` the documents. `handling` is the request in turn: `Begin` takes its month, `GetUsageL2` reads
or makes each monthly record it needs, and `FulfillRecord`, `DropRecord` or `Decrement` decides and
writes to the cache and the batches in one step, as the code does between two awaits. A commit takes the
batch (`CommitL2`), and ends (`L2Committed`) or fails (`L2Fails`) later, with requests in between.
`Dispose` commits and `Exit` follows when the running commits have ended; `Crash` may come at any time,
after the transaction of a running commit has taken effect or before.

`WorkerDecrements`, `WorkerCommits` and `WorkerCrashes` are the providers of worker threads, which a
deletion uses without the queue. A worker's commit is one step, as nothing is claimed of the sums it
touches. Two transactions that make the same monthly record at once (MongoDB would accept both) are
left out: only a worker and the server could do so, on such a sum.

A cost is the usage times a price, so that one number stands for `usage` and `usageCost`. Over-approximated:
the order of requests, whether a bill is overdue (any answer of the cached workspace), and when commits
start. History variables: `ledger` (what was counted under each key), `lost` (a process took sums
with it), `l1Lost` (its records), `shared` (the keys a worker has read).

- `LedgerKept`: as long as no process has taken sums with it, the cached sums, and what the database will say
  once the batches are committed, are what was counted, except for sums that a worker has read.
- `BudgetHolds`: the total that is permitted in a month is within the budget. Decrements do not reduce it.
- `RecordedOnce`: a decided increment has one record in one place, whichever commits fail.
- `RecordIsStored`: it reaches the database. A failed commit keeps its records until something new is
  counted, as `commitBatchedUsageL1Updates` returns when the batch is empty; the property says so.

### FileUpload

One path, and what is stored at it. `file` and `entries` are the file documents and which of them have a
resolved mount entry; `at`, `of`, `idOf` and `part` what each request, or each client of the SDK with
its part requests, is doing; `lock` the lock of the path in `handlePrepareFileQueue`; `object`, `stored`,
`open` and `issued` the backend; `partDocs` the documents of parts; `cleanups` the calls of
`deleteMultipartUpload` nobody waits for. Data is who wrote it: an object is a set of pairs of an upload
and a part.

`Lookup`, `Decide`, `Create` and `Awakes` are `handlePrepareFileEntry` and its queue; `Checkout` is
`checkoutFileForUpload`, with the take-over of an expired multipart upload. A single upload stores its
data (`Store`) and writes its final fields (`Finish`), or fails and resets the flag later (`Fail`,
`SetFileWritable`). A client starts (`StartMultipart`, `RecordId`: the backend's id is made before it is
recorded), sends parts in parallel (`SendPart`, `StorePart`, `SavePart`, `PartFails`), completes
(`RequestCompletion`, `JobReads`, `JobAssembles`, `JobFinishes`, `JobFails`: the job runs later and reads
the file as it is then), or aborts (`Abort`, `DeleteMultipart`). `GiveUp`, `Return` and `Expire` are
clients that stop, that come back, and the day after the last part. `BeginDeleteFile` and `RunDeleteFile`
are the deletion. `Crash` is a server that stops, `StrayPart` a part for a path whose file was deleted.

Five constants switch on what the code does and a property cannot survive, so that each property says
what it assumes: `FreshIds = FALSE` (disk and memory give every multipart upload of a file the file's
id), `Resumes` (clients come back after their upload expired), `SlowCleanups`, `StaleLookups`,
`ReusesPath`. Section 5 says what each of them breaks.

- `OneWriter`: two uploads never write one file.
- `MultipartIsWhole`: an object is a single upload's, or all parts of one client.
- `ReadableHasObject`: a file that can be read has data.
- `HeldHasHolder`: a file that is checked out has an upload that will release it, or a time at which
  others may take it, unless a fault came between.

### Cascade

A node is a folder, a file or a permission item, or the query of a `deletePermissionItems` call; `doc` and
`request` are of a node, `job`, `page`, `meta`, `saves`, `batch` of a job, of which a node may have several:
one for a request, one for each job that finds it, and one more when a page is read again. `Delete`, `Queue`
and `Mark` are the request, of which the job's transaction commits before the mark's; `Start`, `ReadPage`,
`QueuePage` and `Erase` are `runDeleteResourceJob` and `runDeletePermissionItemsJob`, `SaveMeta` the update of
the page nobody waits for, `Look` and `Insert` a child that is being created meanwhile. `Page(j)` is what
`skip`/`limit` return of what is there *then*. `WorkerDies` and `ServerDies` are the crashes.

How a job ends is `completeJob`: `Outcome` is the status it gives, failed if a job below has failed, waiting if
one is unfinished. A handler returns (`Complete`) or throws (`Throw`), at any await:
`resolveBackendsMountsAndConfigs` is called outside any `try` (`folder.ts:54`, `file.ts:151`) and throws without
mounts or configurations (`mountUtils.ts:131`, `153`), and any transaction may be refused (`folder.ts:80`). A
job that threw is never run again. It is failed, and `Settle` and `FailDead` carry that to the jobs above it,
those that wait and those whose worker is dead; or, if jobs below it are unfinished, it waits and is completed
after them, with its document still there.

History variables: `error[j]` is what became of the error of a job: `"told"` if it left the job failed, `"hidden"`
if the job waited instead; `found[j]` are the nodes whose jobs `j` queued, and `lost` the permission items that
were marked in a batch whose jobs were never queued.

Properties, and what they excuse:

- `NoOrphan`, about folders and queries of one page (1000 children): a child is left in what is erased only if
  an error stopped a job *of its own* (`Stopped`). An error elsewhere, above or beside it, excuses nothing.
- `OnlyAsked` excuses nothing.
- `CompletedMeansErased` excuses a hidden error only. An error that fails its job fails all that wait for it.
- `MarkedIsErased` excuses an error of a job of the node's own, and `lost`.

They assume that two calls of `queueJobs` are not made in one millisecond (`SameInstant`) and that no child is
inserted in a folder while its job runs or after (`LateInserts`). Without the excuses they do not hold
(section 5).

### AddFolder

`folders` are the documents, each with the batch that made it and the parent it names; `status[c]` what a
client knows; `batch[s]` and `seen[s]` the batch a server handles and the folders its transaction sees.
`Take` and `Handle` are `handleAddFolderQueue`: `Prepare` is what an input adds to those before it,
`HasAccess` the check that is shared by the inputs of an agent, `Inserted` and `AnswerTo` who gets what.
`Upload` is what an upload does after `ensureFolders`. `GiveUp`, `Retry` and `Crash` are the troubles.

- `OnePerPath`: one folder for a path. `ParentsStored`: a folder's parent is there.
- `OnlyAllowed`: a folder was asked for by somebody who may add it.

### Permissions and Access

`Permissions` has no state: `Layers`, `Reached` and `Order` are the search for an agent's groups,
`Considered`, `Before` and `Deciding` the items that apply, their order and the one that comes first, and
`Shown` the listing of a folder's children, which the code decides in another way than each child.

`Access` has the items, assignments, memberships, groups and requests that exist, calls that have checked
and not yet written (`calls`), and removal jobs (`jobs`, `doomed`). An endpoint is `CheckAdd` and `Add`,
or `CheckAssign` and `Assign`, with anything in between. In each reachable state TLC evaluates
`Permissions`:

- `NoBetterItem`: the item that decides is beaten by none that is more specific, nearer or newer. It is
  the reference definition `Deciding` is checked against, stated by what must not be passed over and not by
  ranks.
- `ShownIsAllowed`: the files an agent is shown are those it may access, where the two agree to.
- `GoneHasNothing`: who was removed has nothing left that was not given late.

### WorkerPool

`pool`, `known`, `ready`, `heard`, `stop` and `disposal` are the main thread's; `at`, `asked`, `reply`
and `late` the threads'; `runner` and `done` what the database says of jobs. `Ask`, `Serve`, `Receive`,
`GiveUp` and `ServeLate` are a request for a job and its acknowledgement in time, late or never;
`TakeStop`, `PostAck`, `GetAck`, `AckTimesOut`, `GracefulTimesOut` and `Terminate` are `stopWorker`.
`short` says which of the two timeouts of a stop is the shorter: the acknowledgement's five seconds, or
the graceful one that is configured. `JobIsKept` says where the job a worker was given is until it is done;
`WorkerStops` that a thread that is told to stop does.

## 3. Runs

| Run | Instance | Shows |
|---|---|---|
| `jobs_safety` | 4 jobs (r > a > c, r > b, with b after a and c), 2 workers, 2 calls, 2 faults | `TypeOK`, `OneRunner`, `CompletedIsSettled`, `FailureReachesParent`, `DependenciesHold`, `TerminalIsFinal` |
| `jobs_live` | parent and child, fair, 1 fault | `LeafJobsEnd`, `FailureSpreads` |
| `jobs_cron` | a cron job, a parent whose handler does not await its child's insertion, fair, 1 fault | `CronRunsAgain` |
| `jobs_waiting_parent` | parent and child, fair | violated: a parent waits for ever over completed children |
| `shard_safety` | 2 callers, 2 servers in turn, the three setups, batches of 2, 1 fault | `TypeOK`, `MessageAccounted`, and `KeepsPromises`: the queue implements `RequestReply` |
| `shard_live` | 2 callers, 1 server, the three setups, fair, 1 fault | `RequestSettles`, `RejectedLeavesQueue` |
| `usage` | 2 increments of different cost, a deletion, 1 worker, 2 months, 1 fault, fair | `TypeOK`, `LedgerKept`, `BudgetHolds`, `RecordedOnce`, `RecordIsStored` |
| `upload` | 1 single upload, 2 clients, 2 files, 2 parts, 2 ids, 2 troubles | `TypeOK`, `OneWriter`, `MultipartIsWhole`, `ReadableHasObject`, `HeldHasHolder` |
| `cascade` | a folder, a permission item about it that is being added and that matches a query, that query; page size 1, 2 requests, 1 crash, 1 error of a handler, fair | `TypeOK`, `NoOrphan`, `OnlyAsked`, `CompletedMeansErased`, `MarkedIsErased` |
| `folders` | 5 requests of 3 agents, 1 server, batches of 3, 2 troubles | `TypeOK`, `OnePerPath`, `ParentsStored`, `OnlyAllowed` |
| `access` | 1 user, 3 groups (one public), 1 file, 6 kinds of item, 4 assignments, 2 additions, 1 removal, 1 call under way | `TypeOK`, `NoBetterItem`, `ShownIsAllowed`, `GoneHasNothing` |
| `pool` | 2 threads, 2 jobs, 2 faults, either timeout the shorter, fair | `TypeOK`, `JobIsKept`, `WorkerStops` |

Bounds. *Jobs*: a tree of depth three is the smallest in which a call made for a child meets a call made
for a grandchild, and a parent with two children the smallest in which one child fails or ends while
another runs; two calls in flight are enough for two such updates to overlap. Two faults make a worker
die and its successor die or miss its answer. *Queue*: two callers are enough for one to remove another's
message and for a batch. `MaxClock` is 1: two messages get the same time or different ones. *Usage*: two
increments, of which either is within the budget of 2 and both are not, are enough to see one decided on
a sum that lacks the other; one fault makes a commit fail with requests counted after it, or a process
die and its successor read the database. Two months are enough for a sum to carry over. *Uploads*: two
clients are the fewest of which one takes over from the other, two files the fewest for a path to be used
again after a deletion, two parts the fewest that can be mixed or missing, and two ids what two clients
need. Two troubles let a client stop, expire and be replaced by one that stops too. The invariants that
the proof of `OneWriter` rests on were also checked with one part, `ReusesPath` and `SlowCleanups` (933654
states). *Cascade*: the item fills the page of its folder and that of the query, so that the page after a full
one is read; two jobs of it, queued from either side, meet; an error and a crash may hit the same job or
different ones, in either order. A chain of three levels and a folder with two children were checked for the
invariants the proofs rest on; in the run each job has one job for what it finds, and reading a page again
queues no second one (the theorems are about any number). *Folders*: two
requests share a
folder, one is denied, one's agent is gone, one is inside a folder that is there; batches of at most three
split them in every way. *Access*: a user with two groups, one of which has the other, and a public group
that shares one, give every case of the order of entities; two items of six kinds every pair that competes.
*Pool*: two threads are enough for one to hold up the disposal of the other.
`CHECK_DEADLOCK FALSE` is set where the system really stops: all requests settled, all uploads ended, all
threads stopped.

Symmetry is used in safety runs only (workers, calls, callers, servers, clients, files, parts, ids).

Fairness. Threads poll for ever (`FimidaraWorker.run` calls itself), handlers return, transactions are
retried until they commit, timers fire, Redis answers. Fairness is weak, on each actor's own steps, with
one exception: in `WorkerPool` the handler of `stopWorker` waits for the run lock, which the thread's loop
takes again and again; locks are granted in order, and so its fairness is strong. In `Cascade` requests
that began go on and workers take the jobs they find, one job's work at a time; nothing is assumed of errors,
nor of the updates of waiting jobs. In `Usage` the L1 interval
of a process that is up commits again and again, transactions end, and a disposed process exits; requests
may never come. Nothing is assumed of faults, of endpoints, of servers being started or stopped, nor of
the order in which workers are given jobs: among jobs that may be fetched `getNextJob` says nothing of
ties, so that with a cron job beside it another job may never be picked, and `LeafJobsEnd` is claimed
where there is none.

## 4. Proofs

Every invariant the passing runs check is a theorem, as are the action property `TerminalIsFinal` and the
refinement of `RequestReply`. `ShardRunner` and `Permissions` are proved about through `RequestReply` and
`Access`. What a theorem assumes of constants is in its statement, or in an `ASSUME` of the module.

`JobQueueProofs` proves, for any set of jobs with any tree of parents, any workers, conditions, cron and
detached jobs, and any number of faults:

- `TypeCorrect`: the type invariant.
- `OneRunnerHolds`: with `RunInv`, that whoever runs a job holds it in cooldown and has no call open.
- `CompletedIsSettledHolds`, `FailureReachesParentHolds`, `TerminalIsFinalHolds`.
- `DependenciesAreKept`: the conditions of a job hold as long as it is run, if (`QueuedBefore`) it is not run
  while a job that it runs after has yet to be queued, unless that one is below another that has to be
  completed. `DependenciesInOneTree`: where all conditions of a job are about one job that has to be
  completed and jobs below it, or about a single job (as in `jobs_safety`), nothing need be assumed of when
  jobs are queued.

The three of `Orderly` are not inductive: that a parent is completed only over completed jobs depends on what a
transaction *has read* still being so when it commits. `IInv` says what of it is: `SnapOk` that a
snapshot without unfinished or failed descendants means the descendants are settled now, if the call is
the worker's own (nobody else inserts children) or if the job was waiting and has not been written since
(a job that waits gets no children); `CallOk` which statuses a call may change, and that a call with a
failure has a failed child behind it; `ExecInv` that a job that is run is in progress or was failed by a
descendant, and that only a job's runner inserts its children; `TreeInv` that a job comes after its
parent. `Inductive` proves `Init => IInv` and `IInv /\ [Next]_vars => IInv'` with one lemma per conjunct
(`StepCall`, `StepSnap`, `StepTree`, `StepExec`, `StepCompleted`, `StepFailure`), each with one step per
action. `DependenciesHold` follows from them: what was met when the job was fetched was a terminal status,
which stays, and a job below a completed one is not queued any more. Without `QueuedBefore` it is false:
`areJobRunConditionsSatisfied` ignores what is not there. The proofs assume what the `ASSUME`s of `JobQueue` say: parents are a parent and its parents
(queueJobs), and the null values are not members.

`UsageProofs` proves, for any requests, categories, costs, budgets, workers and months, and any number of
faults: `TypeCorrect` (no sum becomes negative), `LedgerIsKept`, `BudgetIsKept` and `RecordedOnceHolds`.
The budget needs the ledger (an increment is compared with the *cached* total), and the ledger needs
`SumInv`, that every sum in a batch is cached and every cached sum has a document: otherwise a record
that is read again from the database would lack what is still in a batch. `WorkerInv` says that workers
write only what they have read, and never a total, so that they cannot spoil the budget; `HandlingInv`
that the request in turn has no answer yet. What `Over`, the merge of sums, does is stated once
(`OverFacts`, `ThreeFacts`), and `Written`, `Taken`, `Ended`, `Spoilt` and `SameStored` say what each kind
of step does to the ledger. The proofs assume that costs and budgets are natural numbers and that the
total is no category of its own.

`ShardRunnerProofs` proves, for any number of callers and servers, any batch size, any setups and any number
of faults: `TypeCorrect`, `MessageAccountedHolds`, and `ImplementsRequestReply`, the refinement: initial
states map to initial states of `RequestReply`, and every step to one of its steps or to a stutter. The
invariant is `IInv`: `ServerInv`, that one server is up or at work; `MessageInv`, that a message that may
still be handled is its caller's only one and has not been handled (`Unhandled`), in the queue and with the
server; `CallerInv`,
that results are those of a single run; and `MessageAccounted`. The order of a queue is part of its messages
(`behind`, the callers
whose messages were before it), so that first and batch are sets and need no induction on sequences.
Assumed: one process at a time handles a queue, which is what the configuration of queue numbers says.

`FileUploadProofs` proves, for any uploads, files, parts and multipart ids and any number of failures:

| Theorem | Property | Switches it needs | The others |
|---|---|---|---|
| `TypeCorrect` | `TypeOK` | none | any |
| `OneWriterHolds` | `OneWriter` | not `StaleLookups`, not `Resumes` | any |
| `HeldHasHolderHolds` | `HeldHasHolder` | none | any |
| `OneFileHolds` | `OneFilePerPath` | not `StaleLookups` | any |
| `ReadableHasData` | `ReadableHasObject` | `FreshIds`, not `StaleLookups`, not `ReusesPath` | any |
| `MultipartWhole` | `MultipartIsWhole` | `FreshIds`, not `SlowCleanups`, not `StaleLookups`, not `Resumes` | any |

Every switch that a theorem needs is one the property is false without: with it the other way TLC finds a
counterexample on the instance of `upload` (`FreshIds` with the files themselves as multipart ids). Section 5
has those that matter.

- *Types.* `GivenInv`: a request that is under way has a file, and parts are under way only while their
  client is there or has just gone.
- *`OneWriter`.* The write flag alone says nothing of who writes: after a take-over the file is not
  writable, and so it was before. `WriterInv` therefore says what the flag, the client and the timeout mean
  together: who writes a file has it checked out for its own client, and its timeout is not over
  (`HolderInv`); a file that is free, or may be taken over, names no client, or one whose upload has expired
  (`FreeInv`, `Lapsed`); the path has one live file, and none while a request is about to create it (`OneLive`,
  `LockInv`). One lemma for each kind of step (a checkout, a new file, a release, a client that holds its
  file, an expiry) carries it, and `WriterStep` applies them to every action.
- *`HeldHasHolder`.* A client that stops leaves its file to nobody unless its multipart upload has a timeout.
  `SoundInv` adds that a file has a timeout exactly if it has a multipart id (`TimedOf`), so that the timeout is
  one by which `Available` lets others take the file over; that a client which starts has an id to record; and
  that without either the file is minded by an upload before that point, which only a fault takes from it.
  It needs none of `WriterInv`, so it holds with all the switches on.
- *`OneFilePerPath`.* `PathInv`: `LockInv`, `OneLive` and `Known`, and that while a file is live or about to be
  made no deleted one waits for its job (`DeletedInv`, unless `ReusesPath`). Unlike `WriterInv` it does not
  need that clients do not come back.
- *`ReadableHasObject`.* `DataInv`: who is past the store of its data, and whose file is live, finds an object;
  only a deletion takes objects away, and while one is to come no file is live.
- *`MultipartIsWhole`.* `WholeInv`. A multipart id belongs to one file, and at any time to one client that
  works with it (`IdsInv`, `UsersInv`). The parts with a document are those of the file's own id, or of one
  that a cleanup is on its way for (`LeftInv`), so that a client that begins again, and the job that completes,
  find parts of that client only (`MineInv`); and all of them, once the client has saved them (`PartsInv`).
  What a job assembles is either that or nothing, also when the file is deleted or cleaned up between
  the job's read and its call of the backend (`AssembledInv`).

`CascadeProofs` proves, for any nodes, any way they hold each other, any page size, any jobs and any number
of requests, crashes and errors: `TypeCorrect`; `ErasesOnlyAsked`, by `Contained`, that what has a job, a
request or a mark is below what requests deleted; `CompletionIsErasure`, where tokens differ (`~SameInstant`), by
`Finished`, that a job that waits or is completed has erased its document or hidden an error, and `Settled`,
that what a job found has a job below it and that below a completed job all are completed; and
`NothingIsLeft` (`NoOrphan`), for finitely many nodes and without `SameInstant` and `LateInserts`, either
of which breaks it (section 5). Its invariant is `FoundBy`: the number of a page other than the first is
in a job, in its document or in an update of it that is under way only when whatever is left of the
first page is covered (`Past`), by a job that is to be run or by an error of a job of its own (`Covered`).
`StepFacts` and `CoverKept` say that no step uncovers anything. So a crash may take a job back to any page
that was ever saved, in any order. `FirstPage` is the lemma on numbers: what has no more than a page of
members has them all on page 0.

`AddFolderProofs` proves, for any requests, paths and batch sizes and any number of timeouts, retries and
crashes: `TypeCorrect`, with it that no request is queued twice; `OneFolderPerPath`, for one server that
reads the queue (the code's queue numbers, section 5); `AllowedOnly` and `ParentsAreStored`, for any number of
servers. What a batch makes is a recursive function (`Plans`); `PlanOK` says of the first n inputs that what
is missing of their paths is made once, in the folder above it, and is carried from n to n + 1 by
induction. `OneFolderPerPath` rests on `SeesAll`: what the server saw is what is there.
`AllowedOnly` assumes `SeparateKinds`: a plain request of an agent that is denied is not checked in the
same folder as an upload of the same agent. The code checks access once for an agent and a folder of a batch,
and the last input of the two decides whether it is an upload's check, which is passed later,
or not (`handleAddFolderQueue.ts:53`): without it, a denied request is let through by an upload beside it.
`ParentsAreStored` assumes besides `SharedAlike`, that nobody is denied a folder that another input needs
and gets; section 5 has what happens otherwise.

`AccessProofs` proves, for any users, groups, inputs and bounds: `TypeCorrect`; `RemovalErases`
(`GoneHasNothing`) by `RemovalInv`: while a removal is under way, an entity that has been given nothing
late has items only if their turn is still to come or they have a job of their own, assignments only
until the job has erased them, and is not present; `NobodyBetter` (`NoBetterItem`), in all states in which
assignments have no circle and no chain longer than `Depth` (`Shallow`: a level for every entity that
every assignment leads out of), and `ShownMayBeAccessed` (`ShownIsAllowed`). `NobodyBetter` is about layers:
`LayersCompose` says that what is n layers above something that is m layers above an agent is n + m layers
above the agent, `LevelGrows` that a layer is never deeper than its level, and so `InheritorFirst` that a
group which inherits another's items ranks before it. `ShownMayBeAccessed` rests on there being a newest item
(`Dated`, `NewestExists`), which decides in the listing as in the check.

Induction. The library's induction theorems take an operator as a parameter, which no installed prover can
instantiate. `AccessProofs` and `AddFolderProofs` state induction over the natural numbers as a fact about
sets (`SetInduction`: a set of numbers that has 0 and with n also n + 1 has all), and prove it from
the least interval that is not in the set, which the theorems on finite sets give. The values of a
recursive function follow from that (`LayersDef`, `PlansDef` and what they are used for).

`WorkerPoolProofs` proves, for any number of workers, jobs and faults: `TypeCorrect` and `JobIsKeptHolds`.
The invariant says who awaits an answer (`AskingInv`), who has a job (`ReplyInv`) and that, unless the
graceful timeout is the shorter one, the pool terminates only who has acknowledged (`TerminatingInv`): a
thread holds its lock from its request to the end of the job, and acknowledges only without it.

TLC checked each inductive invariant before it was proved.

Model-checked only: the liveness properties (`LeafJobsEnd`, `FailureSpreads`, `CronRunsAgain`,
`RequestSettles`, `RejectedLeavesQueue`, `RecordIsStored`, `MarkedIsErased`, `WorkerStops`): fairness and
ENABLED are out of the prover's reach.

## 5. What the code does not do

One disagreement is a run: `jobs_waiting_parent`, where the last child's update of its parent is
skipped when it comes between the parent's own reads and commit, and the parent then waits for ever.

The others are stated by a property of a module that no run checks. To see one, put the property and the
constants
named here into a copy of the module's `.cfg`; TLC finds a counterexample, in seconds for most and in two
minutes at most.

| Property | Set | What the code does |
|---|---|---|
| `JobQueue!ActiveRunnerKeepsJob` | `RunsOutlastCooldown = TRUE` | active runners are excluded by app ids, and jobs hold worker ids (`getNextJob.ts:126`): a live worker's job is given to another |
| `JobQueue!ThrownRunIsNotCompleted` | no fault | a handler that throws while a child is unfinished makes a job that completes (`completeJob.ts:50`) |
| `ShardRunner!WakeupIsServed` | `Configs <- OnRedisSingly` | a wakeup between the last empty read and the reset of the active flag is dropped (`shardRunner/handler.ts:193`); the message waits for the next wakeup, or until its caller gives up |
| `Usage!CarriesOver` | `MaxMonth = 2`, `MaxFaults = 0` | the query for the previous month's stored bytes is spread from a `Date`, and so names no month (`UsageProvider.ts:292`); it finds the record of any |
| `Usage!DeletionsAreCounted` | `MaxMonth = 2`, `MaxFaults = 0` | a deletion decrements in its worker thread's own provider (`runDeleteResourceJob/file.ts:215`); that and the server's each write what they have cached over what the other has written |
| `FileUpload!OneFilePerPath` | `StaleLookups = TRUE` | a request whose lookup found no file takes the path's lock without looking again (`handlePrepareFileQueue.ts:165`) and creates a second document; `uploadFile/__tests__/concurrency.test.ts:72` expects one |
| `FileUpload!MultipartIsWhole` | `SlowCleanups = TRUE` | `listParts` lists the parts of all multipart uploads the file has had (`listParts/handler.ts:34`), so that a client that took over an expired one and resumes leaves those parts out |
| `FileUpload!MultipartIsWhole` | `FreshIds = FALSE`, `UploadIds` = `Files` | on disk and in memory a multipart upload's id is the file's: the cleanup of an ended upload destroys the parts of the one that runs (`uploadFile/multipart.ts:44`). `BUG.md:26` tells of a local multipart upload whose file differs from the original |
| `FileUpload!OneWriter` | `Resumes = TRUE` | a client that comes back after its upload expired goes on with it while the file may still be taken from it: the checkout of a part compares the client and leaves the expired timeout as it is (`checkoutFileForUpload.ts:20`), so that another upload writes the file beside it |
| `FileUpload!ReadableHasObject` | `ReusesPath = TRUE` | the job that deletes a file removes the object at its path, which may be a newer file's by then |
| `Cascade!EveryPageIsRead` | `Queries = {}`, `Items = {}`, `Absent = {}`, `Holders <- TwoItems`, `Jobs = {1, 2, 3, 12, 13}` | pages are read by number while the jobs of earlier pages erase what they hold (`runDeleteResourceJob.ts:69`, `runDeletePermissionItemsJob.ts:82`): of more than 1000 children every other page may be skipped. The test of `runDeletePermissionItemsJob` (`:120`) expects a job for each item |
| `Cascade!NoOrphan` | `SameInstant = TRUE`, or `LateInserts = TRUE` | a job's token is a time in milliseconds; a child may be inserted under a folder that was deleted since it was looked up |
| `Cascade!NothingStays` | as it is | the job of a child whose handler throws (`folder.ts:54`, `file.ts:151`) is failed and never run again (`runJob.ts:35`), while its folder is erased: the child stays in a folder that is gone |
| `AddFolder!ParentsStored` | `Asks <- MixedAsks`, `Clients = {1, 2}`, `Access <- Everywhere`, `Existing = {}` | a folder that inputs share is inserted for the one it was made for; if that one is denied, the other's is inserted without its parent, and later batches for the path fail (`handleAddFolderQueue.ts:200`) |
| `AddFolder!DeniedLeavesNothing` | `Asks <- GuestAsks`, `Clients = {1}`, `Access <- Everywhere`, `Existing = {}` | `folders/utils.ts:292` says the folders of a denied upload are rolled back; they were committed by the queue's own transaction |
| `AddFolder!OnePerPath` | two `Servers` | nothing but the one reader of a queue keeps a path unique; there is no index. The queue is chosen by the second part of the path as it was given, split at slashes (`folders/constants.ts:36`): the workspace's name if it begins with a slash, as an upload's does, or else the first folder's, so that the two ways to write a path may go to two queues |
| `Access!OnePending` | three requests | any one request to an address is looked at (`sendRequest/handler.ts:76`): beside a revoked one, further requests are sent |
| `WorkerPool!DisposedIsEmpty` | as it is | the acknowledgement of `stopWorker` is given no time of its own, so that five seconds apply and not the five minutes that are configured; `__stopWorker` and `dispose` then reject and the thread is not terminated (`FWorkerMessager.ts:49`). `FWorkerPool.test.ts:113` expects no worker |

Met while modelling, and in the modules as they are:

- *Uploads.* A single upload that is refused after its data was stored has overwritten the object. The part
  of an upload whose file was deleted makes a new file document that stays checked out (`StrayPart`), and the
  data of
  an upload whose file is deleted meanwhile stays in the backend. `completeMultipartUpload` and `deleteFile`
  do not compare
  the client's id with the file's. A cleanup is tried once. A request that times out in the queue after
  its checkout leaves the file checked out (`HeldHasHolder` exempts faults for it).
- *Deletion.* A process that dies between marking a page of permission items and queueing their jobs loses
  them (`lost`). The README of the deletion job says a resource is deleted after its artifacts' jobs
  complete; it is erased right after they are queued. `beginDeleteFolder` queues outside its transaction, so
  that a job may run before its folder is marked. A folder's job that throws after it has queued its children
  waits for them and is completed, with the folder marked as deleted for ever (`error` is `"hidden"`; the same
  path as `ThrownRunIsNotCompleted`). A job whose worker died is not run again once a child of it has failed.
- *Folders.* `addFolder` of a folder that the agent may not add is answered that it exists. Access is checked
  once for an agent and a folder of a batch. One agent whose token is gone leaves the others of its
  batch without an answer. Two exclusive requests for one folder of one batch both succeed.
- *Access.* A group's rank is the longest chain that leads to it; groups assigned in a circle have none that
  means anything, and the search is cut at depth 20. Wildcard items count only if none names the action. A
  group that is both the agent's and the public group's ranks as public. Listing and reading a folder's
  files may differ where items of several entities or wildcards meet. Allowing again what was
  denied since is left out if the older item is still there (`permissionItems/addItems/utils.ts:190`).
  A check looks neither at membership nor at whether a group was deleted. An answer to a collaboration request
  is taken
  whatever the request's status is.
- *Pool.* `startPool` never settles if a thread dies before it is ready. A request that is posted before
  `startPool` listens may be lost. A job that is given in a late answer is nobody's until its cooldown ends. A
  thread whose `runJob` rejects lives on without its loop, and one that exits is not replaced. Stopping
  and dead workers are still served.

## 6. Not modelled

Shards and priorities of jobs (they order the choice among jobs that may be fetched), the contents of jobs
and messages, the surplus branch of `ensureWorkerCount` (it is called once, with no worker), worker app
records and `process.exit`; `waitForJob`, `stopShardRunner`, `waitOnStream`, `createOrRetrieve` and
`utils/shardedRunnerQueue.ts` (called by tests only); what ingestion does to files, and the ingestion of a
file that is read by its path (nothing under `src` queues `ingestMount` jobs); reads of files and file
details; presigned paths and their use counts (one transaction on one
document; `getPresignedPaths` lists a path with no uses left as active where reading refuses it); users,
sessions, tokens, tags and workspaces
(one document in one transaction); updating and expiring collaboration requests; mounts and their
resolution, S3 and the file system (input and output); mails, logging, secrets; the SDK other than its multipart
upload, generated API documents and scripts. Paths are compared in one case.

The map covers about a tenth of the implementation's lines. Most of the rest is endpoint documents
(`*.mddoc.ts`),
generated SDK endpoints and types, validation schemas, extractors and single-document queries, which keep
no state that an interleaving, a failure or an order could spoil.

## 7. Plan

Done: every module of the first plan with its runs, and the theorems of every safety property they check.
Left out of the plan: `CreateOrRetrieve`, as only tests call it, and the heartbeat, whose list
of active apps excludes nothing.

What a continuation could take, each in the place of something smaller: the case that `NothingIsLeft` leaves
open of more than a page, for queries that mark nothing; what `SharedAlike` excludes, as a bound on which
folders may lack a parent; `NoBetterItem` with circles of assignments, whose ranks would need a definition
first; mounts and their resolution beside `FileUpload`, once several mounts are resolved by more than the
longest path.
