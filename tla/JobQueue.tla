------------------------------ MODULE JobQueue ------------------------------
(***************************************************************************)
(* The job collection and the worker threads that run it:                  *)
(* src/src/endpoints/jobs/{queueJobs,getNextJob,runJob,completeJob}.ts.    *)
(*                                                                         *)
(* A job is a document; a worker thread fetches one job at a time, runs    *)
(* its handler (which may queue child jobs), and calls completeJob.  When  *)
(* completeJob saves a terminal status it calls itself, without awaiting,  *)
(* for the job's parent.  completeJob runs in a MongoDB transaction that   *)
(* reads a snapshot and writes one job document: another transaction may   *)
(* commit between the read and the write, and the write is refused (and    *)
(* the callback retried) only when that same document has been written.    *)
(***************************************************************************)
EXTENDS Naturals, FiniteSets

CONSTANTS
    Jobs,           \* the jobs that may be queued; each has its own idempotency token
    NoJob,
    Workers,        \* runner ids (workerData.workerId)
    NoWorker,
    Calls,          \* slots for the parent updates in flight: bounds their number
    ParentJob,      \* ParentJob[j]: parentJobId of j, or NoJob
    Parents,        \* Parents[j]: parents of j, all its ancestors
    RunAfter,       \* RunAfter[j]: the conditions [job, status] of j
    CronJobs,       \* the jobs with runCategory cron and a numeric cronInterval
    DetachedJobs,   \* the jobs whose handler does not await queueJobs
    ActiveLists,    \* the values getActiveAppIdList() may have
    RunsOutlastCooldown, \* whether a run may last longer than the job's cooldown
    MaxFaults       \* bound on crashes and late getNextJob responses

Statuses == {"pending", "inProgress", "waitingForChildren", "completed", "failed"}
Unfinished == {"pending", "inProgress", "waitingForChildren"}
Terminal == {"completed", "failed"}
Outcomes == {"completed", "failed"}
Conditions == [job : Jobs, status : SUBSET Statuses]

ASSUME NullsAssumption ==
    /\ NoJob \notin Jobs
    /\ NoWorker \notin Workers

ASSUME TreeAssumption ==
    /\ ParentJob \in [Jobs -> Jobs \cup {NoJob}]
    /\ Parents \in [Jobs -> SUBSET Jobs]
    /\ \A j \in Jobs : j \notin Parents[j]
    \* queueJobs: parents = parent's parents followed by the parent
    /\ \A j \in Jobs : ParentJob[j] = NoJob => Parents[j] = {}
    /\ \A j \in Jobs : ParentJob[j] # NoJob =>
          Parents[j] = Parents[ParentJob[j]] \cup {ParentJob[j]}

ASSUME InputAssumption ==
    /\ RunAfter \in [Jobs -> SUBSET Conditions]
    /\ CronJobs \subseteq Jobs
    /\ DetachedJobs \subseteq Jobs
    /\ RunsOutlastCooldown \in BOOLEAN
    /\ MaxFaults \in Nat
    /\ Workers \cap Calls = {}

VARIABLES
    status,     \* status[j]: the status of j's document, "absent" before it is inserted
    runnerId,   \* runnerId[j]: the runner that started j last
    cooling,    \* the jobs whose cooldownTill is still to come
    exec,       \* exec[w]: the job whose handler worker w is running
    inserting,  \* inserting[w]: the jobs that a queueJobs call of w has yet to commit
    call,       \* call[c]: a completeJob call in progress
    faults,     \* crashes and late responses so far
    lost,       \* history: the parents one of whose updates died with a worker
    threw       \* history: the jobs whose latest handler run threw

vars == <<status, runnerId, cooling, exec, inserting, call, faults, lost, threw>>

-----------------------------------------------------------------------------

NoSnap == [status |-> "absent", pendingChild |-> FALSE, failedChild |-> FALSE]
NoCall == [job |-> NoJob, input |-> "completed", ifStatus |-> {},
           by |-> NoWorker, snap |-> NoSnap, dirty |-> FALSE]

Snaps == [status : Statuses \cup {"absent"},
          pendingChild : BOOLEAN, failedChild : BOOLEAN]
CallRecords == [job : Jobs \cup {NoJob}, input : Outcomes, ifStatus : SUBSET Statuses,
                by : Workers \cup {NoWorker}, snap : Snaps, dirty : BOOLEAN]

Slots == Workers \cup Calls

TypeOK ==
    /\ status \in [Jobs -> Statuses \cup {"absent"}]
    /\ runnerId \in [Jobs -> Workers \cup {NoWorker}]
    /\ cooling \subseteq Jobs
    /\ exec \in [Workers -> Jobs \cup {NoJob}]
    /\ inserting \in [Workers -> SUBSET Jobs]
    /\ call \in [Slots -> CallRecords]
    /\ faults \in 0..MaxFaults
    /\ lost \subseteq Jobs
    /\ threw \subseteq Jobs

Present(j) == status[j] # "absent"
Children(j) == {k \in Jobs : ParentJob[k] = j}
Descendants(j) == {k \in Jobs : j \in Parents[k]}
Idle(w) == exec[w] = NoJob /\ call[w].job = NoJob
Running(w, j) == exec[w] = j \/ call[w].job = j
Executing(j) == \E w \in Workers : Running(w, j)

\* A committed write of the documents in js: an open transaction that has read
\* one of them will have its own write of it refused.
Touch(cs, js) ==
    [c \in Slots |->
        IF cs[c].job \in js /\ cs[c].snap # NoSnap
        THEN [cs[c] EXCEPT !.dirty = TRUE] ELSE cs[c]]

Init ==
    /\ status = [j \in Jobs |-> "absent"]
    /\ runnerId = [j \in Jobs |-> NoWorker]
    /\ cooling = {}
    /\ exec = [w \in Workers |-> NoJob]
    /\ inserting = [w \in Workers |-> {}]
    /\ call = [c \in Slots |-> NoCall]
    /\ faults = 0
    /\ lost = {}
    /\ threw = {}

-----------------------------------------------------------------------------
(* queueJobs *)

\* An endpoint queues a job that has no parent.
QueueRootJob(j) ==
    /\ ParentJob[j] = NoJob
    /\ ~Present(j)
    /\ status' = [status EXCEPT ![j] = "pending"]
    /\ UNCHANGED <<runnerId, cooling, exec, inserting, call, faults, lost, threw>>

\* A handler calls queueJobs for a page of children.
QueueJobs(w, page) ==
    /\ exec[w] # NoJob
    /\ page # {}
    /\ page \subseteq Children(exec[w])
    /\ \A k \in page : ~Present(k) /\ k \notin inserting[w]
    /\ inserting' = [inserting EXCEPT ![w] = @ \cup page]
    /\ UNCHANGED <<status, runnerId, cooling, exec, call, faults, lost, threw>>

\* The queueJobs transaction commits: jobs whose token is in the collection
\* already are not inserted again.
InsertJobs(w, page) ==
    /\ page # {}
    /\ page \subseteq inserting[w]
    /\ inserting' = [inserting EXCEPT ![w] = @ \ page]
    /\ status' = [j \in Jobs |->
                    IF j \in page /\ ~Present(j) THEN "pending" ELSE status[j]]
    /\ UNCHANGED <<runnerId, cooling, exec, call, faults, lost, threw>>

-----------------------------------------------------------------------------
(* getNextJob *)

\* Mutant: one satisfied condition is enough.
Ready_AnyCondition(j) ==
    RunAfter[j] # {} => \E c \in RunAfter[j] : Present(c.job) /\ status[c.job] \in c.status

\* areJobRunConditionsSatisfied: conditions on jobs that are not in the
\* collection do not count, unless none of them is.
Ready(j) ==
    LET found == {c \in RunAfter[j] : Present(c.job)}
    IN  RunAfter[j] # {} =>
            /\ found # {}
            /\ \A c \in found : status[c.job] \in c.status

\* Mutant: in-progress jobs are fetched again only from runners listed as active.
UnfinishedCandidates_OfActive(active) ==
    {j \in Jobs : status[j] = "inProgress" /\ runnerId[j] \in active /\ j \notin cooling}

UnfinishedCandidates(active) ==
    {j \in Jobs : status[j] = "inProgress" /\ runnerId[j] \notin active /\ j \notin cooling}
PendingCandidates == {j \in Jobs : status[j] = "pending" /\ j \notin cooling}

\* getJobUsingFn takes candidates one by one, putting each into cooldown, until
\* one is ready: the job it returns (NoJob if none is ready) and the jobs it saw.
Visits(cands) ==
    LET ready == {j \in cands : Ready(j)}
    IN  IF ready = {}
        THEN {[got |-> NoJob, seen |-> cands]}
        ELSE {[got |-> j, seen |-> skipped \cup {j}] :
                j \in ready, skipped \in SUBSET (cands \ ready)}

\* Mutants: the selected job's own cooldown is left out; the job's id is saved
\* in place of the runner's.
MarkJobStarted_NoCooldown(w, j, seen) ==
    /\ cooling' = cooling \cup (seen \ {j})
    /\ IF j = NoJob
       THEN UNCHANGED <<status, runnerId>>
       ELSE /\ status' = [status EXCEPT ![j] = "inProgress"]
            /\ runnerId' = [runnerId EXCEPT ![j] = w]
MarkJobStarted_Swapped(w, j, seen) ==
    /\ cooling' = cooling \cup seen
    /\ IF j = NoJob
       THEN UNCHANGED <<status, runnerId>>
       ELSE /\ status' = [status EXCEPT ![j] = "inProgress"]
            /\ runnerId' = [runnerId EXCEPT ![j] = j]

\* The documents getNextJob writes when it selects j for w.
MarkJobStarted(w, j, seen) ==
    /\ cooling' = cooling \cup seen
    /\ IF j = NoJob
       THEN UNCHANGED <<status, runnerId>>
       ELSE /\ status' = [status EXCEPT ![j] = "inProgress"]
            /\ runnerId' = [runnerId EXCEPT ![j] = w]

\* Both searches run in one transaction; an unfinished job is preferred, and a
\* pending job found with it keeps its cooldown without being started.
Selected(u, p) == IF u.got # NoJob THEN u.got ELSE p.got

\* A worker asks the main thread for a job and runs what it gets.
GetNextJob(w) ==
    /\ Idle(w)
    /\ \E active \in ActiveLists :
       \E u \in Visits(UnfinishedCandidates(active)), p \in Visits(PendingCandidates) :
          /\ MarkJobStarted(w, Selected(u, p), u.seen \cup p.seen)
          /\ exec' = [exec EXCEPT ![w] = Selected(u, p)]
          /\ threw' = threw \ {Selected(u, p)}
          /\ call' = Touch(call, u.seen \cup p.seen)
    /\ UNCHANGED <<inserting, faults, lost>>

\* The response comes after the worker's ack timeout: the job has been marked
\* as started but nobody runs it.
GetNextJobLate(w) ==
    /\ Idle(w)
    /\ faults < MaxFaults
    /\ faults' = faults + 1
    /\ \E active \in ActiveLists :
       \E u \in Visits(UnfinishedCandidates(active)), p \in Visits(PendingCandidates) :
          /\ MarkJobStarted(w, Selected(u, p), u.seen \cup p.seen)
          /\ call' = Touch(call, u.seen \cup p.seen)
    /\ UNCHANGED <<exec, inserting, lost, threw>>

\* A cooldown of j passes.
CooldownEnds(j) ==
    /\ j \in cooling
    /\ RunsOutlastCooldown \/ ~Executing(j)
    /\ cooling' = cooling \ {j}
    /\ UNCHANGED <<status, runnerId, exec, inserting, call, faults, lost, threw>>

-----------------------------------------------------------------------------
(* runJob *)

\* The handler returns or throws; runJob then calls completeJob.
ReturnFromHandler(w, outcome) ==
    LET j == exec[w]
    IN  /\ j # NoJob
        /\ j \notin DetachedJobs => inserting[w] \cap Children(j) = {}
        /\ exec' = [exec EXCEPT ![w] = NoJob]
        /\ call' = [call EXCEPT ![w] =
                      [job |-> j, input |-> outcome, ifStatus |-> Statuses,
                       by |-> w, snap |-> NoSnap, dirty |-> FALSE]]
        /\ threw' = IF outcome = "failed" THEN threw \cup {j} ELSE threw
        /\ UNCHANGED <<status, runnerId, cooling, inserting, faults, lost>>

-----------------------------------------------------------------------------
(* completeJob *)

\* The transaction's reads: the job, and whether it has an unfinished and a
\* failed descendant.
Snapshot(j) ==
    [status |-> status[j],
     pendingChild |-> \E k \in Descendants(j) : status[k] \in Unfinished,
     failedChild |-> \E k \in Descendants(j) : status[k] = "failed"]

ReadJob(c) ==
    /\ call[c].job # NoJob
    /\ call[c].snap = NoSnap
    /\ call' = [call EXCEPT ![c].snap = Snapshot(call[c].job)]
    /\ UNCHANGED <<status, runnerId, cooling, exec, inserting, faults, lost, threw>>

\* Mutant: failed children are not looked at.
NextStatus_NoFailedChild(input, snap) ==
    IF snap.pendingChild THEN "waitingForChildren" ELSE input

\* The status completeJob wants to give the job.
NextStatus(input, snap) ==
    IF snap.failedChild THEN "failed"
    ELSE IF snap.pendingChild THEN "waitingForChildren"
    ELSE input

\* Mutant: a cron job that fails is left failed.
SavedStatus_FailedCron(j, next) ==
    IF next = "completed" /\ j \in CronJobs THEN "pending" ELSE next

\* A cron job is never left in a terminal status: it goes back to pending.
SavedStatus(j, next) ==
    IF next # "waitingForChildren" /\ j \in CronJobs THEN "pending" ELSE next

\* Mutants: a child's completion updates its parent whatever the parent's status;
\* a child's failure updates only a parent that waits.
ParentCall_AnyStatus(j, saved, w) ==
    [job |-> ParentJob[j], input |-> saved, ifStatus |-> Statuses,
     by |-> w, snap |-> NoSnap, dirty |-> FALSE]
ParentCall_OnlyWaiting(j, saved, w) ==
    [job |-> ParentJob[j], input |-> saved, ifStatus |-> {"waitingForChildren"},
     by |-> w, snap |-> NoSnap, dirty |-> FALSE]

\* The update of j's parent that follows a terminal status, made by w.
ParentCall(j, saved, w) ==
    [job |-> ParentJob[j], input |-> saved,
     ifStatus |-> IF saved = "completed" THEN {"waitingForChildren"} ELSE Statuses,
     by |-> w, snap |-> NoSnap, dirty |-> FALSE]

\* Nothing to write: the status is not one the caller asked for, or is already there.
SkipUpdate(c) ==
    LET s == call[c].snap
    IN  /\ s # NoSnap
        /\ s.status \notin call[c].ifStatus \/ NextStatus(call[c].input, s) = s.status
        /\ call' = [call EXCEPT ![c] = NoCall]
        /\ UNCHANGED <<status, runnerId, cooling, exec, inserting, faults, lost, threw>>

\* Mutant: only a completed child updates its parent.
NeedsParentUpdate_Completed(j, saved) == saved = "completed" /\ ParentJob[j] # NoJob

NeedsParentUpdate(j, saved) == saved \in Terminal /\ ParentJob[j] # NoJob

\* Commit the update, and start the parent's, which is not awaited.
SaveStatus(c) ==
    LET j == call[c].job
        s == call[c].snap
        next == NextStatus(call[c].input, s)
        saved == SavedStatus(j, next)
        others == Touch([call EXCEPT ![c] = NoCall], {j})
    IN  /\ j # NoJob /\ s # NoSnap
        /\ s.status \in call[c].ifStatus
        /\ next # s.status
        /\ ~call[c].dirty
        /\ status' = [status EXCEPT ![j] = saved]
        /\ cooling' = IF saved = "pending" THEN cooling \cup {j} ELSE cooling
        /\ IF NeedsParentUpdate(j, saved)
           THEN \E k \in Calls :
                   /\ others[k].job = NoJob
                   /\ call' = [others EXCEPT ![k] = ParentCall(j, saved, call[c].by)]
           ELSE call' = others
        /\ UNCHANGED <<runnerId, exec, inserting, faults, lost, threw>>

\* The write conflicts with one committed since the read: withTransaction
\* runs the callback again.
RetryTxn(c) ==
    LET s == call[c].snap
    IN  /\ s # NoSnap
        /\ s.status \in call[c].ifStatus
        /\ NextStatus(call[c].input, s) # s.status
        /\ call[c].dirty
        /\ call' = [call EXCEPT ![c].snap = NoSnap, ![c].dirty = FALSE]
        /\ UNCHANGED <<status, runnerId, cooling, exec, inserting, faults, lost, threw>>

-----------------------------------------------------------------------------

\* A worker thread dies, with its handler, its transactions and the parent
\* updates it has started.  w then stands for a thread of the process that is
\* started in its place (the pool itself does not replace a thread).
Crash(w) ==
    /\ faults < MaxFaults
    /\ ~Idle(w) \/ \E c \in Calls : call[c].by = w
    /\ faults' = faults + 1
    /\ exec' = [exec EXCEPT ![w] = NoJob]
    /\ inserting' = [inserting EXCEPT ![w] = {}]
    /\ call' = [c \in Slots |-> IF call[c].by = w THEN NoCall ELSE call[c]]
    /\ lost' = lost \cup {j \in Jobs : \E c \in Calls : call[c].job = j /\ call[c].by = w}
    /\ UNCHANGED <<status, runnerId, cooling, threw>>

Next ==
    \/ \E j \in Jobs : QueueRootJob(j) \/ CooldownEnds(j)
    \/ \E w \in Workers :
          \/ GetNextJob(w)
          \/ GetNextJobLate(w)
          \/ \E page \in SUBSET Jobs : QueueJobs(w, page) \/ InsertJobs(w, page)
          \/ \E outcome \in Outcomes : ReturnFromHandler(w, outcome)
          \/ Crash(w)
    \/ \E c \in Slots : ReadJob(c) \/ SkipUpdate(c) \/ SaveStatus(c) \/ RetryTxn(c)

Spec == Init /\ [][Next]_vars

\* Threads and the database make progress: handlers return, transactions
\* commit, workers poll for jobs (FimidaraWorker.run reschedules itself) and
\* time passes.  Nothing is assumed of endpoints queueing jobs, of faults, or of
\* the order in which a worker is given the jobs that are ready.
Fairness ==
    /\ \A j \in Jobs : WF_vars(CooldownEnds(j))
    /\ \A w \in Workers :
          /\ WF_vars(GetNextJob(w))
          /\ WF_vars(\E page \in SUBSET Jobs : InsertJobs(w, page))
          /\ WF_vars(\E outcome \in Outcomes : ReturnFromHandler(w, outcome))
    /\ \A c \in Slots : WF_vars(ReadJob(c) \/ SkipUpdate(c) \/ SaveStatus(c) \/ RetryTxn(c))

FairSpec == Spec /\ Fairness

-----------------------------------------------------------------------------
(***************************************************************************)
(* Properties.  Most hold only while the job queue is used in an orderly   *)
(* way: no run lasts longer than the cooldown of its job (the code has     *)
(* nothing else that keeps a second worker from fetching it), handlers     *)
(* await queueJobs, and no job of the tree is a cron job.                  *)
(***************************************************************************)
Orderly == ~RunsOutlastCooldown /\ DetachedJobs = {} /\ CronJobs = {}

\* A job is run by one worker at a time: getNextJob's cooldown and transaction
\* keep a job that is being run from being fetched again.
OneRunner ==
    ~RunsOutlastCooldown =>
        \A j \in Jobs, v, w \in Workers : Running(v, j) /\ Running(w, j) => v = w

\* completeJob marks a job completed only when everything below it is, and
\* nothing is queued below it, fails or starts over afterwards, although it
\* decides on a snapshot that may be old when it commits.
CompletedIsSettled ==
    Orderly =>
        \A j \in Jobs : status[j] = "completed" =>
            \A d \in Descendants(j) : status[d] \in {"absent", "completed"}

\* A failed job fails its parent: the parent has failed, or completeJob's call
\* for it is on its way, or died with its worker.
FailureReachesParent ==
    Orderly =>
        \A j \in Jobs : status[j] = "failed" /\ ParentJob[j] # NoJob =>
            \/ status[ParentJob[j]] = "failed"
            \/ ParentJob[j] \in lost
            \/ \E c \in Calls : call[c].job = ParentJob[j] /\ call[c].input = "failed"

\* A job that has completed or failed never changes its status again, whichever
\* completeJob calls (its worker's, its children's, late ones) are still to come.
TerminalIsFinal ==
    [][Orderly => \A j \in Jobs : status[j] \in Terminal => status'[j] = status[j]]_vars

\* While a job is being run, the jobs it runs after are still in the statuses
\* it asked for: the check made when it was fetched cannot become stale.
DependenciesHold ==
    Orderly =>
        \A j \in Jobs : Executing(j) =>
            \A cond \in RunAfter[j] :
                Present(cond.job) /\ cond.status \subseteq Terminal =>
                    status[cond.job] \in cond.status

\* A queued job without children, unless it is a cron job, ends, even if the worker
\* that fetched it dies or never learns that it was given the job.
LeafJobsEnd ==
    \A j \in Jobs \ CronJobs :
        (Children(j) = {} /\ status[j] = "pending") ~> (status[j] \in Terminal)

\* A failure reaches the parent, and from there every ancestor, unless the
\* worker that has to carry it dies.
FailureSpreads ==
    \A j \in {k \in Jobs : ParentJob[k] # NoJob} :
        (status[j] = "failed")
            ~> (status[ParentJob[j]] = "failed" \/ ParentJob[j] \in lost)

\* Every run of a cron job without children ends with the job scheduled again,
\* whether the handler returns, throws, or is lost with its worker.
CronRunsAgain ==
    \A j \in CronJobs :
        (Children(j) = {} /\ status[j] = "inProgress") ~> (status[j] = "pending")

-----------------------------------------------------------------------------
(***************************************************************************)
(* The inductive invariant the theorems of JobQueueProofs rest on.         *)
(***************************************************************************)

\* Whoever runs a job holds it in cooldown.
RunInv ==
    /\ \A w \in Workers : exec[w] # NoJob => call[w].job = NoJob
    /\ ~RunsOutlastCooldown =>
          \A w \in Workers, j \in Jobs : Running(w, j) => j \in cooling

\* Every completeJob call is for a job in the collection; only a worker's own call
\* or one for a failed child may change a job that is not waiting.
CallOk(c) ==
    /\ call[c].job = NoJob => call[c].snap = NoSnap
    /\ call[c].job # NoJob => status[call[c].job] # "absent"
    /\ c \in Workers /\ call[c].job # NoJob => call[c].ifStatus = Statuses
    /\ c \in Calls /\ call[c].job # NoJob /\ call[c].input = "completed" =>
          call[c].ifStatus = {"waitingForChildren"}
    /\ c \in Calls /\ call[c].job # NoJob /\ call[c].input = "failed" =>
          /\ call[c].ifStatus = Statuses
          /\ \E d \in Children(call[c].job) : status[d] = "failed"
          /\ call[c].snap # NoSnap => call[c].snap.failedChild

CallInv == \A c \in Slots : CallOk(c)

Settled(j) == \A d \in Descendants(j) : status[d] \in {"absent", "completed"}

\* What an open transaction has read is still so when it matters.
SnapOk(c) ==
    call[c].snap # NoSnap =>
        /\ call[c].snap.status # "absent"
        /\ ~call[c].dirty => call[c].snap.status = status[call[c].job]
        /\ call[c].snap.status \in Terminal => status[call[c].job] = call[c].snap.status
        /\ c \in Workers /\ call[c].snap.status = "failed" => call[c].snap.failedChild
        /\ /\ ~call[c].snap.pendingChild
           /\ ~call[c].snap.failedChild
           /\ c \in Workers \/ (call[c].snap.status = "waitingForChildren" /\ ~call[c].dirty)
           => Settled(call[c].job)

SnapInv == \A c \in Slots : SnapOk(c)

\* A job that is being run is in progress, or has been failed by a descendant;
\* only its runner inserts its children.
ExecInv ==
    /\ \A w \in Workers, j \in Jobs : Running(w, j) =>
          /\ status[j] \in {"inProgress", "failed"}
          /\ status[j] = "failed" => \E d \in Descendants(j) : status[d] = "failed"
    /\ \A w \in Workers : \A k \in inserting[w] :
          ParentJob[k] # NoJob /\ exec[w] = ParentJob[k]

\* A job is inserted after its parent.
TreeInv == \A j \in Jobs : Present(j) /\ ParentJob[j] # NoJob => Present(ParentJob[j])

OrderlyInv == Orderly => TreeInv /\ CallInv /\ SnapInv /\ ExecInv /\ CompletedIsSettled /\ FailureReachesParent

IInv == TypeOK /\ RunInv /\ OneRunner /\ OrderlyInv

-----------------------------------------------------------------------------
(***************************************************************************)
(* What comments and tests of the repository say, and the code does not do *)
(***************************************************************************)

\* completeJob.ts:114 "if job is completed and parent is waiting, then mark
\* complete": a parent that waits and has only completed jobs below it completes.
WaitingParentIsCompleted ==
    \A j \in Jobs :
        (status[j] = "waitingForChildren" /\ \A d \in Descendants(j) : status[d] \in {"absent", "completed"})
            ~> (status[j] = "completed")

\* getNextJob.ts:125 "Avoid fetching in-progress jobs belonging to an active
\* runner": a job that a live worker is running is not given to another.
ActiveRunnerKeepsJob ==
    [][\A j \in Jobs : Executing(j) /\ status[j] = "inProgress" => runnerId'[j] = runnerId[j]]_vars

\* runJob.test.ts:41 "runJob marks job failed if error thrown": a job whose
\* handler threw does not end as completed.
ThrownRunIsNotCompleted == \A j \in threw : status[j] # "completed"
=============================================================================
