------------------------------ MODULE Cascade ------------------------------
(***************************************************************************)
(* What deleting a resource takes with it: deleteFolder, deleteFile and    *)
(* deletePermissionItems, and the jobs they queue                          *)
(* (src/src/endpoints/jobs/runners/runDeleteResourceJob and                *)
(* runDeletePermissionItemsJob.ts).                                        *)
(*                                                                         *)
(* A request queues a job and marks a document as deleted.  The job reads  *)
(* the resource's children in pages, by page number, queues a job for each *)
(* child and erases the document, while the jobs of the children run on    *)
(* other workers and erase theirs.  The job of a query does the same for   *)
(* the permission items that match it, which it marks page by page.  A     *)
(* handler may throw at any await: its job is failed and not run again,    *)
(* or waits for the jobs below it and is completed after them.             *)
(*                                                                         *)
(* Nodes are numbered in the order in which the database returns them.     *)
(* completeJob is one step here; what may come between its reads and its   *)
(* commit, and between a job's end and the update of its parent, is        *)
(* JobQueue's.                                                             *)
(***************************************************************************)
EXTENDS Naturals, FiniteSets

CONSTANTS
    Nodes,         \* folders, files and permission items
    Items,         \* the permission items, which no request names
    Queries,       \* the nodes that stand for a query of deletePermissionItems
    Holders,       \* the folder a node is in or is about, the queries an item matches
    Absent,        \* nodes that are not there at first
    Jobs,          \* the jobs there can be
    Target,        \* the node a job deletes
    Parent,        \* the job that queues a job, NoJob for a request's
    Parents,       \* and all above it
    NoJob,
    PageSize,      \* 1000 in the code
    SameInstant,   \* two calls of queueJobs may be made in one millisecond
    LateInserts,   \* a folder may be deleted after it was looked up for a new child
    MaxRequests,   \* bound on requests
    MaxCrashes,    \* bound on crashes of the server and of workers
    MaxErrors      \* bound on errors of handlers

ASSUME CascadeAssumption ==
    /\ Nodes \subseteq Nat /\ Queries \subseteq Nodes /\ Items \subseteq Nodes \ Queries
    /\ Holders \in [Nodes -> SUBSET Nodes] /\ \A n \in Queries : Holders[n] = {}
    /\ Absent \subseteq Nodes \ Queries
    /\ PageSize \in Nat \ {0} /\ {MaxRequests, MaxCrashes, MaxErrors} \subseteq Nat
    /\ {SameInstant, LateInserts} \subseteq BOOLEAN

\* There is a job for each request, and for whatever a job finds.
ASSUME JobsAssumption ==
    /\ NoJob \notin Jobs
    /\ Target \in [Jobs -> Nodes] /\ Parent \in [Jobs -> Jobs \cup {NoJob}]
    /\ Parents \in [Jobs -> SUBSET Jobs]
    /\ \A j \in Jobs : Parents[j] = IF Parent[j] = NoJob THEN {} ELSE Parents[Parent[j]] \cup {Parent[j]}
    /\ \A n \in Nodes \ Items : \E j \in Jobs : Parent[j] = NoJob /\ Target[j] = n
    /\ \A j \in Jobs, n \in Nodes :
          Target[j] \in Holders[n] => \E k \in Jobs : Parent[k] = j /\ Target[k] = n

VARIABLES
    doc,      \* doc[n]: the document, "soft" when it is marked as deleted
    request,  \* request[n]: what the request that deletes n does next
    job,      \* job[j]: the status of a job, or how far its handler is
    page,     \* page[j]: the page the running job reads next
    meta,     \* meta[j]: the page the job's document says is next
    saves,    \* saves[j]: updates of the meta nobody waits for
    batch,    \* batch[j]: the page that was read and whose jobs are not queued yet
    adding,   \* nodes that are being created: their folder was found
    asked,    \* history: the nodes requests have deleted
    found,    \* history: found[j]: the nodes whose jobs j has queued
    error,    \* history: error[j]: "told" if an error left j failed, "hidden" if it waits
    lost,     \* history: items that were marked and whose jobs were never queued
    crashes, errors

vars == <<doc, request, job, page, meta, saves, batch, adding, asked, found, error, lost, crashes, errors>>

-----------------------------------------------------------------------------

\* Of a job in progress; "ended" is a handler that has returned.
Running == {"paging", "paged", "erasing", "ended"}
Working == {"queued"} \cup Running
Active == {"waiting"} \cup Working
Statuses == {"none", "completed", "failed"} \cup Active

TypeOK ==
    /\ doc \in [Nodes -> {"none", "live", "soft", "erased"}]
    /\ request \in [Nodes -> {"none", "queue", "mark"}]
    /\ job \in [Jobs -> Statuses]
    /\ page \in [Jobs -> Nat] /\ meta \in [Jobs -> Nat]
    /\ saves \in [Jobs -> SUBSET Nat]
    /\ batch \in [Jobs -> SUBSET Nodes] /\ found \in [Jobs -> SUBSET Nodes]
    /\ error \in [Jobs -> {"none", "told", "hidden"}]
    /\ adding \subseteq Nodes /\ asked \subseteq Nodes /\ lost \subseteq Nodes
    /\ crashes \in 0..MaxCrashes /\ errors \in 0..MaxErrors

Init ==
    /\ doc = [n \in Nodes |-> IF n \in Absent THEN "none" ELSE "live"]
    /\ request = [n \in Nodes |-> "none"]
    /\ job = [j \in Jobs |-> "none"]
    /\ page = [j \in Jobs |-> 0] /\ meta = [j \in Jobs |-> 0]
    /\ saves = [j \in Jobs |-> {}]
    /\ batch = [j \in Jobs |-> {}] /\ found = [j \in Jobs |-> {}]
    /\ error = [j \in Jobs |-> "none"]
    /\ adding = {} /\ asked = {} /\ lost = {}
    /\ crashes = 0 /\ errors = 0

-----------------------------------------------------------------------------
(* Requests *)

\* deleteFolder and deleteFile of what is not deleted; deletePermissionItems.
Delete(n) ==
    /\ Cardinality(asked) < MaxRequests
    /\ n \notin Items /\ doc[n] = "live" /\ n \notin asked
    /\ asked' = asked \cup {n}
    /\ request' = [request EXCEPT ![n] = "queue"]
    /\ UNCHANGED <<doc, job, page, meta, saves, batch, adding, found, error, lost, crashes, errors>>

\* The next job p queues for n: a second one if it has read n again.
Fresh(p, n) == {j \in Jobs : Parent[j] = p /\ Target[j] = n /\ job[j] = "none"}
Pick(p, n) == CHOOSE j \in Fresh(p, n) : TRUE

\* queueJobs takes jobs with the token of a job that is there for that job, and
\* tokens are times: the jobs of a call may be lost to those of another.
Queued(p, ns) == [j \in Jobs |-> IF \E n \in ns : Fresh(p, n) # {} /\ j = Pick(p, n)
                                 THEN "queued" ELSE job[j]]
Coincides == SameInstant /\ \E j \in Jobs : job[j] # "none"

\* Mutant: a job that is there for any node is taken for the new one.
Queue_AnyJob(n) ==
    /\ request[n] = "queue"
    /\ request' = [request EXCEPT ![n] = IF n \in Queries THEN "none" ELSE "mark"]
    /\ job' = IF \A j \in Jobs : job[j] = "none" THEN Queued(NoJob, {n}) ELSE job
    /\ UNCHANGED <<doc, page, meta, saves, batch, adding, asked, found, error, lost, crashes, errors>>

\* queueJobs of the request, which has a transaction of its own, and commits before
\* the mark does.  For a file the two are one transaction.
Queue(n) ==
    /\ request[n] = "queue"
    /\ request' = [request EXCEPT ![n] = IF n \in Queries THEN "none" ELSE "mark"]
    /\ job' \in {Queued(NoJob, {n})} \cup (IF Coincides THEN {job} ELSE {})
    /\ UNCHANGED <<doc, page, meta, saves, batch, adding, asked, found, error, lost, crashes, errors>>

\* softDeleteManyByIdList, in the request's transaction, commits.
Mark(n) ==
    /\ request[n] = "mark"
    /\ request' = [request EXCEPT ![n] = "none"]
    /\ doc' = IF doc[n] = "live" THEN [doc EXCEPT ![n] = "soft"] ELSE doc
    /\ UNCHANGED <<job, page, meta, saves, batch, adding, asked, found, error, lost, crashes, errors>>

\* A child is created by a request that found its folder.
Look(n) ==
    /\ n \notin Queries /\ n \notin adding /\ doc[n] = "none"
    /\ \A h \in Holders[n] : doc[h] = "live"
    /\ adding' = adding \cup {n}
    /\ UNCHANGED <<doc, request, job, page, meta, saves, batch, asked, found, error, lost, crashes, errors>>

Insert(n) ==
    /\ n \in adding
    /\ LateInserts \/ \A h \in Holders[n] :
          doc[h] = "live" /\ \A j \in Jobs : Target[j] = h => job[j] \notin Working
    /\ adding' = adding \ {n}
    /\ doc' = [doc EXCEPT ![n] = "live"]
    /\ UNCHANGED <<request, job, page, meta, saves, batch, asked, found, error, lost, crashes, errors>>

-----------------------------------------------------------------------------
(* Jobs *)

\* Mutant: a job begins at the page before the one that was saved.
Start_PageBefore(j) ==
    /\ job[j] = "queued"
    /\ job' = [job EXCEPT ![j] = "paging"]
    /\ page' = [page EXCEPT ![j] = IF Target[j] \in Queries THEN 0 ELSE meta[j] - 1]
    /\ UNCHANGED <<doc, request, meta, saves, batch, adding, asked, found, error, lost, crashes, errors>>

\* runDeleteResourceJob begins, or begins again after a crash, at the page its
\* document names.  The job of a query always begins at page 0.
Start(j) ==
    /\ job[j] = "queued"
    /\ job' = [job EXCEPT ![j] = "paging"]
    /\ page' = [page EXCEPT ![j] = IF Target[j] \in Queries THEN 0 ELSE meta[j]]
    /\ UNCHANGED <<doc, request, meta, saves, batch, adding, asked, found, error, lost, crashes, errors>>

\* Mutant: deleting a node reads all that is there.
Children_All(n) == {c \in Nodes : doc[c] = "live" /\ c # n /\ c \notin Queries}

\* Queries do not see what is marked as deleted.
Children(n) == {c \in Nodes : n \in Holders[c] /\ doc[c] = "live"}

\* The children from number page * PageSize on.
Page(j) ==
    LET Rank(c) == Cardinality({d \in Children(Target[j]) : d < c})
    IN {c \in Children(Target[j]) : /\ page[j] * PageSize <= Rank(c)
                                    /\ Rank(c) < (page[j] + 1) * PageSize}

\* The loop of a resource stops at a page that is not full, that of a query at an
\* empty one.
IsLast(n, read) == IF n \in Queries THEN read = {} ELSE Cardinality(read) < PageSize

\* getFn, of one page; the items of a query are marked in the transaction that
\* reads them.
ReadPage(j) ==
    /\ job[j] = "paging"
    /\ job' = [job EXCEPT ![j] = "paged"]
    /\ batch' = [batch EXCEPT ![j] = Page(j)]
    /\ doc' = [c \in Nodes |-> IF Target[j] \in Queries /\ c \in Page(j) THEN "soft" ELSE doc[c]]
    /\ UNCHANGED <<request, page, meta, saves, adding, asked, found, error, lost, crashes, errors>>

\* The jobs of a page are queued, and the next page's number is saved meanwhile.
QueuePage(j) ==
    /\ job[j] = "paged"
    /\ \E queued \in {Queued(j, batch[j])} \cup (IF Coincides THEN {job} ELSE {}) :
          job' = [queued EXCEPT ![j] = IF IsLast(Target[j], batch[j]) THEN "erasing" ELSE "paging"]
    /\ found' = [found EXCEPT ![j] = @ \cup batch[j]]
    /\ page' = [page EXCEPT ![j] = IF IsLast(Target[j], batch[j]) THEN 0 ELSE @ + 1]
    /\ batch' = [batch EXCEPT ![j] = {}]
    /\ saves' = IF Target[j] \in Queries THEN saves ELSE [saves EXCEPT ![j] = @ \cup {page[j] + 1}]
    /\ UNCHANGED <<doc, request, meta, adding, asked, error, lost, crashes, errors>>

\* Updates of the meta are made in any order.
SaveMeta(j, p) ==
    /\ p \in saves[j]
    /\ saves' = [saves EXCEPT ![j] = @ \ {p}]
    /\ meta' = [meta EXCEPT ![j] = p]
    /\ UNCHANGED <<doc, request, job, page, batch, adding, asked, found, error, lost, crashes, errors>>

\* Mutant: the document is erased while its children are read.
Erase_Early(j) ==
    /\ job[j] \in Running
    /\ doc' = [doc EXCEPT ![Target[j]] = "erased"]
    /\ job' = [job EXCEPT ![j] = "ended"]
    /\ UNCHANGED <<request, page, meta, saves, batch, adding, asked, found, error, lost, crashes, errors>>

\* deleteResourceFn: the document itself, with which the handler returns.
Erase(j) ==
    /\ job[j] = "erasing"
    /\ doc' = [doc EXCEPT ![Target[j]] = "erased"]
    /\ job' = [job EXCEPT ![j] = "ended"]
    /\ UNCHANGED <<request, page, meta, saves, batch, adding, asked, found, error, lost, crashes, errors>>

-----------------------------------------------------------------------------
(* The end of jobs *)

Below(j) == {k \in Jobs : j \in Parents[k]}

\* Mutant: completeJob does not ask for failed jobs.
Outcome_NotFailed(j, given) ==
    IF \E k \in Below(j) : job[k] \in Active THEN "waiting" ELSE given

\* The status completeJob gives a job: that of its run only if no job below it has
\* failed or is unfinished.
Outcome(j, given) ==
    IF \E k \in Below(j) : job[k] = "failed" THEN "failed"
    ELSE IF \E k \in Below(j) : job[k] \in Active THEN "waiting" ELSE given

\* runJob is over, and pages are not read again, whatever is still saved.
EndRun(j, given) ==
    /\ job' = [job EXCEPT ![j] = Outcome(j, given)]
    /\ page' = [page EXCEPT ![j] = 0] /\ meta' = [meta EXCEPT ![j] = 0]
    /\ saves' = [saves EXCEPT ![j] = {}] /\ batch' = [batch EXCEPT ![j] = {}]
    /\ UNCHANGED <<doc, request, adding, asked, found>>

Complete(j) ==
    /\ job[j] = "ended" /\ EndRun(j, "completed")
    /\ UNCHANGED <<error, lost, crashes, errors>>

\* The handler throws, at any await: the mounts or their configurations are missing, a
\* transaction is refused.  Items of a query that it has marked are not seen again.
Throw(j) ==
    /\ errors < MaxErrors /\ errors' = errors + 1
    /\ job[j] \in Running /\ EndRun(j, "failed")
    /\ error' = [error EXCEPT ![j] = IF Outcome(j, "failed") = "failed" THEN "told" ELSE "hidden"]
    /\ lost' = IF Target[j] \in Queries THEN lost \cup batch[j] ELSE lost
    /\ UNCHANGED crashes

\* completeJob of a job that waits, for a child that has ended.
Settle(j) ==
    /\ job[j] = "waiting" /\ Outcome(j, "completed") # "waiting"
    /\ job' = [job EXCEPT ![j] = Outcome(j, "completed")]
    /\ UNCHANGED <<doc, request, page, meta, saves, batch, adding, asked, found, error, lost, crashes, errors>>

\* completeJob of a job whose worker is dead, for a child that has failed: it is not
\* run again.  One that runs is failed by its own completeJob, if its worker lives.
FailDead(j) ==
    /\ job[j] = "queued" /\ \E k \in Jobs : Parent[k] = j /\ job[k] = "failed"
    /\ EndRun(j, "failed")
    /\ error' = [error EXCEPT ![j] = "told"]
    /\ UNCHANGED <<lost, crashes, errors>>

-----------------------------------------------------------------------------
(* Crashes *)

\* The worker dies: the job is run again, from the page that was saved, and
\* updates of its meta may be lost.  What it had read it reads again, but the
\* items of a query were marked, and are not seen again.
WorkerDies(j) ==
    /\ crashes < MaxCrashes /\ crashes' = crashes + 1
    /\ job[j] \in Running
    /\ job' = [job EXCEPT ![j] = "queued"]
    /\ page' = [page EXCEPT ![j] = 0]
    /\ saves' = [saves EXCEPT ![j] = {}]
    /\ batch' = [batch EXCEPT ![j] = {}]
    /\ lost' = IF Target[j] \in Queries THEN lost \cup batch[j] ELSE lost
    /\ UNCHANGED <<doc, request, meta, adding, asked, found, error, errors>>

\* The server ends: what the request has not done is never done.
ServerDies(n) ==
    /\ crashes < MaxCrashes /\ crashes' = crashes + 1
    /\ request[n] # "none"
    /\ request' = [request EXCEPT ![n] = "none"]
    /\ UNCHANGED <<doc, job, page, meta, saves, batch, adding, asked, found, error, lost, errors>>

-----------------------------------------------------------------------------

Run(j) == Start(j) \/ ReadPage(j) \/ QueuePage(j) \/ Erase(j) \/ Complete(j)

Disturb(j) == Throw(j) \/ FailDead(j) \/ WorkerDies(j)

Next ==
    \/ \E n \in Nodes :
          Delete(n) \/ Queue(n) \/ Mark(n) \/ Look(n) \/ Insert(n) \/ ServerDies(n)
    \/ \E j \in Jobs :
          Run(j) \/ Settle(j) \/ Disturb(j) \/ \E p \in saves[j] : SaveMeta(j, p)

\* Requests that have begun go on, and workers take the jobs they find.
Work(n) == Queue(n) \/ Mark(n) \/ \E j \in Jobs : Target[j] = n /\ Run(j)
Fairness == \A n \in Nodes : WF_vars(Work(n))

Spec == Init /\ [][Next]_vars
FairSpec == Spec /\ Fairness

-----------------------------------------------------------------------------
(* Properties *)

\* An error stopped a job of n.  Nothing else is excused below.
Stopped(n) == \E j \in Jobs : Target[j] = n /\ error[j] # "none"

\* n was in h, which is done, and is left without a job that deletes it.
Orphan(n, h) ==
    /\ h \in Holders[n] /\ doc[n] = "live" /\ doc[h] = "erased"
    /\ \A j \in Jobs : Target[j] = n => job[j] \notin Active
OfOnePage(h) == Cardinality({n \in Nodes : h \in Holders[n]}) <= PageSize

\* When a folder, or a query's job, of at most a page is done, nothing that was in it
\* is left but what an error of its own job left: whatever is erased while it is read,
\* in whatever order page numbers are saved, and whatever fails beside or above it.
NoOrphan == \A n, h \in Nodes : OfOnePage(h) => Stopped(n) \/ ~Orphan(n, h)

\* The same of more than a page.  It does not hold: pages are read by number while
\* the jobs of earlier pages erase what they hold, so that pages are skipped.
EveryPageIsRead == \A n, h \in Nodes : Stopped(n) \/ ~Orphan(n, h)

\* The same, errors not excused.  It does not hold: a child whose job fails stays in
\* the folder that is erased, and nothing deletes it.
NothingStays == \A n, h \in Nodes : ~Orphan(n, h)

\* The sets of nodes that hold what is in any of their members.
Closed == {A \in SUBSET Nodes : \A n \in Nodes : Holders[n] \cap A # {} => n \in A}

\* Nothing is erased but what requests deleted and what is below it, however jobs,
\* crashes, errors and new children are interleaved.
OnlyAsked ==
    \A A \in Closed : asked \subseteq A => {n \in Nodes : doc[n] \in {"soft", "erased"}} \subseteq A

\* A job is completed only when it and everything it found are erased: what it reports
\* to a caller that waits for it (waitForJob).  Only an error that completeJob hid, as
\* jobs below the one that threw were unfinished, goes unseen; all others fail the job.
CompletedMeansErased ==
    \A j \in Jobs : job[j] = "completed" =>
       \A n \in {Target[j]} \cup found[j] :
          \/ doc[n] = "erased"
          \/ \E k \in {j} \cup Below(j) : Target[k] = n /\ error[k] = "hidden"

\* What is marked as deleted is erased in the end, unless an error stopped a job of its
\* own, or the job of a query was stopped between marking it and queueing its job: a
\* worker that crashes loses nothing else, nor does an error of another job.
MarkedIsErased ==
    \A n \in Nodes \ Queries : doc[n] = "soft" ~> doc[n] = "erased" \/ n \in lost \/ Stopped(n)
=============================================================================
