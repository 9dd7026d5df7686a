------------------------------- MODULE Usage -------------------------------
(***************************************************************************)
(* The usage counters of a workspace:                                      *)
(* src/src/contexts/usage/UsageProvider.ts.                                *)
(*                                                                         *)
(* One process at a time, the server, counts the requests of a workspace,  *)
(* one after the other (the usage queue is handled by                      *)
(* singleItemHandleShardQueue).  Each increment leaves a record of its own *)
(* (L1) and changes sums per month, category and status (L2), which decide *)
(* whether it is within the budget.  Both are kept in memory and written   *)
(* to the database in batches.  Jobs that delete files decrement too, in   *)
(* the provider of the worker thread that runs them.  Costs stand for      *)
(* usage: a cost is the usage times a price per byte.                      *)
(***************************************************************************)
EXTENDS Naturals

CONSTANTS
    Requests,       \* the increments and decrements, each asked for once
    NoRequest,
    Increments,     \* the requests that are increments; the others are decrements
    Categories,     \* storage, bandwidth ..., without total
    Total,
    Persistent,     \* the categories that carry over from month to month (storage)
    Category,       \* Category[r]
    Cost,           \* Cost[r]
    Workers,        \* the threads that run the jobs that delete files
    Budget,         \* Budget[c]: the threshold of c, for the categories that have one
    MaxMonth,
    MaxFaults       \* bound on crashes and failed commits

ASSUME RequestAssumption ==
    /\ NoRequest \notin Requests
    /\ Increments \subseteq Requests
    /\ Category \in [Requests -> Categories]
    /\ Cost \in [Requests -> Nat]

ASSUME CategoryAssumption ==
    /\ Total \notin Categories
    /\ Persistent \subseteq Categories
    /\ DOMAIN Budget \subseteq Categories \cup {Total}
    /\ \A c \in DOMAIN Budget : Budget[c] \in Nat
    /\ MaxMonth \in Nat /\ MaxFaults \in Nat

VARIABLES
    month,          \* the current month
    process,        \* "up", "ending" (dispose has been called) or "down"
    answer,         \* answer[r]: what became of r
    handling,       \* the request that is being handled, and what is known of it
    cache,          \* usageL2Cache
    batch,          \* usageL2BatchedUpdates
    committing,     \* committingUsageL2BatchedUpdated
    busy,           \* isCommittingBatchedUsageL2Updates
    db,             \* the monthly records in the database
    l1Batch,        \* the requests whose record is in usageL1BatchedUpdates,
    l1Committing,   \* in committingUsageL1BatchedUpdated,
    l1Db,           \* in the database
    l1Busy,         \* isCommittingBatchedUsageL1Updates
    workerCache,    \* workerCache[w], workerBatch[w]: usageL2Cache and
    workerBatch,    \* usageL2BatchedUpdates of the provider of worker w
    faults,
    ledger,         \* history: what has been counted under each key
    lost,           \* history: a process has taken sums that were not committed with it
    l1Lost,         \* history: the requests whose record went with a process
    shared          \* history: the keys a worker has read

sums == <<cache, batch, committing, busy, db, ledger, lost>>
records == <<l1Batch, l1Committing, l1Db, l1Busy, l1Lost>>
requests == <<answer, handling>>
workers == <<workerCache, workerBatch, shared>>
vars == <<month, process, requests, sums, records, workers, faults>>

-----------------------------------------------------------------------------

Months == 0..MaxMonth
Keys == [category : Categories, status : {"fulfilled", "dropped"}, month : Months]
            \cup [category : {Total}, status : {"fulfilled"}, month : Months]
Key(c, s, m) == [category |-> c, status |-> s, month |-> m]

\* Sums are partial functions on keys.
None == [k \in {} |-> 0]
One(k, n) == [x \in {k} |-> n]
Over(f, g) == [k \in DOMAIN f \cup DOMAIN g |-> IF k \in DOMAIN f THEN f[k] ELSE g[k]]

Idle == [request |-> NoRequest, month |-> 0, overdue |-> FALSE]
Counted == {"permitted", "dropped"}

IsSums(f) == DOMAIN f \subseteq Keys /\ \A k \in DOMAIN f : f[k] \in Nat

TypeOK ==
    /\ month \in Months
    /\ process \in {"up", "ending", "down"}
    /\ answer \in [Requests -> Counted \cup {"waiting", "returned", "lost"}]
    /\ handling \in [request : Requests \cup {NoRequest}, month : Months, overdue : BOOLEAN]
    /\ IsSums(cache) /\ IsSums(batch) /\ IsSums(committing) /\ IsSums(db) /\ IsSums(ledger)
    /\ busy \in BOOLEAN /\ l1Busy \in BOOLEAN /\ lost \in BOOLEAN
    /\ l1Batch \subseteq Increments /\ l1Committing \subseteq Increments
    /\ l1Db \subseteq Increments /\ l1Lost \subseteq Increments
    /\ DOMAIN workerCache = Workers /\ DOMAIN workerBatch = Workers
    /\ \A w \in Workers : IsSums(workerCache[w]) /\ IsSums(workerBatch[w])
    /\ shared \subseteq Keys
    /\ faults \in 0..MaxFaults

Init ==
    /\ month = 0
    /\ process = "up"
    /\ answer = [r \in Requests |-> "waiting"]
    /\ handling = Idle
    /\ cache = None /\ batch = None /\ committing = None /\ busy = FALSE
    /\ db = None
    /\ l1Batch = {} /\ l1Committing = {} /\ l1Db = {} /\ l1Busy = FALSE
    /\ workerCache = [w \in Workers |-> None] /\ workerBatch = [w \in Workers |-> None]
    /\ shared = {}
    /\ faults = 0
    /\ ledger = None /\ lost = FALSE /\ l1Lost = {}

-----------------------------------------------------------------------------
(* increment and decrement *)

\* The request's turn: its month is taken now; whether the bill is overdue is what
\* the cached workspace says, which may be anything.
Begin(r) ==
    /\ process # "down"
    /\ handling = Idle /\ answer[r] = "waiting"
    /\ \E overdue \in BOOLEAN :
          /\ overdue => r \in Increments
          /\ handling' = [request |-> r, month |-> month, overdue |-> overdue]
    /\ UNCHANGED <<month, process, answer, sums, records, workers, faults>>

KeyOf(h, s) == Key(Category[h.request], s, h.month)
TotalKey(h) == Key(Total, "fulfilled", h.month)

\* The monthly records the request in h reads (getUsageL2).
Needed(h) ==
    IF h.overdue THEN {KeyOf(h, "dropped")}
    ELSE IF h.request \in Increments
         THEN {KeyOf(h, "fulfilled"), TotalKey(h), KeyOf(h, "dropped")}
         ELSE {KeyOf(h, "fulfilled")}

\* What makeL2Record may find for the previous month: the query is spread from a
\* Date, which has no fields, so that it names no month and any may be found.
Openings(k) ==
    LET found == {db[p] : p \in {q \in DOMAIN db : q.category = k.category /\ q.status = k.status}}
    IN  IF k.category \in Persistent /\ k.status = "fulfilled" /\ found # {} THEN found ELSE {0}

\* getOrMakeUsageL2FromDb: the sum that is read of k, or that its new document has.
Read(k) == IF k \in DOMAIN db THEN {db[k]} ELSE Openings(k)

\* getUsageL2 of a record that is not cached.
GetUsageL2(k) ==
    /\ process # "down"
    /\ handling # Idle
    /\ k \in Needed(handling) \ DOMAIN cache
    /\ \E n \in Read(k) :
          /\ cache' = Over(cache, One(k, n))
          /\ db' = Over(db, One(k, n))
          /\ ledger' = Over(ledger, One(k, n))
    /\ UNCHANGED <<month, process, requests, batch, committing, busy, lost, records, workers, faults>>

Loaded == handling # Idle /\ process # "down" /\ Needed(handling) \subseteq DOMAIN cache

\* writeUsageL2 for the records in new.
WriteUsageL2(new) ==
    /\ cache' = Over(new, cache)
    /\ batch' = Over(new, batch)
    /\ UNCHANGED <<committing, busy, db, lost>>

\* The keys in K grow by cost.
Grown(f, K, cost) == [k \in K |-> f[k] + cost]

\* Mutant: only the category's budget is looked at.
Exceeds_CategoryOnly(c, k, cost) ==
    c \in DOMAIN Budget \ {Total} /\ Budget[c] < cache[k] + cost

\* A threshold is exceeded if the request is added to what is counted under k.
Exceeds(c, k, cost) == c \in DOMAIN Budget /\ Budget[c] < cache[k] + cost

\* An overdue bill is looked at first.
IsExceeded(h) ==
    /\ ~h.overdue
    /\ \/ Exceeds(Total, TotalKey(h), Cost[h.request])
       \/ Exceeds(Category[h.request], KeyOf(h, "fulfilled"), Cost[h.request])

Finish(outcome, K) ==
    LET r == handling.request
    IN  /\ answer' = [answer EXCEPT ![r] = outcome]
        /\ handling' = Idle
        /\ WriteUsageL2(Grown(cache, K, Cost[r]))
        /\ ledger' = Over(Grown(ledger, K, Cost[r]), ledger)
        /\ l1Batch' = l1Batch \cup {r}
        /\ UNCHANGED <<month, process, l1Committing, l1Db, l1Busy, l1Lost, workers, faults>>

FulfillRecord ==
    /\ Loaded /\ handling.request \in Increments
    /\ ~handling.overdue /\ ~IsExceeded(handling)
    /\ Finish("permitted", {KeyOf(handling, "fulfilled"), TotalKey(handling)})

DropRecord ==
    /\ Loaded /\ handling.request \in Increments
    /\ handling.overdue \/ IsExceeded(handling)
    /\ Finish("dropped", {KeyOf(handling, "dropped")})

\* Mutant: the sum may become negative.
Less_Unbounded(n, cost) == n - cost

Less(n, cost) == IF n > cost THEN n - cost ELSE 0

\* decrement: the category's sum is reduced, the total is not, and there is no L1 record.
Decrement ==
    LET r == handling.request
        k == KeyOf(handling, "fulfilled")
    IN  /\ Loaded /\ r \notin Increments
        /\ answer' = [answer EXCEPT ![r] = "returned"]
        /\ handling' = Idle
        /\ WriteUsageL2(One(k, Less(cache[k], Cost[r])))
        /\ ledger' = Over(One(k, Less(ledger[k], Cost[r])), ledger)
        /\ UNCHANGED <<month, process, records, workers, faults>>

\* A read of the database fails: the caller gets an error and nothing is counted.
RequestFails ==
    /\ handling # Idle /\ ~Loaded /\ faults < MaxFaults
    /\ faults' = faults + 1
    /\ answer' = [answer EXCEPT ![handling.request] = "lost"]
    /\ handling' = Idle
    /\ UNCHANGED <<month, process, sums, records, workers>>

-----------------------------------------------------------------------------
(* Commits *)

\* Mutant: what a failed commit has left behind wins over what came since.
Merged_OldWins == Over(committing, batch)

Merged == Over(batch, committing)

\* commitBatchedUsageL2Updates up to its first await: by the interval, when the batch
\* is large, or by dispose.
BeginL2 == DOMAIN batch # {} /\ ~busy
TakeL2 ==
    /\ committing' = IF BeginL2 THEN Merged ELSE committing
    /\ batch' = IF BeginL2 THEN None ELSE batch
    /\ busy' = (busy \/ BeginL2)

CommitL2 ==
    /\ process # "down" /\ BeginL2
    /\ TakeL2
    /\ UNCHANGED <<month, process, requests, cache, db, ledger, lost, records, workers, faults>>

L2Committed ==
    /\ busy
    /\ db' = Over(committing, db)
    /\ committing' = None
    /\ busy' = FALSE
    /\ UNCHANGED <<month, process, requests, cache, batch, ledger, lost, records, workers, faults>>

\* The transaction fails: what was taken is kept for a later commit.
L2Fails ==
    /\ busy /\ faults < MaxFaults
    /\ faults' = faults + 1
    /\ busy' = FALSE
    /\ UNCHANGED <<month, process, requests, cache, batch, committing, db, ledger, lost, records, workers>>

BeginL1 == l1Batch # {} /\ ~l1Busy
TakeL1 ==
    /\ l1Committing' = IF BeginL1 THEN l1Committing \cup l1Batch ELSE l1Committing
    /\ l1Batch' = IF BeginL1 THEN {} ELSE l1Batch
    /\ l1Busy' = (l1Busy \/ BeginL1)

CommitL1 ==
    /\ process # "down" /\ BeginL1
    /\ TakeL1
    /\ UNCHANGED <<month, process, requests, sums, l1Db, l1Lost, workers, faults>>

\* Mutants: the records stay in committingUsageL1BatchedUpdated; the flag stays set.
L1Committed_Kept ==
    /\ l1Busy
    /\ l1Db' = l1Db \cup l1Committing
    /\ l1Busy' = FALSE
    /\ UNCHANGED <<month, process, requests, sums, l1Batch, l1Committing, l1Lost, workers, faults>>
L1Committed_StaysBusy ==
    /\ l1Busy
    /\ l1Db' = l1Db \cup l1Committing
    /\ l1Committing' = {}
    /\ UNCHANGED <<month, process, requests, sums, l1Batch, l1Busy, l1Lost, workers, faults>>

L1Committed ==
    /\ l1Busy
    /\ l1Db' = l1Db \cup l1Committing
    /\ l1Committing' = {}
    /\ l1Busy' = FALSE
    /\ UNCHANGED <<month, process, requests, sums, l1Batch, l1Lost, workers, faults>>

L1Fails ==
    /\ l1Busy /\ faults < MaxFaults
    /\ faults' = faults + 1
    /\ l1Busy' = FALSE
    /\ UNCHANGED <<month, process, requests, sums, l1Batch, l1Committing, l1Db, l1Lost, workers>>

-----------------------------------------------------------------------------
(* Jobs that delete files: decrementStorageUsageRecordForFile *)

\* decrement of a worker's own provider, which nobody queues.  Reading the record and
\* changing it is one step, as nothing comes between that could see the difference.
WorkerDecrements(w, r) ==
    LET k == Key(Category[r], "fulfilled", month)
    IN  /\ r \notin Increments /\ answer[r] = "waiting" /\ handling.request # r
        /\ answer' = [answer EXCEPT ![r] = "returned"]
        /\ \E n \in IF k \in DOMAIN workerCache[w] THEN {workerCache[w][k]} ELSE Read(k) :
              LET new == One(k, Less(n, Cost[r]))
              IN  /\ workerCache' = [workerCache EXCEPT ![w] = Over(new, @)]
                  /\ workerBatch' = [workerBatch EXCEPT ![w] = Over(new, @)]
                  /\ db' = Over(db, One(k, n))
                  /\ ledger' = [Over(ledger, One(k, n)) EXCEPT ![k] = Less(@, Cost[r])]
        /\ shared' = shared \cup {k}
        /\ UNCHANGED <<month, process, handling, cache, batch, committing, busy, lost, records, faults>>

\* A worker has no interval: it commits when its batch is large, and in dispose.
WorkerCommits(w) ==
    /\ DOMAIN workerBatch[w] # {}
    /\ db' = Over(workerBatch[w], db)
    /\ workerBatch' = [workerBatch EXCEPT ![w] = None]
    /\ \E ends \in BOOLEAN :
          workerCache' = IF ends THEN [workerCache EXCEPT ![w] = None] ELSE workerCache
    /\ UNCHANGED <<month, process, requests, cache, batch, committing, busy, ledger, lost, records, shared, faults>>

\* A worker dies with what it holds.
WorkerCrashes(w) ==
    /\ DOMAIN workerBatch[w] # {} /\ faults < MaxFaults
    /\ faults' = faults + 1
    /\ workerCache' = [workerCache EXCEPT ![w] = None]
    /\ workerBatch' = [workerBatch EXCEPT ![w] = None]
    /\ UNCHANGED <<month, process, requests, sums, records, shared>>

-----------------------------------------------------------------------------
(* Processes and time *)

\* dispose: what is in the batches is committed, unless a commit is running: then
\* commitBatchedUsage... returns at once, and nobody calls it again.  The requests
\* that have been read from the queue are still handled.
Dispose ==
    /\ process = "up"
    /\ process' = "ending"
    /\ TakeL2 /\ TakeL1
    /\ UNCHANGED <<month, requests, cache, db, ledger, lost, l1Db, l1Lost, workers, faults>>

\* The process is gone with what it holds.
Gone ==
    /\ process' = "down"
    /\ cache' = None /\ batch' = None /\ committing' = None /\ busy' = FALSE
    /\ l1Batch' = {} /\ l1Committing' = {} /\ l1Busy' = FALSE
    /\ handling' = Idle
    /\ answer' = IF handling = Idle THEN answer
                 ELSE [answer EXCEPT ![handling.request] = "lost"]
    /\ UNCHANGED <<month, ledger, workers>>

\* globalDispose has waited for the commits that were running.
Exit ==
    /\ process = "ending" /\ ~busy /\ ~l1Busy
    /\ Gone
    /\ lost' = (lost \/ DOMAIN Merged # {})
    /\ l1Lost' = l1Lost \cup l1Batch \cup l1Committing
    /\ UNCHANGED <<db, l1Db, faults>>

\* A commit that is running may still take effect.
Crash ==
    /\ process # "down" /\ faults < MaxFaults
    /\ faults' = faults + 1
    /\ Gone
    /\ \/ db' = db /\ lost' = (lost \/ DOMAIN Merged # {})
       \/ busy /\ db' = Over(committing, db) /\ lost' = (lost \/ DOMAIN batch # {})
    /\ \/ l1Db' = l1Db /\ l1Lost' = l1Lost \cup l1Batch \cup l1Committing
       \/ l1Busy /\ l1Db' = l1Db \cup l1Committing /\ l1Lost' = l1Lost \cup l1Batch

\* Another process is given the queue.
Start ==
    /\ process = "down"
    /\ process' = "up"
    /\ UNCHANGED <<month, requests, sums, records, workers, faults>>

MonthEnds ==
    /\ month < MaxMonth
    /\ month' = month + 1
    /\ UNCHANGED <<process, requests, sums, records, workers, faults>>

Next ==
    \/ \E r \in Requests : Begin(r)
    \/ \E k \in Keys : GetUsageL2(k)
    \/ FulfillRecord \/ DropRecord \/ Decrement \/ RequestFails
    \/ CommitL2 \/ L2Committed \/ L2Fails
    \/ CommitL1 \/ L1Committed \/ L1Fails
    \/ \E w \in Workers :
          \/ \E r \in Requests : WorkerDecrements(w, r)
          \/ WorkerCommits(w) \/ WorkerCrashes(w)
    \/ Dispose \/ Exit \/ Crash \/ Start
    \/ MonthEnds

Spec == Init /\ [][Next]_vars

\* The intervals of a process that is up commit again and again, and a transaction
\* ends.  Nothing is assumed of requests, nor of processes being replaced.
Fairness ==
    /\ WF_vars(process = "up" /\ CommitL1)
    /\ WF_vars(L1Committed \/ L1Fails) /\ WF_vars(L2Committed \/ L2Fails)
    /\ WF_vars(Exit)

FairSpec == Spec /\ Fairness

-----------------------------------------------------------------------------
(* Properties *)

\* What the database will say of k when everything has been committed.
Stored(k) == Over(batch, Over(committing, db))[k]

\* What was counted is what the sums say: the cached sums, and what a process that
\* came next would read once the batches are committed, whichever commits fail and
\* whatever is counted while one runs.  A worker can spoil only what it has read.
LedgerKept ==
    ~lost =>
        /\ \A k \in DOMAIN cache \ shared : cache[k] = ledger[k]
        /\ \A k \in DOMAIN ledger \ shared : Stored(k) = ledger[k]

\* The increments that are permitted in a month stay within the workspace's total
\* budget, across processes and failed commits.
BudgetHolds ==
    ~lost =>
        \A k \in DOMAIN ledger :
            k.category = Total /\ Total \in DOMAIN Budget => ledger[k] <= Budget[Total]

\* Every increment that has been decided has one record in one place: it is not
\* dropped between the batches, and not inserted twice.
RecordedOnce ==
    /\ l1Batch \cup l1Committing \cup l1Db \cup l1Lost = {r \in Requests : answer[r] \in Counted}
    /\ l1Batch \cap (l1Committing \cup l1Db \cup l1Lost) = {}
    /\ l1Committing \cap (l1Db \cup l1Lost) = {}
    /\ l1Db \cap l1Lost = {}

\* The record of an increment reaches the database, unless its process ends first or
\* a commit fails and nothing new is counted: commitBatchedUsageL1Updates looks only
\* at the batch, and leaves what a failed commit has kept until there is more.
Waits(r) == r \in l1Committing /\ l1Batch = {} /\ ~l1Busy
RecordIsStored ==
    \A r \in Requests : (r \in l1Batch) ~> (r \in l1Db \/ r \in l1Lost \/ Waits(r))

-----------------------------------------------------------------------------
(* The inductive invariant the theorems of UsageProofs rest on. *)

\* A request that is being handled has not been answered.
HandlingInv ==
    /\ handling.request = NoRequest => handling = Idle
    /\ handling # Idle => answer[handling.request] = "waiting"
    /\ handling.overdue => handling.request \in Increments

\* Every sum in a batch is cached, and every cached sum has a document: getUsageL2
\* inserts it when it makes one.
SumInv ==
    /\ DOMAIN batch \cup DOMAIN committing \subseteq DOMAIN cache
    /\ DOMAIN cache \subseteq DOMAIN db
    /\ DOMAIN db = DOMAIN ledger

\* Workers change only what they have read, and never a total.
WorkerInv ==
    /\ \A w \in Workers : DOMAIN workerCache[w] \cup DOMAIN workerBatch[w] \subseteq shared
    /\ shared \subseteq DOMAIN db
    /\ \A k \in shared : k.category # Total

IInv == TypeOK /\ HandlingInv /\ SumInv /\ WorkerInv /\ LedgerKept /\ BudgetHolds /\ RecordedOnce

-----------------------------------------------------------------------------
\* UsageProvider.test.ts:361 "previous month's influence on current month": a sum
\* that carries over starts from what the database has for the month before.
CarriesOver ==
    [][\A k \in DOMAIN db' \ DOMAIN db :
          /\ k.category \in Persistent /\ k.status = "fulfilled" /\ k.month > 0
          /\ Key(k.category, "fulfilled", k.month - 1) \in DOMAIN db
          => db'[k] = db[Key(k.category, "fulfilled", k.month - 1)]]_vars

\* file.test.ts:63 expectStorageUsageRecord: when everything is committed, the stored
\* bytes are those of the files that are left (here, if nothing was lost or failed).
DeletionsAreCounted ==
    /\ ~lost /\ faults = 0
    /\ DOMAIN batch = {} /\ DOMAIN committing = {}
    /\ \A w \in Workers : DOMAIN workerBatch[w] = {}
    => \A k \in DOMAIN db : db[k] = ledger[k]
=============================================================================
