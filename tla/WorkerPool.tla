----------------------------- MODULE WorkerPool -----------------------------
(***************************************************************************)
(* The pool of worker threads: how threads are started, ask the main thread *)
(* for jobs over a port, and are stopped.                                   *)
(*                                                                          *)
(* src/src/endpoints/jobs/fworker/{FWorkerMain,FWorkerMessager,FWorkerPool} *)
(* and src/src/endpoints/jobs/fimidaraWorker/{FimidaraWorker,               *)
(* FimidaraWorkerPool}.ts.  Which job is given, and what becomes of one     *)
(* whose worker dies, is JobQueue's.                                        *)
(***************************************************************************)
EXTENDS Naturals

CONSTANTS
    Workers,    \* ids of generateWorkerId, one for each thread of the pool
    Jobs,       \* jobs that getNextJob may hand out, each once
    NoWorker,
    NoJob,
    MaxFaults   \* bound: threads that die and runs that reject

ASSUME PoolAssumption ==
    /\ NoWorker \notin Workers
    /\ NoJob \notin Jobs
    /\ MaxFaults \in Nat

VARIABLES
    \* The main thread.
    pool,       \* startPool: "off", "starting" (awaits ensureWorkerCount), "up"
    known,      \* FWorkerMain.workers: entries of threads that have not exited
    ready,      \* workers whose workerReady message was received
    heard,      \* workers to whose port handleMessage is attached
    stop,       \* __stopWorker of each worker
    disposal,   \* the promise of dispose
    short,      \* gracefulTerminateTimeoutMs is less than the ack's five seconds
    \* The threads.
    at,         \* where each thread is; it holds its workerEndedLock in Locked
    asked,      \* the request for a job that a thread awaits
    reply,      \* the job in the answer to it
    late,       \* workers with requests to be answered that nobody awaits any more
    \* The jobs, as the database has them.
    runner,     \* the worker a job was given to
    done,       \* jobs whose runJob has returned
    \* History.
    dropped,    \* jobs lost to a late answer, a fault or a graceful timeout
    faults

mainVars == <<pool, known, ready, heard, stop, disposal, short>>
threadVars == <<at, asked, reply, late>>
jobVars == <<runner, done>>
history == <<dropped, faults>>
vars == <<mainVars, threadVars, jobVars, history>>

\* FimidaraWorker.run holds the lock while it awaits an answer or a job.
Locked == {"asking", "running"}
Stopped == {"disposing", "acked", "dead"}

Drop(j) == dropped' = dropped \cup ({j} \ {NoJob})
Fault == faults < MaxFaults /\ faults' = faults + 1

Init ==
    /\ pool = "off"
    /\ known = {} /\ ready = {} /\ heard = {}
    /\ stop = [w \in Workers |-> "no"]
    /\ disposal = "no"
    /\ short \in BOOLEAN
    /\ at = [w \in Workers |-> "off"]
    /\ asked = [w \in Workers |-> "none"]
    /\ reply = [w \in Workers |-> NoJob]
    /\ late = {}
    /\ runner = [j \in Jobs |-> NoWorker]
    /\ done = {}
    /\ dropped = {}
    /\ faults = 0

-----------------------------------------------------------------------------
(* Starting *)

\* ensureWorkerCount makes all threads at once, and adds their entries before any of
\* them is online.
StartPool ==
    /\ pool = "off" /\ disposal = "no"
    /\ pool' = "starting"
    /\ known' = Workers
    /\ at' = [w \in Workers |-> "starting"]
    /\ UNCHANGED <<ready, heard, stop, disposal, short, asked, reply, late, jobVars, history>>

\* A thread has set itself up: it listens, says so, and starts its loop.
WorkerReady(w) ==
    /\ at[w] = "starting"
    /\ at' = [at EXCEPT ![w] = "idle"]
    /\ ready' = ready \cup {w}
    /\ UNCHANGED <<pool, known, heard, stop, disposal, short, asked, reply, late, jobVars, history>>

\* The promise of a thread that exits before it is ready never settles: then
\* startPool awaits it for ever, and listens to none.
Listen ==
    /\ pool = "starting" /\ ready = Workers
    /\ pool' = "up"
    /\ heard' = known
    /\ UNCHANGED <<known, ready, stop, disposal, short, threadVars, jobVars, history>>

-----------------------------------------------------------------------------
(* The loop of a thread *)

\* A request that is posted before the main thread listens to the port is lost, if
\* the port does not keep it.
Ask(w) ==
    /\ at[w] = "idle"
    /\ at' = [at EXCEPT ![w] = "asking"]
    /\ \E q \in {"sent", "lost"} :
          /\ w \in heard => q = "sent"
          /\ asked' = [asked EXCEPT ![w] = q]
    /\ UNCHANGED <<mainVars, reply, late, jobVars, history>>

\* getNextJob finds a job that nobody has, or none, or it throws, which is taken for
\* none.  It looks at the worker's id only: stopping and dead workers are served.
Give(w, j) ==
    \/ j = NoJob /\ UNCHANGED runner
    \/ j \in Jobs /\ runner[j] = NoWorker /\ runner' = [runner EXCEPT ![j] = w]

Serve(w) ==
    /\ w \in heard /\ asked[w] = "sent"
    /\ \E j \in Jobs \cup {NoJob} :
          /\ Give(w, j)
          /\ asked' = [asked EXCEPT ![w] = "answered"]
          /\ reply' = [reply EXCEPT ![w] = j]
    /\ UNCHANGED <<mainVars, at, late, done, history>>

Receive(w) ==
    /\ at[w] = "asking" /\ asked[w] = "answered"
    /\ at' = [at EXCEPT ![w] = IF reply[w] = NoJob THEN "idle" ELSE "running"]
    /\ asked' = [asked EXCEPT ![w] = "none"]
    /\ UNCHANGED <<mainVars, reply, late, jobVars, history>>

\* A request that nobody waits for any more reaches the main thread all the same.
Abandon(w) ==
    /\ asked' = [asked EXCEPT ![w] = "none"]
    /\ late' = IF asked[w] = "sent" THEN late \cup {w} ELSE late
    /\ reply' = [reply EXCEPT ![w] = NoJob]
    /\ Drop(reply[w])

\* Mutant: the timer starts when the request has been received.
GiveUp_OnAnswer(w) ==
    /\ at[w] = "asking" /\ asked[w] # "lost"
    /\ at' = [at EXCEPT ![w] = "idle"]
    /\ Abandon(w)
    /\ UNCHANGED <<mainVars, jobVars, faults>>

\* The acknowledgement is not there after ten seconds: the thread goes on without a
\* job, and drops the answer when it comes (handleAcks finds no entry for it).
GiveUp(w) ==
    /\ at[w] = "asking"
    /\ at' = [at EXCEPT ![w] = "idle"]
    /\ Abandon(w)
    /\ UNCHANGED <<mainVars, jobVars, faults>>

\* The job of a late answer is its worker's in the database, and nobody runs it.
ServeLate(w) ==
    /\ w \in late \cap heard
    /\ \E j \in Jobs \cup {NoJob} : Give(w, j) /\ Drop(j)
    /\ late' \in {late, late \ {w}}
    /\ UNCHANGED <<mainVars, at, asked, reply, done, faults>>

\* Mutant: the job is looked up after it was reset.
Finish_Reset(w) ==
    /\ at[w] = "running"
    /\ reply' = [reply EXCEPT ![w] = NoJob]
    /\ done' = done \cup {reply'[w]}
    /\ at' = [at EXCEPT ![w] = "idle"]
    /\ UNCHANGED <<mainVars, asked, late, runner, history>>

\* runJob returns: the job is completed, the lock released and the timer of the next
\* run set.
Finish(w) ==
    /\ at[w] = "running"
    /\ done' = done \cup {reply[w]}
    /\ at' = [at EXCEPT ![w] = "idle"]
    /\ reply' = [reply EXCEPT ![w] = NoJob]
    /\ UNCHANGED <<mainVars, asked, late, runner, history>>

\* runJob rejects when completeJob does: the next run is never set, and the thread
\* lives on without its loop.
Throw(w) ==
    /\ at[w] = "running" /\ Fault
    /\ at' = [at EXCEPT ![w] = "broken"]
    /\ Abandon(w)
    /\ UNCHANGED <<mainVars, jobVars>>

\* A thread fails or exits: its entry is deleted, and none is started in its place.
Crash(w) ==
    /\ at[w] \notin {"off", "dead"} /\ Fault
    /\ at' = [at EXCEPT ![w] = "dead"]
    /\ known' = known \ {w}
    /\ Abandon(w)
    /\ UNCHANGED <<pool, ready, heard, stop, disposal, short, jobVars>>

-----------------------------------------------------------------------------
(* Stopping *)

\* __dispose stops the workers that have an entry, whether they have started or not.
Dispose ==
    /\ pool # "off" /\ disposal = "no"
    /\ disposal' = "running"
    /\ stop' = [w \in Workers |-> IF w \in known THEN "asked" ELSE "no"]
    /\ UNCHANGED <<pool, known, ready, heard, short, threadVars, jobVars, history>>

\* Mutant: the handler does not wait for the lock.
TakeStop_AtOnce(w) ==
    /\ at[w] \in {"idle", "broken"} \cup Locked
    /\ stop[w] # "no"
    /\ at' = [at EXCEPT ![w] = "disposing"]
    /\ UNCHANGED <<mainVars, asked, reply, late, jobVars, history>>

\* The thread's handler of stopWorker waits for the lock, and lets no run follow.
TakeStop(w) ==
    /\ at[w] \in {"idle", "broken"}
    /\ stop[w] # "no"
    /\ at' = [at EXCEPT ![w] = "disposing"]
    /\ UNCHANGED <<mainVars, asked, reply, late, jobVars, history>>

\* globalDispose is over; the acknowledgement is posted.
PostAck(w) ==
    /\ at[w] = "disposing"
    /\ at' = [at EXCEPT ![w] = "acked"]
    /\ UNCHANGED <<mainVars, asked, reply, late, jobVars, history>>

GetAck(w) ==
    /\ stop[w] = "asked" /\ at[w] = "acked"
    /\ stop' = [stop EXCEPT ![w] = "terminating"]
    /\ UNCHANGED <<pool, known, ready, heard, disposal, short, threadVars, jobVars, history>>

\* After five seconds without an acknowledgement gracefulTerminateFn rejects, and
\* __stopWorker and dispose with it: the thread is not terminated.
AckTimesOut(w) ==
    /\ stop[w] = "asked" /\ ~short
    /\ stop' = [stop EXCEPT ![w] = "refused"]
    /\ disposal' = IF disposal = "running" THEN "rejected" ELSE disposal
    /\ UNCHANGED <<pool, known, ready, heard, short, threadVars, jobVars, history>>

\* awaitOrTimeout, where the graceful timeout is the shorter: terminate anyhow.
GracefulTimesOut(w) ==
    /\ stop[w] = "asked" /\ short
    /\ stop' = [stop EXCEPT ![w] = "terminating"]
    /\ UNCHANGED <<pool, known, ready, heard, disposal, short, threadVars, jobVars, history>>

Terminate(w) ==
    /\ stop[w] = "terminating"
    /\ stop' = [stop EXCEPT ![w] = "terminated"]
    /\ known' = known \ {w}
    /\ at' = [at EXCEPT ![w] = "dead"]
    /\ IF short THEN Abandon(w) ELSE UNCHANGED <<asked, late, reply, dropped>>
    /\ UNCHANGED <<pool, ready, heard, disposal, short, jobVars, faults>>

\* Promise.all over the workers that were there when dispose was called.
Resolve ==
    /\ disposal = "running"
    /\ \A w \in Workers : stop[w] \in {"no", "terminated"}
    /\ disposal' = "resolved"
    /\ UNCHANGED <<pool, known, ready, heard, stop, short, threadVars, jobVars, history>>

-----------------------------------------------------------------------------
Thread(w) ==
    \/ WorkerReady(w) \/ Ask(w) \/ Receive(w) \/ GiveUp(w) \/ Finish(w) \/ Throw(w)
    \/ Crash(w) \/ TakeStop(w) \/ PostAck(w)
Main(w) ==
    \/ Serve(w) \/ ServeLate(w)
    \/ GetAck(w) \/ AckTimesOut(w) \/ GracefulTimesOut(w) \/ Terminate(w)
Next ==
    \/ StartPool \/ Listen \/ Dispose \/ Resolve
    \/ \E w \in Workers : Thread(w) \/ Main(w)

Spec == Init /\ [][Next]_vars

\* Timers fire and jobs end; the main thread may be as slow as it likes.  Who waits
\* for the lock of a thread gets it in the end, though the thread's loop takes it
\* again and again.
Fairness ==
    \A w \in Workers :
        /\ WF_vars(Receive(w) \/ GiveUp(w))
        /\ WF_vars(Finish(w))
        /\ SF_vars(TakeStop(w))
FairSpec == Spec /\ Fairness

-----------------------------------------------------------------------------
(* Properties *)

TypeOK ==
    /\ pool \in {"off", "starting", "up"}
    /\ known \subseteq Workers /\ ready \subseteq Workers /\ heard \subseteq Workers
    /\ stop \in [Workers -> {"no", "asked", "refused", "terminating", "terminated"}]
    /\ disposal \in {"no", "running", "resolved", "rejected"}
    /\ short \in BOOLEAN
    /\ at \in [Workers -> {"off", "starting", "idle", "broken"} \cup Locked \cup Stopped]
    /\ asked \in [Workers -> {"none", "sent", "lost", "answered"}]
    /\ reply \in [Workers -> Jobs \cup {NoJob}]
    /\ late \subseteq Workers
    /\ runner \in [Jobs -> Workers \cup {NoWorker}]
    /\ done \subseteq Jobs
    /\ dropped \subseteq Jobs
    /\ faults \in 0 .. MaxFaults

\* A job that was given to a worker is on its way to it or run by it until it is done,
\* unless the worker did not wait for it or broke: stopping the pool, while workers
\* start, ask, are answered or run, cuts no job short in the time it grants.
JobIsKept ==
    \A j \in Jobs :
        runner[j] \in Workers =>
            \/ j \in done \cup dropped
            \/ reply[runner[j]] = j /\ at[runner[j]] \in Locked

\* A thread that is up and is told to stop lets its job end and stops, also when
\* the pool no longer waits for it or never answered it.
WorkerStops ==
    \A w \in Workers :
        (stop[w] # "no" /\ at[w] \notin {"off", "starting"}) ~> (at[w] \in Stopped)

\* FWorkerPool.test.ts 'graceful terminate timeout' (:113): when dispose is over the
\* pool has no worker left, however long they take.
DisposedIsEmpty == disposal \in {"resolved", "rejected"} => known = {}

-----------------------------------------------------------------------------
(* The inductive invariant the theorems of WorkerPoolProofs rest on. *)

NotStarted == pool = "off" => \A w \in Workers : at[w] = "off" /\ stop[w] = "no"
\* Who awaits an answer holds the lock, and who has a job runs it or is about to.
AskingInv == \A w \in Workers : (asked[w] # "none") <=> (at[w] = "asking")
ReplyInv ==
    \A w \in Workers :
        /\ at[w] = "running" => reply[w] \in Jobs
        /\ reply[w] # NoJob => at[w] = "running" \/ asked[w] = "answered"
\* The pool terminates who has acknowledged, unless its graceful timeout is over.
TerminatingInv ==
    \A w \in Workers : stop[w] = "terminating" /\ ~short => at[w] \in {"acked", "dead"}

IInv ==
    /\ TypeOK
    /\ NotStarted
    /\ AskingInv
    /\ ReplyInv
    /\ TerminatingInv
    /\ JobIsKept
=============================================================================
