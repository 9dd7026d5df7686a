-------------------------- MODULE WorkerPoolProofs --------------------------
(***************************************************************************)
(* Theorems about WorkerPool, for any number of workers, jobs and faults.   *)
(***************************************************************************)
EXTENDS WorkerPool, TLAPS

\* What is given up leaves no job with the worker.
LEMMA AbandonFacts ==
    ASSUME TypeOK, NEW w \in Workers, Abandon(w)
    PROVE  /\ asked' = [asked EXCEPT ![w] = "none"]
           /\ late' \subseteq Workers
           /\ reply' = [reply EXCEPT ![w] = NoJob]
           /\ reply[w] # NoJob => reply[w] \in dropped'
           /\ dropped \subseteq dropped' /\ dropped' \subseteq Jobs
  BY DEF Abandon, Drop, TypeOK

\* The invariant holds initially.
LEMMA InitIInv == Init => IInv
  BY PoolAssumption DEF Init, IInv, TypeOK, NotStarted, AskingInv, ReplyInv, TerminatingInv,
     JobIsKept

\* Starting, and the steps that only the main thread takes, leave the jobs alone.
LEMMA PoolSteps ==
    ASSUME IInv, StartPool \/ Listen \/ Dispose \/ Resolve PROVE IInv'
<1> USE DEF IInv, TypeOK, NotStarted, AskingInv, ReplyInv, TerminatingInv, JobIsKept, Locked,
        Stopped, mainVars, threadVars, jobVars, history
<1>1. CASE StartPool
  BY <1>1 DEF StartPool
<1>2. CASE Listen
  BY <1>2 DEF Listen
<1>3. CASE Dispose
  BY <1>3 DEF Dispose
<1>4. CASE Resolve
  BY <1>4 DEF Resolve
<1> QED BY <1>1, <1>2, <1>3, <1>4

\* A thread takes jobs by its own hands only, and lets them go when they are done or
\* counted as dropped.
LEMMA ThreadSteps == ASSUME IInv, NEW w \in Workers, Thread(w) PROVE IInv'
<1> USE PoolAssumption
    DEF IInv, TypeOK, NotStarted, AskingInv, ReplyInv, TerminatingInv, JobIsKept, Locked,
        Stopped, mainVars, threadVars, jobVars, history
<1>1. CASE WorkerReady(w)
  BY <1>1 DEF WorkerReady
<1>2. CASE Ask(w)
  BY <1>2 DEF Ask
<1>3. CASE Receive(w)
  BY <1>3 DEF Receive
<1>4. CASE GiveUp(w)
  BY <1>4, AbandonFacts DEF GiveUp
<1>5. CASE Finish(w)
  BY <1>5 DEF Finish
<1>6. CASE Throw(w)
  BY <1>6, AbandonFacts DEF Throw, Fault
<1>7. CASE Crash(w)
  BY <1>7, AbandonFacts DEF Crash, Fault
<1>8. CASE TakeStop(w)
  BY <1>8 DEF TakeStop
<1>9. CASE PostAck(w)
  BY <1>9 DEF PostAck
<1> QED BY <1>1, <1>2, <1>3, <1>4, <1>5, <1>6, <1>7, <1>8, <1>9 DEF Thread

\* The main thread gives a job to a thread that waits for it, or drops it, and
\* terminates threads that hold none.
LEMMA MainSteps == ASSUME IInv, NEW w \in Workers, Main(w) PROVE IInv'
<1> USE PoolAssumption
    DEF IInv, TypeOK, NotStarted, AskingInv, ReplyInv, TerminatingInv, JobIsKept, Locked,
        Stopped, mainVars, threadVars, jobVars, history
<1>1. CASE Serve(w)
  BY <1>1 DEF Serve, Give
<1>2. CASE ServeLate(w)
  BY <1>2 DEF ServeLate, Give, Drop
<1>3. CASE GetAck(w)
  BY <1>3 DEF GetAck
<1>4. CASE AckTimesOut(w)
  BY <1>4 DEF AckTimesOut
<1>5. CASE GracefulTimesOut(w)
  BY <1>5 DEF GracefulTimesOut
<1>6. CASE Terminate(w)
  <2>1. /\ stop[w] = "terminating" /\ at' = [at EXCEPT ![w] = "dead"]
        /\ stop' = [stop EXCEPT ![w] = "terminated"] /\ known' = known \ {w}
        /\ UNCHANGED <<pool, ready, heard, disposal, short, runner, done, faults>>
    BY <1>6 DEF Terminate
  <2>2. CASE short
    <3>1. Abandon(w)
      BY <1>6, <2>2 DEF Terminate
    <3>2. TypeOK'
      BY <2>1, <3>1, AbandonFacts
    <3>3. NotStarted' /\ TerminatingInv'
      BY <2>1, <2>2
    <3>4. AskingInv' /\ ReplyInv'
      BY <2>1, <3>1, AbandonFacts
    <3>5. JobIsKept'
      BY <2>1, <3>1, AbandonFacts
    <3> QED BY <3>2, <3>3, <3>4, <3>5
  <2>3. CASE ~short
    <3>1. at[w] \in {"acked", "dead"} /\ UNCHANGED <<asked, late, reply, dropped>>
      BY <1>6, <2>1, <2>3 DEF Terminate
    <3> QED BY <2>1, <3>1
  <2> QED BY <2>2, <2>3
<1> QED BY <1>1, <1>2, <1>3, <1>4, <1>5, <1>6 DEF Main

\* The invariant holds in all reachable states.
THEOREM Inductive == Spec => []IInv
<1>1. IInv /\ [Next]_vars => IInv'
  <2> SUFFICES ASSUME IInv, [Next]_vars PROVE IInv'
    OBVIOUS
  <2>1. CASE UNCHANGED vars
    BY <2>1 DEF vars, mainVars, threadVars, jobVars, history, IInv, TypeOK, NotStarted,
       AskingInv, ReplyInv, TerminatingInv, JobIsKept
  <2>2. CASE Next
    BY <2>2, PoolSteps, ThreadSteps, MainSteps DEF Next
  <2> QED BY <2>1, <2>2
<1> QED BY <1>1, InitIInv, PTL DEF Spec

\* Every variable has a value of its type in all reachable states.
THEOREM TypeCorrect == Spec => []TypeOK
<1>1. IInv => TypeOK
  BY DEF IInv
<1> QED BY <1>1, Inductive, PTL

\* Stopping a pool of any size cuts no job short: what was given to a worker that
\* waits for it is run until it is done, however requests, late answers, crashes
\* and the pool's own timeouts interleave.
THEOREM JobIsKeptHolds == Spec => []JobIsKept
<1>1. IInv => JobIsKept
  BY DEF IInv
<1> QED BY <1>1, Inductive, PTL
=============================================================================
