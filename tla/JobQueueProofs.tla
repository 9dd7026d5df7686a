--------------------------- MODULE JobQueueProofs ---------------------------
(***************************************************************************)
(* Theorems about JobQueue, for every set of jobs, tree of parents, set of *)
(* workers and bound.  The invariants follow from IInv of JobQueue.        *)
(***************************************************************************)
EXTENDS JobQueue, TLAPS

\* A conflicting write only sets the dirty flag of the calls that read the document.
LEMMA TouchFacts ==
    ASSUME NEW cs \in [Slots -> CallRecords], NEW js
    PROVE  /\ Touch(cs, js) \in [Slots -> CallRecords]
           /\ \A c \in Slots :
                /\ Touch(cs, js)[c].job = cs[c].job
                /\ Touch(cs, js)[c].input = cs[c].input
                /\ Touch(cs, js)[c].ifStatus = cs[c].ifStatus
                /\ Touch(cs, js)[c].by = cs[c].by
                /\ Touch(cs, js)[c].snap = cs[c].snap
                /\ ~Touch(cs, js)[c].dirty => ~cs[c].dirty /\ (cs[c].job \notin js \/ cs[c].snap = NoSnap)
  BY DEF Touch, CallRecords

\* getJobUsingFn returns a candidate that is ready, or none, and sees only candidates.
LEMMA VisitsFacts ==
    ASSUME NEW cands, NEW v \in Visits(cands)
    PROVE  /\ v.seen \subseteq cands
           /\ v.got = NoJob \/ (v.got \in v.seen /\ v.got \in cands /\ Ready(v.got))
  BY DEF Visits

\* What a fetch selects was unfinished or pending, out of cooldown, and is cooled.
LEMMA SelectedFacts ==
    ASSUME NEW active,
           NEW u \in Visits(UnfinishedCandidates(active)),
           NEW p \in Visits(PendingCandidates)
    PROVE  /\ u.seen \cup p.seen \subseteq Jobs \ cooling
           /\ \A j \in u.seen \cup p.seen : status[j] \in {"pending", "inProgress"}
           /\ Selected(u, p) = NoJob \/ (Selected(u, p) \in u.seen \cup p.seen /\ Ready(Selected(u, p)))
  BY VisitsFacts, UnfinishedCandidates(active) \subseteq Jobs, PendingCandidates \subseteq Jobs
     DEF UnfinishedCandidates, PendingCandidates, Selected

\* The two ways a fetch ends, in one: whether the worker runs what was selected or not.
Fetched(w, j, seen) ==
    /\ Idle(w)
    /\ seen \subseteq Jobs \ cooling
    /\ \A k \in seen : status[k] \in {"pending", "inProgress"}
    /\ j = NoJob \/ (j \in seen /\ Ready(j))
    /\ cooling' = cooling \cup seen
    /\ status' = IF j = NoJob THEN status ELSE [status EXCEPT ![j] = "inProgress"]
    /\ runnerId' = IF j = NoJob THEN runnerId ELSE [runnerId EXCEPT ![j] = w]
    /\ exec' = [exec EXCEPT ![w] = j] \/ exec' = exec
    /\ call' = Touch(call, seen)
    /\ UNCHANGED <<inserting, lost>>
    /\ faults' \in 0..MaxFaults
    /\ threw' \subseteq threw

LEMMA FetchedFacts ==
    ASSUME TypeOK, NEW w \in Workers, GetNextJob(w) \/ GetNextJobLate(w)
    PROVE  \E j \in Jobs \cup {NoJob}, seen \in SUBSET Jobs : Fetched(w, j, seen)
<1>1. CASE GetNextJob(w)
  <2>0. PICK active \in ActiveLists :
          \E u \in Visits(UnfinishedCandidates(active)), p \in Visits(PendingCandidates) :
             /\ MarkJobStarted(w, Selected(u, p), u.seen \cup p.seen)
             /\ exec' = [exec EXCEPT ![w] = Selected(u, p)]
             /\ threw' = threw \ {Selected(u, p)}
             /\ call' = Touch(call, u.seen \cup p.seen)
    BY <1>1 DEF GetNextJob
  <2>1. PICK u \in Visits(UnfinishedCandidates(active)), p \in Visits(PendingCandidates) :
          /\ MarkJobStarted(w, Selected(u, p), u.seen \cup p.seen)
          /\ exec' = [exec EXCEPT ![w] = Selected(u, p)]
          /\ threw' = threw \ {Selected(u, p)}
          /\ call' = Touch(call, u.seen \cup p.seen)
    BY <2>0
  <2>2. Fetched(w, Selected(u, p), u.seen \cup p.seen)
    BY <1>1, <2>1, SelectedFacts DEF Fetched, GetNextJob, MarkJobStarted, TypeOK
  <2> QED BY <2>2 DEF Fetched
<1>2. CASE GetNextJobLate(w)
  <2>0. PICK active \in ActiveLists :
          \E u \in Visits(UnfinishedCandidates(active)), p \in Visits(PendingCandidates) :
             /\ MarkJobStarted(w, Selected(u, p), u.seen \cup p.seen)
             /\ call' = Touch(call, u.seen \cup p.seen)
    BY <1>2 DEF GetNextJobLate
  <2>1. PICK u \in Visits(UnfinishedCandidates(active)), p \in Visits(PendingCandidates) :
          /\ MarkJobStarted(w, Selected(u, p), u.seen \cup p.seen)
          /\ call' = Touch(call, u.seen \cup p.seen)
    BY <2>0
  <2>2. faults' \in 0..MaxFaults
    BY <1>2, InputAssumption DEF GetNextJobLate, TypeOK
  <2>3. Fetched(w, Selected(u, p), u.seen \cup p.seen)
    BY <1>2, <2>1, <2>2, SelectedFacts DEF Fetched, GetNextJobLate, MarkJobStarted, TypeOK
  <2> QED BY <2>3 DEF Fetched
<1> QED BY <1>1, <1>2

-----------------------------------------------------------------------------
(* Type correctness *)

LEMMA NullFacts == NoCall \in CallRecords /\ NoSnap \in Snaps /\ NoCall.job = NoJob /\ NoCall.snap = NoSnap
  BY DEF NoCall, NoSnap, CallRecords, Snaps, Outcomes, Statuses

LEMMA InitType == Init => TypeOK
  BY NullFacts, InputAssumption DEF Init, TypeOK

\* The update of the parent that completeJob starts is a call.
LEMMA ParentCallFacts ==
    ASSUME NEW j \in Jobs, NEW saved \in Terminal, NEW w \in Workers \cup {NoWorker}
    PROVE  ParentCall(j, saved, w) \in CallRecords
  BY NullFacts, TreeAssumption DEF ParentCall, CallRecords, Terminal, Outcomes, Statuses

LEMMA SnapshotFacts ==
    ASSUME TypeOK, NEW j \in Jobs
    PROVE  /\ Snapshot(j) \in Snaps
           /\ Snapshot(j).status = status[j]
           /\ Snapshot(j).pendingChild <=> \E k \in Descendants(j) : status[k] \in Unfinished
           /\ Snapshot(j).failedChild <=> \E k \in Descendants(j) : status[k] = "failed"
<1>1. status[j] \in Statuses \cup {"absent"}
  BY DEF TypeOK
<1> QED BY <1>1, Zenon DEF Snapshot, Snaps

\* What a committed update does to the calls: c's is over, at most one new one
\* starts, for the parent, in a free slot, and the others keep what they carry.
SaveFacts(c, saved) ==
    LET j == call[c].job
    IN  /\ j \in Jobs
        /\ call[c].input \in Outcomes
        /\ call[c].snap \in Snaps
        /\ saved \in Statuses
        /\ status' = [status EXCEPT ![j] = saved]
        /\ call' \in [Slots -> CallRecords]
        /\ call'[c] = NoCall \/ (c \in Calls /\ NeedsParentUpdate(j, saved) /\ call'[c] = ParentCall(j, saved, call[c].by))
        /\ \A k \in Slots \ {c} :
              \/ /\ call'[k].job = call[k].job
                 /\ call'[k].input = call[k].input
                 /\ call'[k].ifStatus = call[k].ifStatus
                 /\ call'[k].snap = call[k].snap
                 /\ ~call'[k].dirty => ~call[k].dirty /\ (call[k].job # j \/ call[k].snap = NoSnap)
              \/ /\ k \in Calls
                 /\ call[k].job = NoJob
                 /\ NeedsParentUpdate(j, saved)
                 /\ call'[k] = ParentCall(j, saved, call[c].by)
        /\ NeedsParentUpdate(j, saved) =>
              \E k \in Calls : call'[k] = ParentCall(j, saved, call[c].by)

LEMMA SaveStatusFacts ==
    ASSUME TypeOK, NEW c \in Slots, SaveStatus(c)
    PROVE  SaveFacts(c, SavedStatus(call[c].job, NextStatus(call[c].input, call[c].snap)))
<1> DEFINE j == call[c].job
           saved == SavedStatus(j, NextStatus(call[c].input, call[c].snap))
           ended == [call EXCEPT ![c] = NoCall]
           others == Touch(ended, {j})
<1>1. /\ j \in Jobs
      /\ call[c].input \in Outcomes
      /\ call[c].snap \in Snaps
      /\ call[c].by \in Workers \cup {NoWorker}
  BY DEF TypeOK, CallRecords, SaveStatus
<1>2. saved \in Statuses
  BY <1>1 DEF SavedStatus, NextStatus, Outcomes, Statuses
<1>3. ended \in [Slots -> CallRecords] /\ ended[c] = NoCall /\ \A k \in Slots \ {c} : ended[k] = call[k]
  BY NullFacts DEF TypeOK
<1>4. /\ others \in [Slots -> CallRecords]
      /\ others[c] = NoCall
      /\ \A k \in Slots \ {c} :
            /\ others[k].job = call[k].job
            /\ others[k].input = call[k].input
            /\ others[k].ifStatus = call[k].ifStatus
            /\ others[k].snap = call[k].snap
            /\ ~others[k].dirty => ~call[k].dirty /\ (call[k].job # j \/ call[k].snap = NoSnap)
  <2>1. others[c] = NoCall
    BY <1>3, NullFacts, c \in Slots DEF Touch
  <2> HIDE DEF ended
  <2> QED BY <1>3, <2>1, TouchFacts
<1>5. status' = [status EXCEPT ![j] = saved]
  BY DEF SaveStatus
<1>6. SaveFacts(c, saved)
  <2>1. CASE NeedsParentUpdate(j, saved)
    <3>1. PICK k \in Calls :
            others[k].job = NoJob /\ call' = [others EXCEPT ![k] = ParentCall(j, saved, call[c].by)]
      BY <2>1 DEF SaveStatus
    <3>2. ParentCall(j, saved, call[c].by) \in CallRecords
      BY <1>1, <2>1, ParentCallFacts DEF NeedsParentUpdate
    <3>3. k \in Slots
      BY DEF Slots
    <3> HIDE DEF others, saved
    <3> QED BY <1>1, <1>2, <1>4, <1>5, <2>1, <3>1, <3>2, <3>3 DEF SaveFacts
  <2>2. CASE ~NeedsParentUpdate(j, saved)
    <3>1. call' = others
      BY <2>2 DEF SaveStatus
    <3> HIDE DEF others, saved
    <3> QED BY <1>1, <1>2, <1>4, <1>5, <2>2, <3>1 DEF SaveFacts
  <2> QED BY <2>1, <2>2
<1> QED BY <1>6

LEMMA StepType == TypeOK /\ [Next]_vars => TypeOK'
<1> SUFFICES ASSUME TypeOK, [Next]_vars PROVE TypeOK'
  OBVIOUS
<1> USE NullFacts, InputAssumption
<1>1. ASSUME NEW j \in Jobs, QueueRootJob(j) PROVE TypeOK'
  BY <1>1 DEF TypeOK, QueueRootJob, Statuses
<1>2. ASSUME NEW j \in Jobs, CooldownEnds(j) PROVE TypeOK'
  BY <1>2 DEF TypeOK, CooldownEnds
<1>3. ASSUME NEW w \in Workers, GetNextJob(w) \/ GetNextJobLate(w) PROVE TypeOK'
  <2>1. PICK j \in Jobs \cup {NoJob}, seen \in SUBSET Jobs : Fetched(w, j, seen)
    BY <1>3, FetchedFacts
  <2>2. call' \in [Slots -> CallRecords]
    BY <2>1, TouchFacts DEF Fetched, TypeOK
  <2> QED BY <2>1, <2>2 DEF TypeOK, Fetched, Statuses
<1>4. ASSUME NEW w \in Workers, NEW page \in SUBSET Jobs, QueueJobs(w, page) \/ InsertJobs(w, page)
      PROVE TypeOK'
  BY <1>4 DEF TypeOK, QueueJobs, InsertJobs, Statuses
<1>5. ASSUME NEW w \in Workers, NEW outcome \in Outcomes, ReturnFromHandler(w, outcome)
      PROVE TypeOK'
  <2>1. [job |-> exec[w], input |-> outcome, ifStatus |-> Statuses,
         by |-> w, snap |-> NoSnap, dirty |-> FALSE] \in CallRecords
    BY DEF TypeOK, CallRecords
  <2>2. w \in Slots
    BY DEF Slots
  <2> QED BY <1>5, <2>1, <2>2 DEF TypeOK, ReturnFromHandler
<1>6. ASSUME NEW w \in Workers, Crash(w) PROVE TypeOK'
  <2>1. call' \in [Slots -> CallRecords]
    BY <1>6 DEF Crash, TypeOK
  <2> QED BY <1>6, <2>1 DEF TypeOK, Crash
<1>7. ASSUME NEW c \in Slots, ReadJob(c) PROVE TypeOK'
  <2>1. call[c] \in CallRecords /\ call[c].job \in Jobs
    BY <1>7 DEF TypeOK, ReadJob, CallRecords
  <2>2. [call[c] EXCEPT !.snap = Snapshot(call[c].job)] \in CallRecords
    BY <2>1, SnapshotFacts DEF CallRecords
  <2> QED BY <1>7, <2>2 DEF TypeOK, ReadJob
<1>8. ASSUME NEW c \in Slots, SkipUpdate(c) PROVE TypeOK'
  BY <1>8 DEF TypeOK, SkipUpdate
<1>9. ASSUME NEW c \in Slots, SaveStatus(c) PROVE TypeOK'
  <2> DEFINE saved == SavedStatus(call[c].job, NextStatus(call[c].input, call[c].snap))
  <2>1. SaveFacts(c, saved)
    BY <1>9, SaveStatusFacts
  <2>2. cooling' \in {cooling, cooling \cup {call[c].job}}
    BY <1>9 DEF SaveStatus
  <2> HIDE DEF saved
  <2> QED BY <1>9, <2>1, <2>2 DEF TypeOK, SaveStatus, SaveFacts
<1>10. ASSUME NEW c \in Slots, RetryTxn(c) PROVE TypeOK'
  BY <1>10 DEF TypeOK, RetryTxn, CallRecords
<1>11. CASE UNCHANGED vars
  BY <1>11 DEF TypeOK, vars
<1> QED
  BY <1>1, <1>2, <1>3, <1>4, <1>5, <1>6, <1>7, <1>8, <1>9, <1>10, <1>11 DEF Next

\* Every variable keeps its type: statuses are those of kJobStatus, and the
\* completeJob calls carry what their callers pass.
THEOREM TypeCorrect == Spec => []TypeOK
<1>1. Init => TypeOK
  BY InitType
<1>2. TypeOK /\ [Next]_vars => TypeOK'
  BY StepType
<1> QED BY <1>1, <1>2, PTL DEF Spec

-----------------------------------------------------------------------------
(* One runner per job *)

LEMMA InitRun == Init => RunInv /\ OneRunner
  BY NullsAssumption DEF Init, RunInv, OneRunner, Running, NoCall, Slots

\* The steps that start no run and end no cooldown: every run of the new state
\* was one of the old.
LEMMA NoNewRun ==
    ASSUME RunInv, OneRunner,
           \A w \in Workers, j \in Jobs : Running(w, j)' => Running(w, j),
           \A w \in Workers : exec'[w] # NoJob => exec'[w] = exec[w] /\ call'[w].job \in {NoJob, call[w].job},
           cooling \subseteq cooling'
    PROVE  RunInv' /\ OneRunner'
  BY DEF RunInv, OneRunner

LEMMA StepRun == TypeOK /\ RunInv /\ OneRunner /\ [Next]_vars => RunInv' /\ OneRunner'
<1> SUFFICES ASSUME TypeOK, RunInv, OneRunner, [Next]_vars PROVE RunInv' /\ OneRunner'
  OBVIOUS
<1>1. ASSUME NEW j \in Jobs, QueueRootJob(j) PROVE RunInv' /\ OneRunner'
  BY <1>1, NoNewRun DEF QueueRootJob, Running
<1>2. ASSUME NEW j \in Jobs, CooldownEnds(j) PROVE RunInv' /\ OneRunner'
  BY <1>2 DEF CooldownEnds, RunInv, OneRunner, Running, Executing
<1>3. ASSUME NEW w \in Workers, GetNextJob(w) \/ GetNextJobLate(w) PROVE RunInv' /\ OneRunner'
  <2>1. PICK j \in Jobs \cup {NoJob}, seen \in SUBSET Jobs : Fetched(w, j, seen)
    BY <1>3, FetchedFacts
  <2>2. \A v \in Workers : call'[v].job = call[v].job
    <3>1. call' = Touch(call, seen) /\ call \in [Slots -> CallRecords]
      BY <2>1 DEF Fetched, TypeOK
    <3> QED BY <3>1, TouchFacts DEF Slots
  <2>3. \A v \in Workers : exec'[v] = exec[v] \/ (v = w /\ exec'[v] = j)
    BY <2>1 DEF Fetched, TypeOK
  <2>4. \A v \in Workers, k \in Jobs : Running(v, k)' => Running(v, k) \/ (v = w /\ k = j /\ j \in seen)
    BY <2>1, <2>2, <2>3, NullsAssumption DEF Running, Fetched
  <2>5. RunInv'
    BY <2>1, <2>2, <2>3, <2>4 DEF RunInv, Fetched, Idle
  <2>6. OneRunner'
    BY <2>1, <2>4 DEF RunInv, OneRunner, Fetched
  <2> QED BY <2>5, <2>6
<1>4. ASSUME NEW w \in Workers, NEW page \in SUBSET Jobs, QueueJobs(w, page) \/ InsertJobs(w, page)
      PROVE RunInv' /\ OneRunner'
  BY <1>4, NoNewRun DEF QueueJobs, InsertJobs, Running
<1>5. ASSUME NEW w \in Workers, NEW outcome \in Outcomes, ReturnFromHandler(w, outcome)
      PROVE RunInv' /\ OneRunner'
  <2>1. /\ call'[w].job = exec[w]
        /\ exec'[w] = NoJob
        /\ \A v \in Workers \ {w} : call'[v] = call[v] /\ exec'[v] = exec[v]
        /\ cooling' = cooling
    BY <1>5 DEF ReturnFromHandler, TypeOK, Slots
  <2> QED BY <2>1, NullsAssumption DEF RunInv, OneRunner, Running
<1>6. ASSUME NEW w \in Workers, Crash(w) PROVE RunInv' /\ OneRunner'
  <2>1. /\ exec'[w] = NoJob
        /\ \A v \in Workers \ {w} : exec'[v] = exec[v]
        /\ \A v \in Workers : call'[v].job \in {NoJob, call[v].job}
        /\ cooling' = cooling
    BY <1>6, NullFacts DEF Crash, TypeOK, Slots
  <2> QED BY <2>1, NullsAssumption DEF RunInv, OneRunner, Running
<1>7. ASSUME NEW c \in Slots, ReadJob(c) \/ RetryTxn(c) \/ SkipUpdate(c) PROVE RunInv' /\ OneRunner'
  <2>1. \A v \in Workers : call'[v].job \in {NoJob, call[v].job}
    BY <1>7, NullFacts DEF ReadJob, RetryTxn, SkipUpdate, TypeOK, CallRecords, Slots
  <2>2. exec' = exec /\ cooling' = cooling
    BY <1>7 DEF ReadJob, RetryTxn, SkipUpdate
  <2> QED BY <2>1, <2>2, NullsAssumption DEF RunInv, OneRunner, Running
<1>8. ASSUME NEW c \in Slots, SaveStatus(c) PROVE RunInv' /\ OneRunner'
  <2>1. \A v \in Workers : call'[v].job \in {NoJob, call[v].job}
    BY <1>8, SaveStatusFacts, NullFacts, InputAssumption DEF SaveFacts, Slots
  <2>2. exec' = exec /\ cooling \subseteq cooling'
    BY <1>8 DEF SaveStatus
  <2> QED BY <2>1, <2>2, NullsAssumption DEF RunInv, OneRunner, Running
<1>9. CASE UNCHANGED vars
  BY <1>9 DEF vars, RunInv, OneRunner, Running
<1> QED BY <1>1, <1>2, <1>3, <1>4, <1>5, <1>6, <1>7, <1>8, <1>9 DEF Next

\* The run of a job ends before the job can be fetched again, whatever happens
\* to the workers, as long as no run outlasts the cooldown of its job.
THEOREM OneRunnerHolds == Spec => []OneRunner
<1>1. Init => TypeOK /\ RunInv /\ OneRunner
  BY InitType, InitRun
<1>2. TypeOK /\ RunInv /\ OneRunner /\ [Next]_vars => (TypeOK /\ RunInv /\ OneRunner)'
  BY StepType, StepRun
<1> QED BY <1>1, <1>2, PTL DEF Spec

-----------------------------------------------------------------------------
(* The orderly job queue: what completeJob decides stays right *)

LEMMA TreeFacts ==
    /\ \A j \in Jobs : \A d \in Children(j) : d \in Descendants(j)
    /\ \A j \in Jobs : j \notin Descendants(j)
    /\ \A j \in Jobs : \A d \in Descendants(j) :
          /\ ParentJob[d] \in Jobs
          /\ ParentJob[d] = j \/ ParentJob[d] \in Descendants(j)
  BY TreeAssumption, NullsAssumption DEF Children, Descendants

\* An update that is committed is decided on the status the job still has, which
\* is not terminal; if it does not fail the job, nobody else runs the job.
LEMMA SaveFromOpen ==
    ASSUME IInv, Orderly, NEW c \in Slots, SaveStatus(c)
    PROVE  LET j == call[c].job
               next == NextStatus(call[c].input, call[c].snap)
           IN  /\ status[j] \in Unfinished
               /\ SavedStatus(j, next) = next
               /\ next \in Statuses
               /\ next = "completed" => Settled(j)
               /\ \A w \in Workers \ {c} : Running(w, j) =>
                     next = "failed" /\ \E d \in Descendants(j) : status[d] = "failed"
<1> DEFINE j == call[c].job
           s == call[c].snap
           next == NextStatus(call[c].input, s)
<1>1. /\ j \in Jobs /\ s # NoSnap /\ s.status \in call[c].ifStatus
      /\ next # s.status /\ ~call[c].dirty
      /\ s \in Snaps /\ call[c].input \in Outcomes
  BY DEF SaveStatus, IInv, TypeOK, CallRecords
<1>2. SavedStatus(j, next) = next /\ next \in Statuses
  BY <1>1 DEF SavedStatus, NextStatus, Orderly, Outcomes, Statuses
<1>3. CallInv /\ SnapInv /\ ExecInv /\ CompletedIsSettled
  BY DEF IInv, OrderlyInv
<1>4. s.status = status[j] /\ status[j] \in Statuses
  BY <1>1, <1>3 DEF SnapInv, SnapOk, IInv, TypeOK
<1>5. next = "completed" => ~s.pendingChild /\ ~s.failedChild /\ call[c].input = "completed"
  BY <1>1 DEF NextStatus, Outcomes
<1>6. s.failedChild => next = "failed"
  BY DEF NextStatus
<1>7. CASE c \in Workers
  <2>1. Running(c, j)
    BY DEF Running
  <2>2. status[j] = "inProgress"
    BY <1>1, <1>3, <1>4, <1>6, <1>7, <2>1 DEF ExecInv, SnapInv, SnapOk
  <2>3. \A w \in Workers \ {c} : ~Running(w, j)
    BY <1>1, <1>7, <2>1 DEF IInv, OneRunner, Orderly
  <2>4. next = "completed" => Settled(j)
    BY <1>1, <1>3, <1>5, <1>7 DEF SnapInv, SnapOk
  <2> QED BY <1>2, <2>2, <2>3, <2>4 DEF Unfinished
<1>8. CASE c \in Calls /\ call[c].input = "completed"
  <2>1. s.status = "waitingForChildren"
    BY <1>1, <1>3, <1>8, NullsAssumption DEF CallInv, CallOk
  <2>2. \A w \in Workers : ~Running(w, j)
    BY <1>1, <1>3, <1>4, <2>1 DEF ExecInv
  <2>3. next = "completed" => Settled(j)
    BY <1>1, <1>3, <1>5, <2>1 DEF SnapInv, SnapOk
  <2> QED BY <1>2, <1>4, <2>1, <2>2, <2>3 DEF Unfinished
<1>9. CASE c \in Calls /\ call[c].input = "failed"
  <2>1. s.failedChild /\ \E d \in Children(j) : status[d] = "failed"
    BY <1>1, <1>3, <1>9, NullsAssumption DEF CallInv, CallOk
  <2>2. next = "failed" /\ status[j] # "failed"
    BY <1>1, <1>4, <1>6, <2>1
  <2>3. \E d \in Descendants(j) : status[d] = "failed"
    BY <1>1, <2>1, TreeFacts
  <2>4. status[j] # "completed"
    BY <1>1, <1>3, <2>3 DEF CompletedIsSettled
  <2> QED BY <1>2, <1>4, <2>2, <2>3, <2>4 DEF Unfinished, Statuses
<1> QED BY <1>1, <1>7, <1>8, <1>9 DEF Slots, Outcomes

\* The statuses a step changes.
LEMMA StatusStep ==
    ASSUME IInv, [Next]_vars, Orderly, NEW j \in Jobs, status'[j] # status[j]
    PROVE  \/ status[j] = "absent" /\ status'[j] = "pending" /\ ParentJob[j] = NoJob
           \/ /\ status[j] = "absent" /\ status'[j] = "pending"
              /\ \E w \in Workers : j \in inserting[w]
           \/ status[j] \in {"pending", "inProgress"} /\ status'[j] = "inProgress"
           \/ \E c \in Slots :
                 /\ SaveStatus(c) /\ j = call[c].job
                 /\ status[j] \in Unfinished
                 /\ status'[j] = NextStatus(call[c].input, call[c].snap)
                 /\ status'[j] \in Statuses
<1>0. TypeOK
  BY DEF IInv
<1>1. ASSUME NEW k \in Jobs, QueueRootJob(k)
      PROVE status[j] = "absent" /\ status'[j] = "pending" /\ ParentJob[j] = NoJob
  BY <1>0, <1>1 DEF QueueRootJob, TypeOK, Present
<1>2. ASSUME NEW w \in Workers, GetNextJob(w) \/ GetNextJobLate(w)
      PROVE status[j] \in {"pending", "inProgress"} /\ status'[j] = "inProgress"
  <2>1. PICK k \in Jobs \cup {NoJob}, seen \in SUBSET Jobs : Fetched(w, k, seen)
    BY <1>0, <1>2, FetchedFacts
  <2> QED BY <1>0, <2>1 DEF Fetched, TypeOK
<1>3. ASSUME NEW w \in Workers, NEW page \in SUBSET Jobs, InsertJobs(w, page)
      PROVE status[j] = "absent" /\ status'[j] = "pending" /\ j \in inserting[w]
  BY <1>0, <1>3 DEF InsertJobs, TypeOK, Present
<1>4. ASSUME NEW c \in Slots, SaveStatus(c)
      PROVE /\ j = call[c].job
            /\ status[j] \in Unfinished
            /\ status'[j] = NextStatus(call[c].input, call[c].snap)
            /\ status'[j] \in Statuses
  <2> DEFINE next == NextStatus(call[c].input, call[c].snap)
  <2>1. SavedStatus(call[c].job, next) = next /\ next \in Statuses /\ status[call[c].job] \in Unfinished
    BY <1>4, SaveFromOpen
  <2>2. status' = [status EXCEPT ![call[c].job] = next]
    BY <1>4, <2>1 DEF SaveStatus
  <2> HIDE DEF next
  <2>3. j = call[c].job /\ status'[j] = next
    BY <1>0, <2>2 DEF TypeOK
  <2> QED BY <2>1, <2>3 DEF next
<1>5. ASSUME NEW w \in Workers, NEW page \in SUBSET Jobs, QueueJobs(w, page) PROVE FALSE
  BY <1>5 DEF QueueJobs
<1>6. ASSUME NEW k \in Jobs, CooldownEnds(k) PROVE FALSE
  BY <1>6 DEF CooldownEnds
<1>7. ASSUME NEW w \in Workers, NEW outcome \in Outcomes, ReturnFromHandler(w, outcome) PROVE FALSE
  BY <1>7 DEF ReturnFromHandler
<1>8. ASSUME NEW w \in Workers, Crash(w) PROVE FALSE
  BY <1>8 DEF Crash
<1>9. ASSUME NEW c \in Slots, ReadJob(c) \/ SkipUpdate(c) \/ RetryTxn(c) PROVE FALSE
  BY <1>9 DEF ReadJob, SkipUpdate, RetryTxn
<1>10. CASE UNCHANGED vars
  BY <1>10 DEF vars
<1> QED BY <1>1, <1>2, <1>3, <1>4, <1>5, <1>6, <1>7, <1>8, <1>9, <1>10 DEF Next

\* A terminal status is not left; a document is not removed.
LEMMA FinalStep ==
    ASSUME IInv, [Next]_vars, Orderly, NEW j \in Jobs
    PROVE  /\ status[j] \in Terminal => status'[j] = status[j]
           /\ Present(j) => Present(j)'
<1>1. CASE status'[j] = status[j]
  BY <1>1 DEF Present
<1>2. CASE status'[j] # status[j]
  BY <1>2, StatusStep DEF Terminal, Unfinished, Present, Statuses
<1> QED BY <1>1, <1>2

\* Once everything below a job that nobody runs has completed, it stays so.
LEMMA SettledStays ==
    ASSUME IInv, [Next]_vars, Orderly, NEW j \in Jobs, Settled(j), \A w \in Workers : exec[w] # j
    PROVE  Settled(j)'
<1> SUFFICES ASSUME NEW d \in Descendants(j), status'[d] \notin {"absent", "completed"}
             PROVE FALSE
  BY DEF Settled, Descendants
<1>1. d \in Jobs /\ status[d] \in {"absent", "completed"} /\ status'[d] # status[d]
  BY DEF Settled, Descendants
<1>2. ParentJob[d] # NoJob
  BY TreeFacts, NullsAssumption
<1>3. PICK w \in Workers : d \in inserting[w]
  BY <1>1, <1>2, StatusStep DEF Unfinished
<1>4. exec[w] = ParentJob[d]
  BY <1>3 DEF IInv, OrderlyInv, ExecInv
<1>5. ParentJob[d] \in Descendants(j) /\ ParentJob[d] \in Jobs
  BY <1>4, TreeFacts
<1>6. status[ParentJob[d]] \in {"inProgress", "failed"}
  BY <1>4, <1>5 DEF IInv, OrderlyInv, ExecInv, Running
<1> QED BY <1>5, <1>6 DEF Settled

\* What a step does to the call in slot c: it stays (perhaps to be retried), it
\* ends, it reads, or it is new, from a worker's handler or for a parent.
Stays(c) ==
    /\ call'[c].job = call[c].job
    /\ call'[c].input = call[c].input
    /\ call'[c].ifStatus = call[c].ifStatus
    /\ \/ call'[c].snap = NoSnap
       \/ /\ call'[c].snap = call[c].snap
          /\ ~call'[c].dirty => ~call[c].dirty /\ (call[c].snap = NoSnap \/ status'[call[c].job] = status[call[c].job])
Ends(c) == call'[c] = NoCall
Reads(c) ==
    /\ call[c].job # NoJob
    /\ call'[c].job = call[c].job
    /\ call'[c].input = call[c].input
    /\ call'[c].ifStatus = call[c].ifStatus
    /\ call'[c].snap = Snapshot(call[c].job)
    /\ status' = status
Starts(c) ==
    /\ c \in Workers
    /\ exec[c] # NoJob
    /\ call'[c].job = exec[c]
    /\ call'[c].ifStatus = Statuses
    /\ call'[c].snap = NoSnap
    /\ status' = status
UpdatesParent(c) ==
    /\ c \in Calls
    /\ \E j \in Jobs, saved \in Terminal, w \in Workers \cup {NoWorker} :
          /\ ParentJob[j] # NoJob
          /\ status'[j] = saved
          /\ Present(j)
          /\ call'[c] = ParentCall(j, saved, w)

LEMMA CallShape ==
    ASSUME IInv, [Next]_vars, Orderly, NEW c \in Slots
    PROVE  Stays(c) \/ Ends(c) \/ Reads(c) \/ Starts(c) \/ UpdatesParent(c)
<1>0. TypeOK /\ call[c] \in CallRecords
  BY DEF IInv, TypeOK
<1>1. ASSUME call' = call, status' = status PROVE Stays(c)
  BY <1>1 DEF Stays
<1>2. ASSUME NEW k \in Jobs, QueueRootJob(k) PROVE Stays(c)
  <2>1. call[c].snap # NoSnap => Present(call[c].job) /\ call[c].job \in Jobs
    BY <1>0 DEF IInv, OrderlyInv, CallInv, CallOk, CallRecords, Present
  <2>2. call' = call /\ ~Present(k) /\ \A j \in Jobs \ {k} : status'[j] = status[j]
    BY <1>0, <1>2 DEF QueueRootJob, TypeOK
  <2> QED BY <2>1, <2>2 DEF Stays
<1>3. ASSUME NEW w \in Workers, GetNextJob(w) \/ GetNextJobLate(w) PROVE Stays(c)
  <2>1. PICK j \in Jobs \cup {NoJob}, seen \in SUBSET Jobs : Fetched(w, j, seen)
    BY <1>0, <1>3, FetchedFacts
  <2>2. call' = Touch(call, seen) /\ call \in [Slots -> CallRecords]
    BY <1>0, <2>1 DEF Fetched, TypeOK
  <2>3. /\ call'[c].job = call[c].job
        /\ call'[c].input = call[c].input
        /\ call'[c].ifStatus = call[c].ifStatus
        /\ call'[c].snap = call[c].snap
        /\ ~call'[c].dirty => ~call[c].dirty /\ (call[c].job \notin seen \/ call[c].snap = NoSnap)
    BY <2>2, TouchFacts
  <2>4. call[c].job \notin seen => status'[call[c].job] = status[call[c].job]
    BY <1>0, <2>1 DEF Fetched, TypeOK
  <2> QED BY <2>3, <2>4 DEF Stays
<1>4. ASSUME NEW w \in Workers, NEW page \in SUBSET Jobs, InsertJobs(w, page) PROVE Stays(c)
  <2>1. call[c].snap # NoSnap => Present(call[c].job) /\ call[c].job \in Jobs
    BY <1>0 DEF IInv, OrderlyInv, CallInv, CallOk, CallRecords, Present
  <2>2. call' = call /\ \A j \in Jobs : Present(j) => status'[j] = status[j]
    BY <1>4 DEF InsertJobs
  <2> QED BY <2>1, <2>2 DEF Stays
<1>5. ASSUME NEW w \in Workers, NEW outcome \in Outcomes, ReturnFromHandler(w, outcome)
      PROVE Stays(c) \/ Starts(c)
  <2>1. CASE c = w
    BY <1>0, <1>5, <2>1 DEF ReturnFromHandler, Starts, TypeOK
  <2>2. CASE c # w
    BY <1>0, <1>5, <2>2 DEF ReturnFromHandler, Stays, TypeOK
  <2> QED BY <2>1, <2>2
<1>6. ASSUME NEW w \in Workers, Crash(w) PROVE Stays(c) \/ Ends(c)
  BY <1>6 DEF Crash, Stays, Ends
<1>7. ASSUME NEW k \in Slots, ReadJob(k) PROVE Stays(c) \/ Reads(c)
  <2>1. CASE c = k
    BY <1>0, <1>7, <2>1 DEF ReadJob, Reads, TypeOK, CallRecords
  <2>2. CASE c # k
    BY <1>0, <1>7, <2>2 DEF ReadJob, Stays, TypeOK
  <2> QED BY <2>1, <2>2
<1>8. ASSUME NEW k \in Slots, SkipUpdate(k) PROVE Stays(c) \/ Ends(c)
  BY <1>0, <1>8 DEF SkipUpdate, Stays, Ends, TypeOK
<1>9. ASSUME NEW k \in Slots, RetryTxn(k) PROVE Stays(c)
  <2>1. CASE c = k
    BY <1>0, <1>9, <2>1 DEF RetryTxn, Stays, TypeOK, CallRecords
  <2>2. CASE c # k
    BY <1>0, <1>9, <2>2 DEF RetryTxn, Stays, TypeOK
  <2> QED BY <2>1, <2>2
<1>10. ASSUME NEW k \in Slots, SaveStatus(k) PROVE Stays(c) \/ Ends(c) \/ UpdatesParent(c)
  <2> DEFINE j == call[k].job
             next == NextStatus(call[k].input, call[k].snap)
  <2>1. SaveFacts(k, next) /\ Present(j)
    BY <1>0, <1>10, SaveStatusFacts, SaveFromOpen DEF Present, Unfinished
  <2>2. call[k].by \in Workers \cup {NoWorker}
    BY <1>0 DEF TypeOK, CallRecords
  <2> HIDE DEF next
  <2>3. NeedsParentUpdate(j, next) => next \in Terminal /\ ParentJob[j] # NoJob
    BY DEF NeedsParentUpdate
  <2>4. status'[j] = next /\ \A i \in Jobs \ {j} : status'[i] = status[i]
    BY <1>0, <2>1 DEF SaveFacts, TypeOK
  <2>5. CASE c = k
    BY <2>1, <2>2, <2>3, <2>4, <2>5 DEF SaveFacts, Ends, UpdatesParent
  <2>6. CASE c # k
    BY <1>0, <2>1, <2>2, <2>3, <2>4, <2>6 DEF SaveFacts, Stays, UpdatesParent, CallRecords, IInv, OrderlyInv, CallInv, CallOk
  <2> QED BY <2>5, <2>6
<1>11. ASSUME NEW w \in Workers, NEW page \in SUBSET Jobs, QueueJobs(w, page) PROVE Stays(c)
  BY <1>1, <1>11 DEF QueueJobs
<1>12. ASSUME NEW k \in Jobs, CooldownEnds(k) PROVE Stays(c)
  BY <1>1, <1>12 DEF CooldownEnds
<1>13. CASE UNCHANGED vars
  BY <1>1, <1>13 DEF vars
<1> QED BY <1>2, <1>3, <1>4, <1>5, <1>6, <1>7, <1>8, <1>9, <1>10, <1>11, <1>12, <1>13 DEF Next

LEMMA StepCall == IInv /\ [Next]_vars /\ Orderly => CallInv'
<1> SUFFICES ASSUME IInv, [Next]_vars, Orderly, NEW c \in Slots PROVE CallOk(c)'
  BY DEF CallInv
<1>1. TypeOK /\ CallOk(c) /\ ExecInv
  BY DEF IInv, OrderlyInv, CallInv
<1>2. call[c].job \in Jobs \cup {NoJob}
  BY <1>1 DEF TypeOK, CallRecords
<1>3. \A j \in Jobs : (\E d \in Children(j) : status[d] = "failed") => \E d \in Children(j) : status'[d] = "failed"
  BY FinalStep DEF Children, Terminal
<1>4. \A j \in Jobs : status[j] # "absent" => status'[j] # "absent"
  BY FinalStep DEF Present
<1>5. CASE Stays(c)
  <2>1. call'[c].job = call[c].job /\ call'[c].input = call[c].input /\ call'[c].ifStatus = call[c].ifStatus
    BY <1>5 DEF Stays
  <2>2. call'[c].snap = NoSnap \/ call'[c].snap = call[c].snap
    BY <1>5 DEF Stays
  <2> QED BY <1>1, <1>2, <1>3, <1>4, <2>1, <2>2 DEF CallOk
<1>6. CASE Ends(c)
  BY <1>6, NullFacts DEF Ends, CallOk
<1>7. CASE Reads(c)
  <2> DEFINE j == call[c].job
  <2>1. /\ j \in Jobs /\ call'[c].job = j /\ call'[c].input = call[c].input
        /\ call'[c].ifStatus = call[c].ifStatus /\ call'[c].snap = Snapshot(j)
        /\ status' = status
    BY <1>2, <1>7 DEF Reads
  <2>2. call[c].input = "failed" /\ c \in Calls => \E d \in Children(j) : status[d] = "failed"
    BY <1>1, <1>7 DEF Reads, CallOk
  <2>3. (\E d \in Children(j) : status[d] = "failed") => Snapshot(j).failedChild
    BY <1>1, <2>1, SnapshotFacts, TreeFacts
  <2> HIDE DEF j
  <2>4. j # NoJob
    BY <2>1, NullsAssumption
  <2>5. j = call[c].job
    BY DEF j
  <2> QED BY <1>1, <2>1, <2>2, <2>3, <2>4, <2>5 DEF CallOk
<1>8. CASE Starts(c)
  <2>1. exec[c] \in Jobs /\ Running(c, exec[c])
    BY <1>1, <1>8 DEF Starts, TypeOK, Running
  <2>2. status[exec[c]] # "absent"
    BY <1>1, <1>8, <2>1 DEF ExecInv, Starts
  <2>3. c \notin Calls
    BY <1>8, InputAssumption DEF Starts
  <2> QED BY <1>8, <2>1, <2>2, <2>3 DEF Starts, CallOk
<1>9. CASE UpdatesParent(c)
  <2>1. PICK j \in Jobs, saved \in Terminal, w \in Workers \cup {NoWorker} :
          /\ ParentJob[j] # NoJob
          /\ status'[j] = saved
          /\ Present(j)
          /\ call'[c] = ParentCall(j, saved, w)
    BY <1>9 DEF UpdatesParent
  <2>2. ParentJob[j] \in Jobs /\ j \in Children(ParentJob[j])
    BY <2>1, TreeAssumption DEF Children
  <2>3. status[ParentJob[j]] # "absent"
    BY <2>1, <2>2 DEF IInv, OrderlyInv, TreeInv, Present
  <2>4. c \notin Workers
    BY <1>9, InputAssumption DEF UpdatesParent
  <2>5. /\ call'[c].job = ParentJob[j] /\ call'[c].input = saved /\ call'[c].snap = NoSnap
        /\ call'[c].ifStatus = IF saved = "completed" THEN {"waitingForChildren"} ELSE Statuses
    BY <2>1 DEF ParentCall
  <2>6. status'[ParentJob[j]] # "absent"
    BY <1>4, <2>2, <2>3
  <2> QED BY <2>1, <2>2, <2>4, <2>5, <2>6 DEF CallOk, Terminal
<1> QED BY <1>5, <1>6, <1>7, <1>8, <1>9, CallShape

LEMMA StepSnap == IInv /\ [Next]_vars /\ Orderly => SnapInv'
<1> SUFFICES ASSUME IInv, [Next]_vars, Orderly, NEW c \in Slots PROVE SnapOk(c)'
  BY DEF SnapInv
<1>1. TypeOK /\ CallOk(c) /\ SnapOk(c) /\ ExecInv
  BY DEF IInv, OrderlyInv, CallInv, SnapInv
<1>2. call[c].job \in Jobs \cup {NoJob}
  BY <1>1 DEF TypeOK, CallRecords
<1>3. CASE Stays(c) /\ call'[c].snap # NoSnap
  <2> DEFINE s == call[c].snap
             j == call[c].job
  <2>1. /\ call'[c].snap = s /\ call'[c].job = j /\ s # NoSnap
        /\ ~call'[c].dirty => ~call[c].dirty /\ status'[j] = status[j]
    BY <1>3 DEF Stays
  <2>2. j \in Jobs
    BY <1>1, <1>2, <2>1 DEF CallOk
  <2>3. s.status \in Terminal => status'[j] = s.status
    BY <1>1, <2>1, <2>2, FinalStep DEF SnapOk
  <2>4. ASSUME ~s.pendingChild, ~s.failedChild,
               c \in Workers \/ (s.status = "waitingForChildren" /\ ~call'[c].dirty)
        PROVE  \A d \in Descendants(j) : status'[d] \in {"absent", "completed"}
    <3>1. Settled(j)
      BY <1>1, <2>1, <2>4 DEF SnapOk
    <3>2. \A w \in Workers : exec[w] # j
      <4>1. CASE c \in Workers
        BY <1>1, <2>2, <4>1, NullsAssumption DEF IInv, RunInv, OneRunner, Running, Orderly
      <4>2. CASE s.status = "waitingForChildren" /\ ~call'[c].dirty
        BY <1>1, <2>1, <2>2, <4>2 DEF SnapOk, ExecInv, Running
      <4> QED BY <2>4, <4>1, <4>2
    <3>3. PICK i \in Jobs : i = j
      BY <2>2
    <3>4. Settled(i)'
      BY <3>1, <3>2, <3>3, SettledStays
    <3>5. \A d \in Descendants(i) : status'[d] \in {"absent", "completed"}
      BY <3>4 DEF Settled, Descendants
    <3> QED BY <3>3, <3>5
  <2> QED BY <1>1, <2>1, <2>2, <2>3, <2>4 DEF SnapOk, Settled, Descendants
<1>4. CASE Reads(c)
  <2> DEFINE j == call[c].job
  <2>1. /\ j \in Jobs /\ call'[c].job = j /\ call'[c].snap = Snapshot(j)
        /\ status' = status /\ status[j] # "absent"
    BY <1>1, <1>2, <1>4 DEF Reads, CallOk
  <2>2. /\ Snapshot(j).status = status[j]
        /\ Snapshot(j).pendingChild <=> \E k \in Descendants(j) : status[k] \in Unfinished
        /\ Snapshot(j).failedChild <=> \E k \in Descendants(j) : status[k] = "failed"
    BY <1>1, <2>1, SnapshotFacts
  <2>3. c \in Workers /\ status[j] = "failed" => \E k \in Descendants(j) : status[k] = "failed"
    BY <1>1, <2>1 DEF ExecInv, Running
  <2>4. ~Snapshot(j).pendingChild /\ ~Snapshot(j).failedChild =>
           \A d \in Descendants(j) : status[d] \in {"absent", "completed"}
    BY <1>1, <2>1, <2>2 DEF Descendants, TypeOK, Unfinished, Statuses
  <2> HIDE DEF j
  <2> QED BY <2>1, <2>2, <2>3, <2>4 DEF SnapOk, Settled
<1>5. CASE call'[c].snap = NoSnap
  BY <1>5 DEF SnapOk
<1>6. CASE Ends(c) \/ Starts(c) \/ UpdatesParent(c)
  <2>1. Ends(c) => call'[c].snap = NoSnap
    BY NullFacts DEF Ends
  <2>2. Starts(c) => call'[c].snap = NoSnap
    BY DEF Starts
  <2>3. UpdatesParent(c) => call'[c].snap = NoSnap
    BY DEF UpdatesParent, ParentCall
  <2> QED BY <1>5, <1>6, <2>1, <2>2, <2>3
<1> QED BY <1>3, <1>4, <1>5, <1>6, CallShape

LEMMA StepTree == IInv /\ [Next]_vars /\ Orderly => TreeInv'
<1> SUFFICES ASSUME IInv, [Next]_vars, Orderly, NEW j \in Jobs, Present(j)', ParentJob[j] # NoJob
             PROVE  Present(ParentJob[j])'
  BY DEF TreeInv
<1>1. ParentJob[j] \in Jobs
  BY TreeAssumption
<1>2. CASE Present(j)
  BY <1>1, <1>2, FinalStep DEF IInv, OrderlyInv, TreeInv
<1>3. CASE ~Present(j)
  <2>1. status'[j] # status[j] /\ status[j] = "absent"
    BY <1>3 DEF Present
  <2>2. PICK w \in Workers : j \in inserting[w]
    BY <2>1, StatusStep DEF Unfinished
  <2>3. Running(w, ParentJob[j])
    BY <2>2 DEF IInv, OrderlyInv, ExecInv, Running
  <2>4. Present(ParentJob[j])
    BY <1>1, <2>3 DEF IInv, OrderlyInv, ExecInv, Present
  <2> QED BY <1>1, <2>4, FinalStep
<1> QED BY <1>2, <1>3

\* The runs of the new state: a job is run that was run before, or that was fetched.
LEMMA RunStep ==
    ASSUME IInv, [Next]_vars, NEW w \in Workers, NEW j \in Jobs, Running(w, j)', ~Running(w, j)
    PROVE  /\ status'[j] = "inProgress" /\ status[j] \in {"pending", "inProgress"} /\ Ready(j)
           /\ \A k \in Jobs : k # j => status'[k] = status[k]
<1> DEFINE Got == /\ status'[j] = "inProgress" /\ status[j] \in {"pending", "inProgress"} /\ Ready(j)
                  /\ \A k \in Jobs : k # j => status'[k] = status[k]
<1>0. TypeOK
  BY DEF IInv
<1>1. ASSUME NEW v \in Workers, GetNextJob(v) \/ GetNextJobLate(v) PROVE Got
  <2>1. PICK k \in Jobs \cup {NoJob}, seen \in SUBSET Jobs : Fetched(v, k, seen)
    BY <1>0, <1>1, FetchedFacts
  <2>2. call'[w].job = call[w].job
    <3>1. call' = Touch(call, seen) /\ call \in [Slots -> CallRecords]
      BY <1>0, <2>1 DEF Fetched, TypeOK
    <3> QED BY <3>1, TouchFacts DEF Slots
  <2>3. k = j
    BY <1>0, <2>1, <2>2 DEF Fetched, TypeOK, Running
  <2> QED BY <1>0, <2>1, <2>3, NullsAssumption DEF Fetched, TypeOK
<1>2. ASSUME NEW k \in Jobs, QueueRootJob(k) \/ CooldownEnds(k) PROVE FALSE
  BY <1>2 DEF QueueRootJob, CooldownEnds, Running
<1>3. ASSUME NEW v \in Workers, NEW page \in SUBSET Jobs, QueueJobs(v, page) \/ InsertJobs(v, page)
      PROVE FALSE
  BY <1>3 DEF QueueJobs, InsertJobs, Running
<1>4. ASSUME NEW v \in Workers, NEW outcome \in Outcomes, ReturnFromHandler(v, outcome) PROVE FALSE
  BY <1>0, <1>4, NullsAssumption DEF ReturnFromHandler, Running, TypeOK, Slots
<1>5. ASSUME NEW v \in Workers, Crash(v) PROVE FALSE
  BY <1>0, <1>5, NullFacts, NullsAssumption DEF Crash, Running, TypeOK, Slots
<1>6. ASSUME NEW c \in Slots, ReadJob(c) \/ RetryTxn(c) \/ SkipUpdate(c) PROVE FALSE
  BY <1>0, <1>6, NullFacts, NullsAssumption DEF ReadJob, RetryTxn, SkipUpdate, Running, TypeOK, CallRecords, Slots
<1>7. ASSUME NEW c \in Slots, SaveStatus(c) PROVE FALSE
  <2>1. call'[w].job \in {NoJob, call[w].job}
    BY <1>0, <1>7, SaveStatusFacts, NullFacts, InputAssumption DEF SaveFacts, Slots
  <2> QED BY <1>7, <2>1, NullsAssumption DEF SaveStatus, Running
<1>8. CASE UNCHANGED vars
  BY <1>8 DEF vars, Running
<1> QED BY <1>1, <1>2, <1>3, <1>4, <1>5, <1>6, <1>7, <1>8 DEF Next

LEMMA StepExec == IInv /\ [Next]_vars /\ Orderly => ExecInv'
<1> SUFFICES ASSUME IInv, [Next]_vars, Orderly PROVE ExecInv'
  OBVIOUS
<1>0. TypeOK /\ ExecInv
  BY DEF IInv, OrderlyInv
<1>1. ASSUME NEW w \in Workers, NEW j \in Jobs, Running(w, j)'
      PROVE  /\ status'[j] \in {"inProgress", "failed"}
             /\ status'[j] = "failed" => \E d \in Descendants(j) : status'[d] = "failed"
  <2>1. CASE ~Running(w, j)
    BY <1>1, <2>1, RunStep
  <2>2. CASE Running(w, j) /\ status'[j] = status[j]
    BY <1>0, <2>2, FinalStep DEF ExecInv, Descendants, Terminal
  <2>3. CASE Running(w, j) /\ status'[j] # status[j]
    <3>1. status[j] = "inProgress"
      BY <1>0, <2>3, FinalStep DEF ExecInv, Terminal
    <3>2. PICK c \in Slots : SaveStatus(c) /\ j = call[c].job
                             /\ status'[j] = NextStatus(call[c].input, call[c].snap)
      BY <2>3, <3>1, StatusStep
    <3>3. c # w
      <4>1. ASSUME c = w PROVE FALSE
        <5>1. call'[w].job = NoJob
          BY <1>0, <3>2, <4>1, SaveStatusFacts, NullFacts, InputAssumption DEF SaveFacts
        <5>2. exec'[w] = j
          BY <1>1, <5>1, NullsAssumption DEF Running
        <5>3. exec[w] = j /\ call[w].job = j
          BY <3>2, <4>1, <5>2 DEF SaveStatus
        <5> QED BY <5>3, NullsAssumption DEF IInv, RunInv
      <4> QED BY <4>1
    <3>4. status'[j] = "failed" /\ \E d \in Descendants(j) : status[d] = "failed"
      BY <2>3, <3>2, <3>3, SaveFromOpen
    <3> QED BY <3>4, FinalStep DEF Descendants, Terminal
  <2> QED BY <2>1, <2>2, <2>3
<1>2. ASSUME NEW w \in Workers, NEW k \in inserting'[w]
      PROVE  ParentJob[k] # NoJob /\ exec'[w] = ParentJob[k]
  <2>1. ASSUME NEW v \in Workers, NEW page \in SUBSET Jobs, QueueJobs(v, page) \/ InsertJobs(v, page)
        PROVE ParentJob[k] # NoJob /\ exec'[w] = ParentJob[k]
    BY <1>0, <1>2, <2>1, NullsAssumption DEF QueueJobs, InsertJobs, ExecInv, TypeOK, Children
  <2>2. ASSUME NEW v \in Workers, NEW outcome \in Outcomes, ReturnFromHandler(v, outcome)
        PROVE ParentJob[k] # NoJob /\ exec'[w] = ParentJob[k]
    BY <1>0, <1>2, <2>2 DEF ReturnFromHandler, ExecInv, TypeOK, Children, Orderly
  <2>3. ASSUME NEW v \in Workers, Crash(v)
        PROVE ParentJob[k] # NoJob /\ exec'[w] = ParentJob[k]
    BY <1>0, <1>2, <2>3 DEF Crash, ExecInv, TypeOK
  <2>4. ASSUME NEW v \in Workers, GetNextJob(v) \/ GetNextJobLate(v)
        PROVE ParentJob[k] # NoJob /\ exec'[w] = ParentJob[k]
    <3>1. PICK j \in Jobs \cup {NoJob}, seen \in SUBSET Jobs : Fetched(v, j, seen)
      BY <1>0, <2>4, FetchedFacts
    <3> QED BY <1>0, <1>2, <3>1 DEF Fetched, ExecInv, TypeOK, Idle
  <2>5. CASE UNCHANGED <<exec, inserting>>
    BY <1>0, <1>2, <2>5 DEF ExecInv
  <2> QED
    BY <2>1, <2>2, <2>3, <2>4, <2>5
       DEF Next, vars, QueueRootJob, CooldownEnds, ReadJob, SkipUpdate, SaveStatus, RetryTxn
<1> QED BY <1>1, <1>2 DEF ExecInv, Descendants

LEMMA StepCompleted == IInv /\ [Next]_vars /\ Orderly => CompletedIsSettled'
<1> SUFFICES ASSUME IInv, [Next]_vars, Orderly, NEW j \in Jobs, status'[j] = "completed"
             PROVE  Settled(j)'
  BY DEF CompletedIsSettled, Settled, Descendants
<1>0. TypeOK /\ ExecInv /\ CompletedIsSettled
  BY DEF IInv, OrderlyInv
<1>1. CASE status[j] = "completed"
  <2>1. Settled(j)
    BY <1>0, <1>1 DEF CompletedIsSettled, Settled
  <2>2. \A w \in Workers : exec[w] # j
    BY <1>0, <1>1 DEF ExecInv, Running
  <2> QED BY <2>1, <2>2, SettledStays
<1>2. CASE status[j] # "completed"
  <2>1. PICK c \in Slots : /\ SaveStatus(c) /\ j = call[c].job
                           /\ status'[j] = NextStatus(call[c].input, call[c].snap)
    BY <1>2, StatusStep
  <2>2. Settled(j)
    BY <2>1, SaveFromOpen
  <2>3. \A d \in Jobs \ {j} : status'[d] = status[d]
    BY <1>0, <2>1, SaveStatusFacts DEF SaveFacts, TypeOK
  <2>4. \A d \in Descendants(j) : d \in Jobs \ {j}
    BY TreeFacts DEF Descendants
  <2> QED BY <2>2, <2>3, <2>4 DEF Settled, Descendants
<1> QED BY <1>1, <1>2

\* The call that carries a child's failure is kept, ends with the job failed, or
\* dies with its worker.
LEMMA FailedCallStep ==
    ASSUME IInv, [Next]_vars, Orderly, NEW c \in Calls, NEW j \in Jobs,
           call[c].job = j, call[c].input = "failed"
    PROVE  \/ call'[c].job = j /\ call'[c].input = "failed"
           \/ status'[j] = "failed"
           \/ j \in lost'
<1>0. /\ TypeOK /\ CallOk(c) /\ SnapOk(c)
      /\ c \in Slots /\ c \notin Workers /\ j # NoJob /\ call[c] \in CallRecords
  BY NullsAssumption, InputAssumption DEF IInv, OrderlyInv, CallInv, SnapInv, Slots, TypeOK
<1>1. call[c].ifStatus = Statuses /\ (call[c].snap # NoSnap => call[c].snap.failedChild)
  BY <1>0 DEF CallOk
<1>2. call[c].snap # NoSnap => NextStatus(call[c].input, call[c].snap) = "failed"
  BY <1>1 DEF NextStatus
<1>3. ASSUME call' = call PROVE call'[c].job = j /\ call'[c].input = "failed"
  BY <1>3
<1>4. ASSUME NEW k \in Jobs, QueueRootJob(k) \/ CooldownEnds(k) PROVE call' = call
  BY <1>4 DEF QueueRootJob, CooldownEnds
<1>5. ASSUME NEW v \in Workers, NEW page \in SUBSET Jobs, QueueJobs(v, page) \/ InsertJobs(v, page)
      PROVE call' = call
  BY <1>5 DEF QueueJobs, InsertJobs
<1>6. ASSUME NEW w \in Workers, GetNextJob(w) \/ GetNextJobLate(w)
      PROVE call'[c].job = j /\ call'[c].input = "failed"
  <2>1. PICK k \in Jobs \cup {NoJob}, seen \in SUBSET Jobs : Fetched(w, k, seen)
    BY <1>0, <1>6, FetchedFacts
  <2>2. call' = Touch(call, seen) /\ call \in [Slots -> CallRecords]
    BY <1>0, <2>1 DEF Fetched, TypeOK
  <2> QED BY <1>0, <2>2, TouchFacts
<1>7. ASSUME NEW w \in Workers, NEW outcome \in Outcomes, ReturnFromHandler(w, outcome)
      PROVE call'[c].job = j /\ call'[c].input = "failed"
  BY <1>0, <1>7 DEF ReturnFromHandler, TypeOK
<1>8. ASSUME NEW w \in Workers, Crash(w)
      PROVE \/ call'[c].job = j /\ call'[c].input = "failed"
            \/ j \in lost'
  <2>1. CASE call[c].by = w
    BY <1>8, <2>1 DEF Crash
  <2>2. CASE call[c].by # w
    BY <1>0, <1>8, <2>2 DEF Crash
  <2> QED BY <2>1, <2>2
<1>9. ASSUME NEW k \in Slots, ReadJob(k) \/ RetryTxn(k)
      PROVE call'[c].job = j /\ call'[c].input = "failed"
  BY <1>0, <1>9 DEF ReadJob, RetryTxn, TypeOK, CallRecords
<1>10. ASSUME NEW k \in Slots, SkipUpdate(k)
       PROVE \/ call'[c].job = j /\ call'[c].input = "failed"
             \/ status'[j] = "failed"
  <2>1. CASE k # c
    BY <1>0, <1>10, <2>1 DEF SkipUpdate, TypeOK
  <2>2. CASE k = c
    <3>1. call[c].snap # NoSnap /\ call[c].snap.status \in Statuses \cup {"absent"}
      BY <1>0, <1>10, <2>2 DEF SkipUpdate, CallRecords, Snaps
    <3>2. call[c].snap.status = "failed"
      BY <1>0, <1>1, <1>2, <1>10, <2>2, <3>1 DEF SkipUpdate, SnapOk
    <3>3. status[j] = "failed"
      BY <1>0, <3>1, <3>2 DEF SnapOk, Terminal
    <3> QED BY <3>3, FinalStep DEF Terminal
  <2> QED BY <2>1, <2>2
<1>11. ASSUME NEW k \in Slots, SaveStatus(k)
       PROVE \/ call'[c].job = j /\ call'[c].input = "failed"
             \/ status'[j] = "failed"
  <2>1. CASE k # c
    BY <1>0, <1>11, <2>1, SaveStatusFacts DEF SaveFacts
  <2>2. CASE k = c
    <3>1. SavedStatus(j, NextStatus(call[c].input, call[c].snap)) = "failed"
      BY <1>2, <1>11, <2>2, SaveFromOpen DEF SaveStatus
    <3>2. status' = [status EXCEPT ![j] = "failed"]
      BY <1>0, <1>11, <2>2, <3>1, SaveStatusFacts DEF SaveFacts
    <3> QED BY <1>0, <3>2 DEF TypeOK
  <2> QED BY <2>1, <2>2
<1>12. CASE UNCHANGED vars
  BY <1>3, <1>12 DEF vars
<1> QED BY <1>3, <1>4, <1>5, <1>6, <1>7, <1>8, <1>9, <1>10, <1>11, <1>12 DEF Next

LEMMA StepFailure == IInv /\ [Next]_vars /\ Orderly => FailureReachesParent'
<1> SUFFICES ASSUME IInv, [Next]_vars, Orderly, NEW j \in Jobs,
                    status'[j] = "failed", ParentJob[j] # NoJob
             PROVE  \/ status'[ParentJob[j]] = "failed"
                    \/ ParentJob[j] \in lost'
                    \/ \E c \in Calls : call'[c].job = ParentJob[j] /\ call'[c].input = "failed"
  BY DEF FailureReachesParent
<1>0. TypeOK /\ FailureReachesParent /\ ParentJob[j] \in Jobs
  BY TreeAssumption DEF IInv, OrderlyInv
<1>1. CASE status[j] # "failed"
  <2>1. PICK c \in Slots : /\ SaveStatus(c) /\ j = call[c].job
                           /\ status'[j] = NextStatus(call[c].input, call[c].snap)
    BY <1>1, StatusStep
  <2>2. SavedStatus(j, NextStatus(call[c].input, call[c].snap)) = "failed"
    BY <2>1, SaveFromOpen
  <2>3. SaveFacts(c, "failed")
    BY <1>0, <2>1, <2>2, SaveStatusFacts
  <2>4. NeedsParentUpdate(j, "failed")
    BY DEF NeedsParentUpdate, Terminal
  <2>5. PICK k \in Calls : call'[k] = ParentCall(j, "failed", call[c].by)
    BY <2>1, <2>3, <2>4 DEF SaveFacts
  <2> QED BY <2>5 DEF ParentCall
<1>2. CASE status[j] = "failed"
  <2>1. CASE status[ParentJob[j]] = "failed"
    BY <1>0, <2>1, FinalStep DEF Terminal
  <2>2. CASE ParentJob[j] \in lost
    <3>1. ASSUME NEW w \in Workers, GetNextJob(w) \/ GetNextJobLate(w) PROVE lost \subseteq lost'
      BY <3>1 DEF GetNextJob, GetNextJobLate
    <3>2. lost \subseteq lost'
      BY <3>1 DEF Next, vars, QueueRootJob, CooldownEnds, QueueJobs, InsertJobs, ReturnFromHandler,
                  Crash, ReadJob, SkipUpdate, SaveStatus, RetryTxn
    <3> QED BY <2>2, <3>2
  <2>3. CASE \E c \in Calls : call[c].job = ParentJob[j] /\ call[c].input = "failed"
    BY <1>0, <2>3, FailedCallStep
  <2> QED BY <1>0, <1>2, <2>1, <2>2, <2>3 DEF FailureReachesParent
<1> QED BY <1>1, <1>2

LEMMA InitOrderly == Init => OrderlyInv
<1> SUFFICES ASSUME Init PROVE TreeInv /\ CallInv /\ SnapInv /\ ExecInv /\ CompletedIsSettled /\ FailureReachesParent
  BY DEF OrderlyInv
<1>1. \A c \in Slots : call[c] = NoCall
  BY DEF Init
<1>2. TreeInv /\ CompletedIsSettled /\ FailureReachesParent
  BY DEF Init, TreeInv, Present, CompletedIsSettled, FailureReachesParent
<1>3. CallInv /\ SnapInv
  BY <1>1, NullFacts DEF CallInv, CallOk, SnapInv, SnapOk
<1>4. ExecInv
  BY <1>1, NullFacts, NullsAssumption DEF Init, ExecInv, Running, Slots
<1> QED BY <1>2, <1>3, <1>4

\* IInv is inductive; what is orderly depends on constants only.
LEMMA Inductive == (Init => IInv) /\ (IInv /\ [Next]_vars => IInv')
<1>1. Init => IInv
  BY InitType, InitRun, InitOrderly DEF IInv
<1>2. ASSUME IInv, [Next]_vars PROVE IInv'
  <2>1. TypeOK' /\ RunInv' /\ OneRunner'
    BY <1>2, StepType, StepRun DEF IInv
  <2>2. ASSUME Orderly PROVE OrderlyInv'
    BY <1>2, <2>2, StepTree, StepCall, StepSnap, StepExec, StepCompleted, StepFailure DEF OrderlyInv
  <2>3. CASE ~Orderly
    BY <2>1, <2>3 DEF IInv, OrderlyInv, Orderly
  <2> QED BY <2>1, <2>2, <2>3 DEF IInv
<1> QED BY <1>1, <1>2

\* completeJob marks a job completed only when everything below it is completed,
\* and nothing is queued, fails or restarts below it afterwards.
THEOREM CompletedIsSettledHolds == Spec => []CompletedIsSettled
<1>1. IInv => CompletedIsSettled
  BY DEF IInv, OrderlyInv, CompletedIsSettled
<1> QED BY Inductive, <1>1, PTL DEF Spec

\* A job that has failed has failed its parent, or a completeJob call that will is
\* in flight, or it died with its worker.
THEOREM FailureReachesParentHolds == Spec => []FailureReachesParent
<1>1. IInv => FailureReachesParent
  BY DEF IInv, OrderlyInv, FailureReachesParent
<1> QED BY Inductive, <1>1, PTL DEF Spec

\* completeJob, whoever calls it and however late, never changes a terminal status.
THEOREM TerminalIsFinalHolds == Spec => TerminalIsFinal
<1>1. IInv /\ [Next]_vars => [Orderly => \A j \in Jobs : status[j] \in Terminal => status'[j] = status[j]]_vars
  BY FinalStep
<1> QED BY Inductive, <1>1, PTL DEF Spec, TerminalIsFinal

-----------------------------------------------------------------------------
(* The conditions of a job that is run.  They held when it was fetched, and *)
(* a terminal status stays; but conditions on a job that was not there were *)
(* not looked at.                                                           *)

\* A job is not run while one that it runs after has yet to be queued, unless that
\* one is below another that has to be completed.
QueuedBefore ==
    \A j \in Jobs : Executing(j) => \A cond \in RunAfter[j] :
       \/ Present(cond.job)
       \/ \E above \in RunAfter[j] : /\ cond.job \in Descendants(above.job)
                                     /\ Present(above.job) /\ above.status = {"completed"}

LEMMA StepDependencies ==
    ASSUME IInv, IInv', QueuedBefore, DependenciesHold, [Next]_vars
    PROVE  DependenciesHold'
<1> SUFFICES ASSUME Orderly, NEW j \in Jobs, Executing(j)', NEW cond \in RunAfter[j],
                    Present(cond.job)', cond.status \subseteq Terminal
             PROVE  status'[cond.job] \in cond.status
  BY DEF DependenciesHold, Orderly
<1>0. RunAfter[j] \subseteq Conditions
  BY InputAssumption
<1>1. cond.job \in Jobs
  BY <1>0 DEF Conditions
<1>2. CASE Executing(j)
  <2>1. CASE Present(cond.job)
    <3>1. status[cond.job] \in cond.status
      BY <1>2, <2>1 DEF DependenciesHold
    <3> QED BY <1>1, <3>1, FinalStep
  <2>2. CASE ~Present(cond.job)
    <3>1. PICK above \in RunAfter[j] : /\ cond.job \in Descendants(above.job)
                                       /\ Present(above.job) /\ above.status = {"completed"}
      BY <1>2, <2>2 DEF QueuedBefore
    <3>2. above.job \in Jobs
      BY <1>0, <3>1 DEF Conditions
    <3>3. status[above.job] = "completed"
      BY <1>2, <3>1 DEF DependenciesHold, Terminal
    <3>4. status'[above.job] = "completed"
      BY <3>2, <3>3, FinalStep DEF Terminal
    <3>5. status'[cond.job] \in {"absent", "completed"}
      <4>1. CompletedIsSettled'
        BY DEF IInv, OrderlyInv, Orderly
      <4> QED BY <3>1, <3>2, <3>4, <4>1 DEF CompletedIsSettled, Orderly, Descendants
    <3>6. status[cond.job] = "absent" /\ status'[cond.job] # status[cond.job]
      BY <2>2 DEF Present
    <3>7. status'[cond.job] = "pending"
      BY <1>1, <3>6, StatusStep DEF Unfinished
    <3> QED BY <3>5, <3>7
  <2> QED BY <2>1, <2>2
<1>3. CASE ~Executing(j)
  <2>1. PICK w \in Workers : Running(w, j)' /\ ~Running(w, j)
    BY <1>3 DEF Executing
  <2>2. /\ status[j] \in {"pending", "inProgress"} /\ Ready(j) /\ status'[j] = "inProgress"
        /\ \A k \in Jobs : k # j => status'[k] = status[k]
    BY <2>1, RunStep
  <2>3. Present(cond.job)
    BY <1>1, <2>2 DEF Present
  <2>4. status[cond.job] \in cond.status
    BY <2>2, <2>3 DEF Ready
  <2>5. cond.job # j
    BY <2>2, <2>4 DEF Terminal
  <2> QED BY <1>1, <2>2, <2>4, <2>5
<1> QED BY <1>2, <1>3

\* The statuses that a job runs after hold as long as it is run, whatever is queued,
\* completes, fails or crashes meanwhile: if the jobs it runs after are queued before.
THEOREM DependenciesAreKept == Spec /\ []QueuedBefore => []DependenciesHold
<1>1. Init => DependenciesHold
  BY NullsAssumption DEF Init, DependenciesHold, Executing, Running, NoCall, Slots
<1>2. IInv /\ IInv' /\ QueuedBefore /\ DependenciesHold /\ [Next]_vars => DependenciesHold'
  BY StepDependencies
<1> QED BY Inductive, <1>1, <1>2, PTL DEF Spec

\* All conditions of a job are about one job that has to be completed and jobs below
\* it, or about one job.
OneTree ==
    \A j \in Jobs : RunAfter[j] # {} => \E top \in RunAfter[j] : \A cond \in RunAfter[j] :
       cond.job = top.job \/ (cond.job \in Descendants(top.job) /\ top.status = {"completed"})

AncestorsThere == \A j \in Jobs : Present(j) => \A p \in Parents[j] : Present(p)

LEMMA StepAncestors ==
    ASSUME IInv, [Next]_vars, Orderly, AncestorsThere
    PROVE  AncestorsThere'
<1> SUFFICES ASSUME NEW j \in Jobs, Present(j)', NEW p \in Parents[j] PROVE Present(p)'
  BY DEF AncestorsThere
<1>1. p \in Jobs
  BY TreeAssumption
<1>2. CASE Present(j)
  BY <1>1, <1>2, FinalStep DEF AncestorsThere
<1>3. CASE ~Present(j)
  <2>1. status'[j] # status[j] /\ status[j] = "absent"
    BY <1>3 DEF Present
  <2>2. ParentJob[j] # NoJob
    BY TreeAssumption
  <2>3. PICK w \in Workers : j \in inserting[w]
    BY <2>1, <2>2, StatusStep DEF Unfinished
  <2>4. ParentJob[j] \in Jobs /\ Running(w, ParentJob[j])
    BY <2>2, <2>3, TreeAssumption DEF IInv, OrderlyInv, ExecInv, Running
  <2>5. Present(ParentJob[j])
    BY <2>4 DEF IInv, OrderlyInv, ExecInv, Present
  <2>6. p \in Parents[ParentJob[j]] \/ p = ParentJob[j]
    BY <2>2, TreeAssumption
  <2>7. Present(p)
    BY <2>4, <2>5, <2>6 DEF AncestorsThere
  <2> QED BY <1>1, <2>7, FinalStep
<1> QED BY <1>2, <1>3

\* Then what is run has the job above all others in the collection.
LEMMA StepQueued ==
    ASSUME IInv, [Next]_vars, Orderly, OneTree, AncestorsThere, QueuedBefore
    PROVE  QueuedBefore'
<1> SUFFICES ASSUME NEW j \in Jobs, Executing(j)', NEW cond \in RunAfter[j], ~Present(cond.job)'
             PROVE  \E above \in RunAfter[j] : /\ cond.job \in Descendants(above.job)
                                               /\ Present(above.job)' /\ above.status = {"completed"}
  BY DEF QueuedBefore
<1>0. \A c \in RunAfter[j] : c.job \in Jobs
  BY InputAssumption DEF Conditions
<1>1. ~Present(cond.job)
  BY <1>0, FinalStep
<1>2. CASE Executing(j)
  BY <1>0, <1>1, <1>2, FinalStep DEF QueuedBefore
<1>3. CASE ~Executing(j)
  <2>1. PICK w \in Workers : Running(w, j)' /\ ~Running(w, j)
    BY <1>3 DEF Executing
  <2>2. Ready(j)
    BY <2>1, RunStep
  <2>3. PICK c \in RunAfter[j] : Present(c.job)
    BY <2>2 DEF Ready
  <2>4. PICK top \in RunAfter[j] : \A k \in RunAfter[j] :
           k.job = top.job \/ (k.job \in Descendants(top.job) /\ top.status = {"completed"})
    BY DEF OneTree
  <2>5. Present(top.job)
    BY <1>0, <2>3, <2>4 DEF AncestorsThere, Descendants
  <2> QED BY <1>0, <1>1, <2>4, <2>5, FinalStep
<1> QED BY <1>2, <1>3

\* The same for jobs whose conditions are about one tree: there the hypothesis holds
\* by itself, as a job is queued after those above it, and none below one that is
\* completed.
THEOREM DependenciesInOneTree == OneTree => (Spec => []DependenciesHold)
<1> SUFFICES ASSUME OneTree PROVE Spec => []DependenciesHold
  OBVIOUS
<1>1. CASE ~Orderly
  <2>1. DependenciesHold
    BY <1>1 DEF DependenciesHold
  <2> QED BY <2>1, PTL
<1>2. CASE Orderly
  <2>1. Init => AncestorsThere /\ QueuedBefore
    BY NullsAssumption DEF Init, AncestorsThere, Present, QueuedBefore, Executing, Running, NoCall, Slots
  <2>2. IInv /\ AncestorsThere /\ QueuedBefore /\ [Next]_vars => (AncestorsThere /\ QueuedBefore)'
    BY <1>2, StepAncestors, StepQueued
  <2>3. Spec => []QueuedBefore
    BY Inductive, <2>1, <2>2, PTL DEF Spec
  <2> QED BY <2>3, DependenciesAreKept, PTL
<1> QED BY <1>1, <1>2
=============================================================================
