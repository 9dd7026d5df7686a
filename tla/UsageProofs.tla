---------------------------- MODULE UsageProofs ----------------------------
(***************************************************************************)
(* Theorems about Usage, for any requests, categories, costs, budgets and  *)
(* bounds.                                                                 *)
(***************************************************************************)
EXTENDS Usage, TLAPS

\* What Over, the merge of two sets of sums, does.
LEMMA OverFacts ==
    ASSUME NEW f, NEW g
    PROVE  /\ DOMAIN Over(f, g) = DOMAIN f \cup DOMAIN g
           /\ \A k \in DOMAIN f : Over(f, g)[k] = f[k]
           /\ \A k \in DOMAIN g \ DOMAIN f : Over(f, g)[k] = g[k]
  BY DEF Over

LEMMA OverSums ==
    ASSUME NEW f, NEW g, IsSums(f), IsSums(g)
    PROVE  IsSums(Over(f, g))
  BY DEF IsSums, Over

LEMMA NoneSums == IsSums(None) /\ DOMAIN None = {}
  BY DEF IsSums, None

LEMMA SingleSums ==
    ASSUME NEW k \in Keys, NEW n \in Nat
    PROVE  IsSums(One(k, n)) /\ DOMAIN One(k, n) = {k} /\ One(k, n)[k] = n
  BY DEF IsSums, One

LEMMA KeyFacts ==
    ASSUME NEW c \in Categories, NEW m \in Months
    PROVE  /\ Key(c, "fulfilled", m) \in Keys /\ Key(c, "dropped", m) \in Keys
           /\ Key(Total, "fulfilled", m) \in Keys
           /\ Key(c, "fulfilled", m) # Key(Total, "fulfilled", m)
           /\ Key(c, "fulfilled", m).category # Total
           /\ Key(c, "dropped", m).category # Total
  BY CategoryAssumption DEF Key, Keys

\* The keys a request reads and changes.
LEMMA HandlingFacts ==
    ASSUME TypeOK, HandlingInv, handling # Idle
    PROVE  /\ handling.request \in Requests
           /\ handling.month \in Months
           /\ Cost[handling.request] \in Nat
           /\ KeyOf(handling, "fulfilled") \in Keys
           /\ KeyOf(handling, "dropped") \in Keys
           /\ TotalKey(handling) \in Keys
           /\ Needed(handling) \subseteq Keys
           /\ KeyOf(handling, "fulfilled").category # Total
           /\ KeyOf(handling, "dropped").category # Total
<1>1. handling.request \in Requests /\ handling.month \in Months
  BY DEF TypeOK, HandlingInv
<1>2. Category[handling.request] \in Categories /\ Cost[handling.request] \in Nat
  BY <1>1, RequestAssumption
<1>3. /\ KeyOf(handling, "fulfilled") \in Keys
      /\ KeyOf(handling, "dropped") \in Keys
      /\ TotalKey(handling) \in Keys
      /\ KeyOf(handling, "fulfilled").category # Total
      /\ KeyOf(handling, "dropped").category # Total
  BY <1>1, <1>2, KeyFacts DEF KeyOf, TotalKey
<1> QED BY <1>1, <1>2, <1>3 DEF Needed

\* What is read of a record is a sum, and a new total starts from nothing.
LEMMA ReadFacts ==
    ASSUME TypeOK, NEW k \in Keys, NEW n \in Read(k)
    PROVE  n \in Nat /\ (k \in DOMAIN db => n = db[k]) /\ (k.category = Total /\ k \notin DOMAIN db => n = 0)
<1>1. k \in DOMAIN db => n = db[k] /\ n \in Nat
  BY DEF Read, TypeOK, IsSums
<1>2. k \notin DOMAIN db => n \in Nat
  BY DEF Read, Openings, TypeOK, IsSums
<1>3. k.category = Total /\ k \notin DOMAIN db => n = 0
  BY CategoryAssumption DEF Read, Openings
<1> QED BY <1>1, <1>2, <1>3

\* What a worker's decrement does, with the key and the sum it starts from named.
LEMMA WorkerFacts ==
    ASSUME TypeOK, NEW w \in Workers, NEW r \in Requests, WorkerDecrements(w, r)
    PROVE  \E k \in Keys, n \in Nat :
              /\ k.category # Total
              /\ workerCache' = [workerCache EXCEPT ![w] = Over(One(k, Less(n, Cost[r])), @)]
              /\ workerBatch' = [workerBatch EXCEPT ![w] = Over(One(k, Less(n, Cost[r])), @)]
              /\ db' = Over(db, One(k, n))
              /\ ledger' = [Over(ledger, One(k, n)) EXCEPT ![k] = Less(@, Cost[r])]
              /\ shared' = shared \cup {k}
<1> DEFINE k == Key(Category[r], "fulfilled", month)
<1>1. Category[r] \in Categories /\ month \in Months
  BY RequestAssumption DEF TypeOK
<1>2. k \in Keys /\ k.category # Total
  BY <1>1, KeyFacts
<1>3. PICK n \in IF k \in DOMAIN workerCache[w] THEN {workerCache[w][k]} ELSE Read(k) :
              /\ workerCache' = [workerCache EXCEPT ![w] = Over(One(k, Less(n, Cost[r])), @)]
              /\ workerBatch' = [workerBatch EXCEPT ![w] = Over(One(k, Less(n, Cost[r])), @)]
              /\ db' = Over(db, One(k, n))
              /\ ledger' = [Over(ledger, One(k, n)) EXCEPT ![k] = Less(@, Cost[r])]
  BY DEF WorkerDecrements
<1>4. n \in Nat
  <2>1. CASE k \in DOMAIN workerCache[w]
    BY <1>3, <2>1 DEF TypeOK, IsSums
  <2>2. CASE k \notin DOMAIN workerCache[w]
    BY <1>2, <1>3, <2>2, ReadFacts
  <2> QED BY <2>1, <2>2
<1>5. shared' = shared \cup {k}
  BY DEF WorkerDecrements
<1> HIDE DEF k
<1> QED BY <1>2, <1>3, <1>4, <1>5

\* FulfillRecord and DropRecord in one: the sums under K grow by the cost.
Counts(outcome, K) ==
    /\ Loaded /\ handling.request \in Increments
    /\ Finish(outcome, K)
    /\ outcome \in Counted
    /\ K \subseteq Needed(handling)
    /\ TotalKey(handling) \in K => ~IsExceeded(handling)

LEMMA CountsFacts ==
    ASSUME TypeOK, HandlingInv, FulfillRecord \/ DropRecord
    PROVE  \E outcome \in Counted, K \in SUBSET Keys : Counts(outcome, K)
<1>0. handling # Idle /\ Loaded
  BY DEF FulfillRecord, DropRecord, Loaded
<1>1. CASE FulfillRecord
  <2>1. Counts("permitted", {KeyOf(handling, "fulfilled"), TotalKey(handling)})
    BY <1>1 DEF FulfillRecord, Counts, Counted, Needed
  <2> QED BY <1>0, <2>1, HandlingFacts DEF Counted
<1>2. CASE DropRecord
  <2>1. KeyOf(handling, "dropped") \in Needed(handling)
    BY <1>2 DEF DropRecord, Needed
  <2>2. TotalKey(handling) # KeyOf(handling, "dropped")
    BY DEF TotalKey, KeyOf, Key
  <2>3. Counts("dropped", {KeyOf(handling, "dropped")})
    BY <1>2, <2>1, <2>2 DEF DropRecord, Counts, Counted
  <2> QED BY <1>0, <2>3, HandlingFacts DEF Counted
<1> QED BY <1>1, <1>2

-----------------------------------------------------------------------------
(* Type correctness *)

LEMMA InitType == Init => TypeOK
<1> SUFFICES ASSUME Init PROVE TypeOK
  OBVIOUS
<1>1. 0 \in Months /\ 0 \in 0..MaxFaults
  BY CategoryAssumption DEF Months
<1>2. handling \in [request : Requests \cup {NoRequest}, month : Months, overdue : BOOLEAN]
  BY <1>1 DEF Init, Idle
<1> QED BY <1>1, <1>2, NoneSums DEF Init, TypeOK

\* A fault stays within the bound.
LEMMA FaultStep == TypeOK /\ faults < MaxFaults /\ faults' = faults + 1 => faults' \in 0..MaxFaults
  BY CategoryAssumption DEF TypeOK

LEMMA GrownSums ==
    ASSUME NEW f, IsSums(f), NEW K \in SUBSET DOMAIN f, NEW n \in Nat
    PROVE  IsSums(Grown(f, K, n))
  BY DEF IsSums, Grown

LEMMA StepType == TypeOK /\ HandlingInv /\ SumInv /\ [Next]_vars => TypeOK'
<1> SUFFICES ASSUME TypeOK, HandlingInv, SumInv, [Next]_vars PROVE TypeOK'
  OBVIOUS
<1> USE DEF requests, sums, records, workers
<1>1. ASSUME NEW r \in Requests, Begin(r) PROVE TypeOK'
  BY <1>1 DEF Begin, TypeOK
<1>2. ASSUME NEW k \in Keys, GetUsageL2(k) PROVE TypeOK'
  <2>1. PICK n \in Read(k) : /\ cache' = Over(cache, One(k, n))
                             /\ db' = Over(db, One(k, n))
                             /\ ledger' = Over(ledger, One(k, n))
    BY <1>2 DEF GetUsageL2
  <2>2. IsSums(One(k, n))
    BY ReadFacts, SingleSums
  <2>3. IsSums(cache') /\ IsSums(db') /\ IsSums(ledger')
    BY <2>1, <2>2, OverSums DEF TypeOK
  <2> QED BY <1>2, <2>3 DEF GetUsageL2, TypeOK
<1>3. ASSUME FulfillRecord \/ DropRecord PROVE TypeOK'
  <2>1. PICK outcome \in Counted, K \in SUBSET Keys : Counts(outcome, K)
    BY <1>3, CountsFacts
  <2>2. handling # Idle /\ handling.request \in Increments /\ handling.request \in Requests
    BY <2>1, HandlingFacts DEF Counts, Loaded
  <2>3. K \subseteq DOMAIN cache /\ K \subseteq DOMAIN ledger /\ Cost[handling.request] \in Nat
    BY <2>1, <2>2, HandlingFacts DEF Counts, Loaded, SumInv
  <2>4. IsSums(Grown(cache, K, Cost[handling.request])) /\ IsSums(Grown(ledger, K, Cost[handling.request]))
    BY <2>3, GrownSums DEF TypeOK
  <2>5. IsSums(cache') /\ IsSums(batch') /\ IsSums(ledger')
    BY <2>1, <2>4, OverSums DEF Counts, Finish, WriteUsageL2, TypeOK
  <2>6. answer' \in [Requests -> Counted \cup {"waiting", "returned", "lost"}] /\ l1Batch' \subseteq Increments
    BY <2>1, <2>2 DEF Counts, Finish, TypeOK
  <2>7. handling' \in [request : Requests \cup {NoRequest}, month : Months, overdue : BOOLEAN]
    BY <2>1, CategoryAssumption DEF Counts, Finish, Idle, Months
  <2> QED BY <2>1, <2>5, <2>6, <2>7 DEF Counts, Finish, WriteUsageL2, TypeOK
<1>4. ASSUME Decrement PROVE TypeOK'
  <2> DEFINE k == KeyOf(handling, "fulfilled")
             r == handling.request
  <2>0. handling # Idle /\ r \in Requests /\ k \in Keys
    BY <1>4, HandlingFacts DEF Decrement, Loaded
  <2>6. k \in Needed(handling)
    BY <1>4 DEF Decrement, Needed, HandlingInv
  <2>1. handling # Idle /\ r \in Requests /\ k \in Keys /\ k \in DOMAIN cache /\ k \in DOMAIN ledger
    BY <1>4, <2>0, <2>6 DEF Decrement, Loaded, SumInv
  <2>2. Less(cache[k], Cost[r]) \in Nat /\ Less(ledger[k], Cost[r]) \in Nat
    BY <2>1, HandlingFacts DEF TypeOK, IsSums, Less
  <2>3. IsSums(One(k, Less(cache[k], Cost[r]))) /\ IsSums(One(k, Less(ledger[k], Cost[r])))
    BY <2>1, <2>2, SingleSums
  <2>4. IsSums(cache') /\ IsSums(batch') /\ IsSums(ledger')
    BY <1>4, <2>3, OverSums DEF Decrement, WriteUsageL2, TypeOK
  <2>5. handling' \in [request : Requests \cup {NoRequest}, month : Months, overdue : BOOLEAN]
    BY <1>4, CategoryAssumption DEF Decrement, Idle, Months
  <2> QED BY <1>4, <2>4, <2>5 DEF Decrement, WriteUsageL2, TypeOK
<1>5. ASSUME RequestFails PROVE TypeOK'
  <2>1. handling' \in [request : Requests \cup {NoRequest}, month : Months, overdue : BOOLEAN]
    BY <1>5, CategoryAssumption DEF RequestFails, Idle, Months
  <2> QED BY <1>5, <2>1, FaultStep DEF RequestFails, TypeOK
<1>6. IsSums(Merged)
  BY OverSums DEF Merged, TypeOK
<1>7. ASSUME CommitL2 PROVE TypeOK'
  BY <1>6, <1>7, NoneSums DEF CommitL2, TakeL2, TypeOK
<1>8. ASSUME L2Committed PROVE TypeOK'
  BY <1>8, NoneSums, OverSums DEF L2Committed, TypeOK
<1>9. ASSUME L2Fails PROVE TypeOK'
  BY <1>9, FaultStep DEF L2Fails, TypeOK
<1>10. ASSUME CommitL1 \/ L1Committed PROVE TypeOK'
  BY <1>10 DEF CommitL1, TakeL1, L1Committed, TypeOK
<1>11. ASSUME L1Fails PROVE TypeOK'
  BY <1>11, FaultStep DEF L1Fails, TypeOK
<1>12. ASSUME Dispose PROVE TypeOK'
  BY <1>6, <1>12, NoneSums DEF Dispose, TakeL2, TakeL1, TypeOK
<1>13. ASSUME Gone PROVE /\ answer' \in [Requests -> Counted \cup {"waiting", "returned", "lost"}]
                         /\ handling' \in [request : Requests \cup {NoRequest}, month : Months, overdue : BOOLEAN]
                         /\ IsSums(cache') /\ IsSums(batch') /\ IsSums(committing')
  <2>1. Idle \in [request : Requests \cup {NoRequest}, month : Months, overdue : BOOLEAN]
    BY CategoryAssumption DEF Idle, Months
  <2> QED BY <1>13, <2>1, NoneSums DEF Gone, TypeOK
<1>14. ASSUME Exit PROVE TypeOK'
  BY <1>13, <1>14 DEF Exit, Gone, TypeOK
<1>15. ASSUME Crash PROVE TypeOK'
  <2>1. IsSums(db')
    BY <1>15, OverSums DEF Crash, TypeOK
  <2>4. lost' \in BOOLEAN
    BY <1>15 DEF Crash, TypeOK
  <2>2. l1Db' \subseteq Increments /\ l1Lost' \subseteq Increments
    BY <1>15 DEF Crash, TypeOK
  <2>3. faults' \in 0..MaxFaults
    BY <1>15, FaultStep DEF Crash
  <2> QED BY <1>13, <1>15, <2>1, <2>2, <2>3, <2>4 DEF Crash, Gone, TypeOK
<1>16. ASSUME Start \/ MonthEnds PROVE TypeOK'
  BY <1>16, CategoryAssumption DEF Start, MonthEnds, Months, TypeOK
<1>17. CASE UNCHANGED vars
  BY <1>17 DEF vars, TypeOK
<1>18. ASSUME NEW w \in Workers, NEW r \in Requests, WorkerDecrements(w, r) PROVE TypeOK'
  <2>1. PICK k \in Keys, n \in Nat :
              /\ workerCache' = [workerCache EXCEPT ![w] = Over(One(k, Less(n, Cost[r])), @)]
              /\ workerBatch' = [workerBatch EXCEPT ![w] = Over(One(k, Less(n, Cost[r])), @)]
              /\ db' = Over(db, One(k, n))
              /\ ledger' = [Over(ledger, One(k, n)) EXCEPT ![k] = Less(@, Cost[r])]
              /\ shared' = shared \cup {k}
    BY <1>18, WorkerFacts
  <2>2. Cost[r] \in Nat
    BY RequestAssumption
  <2>3. \A m \in Nat : Less(m, Cost[r]) \in Nat
    BY <2>2 DEF Less
  <2>4. IsSums(One(k, n)) /\ IsSums(One(k, Less(n, Cost[r])))
    BY <2>3, SingleSums
  <2>5. IsSums(db') /\ IsSums(Over(ledger, One(k, n)))
    BY <2>1, <2>4, OverSums DEF TypeOK
  <2>6. IsSums(ledger')
    BY <2>1, <2>3, <2>5 DEF IsSums
  <2>7. ASSUME NEW v \in Workers PROVE IsSums(workerCache'[v]) /\ IsSums(workerBatch'[v])
    BY <2>1, <2>4, <2>7, OverSums DEF TypeOK
  <2>8. DOMAIN workerCache' = Workers /\ DOMAIN workerBatch' = Workers /\ shared' \subseteq Keys
    BY <2>1 DEF TypeOK
  <2>9. answer' \in [Requests -> Counted \cup {"waiting", "returned", "lost"}]
    BY <1>18 DEF WorkerDecrements, TypeOK
  <2>10. UNCHANGED <<month, process, handling, cache, batch, committing, busy, lost, records, faults>>
    BY <1>18 DEF WorkerDecrements
  <2> QED BY <2>5, <2>6, <2>7, <2>8, <2>9, <2>10 DEF TypeOK
<1>19. ASSUME NEW w \in Workers, WorkerCommits(w) PROVE TypeOK'
  <2>1. IsSums(db')
    BY <1>19, OverSums DEF WorkerCommits, TypeOK
  <2>2. ASSUME NEW v \in Workers PROVE IsSums(workerCache'[v]) /\ IsSums(workerBatch'[v])
    BY <1>19, <2>2, NoneSums DEF WorkerCommits, TypeOK
  <2>3. DOMAIN workerCache' = Workers /\ DOMAIN workerBatch' = Workers
    BY <1>19 DEF WorkerCommits, TypeOK
  <2> QED BY <1>19, <2>1, <2>2, <2>3 DEF WorkerCommits, TypeOK
<1>20. ASSUME NEW w \in Workers, WorkerCrashes(w) PROVE TypeOK'
  <2>1. ASSUME NEW v \in Workers PROVE IsSums(workerCache'[v]) /\ IsSums(workerBatch'[v])
    BY <1>20, <2>1, NoneSums DEF WorkerCrashes, TypeOK
  <2>2. DOMAIN workerCache' = Workers /\ DOMAIN workerBatch' = Workers
    BY <1>20 DEF WorkerCrashes, TypeOK
  <2>3. faults' \in 0..MaxFaults
    BY <1>20, FaultStep DEF WorkerCrashes
  <2> QED BY <1>20, <2>1, <2>2, <2>3 DEF WorkerCrashes, TypeOK
<1> QED BY <1>1, <1>2, <1>3, <1>4, <1>5, <1>7, <1>8, <1>9, <1>10, <1>11, <1>12, <1>14, <1>15, <1>16, <1>17,
           <1>18, <1>19, <1>20 DEF Next

-----------------------------------------------------------------------------
(* The invariant *)

LEMMA IdleFacts == Idle.request = NoRequest /\ ~Idle.overdue /\ NoRequest \notin Increments
  BY RequestAssumption DEF Idle

LEMMA StepHandling == TypeOK /\ HandlingInv /\ [Next]_vars => HandlingInv'
<1> SUFFICES ASSUME TypeOK, HandlingInv, [Next]_vars PROVE HandlingInv'
  OBVIOUS
<1> USE DEF requests, sums, records, workers
<1>1. ASSUME NEW r \in Requests, Begin(r) PROVE HandlingInv'
  BY <1>1, RequestAssumption DEF Begin, HandlingInv
<1>2. ASSUME handling' = Idle PROVE HandlingInv'
  BY <1>2, IdleFacts DEF HandlingInv
<1>3. ASSUME UNCHANGED <<answer, handling>> PROVE HandlingInv'
  BY <1>3 DEF HandlingInv
<1>4. ASSUME NEW k \in Keys, GetUsageL2(k) PROVE UNCHANGED <<answer, handling>>
  BY <1>4 DEF GetUsageL2
<1>5. ASSUME FulfillRecord \/ DropRecord \/ Decrement \/ RequestFails \/ Exit \/ Crash PROVE handling' = Idle
  BY <1>5 DEF FulfillRecord, DropRecord, Finish, Decrement, RequestFails, Exit, Crash, Gone
<1>6. ASSUME CommitL2 \/ L2Committed \/ L2Fails \/ CommitL1 \/ L1Committed \/ L1Fails \/ Dispose
             \/ Start \/ MonthEnds \/ UNCHANGED vars
      PROVE  UNCHANGED <<answer, handling>>
  BY <1>6 DEF CommitL2, L2Committed, L2Fails, CommitL1, L1Committed, L1Fails, Dispose, Start, MonthEnds, vars
<1>7. ASSUME NEW w \in Workers, NEW r \in Requests, WorkerDecrements(w, r) PROVE HandlingInv'
  BY <1>7 DEF WorkerDecrements, HandlingInv, TypeOK
<1>8. ASSUME NEW w \in Workers, WorkerCommits(w) \/ WorkerCrashes(w) PROVE UNCHANGED <<answer, handling>>
  BY <1>8 DEF WorkerCommits, WorkerCrashes
<1> QED BY <1>1, <1>2, <1>3, <1>4, <1>5, <1>6, <1>7, <1>8 DEF Next

\* The L1 side: only Finish, the L1 commits and the end of a process touch it.
LEMMA StepRecorded == TypeOK /\ HandlingInv /\ RecordedOnce /\ [Next]_vars => RecordedOnce'
<1> SUFFICES ASSUME TypeOK, HandlingInv, RecordedOnce, [Next]_vars PROVE RecordedOnce'
  OBVIOUS
<1> USE DEF requests, sums, records, workers
<1>1. ASSUME UNCHANGED records, \A r \in Requests : answer'[r] \in Counted <=> answer[r] \in Counted
      PROVE  RecordedOnce'
  BY <1>1 DEF RecordedOnce
<1>2. ASSUME NEW r \in Requests, Begin(r) PROVE RecordedOnce'
  BY <1>1, <1>2 DEF Begin
<1>3. ASSUME NEW k \in Keys, GetUsageL2(k) PROVE RecordedOnce'
  BY <1>1, <1>3 DEF GetUsageL2
<1>4. ASSUME FulfillRecord \/ DropRecord PROVE RecordedOnce'
  <2>1. PICK outcome \in Counted, K \in SUBSET Keys : Counts(outcome, K)
    BY <1>4, CountsFacts
  <2> DEFINE q == handling.request
  <2>2. q \in Requests /\ answer[q] = "waiting"
    BY <2>1, HandlingFacts DEF Counts, Loaded, HandlingInv
  <2>3. answer' = [answer EXCEPT ![q] = outcome] /\ l1Batch' = l1Batch \cup {q}
        /\ UNCHANGED <<l1Committing, l1Db, l1Lost>>
    BY <2>1 DEF Counts, Finish
  <2>4. {r \in Requests : answer'[r] \in Counted} = {r \in Requests : answer[r] \in Counted} \cup {q}
    BY <2>2, <2>3 DEF TypeOK
  <2>5. q \notin {r \in Requests : answer[r] \in Counted}
    BY <2>2 DEF Counted
  <2> QED BY <2>3, <2>4, <2>5 DEF RecordedOnce
<1>5. ASSUME NEW outcome \in {"returned", "lost"}, handling # Idle,
             answer' = [answer EXCEPT ![handling.request] = outcome]
      PROVE  \A r \in Requests : answer'[r] \in Counted <=> answer[r] \in Counted
  BY <1>5, HandlingFacts DEF HandlingInv, Counted, TypeOK
<1>6. ASSUME Decrement \/ RequestFails PROVE RecordedOnce'
  BY <1>1, <1>5, <1>6 DEF Decrement, RequestFails, Loaded
<1>7. ASSUME CommitL2 \/ L2Committed \/ L2Fails \/ Start \/ MonthEnds \/ UNCHANGED vars PROVE RecordedOnce'
  BY <1>1, <1>7 DEF CommitL2, L2Committed, L2Fails, Start, MonthEnds, vars
<1>8. ASSUME CommitL1 \/ Dispose PROVE RecordedOnce'
  BY <1>8 DEF CommitL1, Dispose, TakeL1, RecordedOnce
<1>9. ASSUME L1Committed \/ L1Fails PROVE RecordedOnce'
  BY <1>9 DEF L1Committed, L1Fails, RecordedOnce
<1>10. ASSUME Gone PROVE \A r \in Requests : answer'[r] \in Counted <=> answer[r] \in Counted
  BY <1>5, <1>10 DEF Gone
<1>11. ASSUME Exit \/ Crash PROVE RecordedOnce'
  <2>1. {r \in Requests : answer'[r] \in Counted} = {r \in Requests : answer[r] \in Counted}
    BY <1>10, <1>11 DEF Exit, Crash
  <2>2. l1Batch' = {} /\ l1Committing' = {}
    BY <1>11 DEF Exit, Crash, Gone
  <2>3. \/ l1Db' = l1Db /\ l1Lost' = l1Lost \cup l1Batch \cup l1Committing
        \/ l1Db' = l1Db \cup l1Committing /\ l1Lost' = l1Lost \cup l1Batch
    BY <1>11 DEF Exit, Crash
  <2> QED BY <2>1, <2>2, <2>3 DEF RecordedOnce
<1>12. ASSUME NEW w \in Workers, NEW r \in Requests, WorkerDecrements(w, r) PROVE RecordedOnce'
  <2>1. answer[r] = "waiting" /\ answer' = [answer EXCEPT ![r] = "returned"] /\ UNCHANGED records
    BY <1>12 DEF WorkerDecrements
  <2>2. \A q \in Requests : answer'[q] \in Counted <=> answer[q] \in Counted
    BY <2>1 DEF Counted, TypeOK
  <2> QED BY <1>1, <2>1, <2>2
<1>13. ASSUME NEW w \in Workers, WorkerCommits(w) \/ WorkerCrashes(w) PROVE RecordedOnce'
  BY <1>1, <1>13 DEF WorkerCommits, WorkerCrashes
<1> QED BY <1>2, <1>3, <1>4, <1>6, <1>7, <1>8, <1>9, <1>11, <1>12, <1>13 DEF Next

\* Workers change what they have read, and keys of categories.
LEMMA StepWorker == TypeOK /\ SumInv /\ WorkerInv /\ [Next]_vars => WorkerInv'
<1> SUFFICES ASSUME TypeOK, SumInv, WorkerInv, [Next]_vars PROVE WorkerInv'
  OBVIOUS
<1> USE DEF requests, sums, records, workers
<1>1. ASSUME UNCHANGED workers, DOMAIN db \subseteq DOMAIN db' PROVE WorkerInv'
  BY <1>1 DEF WorkerInv
<1>2. ASSUME NEW r \in Requests, Begin(r) PROVE WorkerInv'
  BY <1>1, <1>2 DEF Begin
<1>3. ASSUME NEW k \in Keys, GetUsageL2(k) PROVE WorkerInv'
  BY <1>1, <1>3 DEF GetUsageL2, Over
<1>4. ASSUME L2Committed \/ Crash PROVE WorkerInv'
  <2>1. db' = db \/ db' = Over(committing, db)
    BY <1>4 DEF L2Committed, Crash
  <2>2. UNCHANGED workers
    BY <1>4 DEF L2Committed, Crash, Gone
  <2> QED BY <1>1, <2>1, <2>2 DEF Over
<1>5. ASSUME FulfillRecord \/ DropRecord \/ Decrement \/ RequestFails \/ CommitL2 \/ L2Fails
             \/ CommitL1 \/ L1Committed \/ L1Fails \/ Dispose \/ Exit \/ Start \/ MonthEnds \/ UNCHANGED vars
      PROVE  WorkerInv'
  BY <1>1, <1>5 DEF FulfillRecord, DropRecord, Finish, WriteUsageL2, Decrement, RequestFails, CommitL2, L2Fails,
                    CommitL1, L1Committed, L1Fails, Dispose, Exit, Gone, Start, MonthEnds, vars
<1>6. ASSUME NEW w \in Workers, NEW r \in Requests, WorkerDecrements(w, r) PROVE WorkerInv'
  <2>1. PICK k \in Keys, n \in Nat :
              /\ k.category # Total
              /\ workerCache' = [workerCache EXCEPT ![w] = Over(One(k, Less(n, Cost[r])), @)]
              /\ workerBatch' = [workerBatch EXCEPT ![w] = Over(One(k, Less(n, Cost[r])), @)]
              /\ db' = Over(db, One(k, n))
              /\ shared' = shared \cup {k}
    BY <1>6, WorkerFacts
  <2>2. DOMAIN db' = DOMAIN db \cup {k}
    BY <2>1 DEF Over, One
  <2>3. ASSUME NEW v \in Workers PROVE DOMAIN workerCache'[v] \cup DOMAIN workerBatch'[v] \subseteq shared'
    BY <2>1, <2>3 DEF Over, One, WorkerInv, TypeOK
  <2> QED BY <2>1, <2>2, <2>3 DEF WorkerInv
<1>7. ASSUME NEW w \in Workers, WorkerCommits(w) PROVE WorkerInv'
  <2>1. DOMAIN db \subseteq DOMAIN db'
    BY <1>7 DEF WorkerCommits, Over
  <2>2. ASSUME NEW v \in Workers PROVE DOMAIN workerCache'[v] \cup DOMAIN workerBatch'[v] \subseteq shared
    BY <1>7, <2>2, NoneSums DEF WorkerCommits, WorkerInv, TypeOK
  <2> QED BY <1>7, <2>1, <2>2 DEF WorkerCommits, WorkerInv
<1>8. ASSUME NEW w \in Workers, WorkerCrashes(w) PROVE WorkerInv'
  <2>1. ASSUME NEW v \in Workers PROVE DOMAIN workerCache'[v] \cup DOMAIN workerBatch'[v] \subseteq shared
    BY <1>8, <2>1, NoneSums DEF WorkerCrashes, WorkerInv, TypeOK
  <2> QED BY <1>8, <2>1 DEF WorkerCrashes, WorkerInv
<1> QED BY <1>2, <1>3, <1>4, <1>5, <1>6, <1>7, <1>8 DEF Next

\* What is stored of a key is the batch's sum, or else the commit's, or else the
\* document's.
LEMMA ThreeFacts ==
    ASSUME NEW b, NEW c, NEW d, NEW k \in DOMAIN d
    PROVE  Over(b, Over(c, d))[k] = IF k \in DOMAIN b THEN b[k] ELSE IF k \in DOMAIN c THEN c[k] ELSE d[k]
  BY DEF Over

\* Steps that leave the sums alone.
LEMMA SameSums ==
    ASSUME SumInv, LedgerKept, UNCHANGED <<cache, batch, committing, db, ledger, lost>>, shared \subseteq shared'
    PROVE  SumInv' /\ LedgerKept'
  BY DEF SumInv, LedgerKept, Stored

\* A step that loses nothing and leaves what is stored of every document the same.
LEMMA SameStored ==
    ASSUME SumInv, LedgerKept,
           UNCHANGED <<ledger, shared>>, ~lost' => ~lost,
           DOMAIN cache' \subseteq DOMAIN cache, \A k \in DOMAIN cache' : cache'[k] = cache[k],
           DOMAIN batch' \cup DOMAIN committing' \subseteq DOMAIN cache',
           DOMAIN db' = DOMAIN db,
           ~lost' => \A k \in DOMAIN db : Over(batch', Over(committing', db'))[k] = Stored(k)
    PROVE  SumInv' /\ LedgerKept'
<1>1. SumInv'
  BY DEF SumInv
<1>2. LedgerKept'
  BY DEF SumInv, LedgerKept, Stored
<1> QED BY <1>1, <1>2

\* Sums that change in memory, and in the ledger in the same way.
LEMMA Written ==
    ASSUME SumInv, LedgerKept, NEW new, NEW counted,
           DOMAIN new \subseteq DOMAIN cache, DOMAIN counted = DOMAIN new,
           ~lost => \A k \in DOMAIN new \ shared : new[k] = counted[k],
           WriteUsageL2(new), ledger' = Over(counted, ledger), UNCHANGED shared
    PROVE  SumInv' /\ LedgerKept'
<1>1. /\ DOMAIN cache' = DOMAIN cache
      /\ DOMAIN batch' = DOMAIN new \cup DOMAIN batch
      /\ DOMAIN ledger' = DOMAIN ledger
  BY DEF WriteUsageL2, SumInv, Over
<1>2. SumInv'
  BY <1>1 DEF SumInv, WriteUsageL2
<1>3. ASSUME ~lost' PROVE LedgerKept'
  <2>1. ~lost /\ UNCHANGED <<committing, db>>
    BY <1>3 DEF WriteUsageL2
  <2>2. ASSUME NEW k \in DOMAIN cache' \ shared PROVE cache'[k] = ledger'[k]
    BY <1>1, <2>1, <2>2 DEF WriteUsageL2, LedgerKept, SumInv, Over
  <2>3. ASSUME NEW k \in DOMAIN ledger' \ shared PROVE Stored(k)' = ledger'[k]
    <3>1. k \in DOMAIN db /\ k \in DOMAIN ledger
      BY <1>1, <2>3 DEF SumInv
    <3>2. Stored(k)' = IF k \in DOMAIN batch' THEN batch'[k] ELSE IF k \in DOMAIN committing THEN committing[k] ELSE db[k]
      BY <2>1, <3>1, ThreeFacts DEF Stored
    <3>3. CASE k \in DOMAIN new
      BY <1>1, <2>1, <3>1, <3>2, <3>3 DEF WriteUsageL2, Over
    <3>4. CASE k \notin DOMAIN new
      <4>1. Stored(k) = IF k \in DOMAIN batch THEN batch[k] ELSE IF k \in DOMAIN committing THEN committing[k] ELSE db[k]
        BY <3>1, ThreeFacts DEF Stored
      <4>2. k \in DOMAIN batch' <=> k \in DOMAIN batch
        BY <1>1, <3>4
      <4>3. k \in DOMAIN batch => batch'[k] = batch[k]
        BY <3>4 DEF WriteUsageL2, Over
      <4>4. Stored(k)' = Stored(k)
        BY <3>2, <4>1, <4>2, <4>3
      <4>5. ledger'[k] = ledger[k]
        BY <3>1, <3>4 DEF Over
      <4> QED BY <2>1, <2>3, <3>1, <4>4, <4>5 DEF LedgerKept
    <3> QED BY <3>3, <3>4
  <2> QED BY <2>2, <2>3 DEF LedgerKept
<1> QED BY <1>2, <1>3 DEF LedgerKept

\* commitBatchedUsageL2Updates takes the batch without changing what is stored.
LEMMA Taken ==
    ASSUME SumInv, LedgerKept, TakeL2, UNCHANGED <<cache, db, ledger, lost, shared>>
    PROVE  SumInv' /\ LedgerKept'
<1>1. CASE BeginL2
  <2>1. committing' = Over(batch, committing) /\ batch' = None
    BY <1>1 DEF TakeL2, Merged
  <2>2. DOMAIN committing' = DOMAIN batch \cup DOMAIN committing /\ DOMAIN batch' = {}
    BY <2>1, NoneSums DEF Over
  <2>3. ASSUME NEW k \in DOMAIN db PROVE Over(batch', Over(committing', db'))[k] = Stored(k)
    <3>1. Over(batch', Over(committing', db'))[k] = IF k \in DOMAIN committing' THEN committing'[k] ELSE db[k]
      BY <2>2, ThreeFacts
    <3>2. Stored(k) = IF k \in DOMAIN batch THEN batch[k] ELSE IF k \in DOMAIN committing THEN committing[k] ELSE db[k]
      BY ThreeFacts DEF Stored
    <3> QED BY <2>1, <2>2, <3>1, <3>2 DEF Over
  <2>4. DOMAIN batch' \cup DOMAIN committing' \subseteq DOMAIN cache
    BY <2>2 DEF SumInv
  <2> QED BY <2>3, <2>4, SameStored
<1>2. CASE ~BeginL2
  BY <1>2, SameSums DEF TakeL2
<1> QED BY <1>1, <1>2

\* A process that ends, or a running commit that takes effect, with what is left in
\* memory counted as lost.
LEMMA Ended ==
    ASSUME TypeOK, SumInv, LedgerKept, Gone, UNCHANGED shared,
           \/ db' = db /\ lost' = (lost \/ DOMAIN Merged # {})
           \/ db' = Over(committing, db) /\ lost' = (lost \/ DOMAIN batch # {})
    PROVE  SumInv' /\ LedgerKept'
<1>1. DOMAIN cache' = {} /\ DOMAIN batch' = {} /\ DOMAIN committing' = {} /\ UNCHANGED ledger
  BY NoneSums DEF Gone
<1>2. DOMAIN db' = DOMAIN db
  BY DEF SumInv, Over
<1>3. ASSUME ~lost' PROVE ~lost /\ \A k \in DOMAIN db : Over(batch', Over(committing', db'))[k] = Stored(k)
  <2>1. ~lost
    BY <1>3
  <2>2. ASSUME NEW k \in DOMAIN db PROVE Over(batch', Over(committing', db'))[k] = Stored(k)
    <3>1. Over(batch', Over(committing', db'))[k] = db'[k]
      BY <1>1, <1>2, ThreeFacts
    <3>2. Stored(k) = IF k \in DOMAIN batch THEN batch[k] ELSE IF k \in DOMAIN committing THEN committing[k] ELSE db[k]
      BY ThreeFacts DEF Stored
    <3>3. CASE db' = db /\ lost' = (lost \/ DOMAIN Merged # {})
      <4>1. DOMAIN Merged = {}
        BY <1>3, <3>3
      <4>2. DOMAIN batch = {} /\ DOMAIN committing = {}
        BY <4>1 DEF Merged, Over
      <4> QED BY <3>1, <3>2, <3>3, <4>2
    <3>4. CASE db' = Over(committing, db) /\ lost' = (lost \/ DOMAIN batch # {})
      BY <1>3, <3>1, <3>2, <3>4 DEF Over
    <3> QED BY <3>3, <3>4
  <2> QED BY <2>1, <2>2
<1> QED BY <1>1, <1>2, <1>3, SameStored

\* A worker's step, which may spoil what it has read.
LEMMA Spoilt ==
    ASSUME SumInv, LedgerKept, UNCHANGED <<cache, batch, committing, lost>>,
           shared \subseteq shared', DOMAIN db \subseteq DOMAIN db', DOMAIN db' = DOMAIN ledger',
           DOMAIN db' \ DOMAIN db \subseteq shared',
           \A k \in DOMAIN db \ shared' : db'[k] = db[k] /\ ledger'[k] = ledger[k]
    PROVE  SumInv' /\ LedgerKept'
<1>1. SumInv'
  BY DEF SumInv
<1>2. ASSUME NEW k \in DOMAIN ledger' \ shared' PROVE k \in DOMAIN ledger \ shared /\ Stored(k)' = Stored(k)
  <2>1. k \in DOMAIN db /\ k \in DOMAIN db' /\ db'[k] = db[k]
    BY <1>2
  <2>2. Stored(k) = IF k \in DOMAIN batch THEN batch[k] ELSE IF k \in DOMAIN committing THEN committing[k] ELSE db[k]
    BY <2>1, ThreeFacts DEF Stored
  <2>3. Stored(k)' = IF k \in DOMAIN batch THEN batch[k] ELSE IF k \in DOMAIN committing THEN committing[k] ELSE db'[k]
    BY <2>1, ThreeFacts DEF Stored
  <2> QED BY <1>2, <2>1, <2>2, <2>3 DEF SumInv
<1>3. LedgerKept'
  BY <1>2 DEF LedgerKept, SumInv
<1> QED BY <1>1, <1>3

LEMMA StepLedger ==
    TypeOK /\ HandlingInv /\ SumInv /\ WorkerInv /\ LedgerKept /\ [Next]_vars => SumInv' /\ LedgerKept'
<1> SUFFICES ASSUME TypeOK, HandlingInv, SumInv, WorkerInv, LedgerKept, [Next]_vars PROVE SumInv' /\ LedgerKept'
  OBVIOUS
<1> USE DEF requests, sums, records, workers
<1>1. ASSUME NEW r \in Requests, Begin(r) PROVE SumInv' /\ LedgerKept'
  BY <1>1, SameSums DEF Begin
<1>2. ASSUME NEW k \in Keys, GetUsageL2(k) PROVE SumInv' /\ LedgerKept'
  <2>0. k \notin DOMAIN cache /\ UNCHANGED <<batch, committing, lost, shared>>
    BY <1>2 DEF GetUsageL2
  <2>1. PICK n \in Read(k) : /\ cache' = Over(cache, One(k, n))
                             /\ db' = Over(db, One(k, n))
                             /\ ledger' = Over(ledger, One(k, n))
    BY <1>2 DEF GetUsageL2
  <2>2. /\ DOMAIN cache' = DOMAIN cache \cup {k} /\ cache'[k] = n
        /\ \A x \in DOMAIN cache : cache'[x] = cache[x]
    BY <2>0, <2>1 DEF Over, One
  <2>3. k \in DOMAIN db => n = db[k]
    BY ReadFacts
  <2>4. /\ DOMAIN db' = DOMAIN db \cup {k} /\ db'[k] = n
        /\ \A x \in DOMAIN db : db'[x] = db[x]
    BY <2>1, <2>3 DEF Over, One
  <2>5. /\ DOMAIN ledger' = DOMAIN ledger \cup {k} /\ (k \notin DOMAIN ledger => ledger'[k] = n)
        /\ \A x \in DOMAIN ledger : ledger'[x] = ledger[x]
    BY <2>1 DEF Over, One
  <2>6. SumInv'
    BY <2>0, <2>2, <2>4, <2>5 DEF SumInv
  <2>7. k \notin DOMAIN batch /\ k \notin DOMAIN committing
    BY <2>0 DEF SumInv
  <2>8. Stored(k)' = n
    BY <2>0, <2>4, <2>7, ThreeFacts DEF Stored
  <2>9. ASSUME NEW x \in DOMAIN db PROVE Stored(x)' = Stored(x)
    <3>1. Stored(x) = IF x \in DOMAIN batch THEN batch[x] ELSE IF x \in DOMAIN committing THEN committing[x] ELSE db[x]
      BY ThreeFacts DEF Stored
    <3>2. Stored(x)' = IF x \in DOMAIN batch THEN batch[x] ELSE IF x \in DOMAIN committing THEN committing[x] ELSE db'[x]
      BY <2>0, <2>4, ThreeFacts DEF Stored
    <3> QED BY <2>4, <3>1, <3>2
  <2>10. ~lost /\ k \notin shared => ledger'[k] = n
    <3>1. CASE k \in DOMAIN ledger
      BY <2>5, <2>8, <2>9, <3>1 DEF LedgerKept, SumInv
    <3>2. CASE k \notin DOMAIN ledger
      BY <2>5, <3>2
    <3> QED BY <3>1, <3>2
  <2>11. LedgerKept'
    BY <2>0, <2>2, <2>5, <2>8, <2>9, <2>10 DEF LedgerKept, SumInv
  <2> QED BY <2>6, <2>11
<1>3. ASSUME FulfillRecord \/ DropRecord PROVE SumInv' /\ LedgerKept'
  <2>1. PICK outcome \in Counted, K \in SUBSET Keys : Counts(outcome, K)
    BY <1>3, CountsFacts
  <2> DEFINE cost == Cost[handling.request]
             new == Grown(cache, K, cost)
             counted == Grown(ledger, K, cost)
  <2>2. K \subseteq DOMAIN cache
    BY <2>1 DEF Counts, Loaded
  <2>3. DOMAIN new = K /\ DOMAIN counted = K
    BY DEF Grown
  <2>4. ~lost => \A k \in DOMAIN new \ shared : new[k] = counted[k]
    BY <2>2, <2>3 DEF Grown, LedgerKept
  <2>5. WriteUsageL2(new) /\ ledger' = Over(counted, ledger) /\ UNCHANGED shared
    BY <2>1 DEF Counts, Finish
  <2> HIDE DEF new, counted
  <2> QED BY <2>2, <2>3, <2>4, <2>5, Written
<1>4. ASSUME Decrement PROVE SumInv' /\ LedgerKept'
  <2> DEFINE k == KeyOf(handling, "fulfilled")
             cost == Cost[handling.request]
             new == One(k, Less(cache[k], cost))
             counted == One(k, Less(ledger[k], cost))
  <2>1. k \in DOMAIN cache
    BY <1>4 DEF Decrement, Loaded, Needed, HandlingInv
  <2>2. ~lost => \A x \in DOMAIN new \ shared : new[x] = counted[x]
    BY <2>1 DEF LedgerKept, One
  <2>3. DOMAIN new = {k} /\ DOMAIN counted = {k}
    BY DEF One
  <2>4. WriteUsageL2(new) /\ ledger' = Over(counted, ledger) /\ UNCHANGED shared
    BY <1>4 DEF Decrement
  <2> HIDE DEF new, counted, k
  <2> QED BY <2>1, <2>2, <2>3, <2>4, Written
<1>5. ASSUME RequestFails \/ L2Fails \/ CommitL1 \/ L1Committed \/ L1Fails \/ Start \/ MonthEnds \/ UNCHANGED vars
      PROVE  SumInv' /\ LedgerKept'
  BY <1>5, SameSums DEF RequestFails, L2Fails, CommitL1, L1Committed, L1Fails, Start, MonthEnds, vars
<1>6. ASSUME CommitL2 \/ Dispose PROVE SumInv' /\ LedgerKept'
  BY <1>6, Taken DEF CommitL2, Dispose
<1>7. ASSUME L2Committed PROVE SumInv' /\ LedgerKept'
  <2>1. db' = Over(committing, db) /\ committing' = None /\ UNCHANGED <<cache, batch, ledger, lost, shared>>
    BY <1>7 DEF L2Committed
  <2>2. DOMAIN db' = DOMAIN db /\ DOMAIN committing' = {}
    BY <2>1, NoneSums DEF SumInv, Over
  <2>3. ASSUME NEW k \in DOMAIN db PROVE Over(batch', Over(committing', db'))[k] = Stored(k)
    <3>1. Over(batch', Over(committing', db'))[k] = IF k \in DOMAIN batch THEN batch[k] ELSE db'[k]
      BY <2>1, <2>2, ThreeFacts
    <3>2. Stored(k) = IF k \in DOMAIN batch THEN batch[k] ELSE IF k \in DOMAIN committing THEN committing[k] ELSE db[k]
      BY ThreeFacts DEF Stored
    <3> QED BY <2>1, <3>1, <3>2 DEF Over
  <2>4. DOMAIN batch' \cup DOMAIN committing' \subseteq DOMAIN cache'
    BY <2>1, <2>2 DEF SumInv
  <2> QED BY <2>1, <2>2, <2>3, <2>4, SameStored
<1>8. ASSUME Exit \/ Crash PROVE SumInv' /\ LedgerKept'
  BY <1>8, Ended DEF Exit, Crash, Gone
<1>9. ASSUME NEW w \in Workers, NEW r \in Requests, WorkerDecrements(w, r) PROVE SumInv' /\ LedgerKept'
  <2>1. PICK k \in Keys, n \in Nat :
              /\ db' = Over(db, One(k, n))
              /\ ledger' = [Over(ledger, One(k, n)) EXCEPT ![k] = Less(@, Cost[r])]
              /\ shared' = shared \cup {k}
    BY <1>9, WorkerFacts
  <2>2. DOMAIN db' = DOMAIN db \cup {k} /\ DOMAIN ledger' = DOMAIN ledger \cup {k}
    BY <2>1 DEF Over, One
  <2>3. \A x \in DOMAIN db \ shared' : db'[x] = db[x] /\ ledger'[x] = ledger[x]
    BY <2>1 DEF Over, One, SumInv
  <2>4. UNCHANGED <<cache, batch, committing, lost>>
    BY <1>9 DEF WorkerDecrements
  <2> QED BY <2>1, <2>2, <2>3, <2>4, Spoilt DEF SumInv
<1>10. ASSUME NEW w \in Workers, WorkerCommits(w) PROVE SumInv' /\ LedgerKept'
  <2>1. DOMAIN workerBatch[w] \subseteq shared /\ DOMAIN workerBatch[w] \subseteq DOMAIN db
    BY DEF WorkerInv
  <2>2. db' = Over(workerBatch[w], db) /\ UNCHANGED <<cache, batch, committing, lost, ledger, shared>>
    BY <1>10 DEF WorkerCommits
  <2>3. DOMAIN db' = DOMAIN db /\ \A x \in DOMAIN db \ shared : db'[x] = db[x]
    BY <2>1, <2>2 DEF Over
  <2> QED BY <2>2, <2>3, Spoilt DEF SumInv
<1>11. ASSUME NEW w \in Workers, WorkerCrashes(w) PROVE SumInv' /\ LedgerKept'
  BY <1>11, SameSums DEF WorkerCrashes
<1> QED BY <1>1, <1>2, <1>3, <1>4, <1>5, <1>6, <1>7, <1>8, <1>9, <1>10, <1>11 DEF Next

\* Only FulfillRecord adds to a total, and it has compared the cached total, which
\* is the ledger's, with the budget.
LEMMA StepBudget ==
    TypeOK /\ HandlingInv /\ SumInv /\ WorkerInv /\ LedgerKept /\ BudgetHolds /\ [Next]_vars => BudgetHolds'
<1> SUFFICES ASSUME TypeOK, HandlingInv, SumInv, WorkerInv, LedgerKept, BudgetHolds, [Next]_vars PROVE BudgetHolds'
  OBVIOUS
<1> USE DEF requests, sums, records, workers
<1>0. ASSUME ~lost' => ~lost, UNCHANGED ledger PROVE BudgetHolds'
  BY <1>0 DEF BudgetHolds
<1>1. ASSUME NEW r \in Requests, Begin(r) PROVE BudgetHolds'
  BY <1>0, <1>1 DEF Begin
<1>2. ASSUME NEW k \in Keys, GetUsageL2(k) PROVE BudgetHolds'
  <2>1. PICK n \in Read(k) : ledger' = Over(ledger, One(k, n))
    BY <1>2 DEF GetUsageL2
  <2>2. /\ DOMAIN ledger' = DOMAIN ledger \cup {k} /\ (k \notin DOMAIN ledger => ledger'[k] = n)
        /\ \A x \in DOMAIN ledger : ledger'[x] = ledger[x]
    BY <2>1 DEF Over, One
  <2>3. k.category = Total /\ k \notin DOMAIN ledger => n = 0
    BY ReadFacts DEF SumInv
  <2>4. Total \in DOMAIN Budget => 0 <= Budget[Total]
    BY CategoryAssumption
  <2>5. lost' = lost
    BY <1>2 DEF GetUsageL2
  <2> QED BY <2>2, <2>3, <2>4, <2>5 DEF BudgetHolds
<1>3. ASSUME FulfillRecord \/ DropRecord PROVE BudgetHolds'
  <2>1. PICK outcome \in Counted, K \in SUBSET Keys : Counts(outcome, K)
    BY <1>3, CountsFacts
  <2>2. handling # Idle /\ K \subseteq DOMAIN cache /\ K \subseteq Needed(handling)
    BY <2>1 DEF Counts, Loaded
  <2>3. ledger' = Over(Grown(ledger, K, Cost[handling.request]), ledger) /\ lost' = lost
    BY <2>1 DEF Counts, Finish, WriteUsageL2
  <2>4. DOMAIN ledger' = DOMAIN ledger
    BY <2>2, <2>3 DEF Over, Grown, SumInv
  <2>5. ASSUME ~lost, NEW k \in DOMAIN ledger, k.category = Total, Total \in DOMAIN Budget
        PROVE  ledger'[k] <= Budget[Total]
    <3>1. CASE k \notin K
      BY <2>3, <2>5, <3>1 DEF Over, Grown, BudgetHolds
    <3>2. CASE k \in K
      <4>1. k = TotalKey(handling)
        BY <2>2, <2>5, <3>2, HandlingFacts DEF Needed
      <4>2. ~Exceeds(Total, k, Cost[handling.request]) \/ handling.overdue
        BY <2>1, <3>2, <4>1 DEF Counts, IsExceeded
      <4>3. ~handling.overdue
        BY <2>2, <2>5, <3>2, HandlingFacts DEF Needed
      <4>4. ~(Budget[Total] < cache[k] + Cost[handling.request])
        BY <2>5, <4>2, <4>3 DEF Exceeds
      <4>5. k \notin shared
        BY <2>5 DEF WorkerInv
      <4>6. cache[k] = ledger[k] /\ ledger'[k] = ledger[k] + Cost[handling.request]
        BY <2>2, <2>3, <2>5, <3>2, <4>5 DEF LedgerKept, Over, Grown
      <4>7. cache[k] \in Nat /\ Budget[Total] \in Nat /\ Cost[handling.request] \in Nat
        BY <2>2, <2>5, <3>2, CategoryAssumption, HandlingFacts DEF TypeOK, IsSums
      <4> QED BY <4>4, <4>6, <4>7
    <3> QED BY <3>1, <3>2
  <2> QED BY <2>3, <2>4, <2>5 DEF BudgetHolds
<1>4. ASSUME Decrement PROVE BudgetHolds'
  <2> DEFINE k == KeyOf(handling, "fulfilled")
  <2>1. k.category # Total
    BY <1>4, HandlingFacts DEF Decrement, Loaded
  <2>2. k \in DOMAIN ledger
    BY <1>4 DEF Decrement, Loaded, Needed, HandlingInv, SumInv
  <2>3. DOMAIN ledger' = DOMAIN ledger /\ \A x \in DOMAIN ledger : x # k => ledger'[x] = ledger[x]
    BY <1>4, <2>2 DEF Decrement, Over, One
  <2>4. lost' = lost
    BY <1>4 DEF Decrement, WriteUsageL2
  <2> QED BY <2>1, <2>3, <2>4 DEF BudgetHolds
<1>5. ASSUME RequestFails \/ L2Fails \/ CommitL1 \/ L1Committed \/ L1Fails \/ Start \/ MonthEnds
             \/ CommitL2 \/ Dispose \/ L2Committed \/ UNCHANGED vars
      PROVE  BudgetHolds'
  BY <1>0, <1>5 DEF RequestFails, L2Fails, CommitL1, L1Committed, L1Fails, Start, MonthEnds,
                    CommitL2, Dispose, L2Committed, vars
<1>6. ASSUME Exit \/ Crash PROVE BudgetHolds'
  BY <1>0, <1>6 DEF Exit, Crash, Gone
<1>7. ASSUME NEW w \in Workers, NEW r \in Requests, WorkerDecrements(w, r) PROVE BudgetHolds'
  <2>1. PICK k \in Keys, n \in Nat :
              /\ k.category # Total
              /\ ledger' = [Over(ledger, One(k, n)) EXCEPT ![k] = Less(@, Cost[r])]
    BY <1>7, WorkerFacts
  <2>2. DOMAIN ledger' = DOMAIN ledger \cup {k} /\ \A x \in DOMAIN ledger : x # k => ledger'[x] = ledger[x]
    BY <2>1 DEF Over, One
  <2>3. lost' = lost
    BY <1>7 DEF WorkerDecrements
  <2> QED BY <2>1, <2>2, <2>3 DEF BudgetHolds
<1>8. ASSUME NEW w \in Workers, WorkerCommits(w) \/ WorkerCrashes(w) PROVE BudgetHolds'
  BY <1>0, <1>8 DEF WorkerCommits, WorkerCrashes
<1> QED BY <1>1, <1>2, <1>3, <1>4, <1>5, <1>6, <1>7, <1>8 DEF Next

LEMMA InitInv == Init => IInv
<1> SUFFICES ASSUME Init PROVE IInv
  OBVIOUS
<1>1. SumInv /\ LedgerKept /\ BudgetHolds
  BY NoneSums DEF Init, SumInv, LedgerKept, BudgetHolds
<1>2. HandlingInv
  BY IdleFacts DEF Init, HandlingInv
<1>3. RecordedOnce
  BY DEF Init, RecordedOnce, Counted
<1>4. WorkerInv
  BY NoneSums DEF Init, WorkerInv
<1> QED BY <1>1, <1>2, <1>3, <1>4, InitType DEF IInv

LEMMA Inductive == IInv /\ [Next]_vars => IInv'
  BY StepType, StepHandling, StepWorker, StepLedger, StepBudget, StepRecorded DEF IInv

-----------------------------------------------------------------------------
(* The theorems *)

\* The state of the usage provider and its records has the types it is given.
THEOREM TypeCorrect == Spec => []TypeOK
<1>1. IInv => TypeOK
  BY DEF IInv
<1> QED BY InitInv, Inductive, <1>1, PTL DEF Spec

\* The sums in memory and in the database add up to what was counted, however
\* increments and commits interleave and whichever commits fail.
THEOREM LedgerIsKept == Spec => []LedgerKept
<1>1. IInv => LedgerKept
  BY DEF IInv
<1> QED BY InitInv, Inductive, <1>1, PTL DEF Spec

\* What increments permit in a month stays within the total budget.
THEOREM BudgetIsKept == Spec => []BudgetHolds
<1>1. IInv => BudgetHolds
  BY DEF IInv
<1> QED BY InitInv, Inductive, <1>1, PTL DEF Spec

\* Every decided increment has one record, in one place.
THEOREM RecordedOnceHolds == Spec => []RecordedOnce
<1>1. IInv => RecordedOnce
  BY DEF IInv
<1> QED BY InitInv, Inductive, <1>1, PTL DEF Spec

=============================================================================
