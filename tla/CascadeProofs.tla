--------------------------- MODULE CascadeProofs ---------------------------
(***************************************************************************)
(* Theorems about Cascade, for every set of nodes, every way they hold     *)
(* each other, every page size, any number of jobs for a node, and any     *)
(* number of requests, crashes and errors.                                 *)
(***************************************************************************)
EXTENDS Cascade, FiniteSetTheorems, TLAPS

\* Only nodes with a job or a request are touched, and they are all below what
\* requests deleted.
Touched == {n \in Nodes : \/ doc[n] \in {"soft", "erased"} \/ request[n] # "none"
                          \/ \E j \in Jobs : Target[j] = n /\ job[j] # "none"}

Contained ==
    \A A \in Closed : asked \subseteq A =>
       Touched \subseteq A /\ \A j \in Jobs : batch[j] \subseteq A

\* A job that has ended has erased its document or had an error, which is hidden if it
\* is not failed; a node that is not there yet is in nobody's hands.
Finished ==
    /\ \A j \in Jobs : job[j] = "ended" => doc[Target[j]] = "erased"
    /\ \A j \in Jobs : job[j] \in {"waiting", "completed"} => doc[Target[j]] = "erased" \/ error[j] = "hidden"
    /\ \A j \in Jobs : job[j] = "failed" => doc[Target[j]] = "erased" \/ error[j] # "none"
    /\ \A n \in adding : doc[n] = "none"
    /\ \A n \in Nodes : doc[n] = "none" =>
          /\ request[n] = "none"
          /\ \A j \in Jobs : n \notin batch[j] /\ (Target[j] = n => job[j] = "none")
    /\ \A j \in Jobs : \A n \in batch[j] : Target[j] \in Holders[n]

\* What a job found has a job below it, and all below a completed job are completed.
Settled ==
    /\ \A j \in Jobs : \A n \in found[j] : \E k \in Jobs : Parent[k] = j /\ Target[k] = n /\ job[k] # "none"
    /\ \A j \in Jobs : job[j] = "completed" => \A k \in Below(j) : job[k] \in {"none", "completed"}

LEMMA PageFacts == ASSUME NEW j \in Jobs
                   PROVE  Page(j) \subseteq Children(Target[j]) /\ Children(Target[j]) \subseteq Nodes
  BY DEF Page, Children

\* Queueing gives p a job for whatever of ns it has none for, and changes nothing else.
LEMMA QueuedFacts ==
    ASSUME TypeOK, NEW p, NEW ns \in SUBSET Nodes
    PROVE  /\ Queued(p, ns) \in [Jobs -> Statuses]
           /\ \A j \in Jobs : \/ Queued(p, ns)[j] = job[j]
                              \/ /\ job[j] = "none" /\ Queued(p, ns)[j] = "queued"
                                 /\ Parent[j] = p /\ Target[j] \in ns
           /\ \A n \in ns : Fresh(p, n) # {} => \E j \in Jobs :
                 Parent[j] = p /\ Target[j] = n /\ Queued(p, ns)[j] = "queued"
<1>1. \A n : Fresh(p, n) # {} => Pick(p, n) \in Fresh(p, n)
  BY DEF Pick
<1>2. \A n : \A j \in Fresh(p, n) : j \in Jobs /\ Parent[j] = p /\ Target[j] = n /\ job[j] = "none"
  BY DEF Fresh
<1>3. \A j \in Jobs : Queued(p, ns)[j] = IF \E n \in ns : Fresh(p, n) # {} /\ j = Pick(p, n)
                                          THEN "queued" ELSE job[j]
  BY DEF Queued
<1>4. \A j \in Jobs : \/ Queued(p, ns)[j] = job[j]
                      \/ /\ job[j] = "none" /\ Queued(p, ns)[j] = "queued"
                         /\ Parent[j] = p /\ Target[j] \in ns
  BY <1>1, <1>2, <1>3
<1>5. \A n \in ns : Fresh(p, n) # {} => \E j \in Jobs :
         Parent[j] = p /\ Target[j] = n /\ Queued(p, ns)[j] = "queued"
  BY <1>1, <1>2, <1>3
<1>6. Queued(p, ns) \in [Jobs -> Statuses]
  BY <1>4 DEF Queued, TypeOK, Statuses, Active, Working
<1> QED BY <1>4, <1>5, <1>6

\* What a run ends as.
LEMMA OutcomeFacts ==
    ASSUME NEW j \in Jobs, NEW given
    PROVE  /\ Outcome(j, given) \in {"failed", "waiting", given}
           /\ Outcome(j, given) = given /\ given # "failed" /\ given # "waiting" =>
                 \A k \in Below(j) : job[k] # "failed" /\ job[k] \notin Active
           /\ \A k \in Below(j) : job[k] = "failed" => Outcome(j, given) = "failed"
  BY DEF Outcome

\* The jobs above a job are the one that queued it and those above that.
LEMMA BelowFacts ==
    ASSUME NEW k \in Jobs
    PROVE  /\ Parent[k] = NoJob => \A j \in Jobs : k \notin Below(j)
           /\ Parent[k] # NoJob => /\ k \in Below(Parent[k])
                                   /\ \A j \in Jobs : k \in Below(j) => j = Parent[k] \/ Parent[k] \in Below(j)
  BY JobsAssumption DEF Below

-----------------------------------------------------------------------------

\* Every variable has a value of its type in all reachable states.
THEOREM TypeCorrect == Spec => []TypeOK
<1>0. MaxCrashes \in Nat /\ MaxErrors \in Nat
  BY CascadeAssumption
<1>1. Init => TypeOK
  BY <1>0 DEF Init, TypeOK, Statuses
<1>2. TypeOK /\ [Next]_vars => TypeOK'
  <2> SUFFICES ASSUME TypeOK, [Next]_vars PROVE TypeOK'
    OBVIOUS
  <2> USE DEF TypeOK
  <2>1. CASE UNCHANGED vars
    BY <2>1 DEF vars
  <2>2. ASSUME NEW n \in Nodes, Delete(n) PROVE TypeOK'
    BY <2>2 DEF Delete
  <2>3. ASSUME NEW n \in Nodes, Mark(n) PROVE TypeOK'
    BY <2>3 DEF Mark
  <2>4. ASSUME NEW n \in Nodes, Queue(n) PROVE TypeOK'
    <3>1. job' \in [Jobs -> Statuses]
      BY <2>4, QueuedFacts DEF Queue
    <3>2. request' \in [Nodes -> {"none", "queue", "mark"}]
      BY <2>4 DEF Queue
    <3> QED BY <2>4, <3>1, <3>2 DEF Queue
  <2>5. ASSUME NEW j \in Jobs, Start(j) PROVE TypeOK'
    BY <2>5 DEF Start, Statuses, Active, Working, Running
  <2>6. ASSUME NEW j \in Jobs, ReadPage(j) PROVE TypeOK'
    BY <2>6, PageFacts DEF ReadPage, Statuses, Active, Working, Running
  <2>7. ASSUME NEW j \in Jobs, QueuePage(j) PROVE TypeOK'
    <3>1. PICK queued \in {Queued(j, batch[j]), job} :
            job' = [queued EXCEPT ![j] = IF IsLast(Target[j], batch[j]) THEN "erasing" ELSE "paging"]
      BY <2>7 DEF QueuePage
    <3>2. job' \in [Jobs -> Statuses]
      BY <3>1, QueuedFacts DEF Statuses, Active, Working, Running
    <3>3. page' \in [Jobs -> Nat] /\ saves' \in [Jobs -> SUBSET Nat]
      BY <2>7 DEF QueuePage
    <3>4. found' \in [Jobs -> SUBSET Nodes] /\ batch' \in [Jobs -> SUBSET Nodes]
      BY <2>7 DEF QueuePage
    <3> QED BY <2>7, <3>2, <3>3, <3>4 DEF QueuePage
  <2>8. ASSUME NEW j \in Jobs, Erase(j) PROVE TypeOK'
    BY <2>8, JobsAssumption DEF Erase, Statuses, Active, Working, Running
  <2>9. ASSUME NEW j \in Jobs, NEW given \in {"completed", "failed"}, EndRun(j, given)
        PROVE  /\ job' \in [Jobs -> Statuses] /\ page' \in [Jobs -> Nat] /\ meta' \in [Jobs -> Nat]
               /\ saves' \in [Jobs -> SUBSET Nat] /\ batch' \in [Jobs -> SUBSET Nodes]
               /\ UNCHANGED <<doc, request, adding, asked, found>>
    BY <2>9, OutcomeFacts DEF EndRun, Statuses, Active
  <2>10. ASSUME NEW j \in Jobs, Complete(j) PROVE TypeOK'
    BY <2>9, <2>10 DEF Complete
  <2>11. ASSUME NEW j \in Jobs, Throw(j) PROVE TypeOK'
    <3>1. errors' \in 0..MaxErrors
      BY <2>11, <1>0 DEF Throw
    <3>2. lost' \subseteq Nodes /\ error' \in [Jobs -> {"none", "told", "hidden"}] /\ crashes' = crashes
      BY <2>11 DEF Throw
    <3> QED BY <2>9, <2>11, <3>1, <3>2 DEF Throw
  <2>12. ASSUME NEW j \in Jobs, Settle(j) PROVE TypeOK'
    BY <2>12, OutcomeFacts DEF Settle, Statuses, Active
  <2>13. ASSUME NEW j \in Jobs, FailDead(j) PROVE TypeOK'
    BY <2>9, <2>13 DEF FailDead
  <2>14. ASSUME NEW n \in Nodes, Look(n) PROVE TypeOK'
    BY <2>14 DEF Look
  <2>15. ASSUME NEW n \in Nodes, Insert(n) PROVE TypeOK'
    BY <2>15 DEF Insert
  <2>16. ASSUME NEW j \in Jobs, NEW p \in saves[j], SaveMeta(j, p) PROVE TypeOK'
    BY <2>16 DEF SaveMeta
  <2>17. ASSUME NEW j \in Jobs, WorkerDies(j) PROVE TypeOK'
    <3>1. crashes' \in 0..MaxCrashes
      BY <2>17, <1>0 DEF WorkerDies
    <3>2. lost' \subseteq Nodes
      BY <2>17 DEF WorkerDies
    <3>3. job' \in [Jobs -> Statuses]
      BY <2>17 DEF WorkerDies, Statuses, Active, Working
    <3> QED BY <2>17, <3>1, <3>2, <3>3 DEF WorkerDies
  <2>18. ASSUME NEW n \in Nodes, ServerDies(n) PROVE TypeOK'
    BY <2>18, <1>0 DEF ServerDies
  <2> QED BY <2>1, <2>2, <2>3, <2>4, <2>5, <2>6, <2>7, <2>8, <2>10, <2>11, <2>12, <2>13, <2>14, <2>15,
             <2>16, <2>17, <2>18
          DEF Next, Run, Disturb
<1> QED BY <1>1, <1>2, PTL DEF Spec

-----------------------------------------------------------------------------

\* Nothing is marked or erased but what requests deleted and what is below it.
THEOREM ErasesOnlyAsked == Spec => []OnlyAsked
<1>1. Init => Contained
  BY DEF Init, Contained, Touched
<1>2. TypeOK /\ Contained /\ [Next]_vars => Contained'
  <2> SUFFICES ASSUME TypeOK, Contained, [Next]_vars,
                      NEW A \in Closed, asked' \subseteq A
               PROVE  /\ Touched' \subseteq A
                      /\ \A i \in Jobs : batch'[i] \subseteq A
    BY DEF Contained, Closed
  <2> DEFINE Goal == Touched' \subseteq A /\ \A i \in Jobs : batch'[i] \subseteq A
  <2>1. asked \subseteq A => Touched \subseteq A /\ \A i \in Jobs : batch[i] \subseteq A
    BY DEF Contained
  \* Steps that touch no new node, and take no batch.
  <2>2. ASSUME asked' = asked, \A n \in Nodes : doc'[n] \in {"soft", "erased"} => n \in Touched,
               \A n \in Nodes : request'[n] # "none" => n \in Touched,
               \A i \in Jobs : /\ job'[i] # "none" => Target[i] \in Touched
                               /\ batch'[i] \subseteq batch[i]
        PROVE  Goal
    BY <2>1, <2>2 DEF Touched
  <2>3. /\ \A n \in Nodes : doc[n] \in {"soft", "erased"} \/ request[n] # "none" => n \in Touched
        /\ \A i \in Jobs : job[i] # "none" => Target[i] \in Touched
    BY JobsAssumption DEF Touched
  <2>4. CASE UNCHANGED vars
    BY <2>2, <2>3, <2>4 DEF vars
  <2>5. ASSUME NEW n \in Nodes, Delete(n) PROVE Goal
    BY <2>1, <2>5 DEF Delete, Touched, TypeOK
  <2>6. ASSUME NEW n \in Nodes, Mark(n) PROVE Goal
    <3>1. request[n] = "mark"
      BY <2>6 DEF Mark
    <3> QED BY <2>2, <2>3, <2>6, <3>1 DEF Mark, TypeOK
  <2>7. ASSUME NEW n \in Nodes, Queue(n) PROVE Goal
    <3>1. n \in Touched
      BY <2>3, <2>7 DEF Queue
    <3>2. \A i \in Jobs : job'[i] # "none" => Target[i] \in Touched
      BY <2>3, <2>7, <3>1, QueuedFacts DEF Queue
    <3>3. asked' = asked /\ batch' = batch /\ doc' = doc /\ \A c \in Nodes : request'[c] # "none" => c \in Touched
      BY <2>3, <2>7, <3>1 DEF Queue, TypeOK
    <3> QED BY <2>2, <2>3, <3>2, <3>3
  <2>8. ASSUME NEW j \in Jobs, Start(j) PROVE Goal
    BY <2>2, <2>3, <2>8 DEF Start, TypeOK
  <2>9. ASSUME NEW j \in Jobs, ReadPage(j) PROVE Goal
    <3>1. asked' = asked /\ request' = request /\ \A i \in Jobs : batch'[i] = batch[i] \/ batch'[i] = Page(j)
      BY <2>9 DEF ReadPage, TypeOK
    <3>2. Target[j] \in A
      BY <2>1, <2>3, <2>9, <3>1 DEF ReadPage
    <3>3. Page(j) \subseteq A
      BY <3>2, PageFacts DEF Children, Closed
    <3>4. \A i \in Jobs : job'[i] # "none" => job[i] # "none"
      BY <2>9 DEF ReadPage, TypeOK
    <3>5. \A c \in Nodes : doc'[c] = doc[c] \/ c \in Page(j)
      BY <2>9 DEF ReadPage, TypeOK
    <3> QED BY <2>1, <3>1, <3>3, <3>4, <3>5 DEF Touched
  <2>10. ASSUME NEW j \in Jobs, QueuePage(j) PROVE Goal
    <3>1. asked' = asked /\ request' = request /\ doc' = doc
      BY <2>10 DEF QueuePage
    <3>2. \A i \in Jobs : batch'[i] \subseteq batch[i]
      BY <2>10 DEF QueuePage, TypeOK
    <3>3. \A i \in Jobs : job'[i] # "none" => job[i] # "none" \/ Target[i] \in batch[j]
      <4>1. PICK queued \in {Queued(j, batch[j]), job} :
              job' = [queued EXCEPT ![j] = IF IsLast(Target[j], batch[j]) THEN "erasing" ELSE "paging"]
        BY <2>10 DEF QueuePage
      <4>2. job[j] # "none" /\ batch[j] \in SUBSET Nodes
        BY <2>10 DEF QueuePage, TypeOK
      <4> QED BY <4>1, <4>2, QueuedFacts DEF TypeOK
    <3> QED BY <2>1, <3>1, <3>2, <3>3 DEF Touched
  <2>11. ASSUME NEW j \in Jobs, Erase(j) PROVE Goal
    <3>1. Target[j] \in Touched
      BY <2>3, <2>11 DEF Erase
    <3> QED BY <2>2, <2>3, <2>11, <3>1 DEF Erase, TypeOK
  <2>12. ASSUME NEW j \in Jobs, Complete(j) \/ Throw(j) \/ FailDead(j) PROVE Goal
    <3>1. UNCHANGED <<asked, doc, request>> /\ job[j] # "none"
      BY <2>12 DEF Complete, Throw, FailDead, EndRun, Running
    <3>2. \A i \in Jobs : batch'[i] \subseteq batch[i] /\ (job'[i] # "none" => job[i] # "none")
      BY <2>12, <3>1 DEF Complete, Throw, FailDead, EndRun, TypeOK
    <3> QED BY <2>2, <2>3, <3>1, <3>2
  <2>13. ASSUME NEW j \in Jobs, Settle(j) PROVE Goal
    BY <2>2, <2>3, <2>13 DEF Settle, TypeOK
  <2>14. ASSUME NEW n \in Nodes, Look(n) PROVE Goal
    BY <2>2, <2>3, <2>14 DEF Look
  <2>15. ASSUME NEW n \in Nodes, Insert(n) PROVE Goal
    BY <2>2, <2>3, <2>15 DEF Insert, TypeOK
  <2>16. ASSUME NEW j \in Jobs, NEW p \in saves[j], SaveMeta(j, p) PROVE Goal
    BY <2>2, <2>3, <2>16 DEF SaveMeta
  <2>17. ASSUME NEW j \in Jobs, WorkerDies(j) PROVE Goal
    <3>1. UNCHANGED <<asked, doc, request>> /\ job[j] # "none"
      BY <2>17 DEF WorkerDies, Running
    <3>2. \A i \in Jobs : batch'[i] \subseteq batch[i] /\ (job'[i] # "none" => job[i] # "none")
      BY <2>17, <3>1 DEF WorkerDies, TypeOK
    <3> QED BY <2>2, <2>3, <3>1, <3>2
  <2>18. ASSUME NEW n \in Nodes, ServerDies(n) PROVE Goal
    BY <2>2, <2>3, <2>18 DEF ServerDies, TypeOK
  <2> QED BY <2>4, <2>5, <2>6, <2>7, <2>8, <2>9, <2>10, <2>11, <2>12, <2>13, <2>14, <2>15, <2>16, <2>17, <2>18
          DEF Next, Run, Disturb
<1>3. Contained => OnlyAsked
  BY DEF Contained, OnlyAsked, Touched
<1> QED BY <1>1, <1>2, <1>3, TypeCorrect, PTL DEF Spec

-----------------------------------------------------------------------------

LEMMA AlwaysFinished == Spec => []Finished
<1>1. Init => Finished
  BY DEF Init, Finished
<1>2. TypeOK /\ Finished /\ [Next]_vars => Finished'
  <2> SUFFICES ASSUME TypeOK, Finished, [Next]_vars PROVE Finished'
    OBVIOUS
  <2> USE JobsAssumption DEF Finished
  <2>1. CASE UNCHANGED vars
    BY <2>1 DEF vars
  <2>2. ASSUME NEW n \in Nodes, Delete(n) PROVE Finished'
    BY <2>2 DEF Delete, TypeOK
  <2>3. ASSUME NEW n \in Nodes, Mark(n) PROVE Finished'
    BY <2>3 DEF Mark, TypeOK
  <2>4. ASSUME NEW n \in Nodes, Queue(n) PROVE Finished'
    <3>1. doc[n] # "none" /\ UNCHANGED <<doc, batch, error, adding>>
      BY <2>4 DEF Queue
    <3>2. \A j \in Jobs : job'[j] = job[j] \/ (job'[j] = "queued" /\ Target[j] = n)
      BY <2>4, QueuedFacts DEF Queue
    <3>3. \A c \in Nodes : doc[c] = "none" => request'[c] = request[c]
      BY <2>4, <3>1 DEF Queue, TypeOK
    <3> QED BY <3>1, <3>2, <3>3
  <2>5. ASSUME NEW j \in Jobs, Start(j) PROVE Finished'
    BY <2>5 DEF Start, TypeOK
  <2>6. ASSUME NEW j \in Jobs, ReadPage(j) PROVE Finished'
    <3>1. \A c \in Nodes : doc'[c] = doc[c] \/ (doc[c] = "live" /\ doc'[c] = "soft")
      BY <2>6, PageFacts DEF ReadPage, Children
    <3>2. \A c \in Page(j) : doc[c] = "live" /\ Target[j] \in Holders[c]
      BY PageFacts DEF Children
    <3>3. /\ UNCHANGED <<request, error, adding>> /\ job[j] = "paging" /\ job'[j] = "paged"
          /\ \A i \in Jobs : i # j => job'[i] = job[i] /\ batch'[i] = batch[i]
          /\ batch'[j] = Page(j)
      BY <2>6 DEF ReadPage, TypeOK
    <3>4. \A c \in Nodes : doc'[c] = "none" => doc[c] = "none" /\ c \notin Page(j) /\ c # Target[j]
      BY <3>1, <3>2, <3>3
    <3>5. \A i \in Jobs : job'[i] \in {"ended", "waiting", "completed", "failed"} \/ job[i] = "none" => job'[i] = job[i]
      BY <3>3
    <3>6. \A i \in Jobs : Target[i] \in Nodes /\ (doc[Target[i]] = "erased" => doc'[Target[i]] = "erased")
      BY <3>1
    <3>7. \A c \in Nodes : doc'[c] = "none" =>
             request'[c] = "none" /\ \A i \in Jobs : c \notin batch'[i] /\ (Target[i] = c => job'[i] = "none")
      BY <3>3, <3>4
    <3>8. \A i \in Jobs : \A c \in batch'[i] : Target[i] \in Holders[c]
      BY <3>2, <3>3
    <3>9. \A c \in adding' : doc'[c] = "none"
      BY <3>1, <3>3 DEF TypeOK
    <3> QED BY <3>3, <3>5, <3>6, <3>7, <3>8, <3>9
  <2>7. ASSUME NEW j \in Jobs, QueuePage(j) PROVE Finished'
    <3>1. UNCHANGED <<doc, request, error, adding>> /\ batch[j] \in SUBSET Nodes /\ job[j] = "paged"
      BY <2>7 DEF QueuePage, TypeOK
    <3>2. \A i \in Jobs : batch'[i] \subseteq batch[i]
      BY <2>7 DEF QueuePage, TypeOK
    <3>3. PICK queued \in {Queued(j, batch[j]), job} :
            job' = [queued EXCEPT ![j] = IF IsLast(Target[j], batch[j]) THEN "erasing" ELSE "paging"]
      BY <2>7 DEF QueuePage
    <3>4. \A i \in Jobs : i # j => job'[i] = job[i] \/ (job'[i] = "queued" /\ Target[i] \in batch[j])
      BY <3>1, <3>3, QueuedFacts
    <3>5. job'[j] \in {"erasing", "paging"}
      BY <3>1, <3>3, QueuedFacts DEF TypeOK
    <3> QED BY <3>1, <3>2, <3>4, <3>5
  <2>8. ASSUME NEW j \in Jobs, Erase(j) PROVE Finished'
    BY <2>8 DEF Erase, TypeOK
  <2>9. ASSUME NEW j \in Jobs, Complete(j) PROVE Finished'
    <3>1. UNCHANGED <<doc, request, error, adding>> /\ doc[Target[j]] = "erased"
      BY <2>9 DEF Complete, EndRun
    <3>2. \A i \in Jobs : batch'[i] \subseteq batch[i] /\ (i # j => job'[i] = job[i])
      BY <2>9 DEF Complete, EndRun, TypeOK
    <3>3. job'[j] \in {"failed", "waiting", "completed"}
      BY <2>9, OutcomeFacts DEF Complete, EndRun, TypeOK
    <3> QED BY <3>1, <3>2, <3>3
  <2>10. ASSUME NEW j \in Jobs, Throw(j) \/ FailDead(j) PROVE Finished'
    <3>1. UNCHANGED <<doc, request, adding>> /\ job[j] # "none"
      BY <2>10 DEF Throw, FailDead, EndRun, Running
    <3>2. \A i \in Jobs : batch'[i] \subseteq batch[i] /\ (i # j => job'[i] = job[i] /\ error'[i] = error[i])
      BY <2>10 DEF Throw, FailDead, EndRun, TypeOK
    <3>3. \/ job'[j] = "failed" /\ error'[j] # "none"
          \/ job'[j] = "waiting" /\ error'[j] = "hidden"
      <4>1. CASE Throw(j)
        BY <4>1, OutcomeFacts DEF Throw, EndRun, TypeOK
      <4>2. CASE FailDead(j)
        <5>1. PICK k \in Jobs : Parent[k] = j /\ job[k] = "failed"
          BY <4>2 DEF FailDead
        <5>2. Outcome(j, "failed") = "failed"
          BY <5>1, BelowFacts, OutcomeFacts
        <5> QED BY <4>2, <5>2 DEF FailDead, EndRun, TypeOK
      <4> QED BY <2>10, <4>1, <4>2
    <3>4. \A i \in Jobs : job'[i] = job[i] \/ i = j
      BY <3>2
    <3>5. \A i \in Jobs : /\ job'[i] = "ended" => doc'[Target[i]] = "erased"
                          /\ job'[i] \in {"waiting", "completed"} => doc'[Target[i]] = "erased" \/ error'[i] = "hidden"
                          /\ job'[i] = "failed" => doc'[Target[i]] = "erased" \/ error'[i] # "none"
      BY <3>1, <3>2, <3>3
    <3>6. \A n \in Nodes : doc'[n] = "none" =>
             request'[n] = "none" /\ \A i \in Jobs : n \notin batch'[i] /\ (Target[i] = n => job'[i] = "none")
      BY <3>1, <3>2, <3>4
    <3>7. /\ \A n \in adding' : doc'[n] = "none"
          /\ \A i \in Jobs : \A n \in batch'[i] : Target[i] \in Holders[n]
      BY <3>1, <3>2
    <3> QED BY <3>5, <3>6, <3>7
  <2>11. ASSUME NEW j \in Jobs, Settle(j) PROVE Finished'
    <3>1. UNCHANGED <<doc, request, adding, error, batch>> /\ job[j] = "waiting"
      BY <2>11 DEF Settle
    <3>2. job'[j] \in {"failed", "completed"} /\ \A i \in Jobs : i # j => job'[i] = job[i]
      BY <2>11, OutcomeFacts DEF Settle, TypeOK
    <3> QED BY <3>1, <3>2
  <2>12. ASSUME NEW n \in Nodes, Look(n) PROVE Finished'
    BY <2>12 DEF Look
  <2>13. ASSUME NEW n \in Nodes, Insert(n) PROVE Finished'
    BY <2>13 DEF Insert, TypeOK
  <2>14. ASSUME NEW j \in Jobs, NEW p \in saves[j], SaveMeta(j, p) PROVE Finished'
    BY <2>14 DEF SaveMeta
  <2>15. ASSUME NEW j \in Jobs, WorkerDies(j) PROVE Finished'
    <3>1. UNCHANGED <<doc, request, adding, error>> /\ job[j] # "none"
      BY <2>15 DEF WorkerDies, Running
    <3>2. \A i \in Jobs : batch'[i] \subseteq batch[i] /\ (i # j => job'[i] = job[i])
      BY <2>15 DEF WorkerDies, TypeOK
    <3>3. job'[j] = "queued"
      BY <2>15 DEF WorkerDies, TypeOK
    <3> QED BY <3>1, <3>2, <3>3
  <2>16. ASSUME NEW n \in Nodes, ServerDies(n) PROVE Finished'
    BY <2>16 DEF ServerDies, TypeOK
  <2> QED BY <2>1, <2>2, <2>3, <2>4, <2>5, <2>6, <2>7, <2>8, <2>9, <2>10, <2>11, <2>12, <2>13, <2>14, <2>15, <2>16
          DEF Next, Run, Disturb
<1> QED BY <1>1, <1>2, TypeCorrect, PTL DEF Spec

\* A step that gives no job to be done, completes none, and queues nothing.
LEMMA SettledKept ==
    ASSUME Settled, found' = found,
           \A i \in Jobs : /\ job[i] # "none" => job'[i] # "none"
                           /\ job'[i] = "completed" => job[i] = "completed"
                           /\ job[i] \in {"none", "completed"} => job'[i] = job[i]
    PROVE  Settled'
BY DEF Settled, Below

LEMMA AlwaysSettled == ~SameInstant => (Spec => []Settled)
<1> SUFFICES ASSUME ~SameInstant PROVE Spec => []Settled
  OBVIOUS
<1>1. Init => Settled
  BY DEF Init, Settled
<1>2. TypeOK /\ Finished /\ Settled /\ [Next]_vars => Settled'
  <2> SUFFICES ASSUME TypeOK, Finished, Settled, [Next]_vars PROVE Settled'
    OBVIOUS
  <2>1. CASE UNCHANGED vars
    BY <2>1, SettledKept DEF vars
  <2>2. ASSUME NEW n \in Nodes, Delete(n) \/ Mark(n) \/ Look(n) \/ Insert(n) \/ ServerDies(n) PROVE Settled'
    <3>1. job' = job /\ found' = found
      BY <2>2 DEF Delete, Mark, Look, Insert, ServerDies
    <3> QED BY <3>1, SettledKept
  <2>3. ASSUME NEW n \in Nodes, Queue(n) PROVE Settled'
    <3>1. found' = found /\ \A j \in Jobs : job'[j] = job[j] \/ (job[j] = "none" /\ job'[j] = "queued" /\ Parent[j] = NoJob)
      BY <2>3, QueuedFacts DEF Queue, Coincides
    <3>2. ASSUME NEW j \in Jobs, job'[j] = "completed", NEW k \in Below(j) PROVE job'[k] \in {"none", "completed"}
      BY <3>1, <3>2, BelowFacts DEF Settled, Below
    <3>3. ASSUME NEW j \in Jobs, NEW n1 \in found'[j]
          PROVE  \E k \in Jobs : Parent[k] = j /\ Target[k] = n1 /\ job'[k] # "none"
      BY <3>1, <3>3 DEF Settled
    <3> QED BY <3>2, <3>3 DEF Settled, Below
  <2>4. ASSUME NEW j \in Jobs, Start(j) \/ ReadPage(j) \/ Erase(j) \/ Throw(j) \/ FailDead(j) \/ WorkerDies(j)
        PROVE  Settled'
    <3>1. found' = found /\ job[j] \in Working /\ \A i \in Jobs : i # j => job'[i] = job[i]
      BY <2>4 DEF Start, ReadPage, Erase, Throw, FailDead, WorkerDies, EndRun, Working, Running, TypeOK
    <3>2. job'[j] \in Working \cup {"failed", "waiting"}
      BY <2>4, OutcomeFacts DEF Start, ReadPage, Erase, Throw, FailDead, WorkerDies, EndRun, Working, Running, TypeOK
    <3> QED BY <3>1, <3>2, SettledKept DEF Working, Running
  <2>5. ASSUME NEW j \in Jobs, Complete(j) \/ Settle(j) PROVE Settled'
    <3>1. /\ found' = found /\ job[j] \in {"ended", "waiting"}
          /\ job'[j] = Outcome(j, "completed") /\ \A i \in Jobs : i # j => job'[i] = job[i]
      BY <2>5 DEF Complete, Settle, EndRun, TypeOK
    <3>2. job'[j] \in {"failed", "waiting", "completed"}
      BY <3>1, OutcomeFacts
    <3>3. ASSUME job'[j] = "completed", NEW k \in Below(j) PROVE job'[k] \in {"none", "completed"}
      <4>1. job[k] # "failed" /\ job[k] \notin Active
        BY <3>1, <3>3, OutcomeFacts
      <4> QED BY <3>1, <3>3, <4>1 DEF TypeOK, Statuses, Below
    <3>4. ASSUME NEW i \in Jobs, i # j, job'[i] = "completed", NEW k \in Below(i) PROVE job'[k] \in {"none", "completed"}
      BY <3>1, <3>4 DEF Settled, Below
    <3>5. ASSUME NEW i \in Jobs, NEW n \in found'[i]
          PROVE  \E k \in Jobs : Parent[k] = i /\ Target[k] = n /\ job'[k] # "none"
      BY <3>1, <3>2, <3>5 DEF Settled
    <3> QED BY <3>3, <3>4, <3>5 DEF Settled, Below
  <2>6. ASSUME NEW j \in Jobs, QueuePage(j) PROVE Settled'
    <3> DEFINE next == IF IsLast(Target[j], batch[j]) THEN "erasing" ELSE "paging"
    <3>1. /\ job' = [Queued(j, batch[j]) EXCEPT ![j] = next] /\ next \in {"erasing", "paging"}
          /\ job[j] = "paged" /\ batch[j] \in SUBSET Nodes
      BY <2>6 DEF QueuePage, Coincides, TypeOK
    <3> HIDE DEF next
    <3>2. /\ job'[j] \in {"erasing", "paging"}
          /\ \A i \in Jobs : i # j => job'[i] = job[i] \/ (job[i] = "none" /\ job'[i] = "queued" /\ Parent[i] = j)
      BY <3>1, QueuedFacts
    <3>3. \A i \in Jobs : found'[i] = IF i = j THEN found[j] \cup batch[j] ELSE found[i]
      BY <2>6 DEF QueuePage, TypeOK
    <3>4. ASSUME NEW n \in batch[j] PROVE \E k \in Jobs : Parent[k] = j /\ Target[k] = n /\ job'[k] # "none"
      <4>1. CASE Fresh(j, n) # {}
        <5>1. PICK k \in Jobs : Parent[k] = j /\ Target[k] = n /\ Queued(j, batch[j])[k] = "queued"
          BY <3>1, <4>1, QueuedFacts
        <5>2. job'[k] # "none"
          BY <3>1, <5>1, QueuedFacts
        <5> QED BY <5>1, <5>2
      <4>2. CASE Fresh(j, n) = {}
        <5>1. PICK k \in Jobs : Parent[k] = j /\ Target[k] = n
          BY <3>1, JobsAssumption DEF Finished
        <5>2. job[k] # "none"
          BY <4>2, <5>1 DEF Fresh
        <5> QED BY <3>2, <5>1, <5>2
      <4> QED BY <4>1, <4>2
    <3>5. ASSUME NEW i \in Jobs, NEW n \in found'[i]
          PROVE  \E k \in Jobs : Parent[k] = i /\ Target[k] = n /\ job'[k] # "none"
      <4>1. CASE n \in found[i]
        BY <3>2, <4>1 DEF Settled
      <4>2. CASE n \notin found[i]
        BY <3>3, <3>4, <3>5, <4>2
      <4> QED BY <4>1, <4>2
    <3>6. ASSUME NEW i \in Jobs, job'[i] = "completed", NEW k \in Below(i) PROVE job'[k] \in {"none", "completed"}
      <4>1. job[i] = "completed" /\ i # j /\ k \in Jobs
        BY <3>2, <3>6 DEF Below
      <4>2. job[k] \in {"none", "completed"} /\ k # j
        BY <3>1, <4>1, <3>6 DEF Settled
      <4>3. Parent[k] # j
        <5>1. ASSUME Parent[k] = j PROVE FALSE
          <6>1. j \in Below(i)
            BY <4>1, <5>1, <3>6, BelowFacts, JobsAssumption
          <6> QED BY <3>1, <4>1, <6>1 DEF Settled
        <5> QED BY <5>1
      <4> QED BY <3>2, <4>1, <4>2, <4>3
    <3> QED BY <3>5, <3>6 DEF Settled, Below
  <2>7. ASSUME NEW j \in Jobs, NEW p \in saves[j], SaveMeta(j, p) PROVE Settled'
    <3>1. job' = job /\ found' = found
      BY <2>7 DEF SaveMeta
    <3> QED BY <3>1, SettledKept
  <2> QED BY <2>1, <2>2, <2>3, <2>4, <2>5, <2>6, <2>7 DEF Next, Run, Disturb
<1> QED BY <1>1, <1>2, TypeCorrect, AlwaysFinished, PTL DEF Spec

\* A completed job, and everything it found, is erased, unless an error was hidden, if
\* no job is lost to one of the same instant: whatever throws, and whoever dies.
THEOREM CompletionIsErasure == ~SameInstant => (Spec => []CompletedMeansErased)
<1> SUFFICES ASSUME ~SameInstant PROVE Spec => []CompletedMeansErased
  OBVIOUS
<1>1. TypeOK /\ Finished /\ Settled => CompletedMeansErased
  <2> SUFFICES ASSUME TypeOK, Finished, Settled, NEW j \in Jobs, job[j] = "completed",
                      NEW n \in {Target[j]} \cup found[j]
               PROVE  \/ doc[n] = "erased"
                      \/ \E k \in {j} \cup Below(j) : Target[k] = n /\ error[k] = "hidden"
    BY DEF CompletedMeansErased
  <2>1. CASE n = Target[j]
    BY <2>1 DEF Finished
  <2>2. CASE n \in found[j]
    <3>1. PICK k \in Jobs : Parent[k] = j /\ Target[k] = n /\ job[k] # "none"
      BY <2>2 DEF Settled
    <3>2. k \in Below(j)
      BY <3>1, BelowFacts, JobsAssumption
    <3>3. job[k] = "completed"
      BY <3>1, <3>2 DEF Settled
    <3> QED BY <3>1, <3>2, <3>3 DEF Finished
  <2> QED BY <2>1, <2>2
<1> QED BY <1>1, AlwaysFinished, AlwaysSettled, TypeCorrect, PTL

-----------------------------------------------------------------------------
(* What was in a folder that is erased: its only page was read and queued   *)
(* before any page but the first was named, in the job or in its document.  *)

\* What is left is in the hands of a job of its own, or an error stopped one.
Covered(n) == \E k \in Jobs : Target[k] = n /\ (job[k] \in Working \/ error[k] # "none")

\* Whatever is left of what h holds is covered.
Past(h) == \A n \in Nodes : h \in Holders[n] /\ doc[n] = "live" => Covered(n)

FoundBy(j) ==
    /\ 0 \notin saves[j]
    /\ job[j] = "none" => meta[j] = 0 /\ saves[j] = {}
    /\ job[j] \in Working /\ (meta[j] # 0 \/ saves[j] # {}) => Past(Target[j])
    /\ job[j] \in {"paging", "paged"} /\ page[j] # 0 => Past(Target[j])
    /\ job[j] = "paged" => \A n \in Nodes :
          Target[j] \in Holders[n] /\ doc[n] = "live" => Covered(n) \/ n \in batch[j]
    /\ job[j] \in {"erasing", "ended"} => Past(Target[j])

AllFound ==
    /\ \A j \in Jobs : OfOnePage(Target[j]) => FoundBy(j)
    /\ \A h \in Nodes : OfOnePage(h) /\ doc[h] = "erased" => Past(h)

\* A page of a folder of one page is all its children.
LEMMA FirstPage ==
    ASSUME IsFiniteSet(Nodes), NEW j \in Jobs, OfOnePage(Target[j]), page[j] = 0
    PROVE  Children(Target[j]) \subseteq Page(j)
<1> DEFINE h == Target[j]
           Before(c) == {d \in Children(h) : d < c}
<1>1. IsFiniteSet(Children(h)) /\ Cardinality(Children(h)) <= PageSize
  <2>1. Children(h) \subseteq {n \in Nodes : h \in Holders[n]} /\ {n \in Nodes : h \in Holders[n]} \subseteq Nodes
    BY DEF Children
  <2>2. IsFiniteSet({n \in Nodes : h \in Holders[n]})
    BY <2>1, FS_Subset
  <2>3. IsFiniteSet(Children(h)) /\ Cardinality(Children(h)) <= Cardinality({n \in Nodes : h \in Holders[n]})
    BY <2>1, <2>2, FS_Subset
  <2> QED BY <2>2, <2>3, FS_CardinalityType, CascadeAssumption DEF OfOnePage
<1>2. ASSUME NEW c \in Children(h) PROVE Cardinality(Before(c)) \in Nat /\ Cardinality(Before(c)) < PageSize
  <2>1. c \in Nat
    BY CascadeAssumption DEF Children
  <2>2. Before(c) \subseteq Children(h) /\ Before(c) # Children(h)
    BY <2>1
  <2> HIDE DEF Before
  <2>3. /\ IsFiniteSet(Before(c)) /\ Cardinality(Before(c)) <= Cardinality(Children(h))
        /\ Cardinality(Before(c)) # Cardinality(Children(h))
    BY <1>1, <2>2, FS_Subset
  <2>4. Cardinality(Before(c)) \in Nat /\ Cardinality(Children(h)) \in Nat
    BY <1>1, <2>3, FS_CardinalityType
  <2> QED BY <1>1, <2>3, <2>4, CascadeAssumption
<1>3. page[j] * PageSize = 0 /\ (page[j] + 1) * PageSize = PageSize
  BY CascadeAssumption
<1> QED BY <1>2, <1>3 DEF Page

\* What is erased stays so, and what has a job to be done keeps it, is stopped by an
\* error, or is no longer there.
LEMMA StepFacts ==
    ASSUME TypeOK, Finished, [Next]_vars
    PROVE  /\ \A n \in Nodes : doc[n] = "erased" => doc'[n] = "erased"
           /\ \A k \in Jobs : /\ error[k] # "none" => error'[k] # "none"
                              /\ job[k] \in Working => \/ job'[k] \in Working \/ error'[k] # "none"
                                                       \/ doc'[Target[k]] = "erased"
<1> USE JobsAssumption
<1>1. CASE UNCHANGED vars
  BY <1>1 DEF vars
<1>2. ASSUME NEW n \in Nodes, Delete(n) \/ Look(n) \/ ServerDies(n) \/ Mark(n) \/ Insert(n)
      PROVE  /\ UNCHANGED <<job, error>>
             /\ \A c \in Nodes : doc[c] = "erased" => doc'[c] = "erased"
  BY <1>2 DEF Delete, Look, ServerDies, Mark, Insert, TypeOK, Finished
<1>3. ASSUME NEW n \in Nodes, Queue(n)
      PROVE  UNCHANGED <<doc, error>> /\ \A k \in Jobs : job[k] \in Working => job'[k] = job[k]
  BY <1>3, QueuedFacts DEF Queue, Working, Running
<1>4. ASSUME NEW j \in Jobs, Start(j) \/ WorkerDies(j)
      PROVE  UNCHANGED <<doc, error>> /\ \A k \in Jobs : job[k] \in Working => job'[k] \in Working
  BY <1>4 DEF Start, WorkerDies, Working, Running, TypeOK
<1>5. ASSUME NEW j \in Jobs, ReadPage(j)
      PROVE  /\ UNCHANGED error /\ \A k \in Jobs : job[k] \in Working => job'[k] \in Working
             /\ \A c \in Nodes : doc[c] = "erased" => doc'[c] = "erased"
  <2>1. \A c \in Page(j) : doc[c] = "live"
    BY PageFacts DEF Children
  <2> QED BY <1>5, <2>1 DEF ReadPage, Working, Running, TypeOK
<1>6. ASSUME NEW j \in Jobs, QueuePage(j)
      PROVE  UNCHANGED <<doc, error>> /\ \A k \in Jobs : job[k] \in Working => job'[k] \in Working
  <2>1. batch[j] \in SUBSET Nodes
    BY DEF TypeOK
  <2>2. PICK queued \in {Queued(j, batch[j]), job} :
          job' = [queued EXCEPT ![j] = IF IsLast(Target[j], batch[j]) THEN "erasing" ELSE "paging"]
    BY <1>6 DEF QueuePage
  <2>3. queued \in [Jobs -> Statuses] /\ \A k \in Jobs : queued[k] = job[k] \/ job[k] = "none"
    BY <2>1, <2>2, QueuedFacts DEF TypeOK
  <2>4. \A k \in Jobs : k # j => job'[k] = queued[k]
    BY <2>2, <2>3
  <2>5. job'[j] \in {"erasing", "paging"}
    BY <2>2, <2>3
  <2> QED BY <1>6, <2>3, <2>4, <2>5 DEF QueuePage, Working, Running
<1>7. ASSUME NEW j \in Jobs, Erase(j)
      PROVE  /\ UNCHANGED error /\ \A k \in Jobs : job[k] \in Working => job'[k] \in Working
             /\ \A c \in Nodes : doc[c] = "erased" => doc'[c] = "erased"
  BY <1>7 DEF Erase, Working, Running, TypeOK
<1>8. ASSUME NEW j \in Jobs, Complete(j)
      PROVE  /\ UNCHANGED <<doc, error>> /\ doc[Target[j]] = "erased"
             /\ \A k \in Jobs : k # j => job'[k] = job[k]
  BY <1>8 DEF Complete, EndRun, TypeOK, Finished
<1>9. ASSUME NEW j \in Jobs, Throw(j) \/ FailDead(j)
      PROVE  /\ UNCHANGED doc /\ error'[j] # "none"
             /\ \A k \in Jobs : k # j => job'[k] = job[k] /\ error'[k] = error[k]
  BY <1>9 DEF Throw, FailDead, EndRun, TypeOK
<1>10. ASSUME NEW j \in Jobs, Settle(j)
       PROVE  UNCHANGED <<doc, error>> /\ \A k \in Jobs : job[k] \in Working => job'[k] = job[k]
  BY <1>10 DEF Settle, TypeOK, Working, Running
<1>11. ASSUME NEW j \in Jobs, NEW p \in saves[j], SaveMeta(j, p) PROVE UNCHANGED <<doc, error, job>>
  BY <1>11 DEF SaveMeta
<1>12. ASSUME NEW j \in Jobs, Run(j) \/ Settle(j) \/ Disturb(j)
       PROVE  /\ \A n \in Nodes : doc[n] = "erased" => doc'[n] = "erased"
              /\ \A k \in Jobs : /\ error[k] # "none" => error'[k] # "none"
                                 /\ job[k] \in Working => \/ job'[k] \in Working \/ error'[k] # "none"
                                                          \/ doc'[Target[k]] = "erased"
  BY <1>4, <1>5, <1>6, <1>7, <1>8, <1>9, <1>10, <1>12 DEF Run, Disturb
<1>13. CASE Next
  BY <1>2, <1>3, <1>11, <1>12, <1>13 DEF Next
<1> QED BY <1>1, <1>13

LEMMA CoverKept ==
    ASSUME TypeOK, Finished, [Next]_vars, NEW n \in Nodes, doc'[n] = "live", Covered(n)
    PROVE  Covered(n)'
<1>1. PICK k \in Jobs : Target[k] = n /\ (job[k] \in Working \/ error[k] # "none")
  BY DEF Covered
<1>2. job'[k] \in Working \/ error'[k] # "none"
  BY <1>1, StepFacts
<1> QED BY <1>1, <1>2 DEF Covered

LEMMA PastKept ==
    ASSUME TypeOK, Finished, [Next]_vars, NEW h \in Nodes, Past(h),
           \A n \in Nodes : h \in Holders[n] /\ doc'[n] = "live" => doc[n] = "live"
    PROVE  Past(h)'
BY CoverKept DEF Past

\* Steps that name no page of j, and put nothing in what it deletes.
LEMMA FoundKept ==
    ASSUME TypeOK, Finished, [Next]_vars, NEW j \in Jobs, FoundBy(j),
           job'[j] = job[j] \/ (job[j] = "none" /\ job'[j] = "queued"),
           job[j] # "none" => page'[j] = page[j] /\ batch'[j] = batch[j],
           meta'[j] = meta[j], saves'[j] = saves[j],
           \A n \in Nodes : Target[j] \in Holders[n] /\ doc'[n] = "live" => doc[n] = "live"
    PROVE  FoundBy(j)'
<1>1. Past(Target[j]) => Past(Target[j])'
  BY PastKept, JobsAssumption
<1>2. \A n \in Nodes : doc'[n] = "live" /\ Covered(n) => Covered(n)'
  BY CoverKept
<1>3. CASE job[j] = "none"
  BY <1>3 DEF FoundBy, Working, Running
<1>4. CASE job[j] # "none"
  <2>1. job'[j] = job[j] /\ page'[j] = page[j] /\ batch'[j] = batch[j]
    BY <1>4
  <2>2. job'[j] = "paged" => \A n \in Nodes :
           Target[j] \in Holders[n] /\ doc'[n] = "live" => Covered(n)' \/ n \in batch'[j]
    BY <1>2, <2>1 DEF FoundBy
  <2> QED BY <1>1, <2>1, <2>2 DEF FoundBy
<1> QED BY <1>3, <1>4

\* A job that has not found what its node holds does not erase it.
LEMMA FoundStep ==
    ASSUME IsFiniteSet(Nodes), ~SameInstant, ~LateInserts, TypeOK, Finished, AllFound, [Next]_vars,
           NEW j \in Jobs, OfOnePage(Target[j])
    PROVE  FoundBy(j)'
<1> DEFINE h == Target[j]
<1>0. FoundBy(j) /\ h \in Nodes
  BY JobsAssumption DEF AllFound
<1>1. CASE UNCHANGED vars
  BY <1>0, <1>1, FoundKept DEF vars
<1>2. ASSUME NEW n \in Nodes, Delete(n) \/ Look(n) \/ ServerDies(n) \/ Mark(n) PROVE FoundBy(j)'
  <2>1. UNCHANGED <<job, page, meta, saves, batch>> /\ \A c \in Nodes : doc'[c] = "live" => doc[c] = "live"
    BY <1>2 DEF Delete, Look, ServerDies, Mark, TypeOK
  <2> QED BY <1>0, <2>1, FoundKept
<1>3. ASSUME NEW n \in Nodes, Queue(n) PROVE FoundBy(j)'
  <2>1. UNCHANGED <<doc, page, meta, saves, batch>>
    BY <1>3 DEF Queue
  <2>2. job'[j] = job[j] \/ (job[j] = "none" /\ job'[j] = "queued")
    BY <1>3, QueuedFacts DEF Queue
  <2> QED BY <1>0, <2>1, <2>2, FoundKept
<1>4. ASSUME NEW n \in Nodes, Insert(n) PROVE FoundBy(j)'
  <2>1. /\ UNCHANGED <<job, page, meta, saves, batch>>
        /\ \A c \in Nodes : c # n => doc'[c] = doc[c]
        /\ h \in Holders[n] => job[j] \notin Working
    BY <1>4 DEF Insert, TypeOK
  <2>2. CASE h \in Holders[n]
    BY <1>0, <2>1, <2>2 DEF FoundBy, Working, Running
  <2>3. CASE h \notin Holders[n]
    BY <1>0, <2>1, <2>3, FoundKept
  <2> QED BY <2>2, <2>3
<1>5. ASSUME NEW i \in Jobs, NEW p \in saves[i], SaveMeta(i, p) PROVE FoundBy(j)'
  <2>1. /\ UNCHANGED <<job, doc, page, batch, error>>
        /\ i # j => meta'[j] = meta[j] /\ saves'[j] = saves[j]
        /\ i = j => saves'[j] \subseteq saves[j] /\ saves[j] # {}
    BY <1>5 DEF SaveMeta, TypeOK
  <2>2. CASE i # j
    BY <1>0, <2>1, <2>2, FoundKept
  <2>3. CASE i = j
    <3>1. job[j] # "none" /\ 0 \notin saves'[j] /\ (job[j] \in Working => Past(h))
      BY <1>0, <2>1, <2>3 DEF FoundBy
    <3>2. /\ Past(h) => Past(h)'
          /\ \A c \in Nodes : doc'[c] = "live" /\ Covered(c) => Covered(c)'
      BY <1>0, <2>1, PastKept, CoverKept
    <3> QED BY <1>0, <2>1, <3>1, <3>2 DEF FoundBy
  <2> QED BY <2>2, <2>3
<1>6. ASSUME NEW i \in Jobs, i # j, Run(i) \/ Settle(i) \/ Disturb(i) PROVE FoundBy(j)'
  <2>1. job'[j] = job[j] \/ (job[j] = "none" /\ job'[j] = "queued")
    <3>1. CASE QueuePage(i)
      <4>1. batch[i] \in SUBSET Nodes
        BY DEF TypeOK
      <4>2. PICK queued \in {Queued(i, batch[i]), job} :
              job' = [queued EXCEPT ![i] = IF IsLast(Target[i], batch[i]) THEN "erasing" ELSE "paging"]
        BY <3>1 DEF QueuePage
      <4> QED BY <1>6, <4>1, <4>2, QueuedFacts
    <3>2. CASE ~QueuePage(i)
      BY <1>6, <3>2 DEF Run, Disturb, Start, ReadPage, Erase, Complete, Throw, Settle, FailDead, WorkerDies, EndRun, TypeOK
    <3> QED BY <3>1, <3>2
  <2>2. page'[j] = page[j] /\ batch'[j] = batch[j] /\ meta'[j] = meta[j] /\ saves'[j] = saves[j]
    BY <1>6 DEF Run, Disturb, Start, ReadPage, QueuePage, Erase, Complete, Throw, Settle, FailDead, WorkerDies, EndRun, TypeOK
  <2>3. \A c \in Nodes : doc'[c] = "live" => doc[c] = "live"
    BY <1>6, JobsAssumption DEF Run, Disturb, Start, ReadPage, QueuePage, Erase, Complete, Throw, Settle, FailDead, WorkerDies, EndRun, TypeOK
  <2> QED BY <1>0, <2>1, <2>2, <2>3, FoundKept
<1>7. CASE Start(j)
  <2>1. /\ job[j] = "queued" /\ job'[j] = "paging" /\ page'[j] \in {0, meta[j]}
        /\ UNCHANGED <<doc, meta, saves>>
    BY <1>7 DEF Start, TypeOK
  <2>2. Past(h) => Past(h)'
    BY <1>0, <2>1, PastKept
  <2> QED BY <1>0, <2>1, <2>2 DEF FoundBy, Working, Running
<1>8. CASE ReadPage(j)
  <2>1. /\ job[j] = "paging" /\ job'[j] = "paged" /\ batch'[j] = Page(j) /\ UNCHANGED <<page, meta, saves>>
        /\ \A c \in Nodes : doc'[c] = "live" => doc[c] = "live"
    BY <1>8 DEF ReadPage, TypeOK
  <2>2. Past(h) => Past(h)'
    BY <1>0, <2>1, PastKept
  <2>3. CASE page[j] = 0
    <3>1. Children(h) \subseteq batch'[j]
      BY <2>1, <2>3, FirstPage
    <3>2. \A c \in Nodes : h \in Holders[c] /\ doc'[c] = "live" => c \in batch'[j]
      BY <2>1, <3>1 DEF Children
    <3> QED BY <1>0, <2>1, <2>2, <2>3, <3>2 DEF FoundBy, Working, Running
  <2>4. CASE page[j] # 0
    BY <1>0, <2>1, <2>2, <2>4 DEF FoundBy, Past, Working, Running
  <2> QED BY <2>3, <2>4
<1>9. CASE QueuePage(j)
  <2> DEFINE next == IF IsLast(Target[j], batch[j]) THEN "erasing" ELSE "paging"
  <2>1. /\ job' = [Queued(j, batch[j]) EXCEPT ![j] = next] /\ next \in {"erasing", "paging"}
        /\ job[j] = "paged" /\ batch[j] \in SUBSET Nodes
    BY <1>9 DEF QueuePage, Coincides, TypeOK
  <2> HIDE DEF next
  <2>2. /\ UNCHANGED <<doc, error, meta>> /\ page[j] \in Nat
        /\ saves'[j] = saves[j] \/ saves'[j] = saves[j] \cup {page[j] + 1}
    BY <1>9 DEF QueuePage, TypeOK
  <2>3. job'[j] \in {"erasing", "paging"}
    BY <2>1, QueuedFacts
  <2>4. ASSUME NEW c \in batch[j], doc[c] = "live" PROVE Covered(c)'
    <3>1. CASE Fresh(j, c) # {}
      <4>1. PICK k \in Jobs : Parent[k] = j /\ Target[k] = c /\ Queued(j, batch[j])[k] = "queued"
        BY <2>1, <3>1, QueuedFacts
      <4>2. job'[k] \in Working
        BY <2>1, <2>3, <4>1, QueuedFacts DEF Working, Running
      <4> QED BY <4>1, <4>2 DEF Covered
    <3>2. CASE Fresh(j, c) = {}
      <4>1. PICK k \in Jobs : Parent[k] = j /\ Target[k] = c
        BY <2>1, JobsAssumption DEF Finished
      <4>2. job[k] \in Statuses \ {"none"}
        BY <3>2, <4>1 DEF Fresh, TypeOK
      <4>3. job[k] \in Working \/ error[k] # "none"
        BY <2>4, <4>1, <4>2 DEF Finished, Statuses, Active
      <4> QED BY <2>1, <2>2, <2>4, <4>1, <4>3, CoverKept DEF Covered
    <3> QED BY <3>1, <3>2
  <2>5. Past(h)'
    BY <1>0, <2>1, <2>2, <2>4, CoverKept DEF Past, FoundBy
  <2>6. 0 \notin saves'[j]
    BY <1>0, <2>2 DEF FoundBy
  <2> QED BY <2>3, <2>5, <2>6 DEF FoundBy
<1>10. CASE Erase(j)
  <2>1. /\ job[j] = "erasing" /\ job'[j] = "ended" /\ UNCHANGED <<meta, saves>>
        /\ \A c \in Nodes : doc'[c] = "live" => doc[c] = "live"
    BY <1>10, JobsAssumption DEF Erase, TypeOK
  <2>2. Past(h)'
    BY <1>0, <2>1, PastKept DEF FoundBy
  <2> QED BY <1>0, <2>1, <2>2 DEF FoundBy
<1>11. CASE Complete(j) \/ Throw(j) \/ FailDead(j)
  <2>1. job'[j] \in {"failed", "waiting", "completed"} /\ saves'[j] = {}
    BY <1>11, OutcomeFacts DEF Complete, Throw, FailDead, EndRun, TypeOK
  <2> QED BY <2>1 DEF FoundBy, Working, Running
<1>12. CASE Settle(j)
  <2>1. job'[j] \in {"failed", "waiting", "completed"} /\ saves'[j] = saves[j]
    BY <1>12, OutcomeFacts DEF Settle, TypeOK
  <2> QED BY <1>0, <2>1 DEF FoundBy, Working, Running
<1>13. CASE WorkerDies(j)
  <2>1. /\ job[j] \in Running /\ job'[j] = "queued" /\ meta'[j] = meta[j] /\ saves'[j] = {}
        /\ UNCHANGED doc
    BY <1>13 DEF WorkerDies, TypeOK
  <2>2. Past(h) => Past(h)'
    BY <1>0, <2>1, PastKept
  <2> QED BY <1>0, <2>1, <2>2 DEF FoundBy, Working
<1>14. CASE Next
  BY <1>2, <1>3, <1>4, <1>5, <1>6, <1>7, <1>8, <1>9, <1>10, <1>11, <1>12, <1>13, <1>14 DEF Next, Run, Disturb
<1> QED BY <1>1, <1>14

LEMMA ErasedStep ==
    ASSUME TypeOK, Finished, AllFound, ~LateInserts, [Next]_vars, NEW h \in Nodes, OfOnePage(h), doc'[h] = "erased"
    PROVE  Past(h)'
<1>1. \A c \in Nodes : doc'[c] = "live" /\ h \in Holders[c] => doc[c] = "live"
  <2>1. ASSUME NEW n \in Nodes, Insert(n) PROVE \A c \in Nodes : doc'[c] = "live" /\ h \in Holders[c] => doc[c] = "live"
    <3>1. /\ \A c \in Nodes : c # n => doc'[c] = doc[c]
          /\ doc'[n] = "live" /\ \A i \in Holders[n] : doc[i] = "live"
      BY <2>1 DEF Insert, TypeOK
    <3> QED BY <3>1
  <2>2. ASSUME NEW n \in Nodes, Delete(n) \/ Queue(n) \/ Mark(n) \/ Look(n) \/ ServerDies(n)
        PROVE  \A c \in Nodes : doc'[c] = "live" => doc[c] = "live"
    BY <2>2 DEF Delete, Queue, Mark, Look, ServerDies, TypeOK
  <2>3. ASSUME NEW i \in Jobs, Run(i) \/ Settle(i) \/ Disturb(i) PROVE \A c \in Nodes : doc'[c] = "live" => doc[c] = "live"
    BY <2>3, JobsAssumption DEF Run, Disturb, Start, ReadPage, QueuePage, Erase, Complete, Throw, Settle, FailDead, WorkerDies, EndRun, TypeOK
  <2>4. ASSUME NEW i \in Jobs, NEW p \in saves[i], SaveMeta(i, p) PROVE doc' = doc
    BY <2>4 DEF SaveMeta
  <2> QED BY <2>1, <2>2, <2>3, <2>4 DEF Next, vars
<1>2. CASE doc[h] = "erased"
  BY <1>1, <1>2, PastKept DEF AllFound
<1>3. ASSUME NEW j \in Jobs, Erase(j), Target[j] = h PROVE Past(h)'
  <2>1. Past(h)
    BY <1>3 DEF AllFound, FoundBy, Erase
  <2> QED BY <1>1, <2>1, PastKept
<1>4. CASE doc[h] # "erased"
  <2>1. ASSUME NEW n \in Nodes, Delete(n) \/ Queue(n) \/ Mark(n) \/ Look(n) \/ Insert(n) \/ ServerDies(n) PROVE FALSE
    BY <1>4, <2>1 DEF Delete, Queue, Mark, Look, Insert, ServerDies, TypeOK
  <2>2. ASSUME NEW i \in Jobs, NEW p \in saves[i], SaveMeta(i, p) PROVE FALSE
    BY <1>4, <2>2 DEF SaveMeta
  <2>3. ASSUME NEW i \in Jobs, Run(i) \/ Settle(i) \/ Disturb(i) PROVE Erase(i) /\ Target[i] = h
    BY <1>4, <2>3, JobsAssumption DEF Run, Disturb, Start, ReadPage, QueuePage, Erase, Complete, Throw, Settle, FailDead, WorkerDies, EndRun, TypeOK
  <2>4. ~UNCHANGED vars
    BY <1>4 DEF vars
  <2> QED BY <1>3, <2>1, <2>2, <2>3, <2>4 DEF Next
<1> QED BY <1>2, <1>4

\* When a folder, or a query's job, of at most a page is done, nothing that was in it
\* is left but what an error of its own job left: however jobs erase what others read,
\* in whatever order page numbers are saved, and wherever handlers throw and workers
\* and servers crash; if no job is lost to one of the same instant and nothing is put
\* in a folder that is deleted.
THEOREM NothingIsLeft ==
    IsFiniteSet(Nodes) /\ ~SameInstant /\ ~LateInserts => (Spec => []NoOrphan)
<1> SUFFICES ASSUME IsFiniteSet(Nodes), ~SameInstant, ~LateInserts PROVE Spec => []NoOrphan
  OBVIOUS
<1>1. Init => AllFound
  BY DEF Init, AllFound, FoundBy
<1>2. TypeOK /\ Finished /\ AllFound /\ [Next]_vars => AllFound'
  BY FoundStep, ErasedStep DEF AllFound, OfOnePage
<1>3. AllFound => NoOrphan
  <2>1. \A n \in Nodes : Covered(n) => Stopped(n) \/ \E k \in Jobs : Target[k] = n /\ job[k] \in Active
    BY DEF Covered, Stopped, Active
  <2> QED BY <2>1 DEF AllFound, Past, NoOrphan, Orphan
<1> QED BY <1>1, <1>2, <1>3, TypeCorrect, AlwaysFinished, PTL DEF Spec
=============================================================================
