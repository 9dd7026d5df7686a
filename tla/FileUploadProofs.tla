-------------------------- MODULE FileUploadProofs --------------------------
(***************************************************************************)
(* Theorems about FileUpload, for any uploads, files, parts and multipart  *)
(* ids and any number of failures.                                         *)
(***************************************************************************)
EXTENDS FileUpload, FiniteSetTheorems, TLAPS

\* The step of each action, without the inputs that Next chooses.
LEMMA NextCases ==
    ASSUME NEW P, [Next]_vars,
           \A u \in Uploads : Lookup(u) \/ Decide(u) \/ LookAgain(u) => P,
           \A u \in Uploads, f \in Files : Create(u, f) => P,
           \A u \in Uploads : CreateFails(u) \/ Awakes(u) \/ Crash(u) => P,
           \A u \in Singles : Store(u) \/ Finish(u) \/ Fail(u) \/ SetFileWritable(u) => P,
           \A m \in Clients, i \in UploadIds : StartMultipart(m, i) => P,
           \A m \in Clients : UsesId(m) \/ RecordId(m) \/ RequestCompletion(m) => P,
           \A m \in Clients : Abort(m) \/ DeleteMultipart(m) => P,
           \A m \in Clients : JobReads(m) \/ JobAssembles(m) \/ JobFinishes(m) \/ JobFails(m) => P,
           \A m \in Clients : GiveUp(m) \/ Return(m) => P,
           \A m \in Clients, f \in Files : StrayPart(m, f) => P,
           \A m \in Clients, p \in Parts : SendPart(m, p) \/ StorePart(m, p) => P,
           \A m \in Clients, p \in Parts : SavePart(m, p) \/ PartFails(m, p) => P,
           \A f \in Files, i \in UploadIds : CleanUp(f, i) => P,
           \A f \in Files : Expire(f) \/ BeginDeleteFile(f) \/ RunDeleteFile(f) => P,
           UNCHANGED vars => P
    PROVE  P
  BY Zenon DEF Next, Prepare, RunSingle, RunPart, RunClient, RunJob

-----------------------------------------------------------------------------
(* Types.  The requests and the backend's sets are looked at apart, as no  *)
(* action changes all of them in a way of its own.                         *)

DocOK == file \in [Files -> Document] /\ entries \subseteq Files
AtOK ==
    /\ at \in [Uploads -> SingleStages \cup ClientStages]
    /\ \A u \in Uploads : at[u] \in IF u \in Singles THEN SingleStages ELSE ClientStages
    /\ of \in [Uploads -> Files \cup {NoOne}]
    /\ lock \subseteq Uploads
PartOK ==
    /\ idOf \in [Clients -> UploadIds \cup {NoId}]
    /\ part \in [Clients -> [Parts -> [step : {"none", "sent", "stored", "saved"},
                                       id : UploadIds \cup {NoId}]]]
    /\ \A m \in Clients, p \in Parts : part[m][p].step # "none" => part[m][p].id # NoId
BackendOK ==
    /\ object \subseteq Uploads \X (Parts \cup {Whole})
    /\ stored \in [UploadIds -> SUBSET (Clients \X Parts)]
    /\ partDocs \in [UploadIds -> SUBSET Parts]
    /\ issued \subseteq Files \X UploadIds /\ open \subseteq UploadIds
    /\ cleanups \subseteq Files \X UploadIds
CountOK == faults \in Nat /\ retries \in Nat /\ faults + retries <= MaxTroubles

LEMMA TypeParts == TypeOK => DocOK /\ AtOK /\ PartOK /\ BackendOK /\ CountOK
  BY Zenon DEF TypeOK, DocOK, AtOK, PartOK, BackendOK, CountOK

\* What a step leaves alone keeps its type.
LEMMA TypeKept ==
    ASSUME TypeOK,
           DocOK' \/ UNCHANGED doc,
           AtOK' \/ UNCHANGED <<at, of, lock>>,
           PartOK' \/ UNCHANGED <<idOf, part>>,
           BackendOK' \/ UNCHANGED <<object, stored, partDocs, issued, open, cleanups>>,
           CountOK' \/ UNCHANGED <<faults, retries>>
    PROVE  TypeOK'
<1>1. DocOK'
  BY TypeParts DEF DocOK, doc
<1>2. AtOK'
  BY TypeParts DEF AtOK
<1>3. PartOK'
  BY TypeParts DEF PartOK
<1>4. BackendOK'
  BY TypeParts DEF BackendOK
<1>5. CountOK'
  BY TypeParts DEF CountOK
<1> QED BY <1>1, <1>2, <1>3, <1>4, <1>5, Zenon DEF TypeOK, DocOK, AtOK, PartOK, BackendOK, CountOK

\* Failures are counted within their bound.
LEMMA CountStep == ASSUME CountOK, Retry \/ Fault \/ Untroubled PROVE CountOK'
  BY UploadAssumption DEF CountOK, Retry, Fault, Trouble, Untroubled

\* A request that has a file has one of Files, parts are under way only while their
\* client is there or has just gone, and what was assembled has a multipart id.
GivenInv ==
    /\ \A u \in Uploads :
          at[u] \in Stages \cup {"failed"} \/ of[u] \in Files
    /\ \A m \in Clients : InFlight(m) => at[m] \in {"open", "gone"}
    /\ \A m \in Clients : at[m] = "assembled" => idOf[m] \in UploadIds

\* A document that is replaced by another.
LEMMA FileStep ==
    ASSUME DocOK, NEW f \in Files, NEW d \in Document,
           file' = file \/ file' = [file EXCEPT ![f] = d],
           entries' \subseteq entries \cup {f}
    PROVE  DocOK'
  BY DEF DocOK

\* A document with a field replaced by one of its type is a document.
LEMMA DocumentFacts ==
    ASSUME DocOK, NEW f \in Files
    PROVE  /\ file[f] \in Document /\ NewFile \in Document
           /\ Released(f) \in Document /\ Final(f) \in Document
           /\ \A u \in Uploads : CheckedOut(u, f) \in Document
           /\ \A u \in Uploads : Available(u, f) => Outdated(u, f) \subseteq Files \X UploadIds
<1>1. file[f] \in Document
  BY DEF DocOK
<1>2. NewFile \in Document /\ Released(f) \in Document /\ Final(f) \in Document
  BY <1>1, UploadAssumption DEF NewFile, Document, Released, Final
<1>3. ASSUME NEW u \in Uploads PROVE CheckedOut(u, f) \in Document
  BY <1>1 DEF CheckedOut, Document
<1>4. ASSUME NEW u \in Uploads, Available(u, f) PROVE Outdated(u, f) \subseteq Files \X UploadIds
  <2>1. CASE ~file[f].writable /\ ~(u \in Clients /\ file[f].client = u)
    <3>1. file[f].id \in UploadIds
      BY <1>1, <1>4, <2>1 DEF Available, Document
    <3> QED BY <2>1, <3>1 DEF Outdated
  <2> QED BY <2>1 DEF Outdated
<1> QED BY <1>1, <1>2, <1>3, <1>4

LEMMA CheckoutType ==
    ASSUME TypeOK, NEW u \in Uploads, NEW f \in Files, Checkout(u, f)
    PROVE  TypeOK'
<1> USE TypeParts
<1>1. DocOK'
  <2>1. Available(u, f) => file' = [file EXCEPT ![f] = CheckedOut(u, f)]
    BY DEF Checkout
  <2>2. ~Available(u, f) => file' = file
    BY DEF Checkout
  <2>3. CheckedOut(u, f) \in Document
    BY DocumentFacts
  <2> QED BY <2>1, <2>2, <2>3 DEF Checkout, DocOK
<1>2. AtOK'
  <2>1. at' = [at EXCEPT ![u] = at'[u]] /\ of' = [of EXCEPT ![u] = of'[u]] /\ lock' = lock
    BY DEF Checkout, AtOK
  <2>2. /\ at'[u] \in IF u \in Singles THEN {"held", "refused"} ELSE {"checked", "refused"}
        /\ of'[u] \in Files \cup {NoOne}
    BY DEF Checkout, AtOK
  <2> QED BY <2>1, <2>2 DEF AtOK, SingleStages, ClientStages, Stages
<1>3. BackendOK'
  <2>1. cleanups' \subseteq Files \X UploadIds
    BY DocumentFacts DEF Checkout, BackendOK
  <2> QED BY <2>1 DEF Checkout, BackendOK, backend
<1> QED BY <1>1, <1>2, <1>3, TypeKept DEF Checkout

\* A request that enters another stage.
LEMMA AtStep ==
    ASSUME AtOK, NEW u \in Uploads, NEW stage,
           stage \in IF u \in Singles THEN SingleStages ELSE ClientStages,
           at' = [at EXCEPT ![u] = stage],
           of' = of \/ of' = [of EXCEPT ![u] = NoOne] \/ \E f \in Files : of' = [of EXCEPT ![u] = f],
           lock' = lock \/ lock' = {} \/ lock' = {u}
    PROVE  AtOK'
  BY DEF AtOK, SingleStages, ClientStages, Stages

LEMMA PartGoesType ==
    ASSUME PartOK, NEW m \in Clients, NEW p \in Parts,
           NEW step \in {"none", "sent", "stored", "saved"}, NEW id \in UploadIds \cup {NoId},
           step # "none" => id # NoId, PartGoes(m, p, step, id)
    PROVE  PartOK'
<1>1. part'[m][p] = [step |-> step, id |-> id]
  BY DEF PartOK, PartGoes
<1>2. \A n \in Clients, q \in Parts : n # m \/ q # p => part'[n][q] = part[n][q]
  BY DEF PartOK, PartGoes
<1>3. part' \in [Clients -> [Parts -> [step : {"none", "sent", "stored", "saved"},
                                     id : UploadIds \cup {NoId}]]]
  BY DEF PartOK, PartGoes
<1> QED BY <1>1, <1>2, <1>3 DEF PartOK, PartGoes

LEMMA ForgetType == ASSUME PartOK, NEW m \in Clients, Forget(m) PROVE PartOK'
  BY DEF PartOK, Forget, NoPart

\* Every variable has a value of its type.
LEMMA TypeStep == ASSUME TypeOK, GivenInv, [Next]_vars PROVE TypeOK'
<1>0. DocOK /\ AtOK /\ PartOK /\ BackendOK /\ CountOK
  BY TypeParts
<1>a. Live \subseteq Files /\ Clients \subseteq Uploads /\ Singles \subseteq Uploads
      /\ Clients \cap Singles = {}
  BY UploadAssumption DEF Live, Uploads
<1>1. ASSUME NEW u \in Uploads, Lookup(u) \/ Decide(u) \/ LookAgain(u) PROVE TypeOK'
  <2>1. CASE \E f \in Live : Checkout(u, f)
    BY <1>a, <2>1, CheckoutType
  <2>2. CASE ~\E f \in Live : Checkout(u, f)
    <3>1. AtOK'
      <4>1. \E stage \in {"missed", "waiting", "creating", "idle"} : Enter(u, stage)
        BY <1>1, <2>2 DEF Lookup, Decide, LookAgain
      <4>2. lock' = lock \/ lock' = {u}
        BY <1>1, <2>2 DEF Lookup, Decide, LookAgain
      <4> QED BY <1>0, <4>1, <4>2, AtStep DEF Enter, SingleStages, ClientStages, Stages
    <3>2. UNCHANGED <<doc, idOf, part, partDocs, cleanups, faults, retries, backend>>
      BY <1>1, <2>2 DEF Lookup, Decide, LookAgain, Enter, doc
    <3> QED BY <1>0, <3>1, <3>2, TypeKept DEF doc, backend
  <2> QED BY <2>1, <2>2
<1>2. ASSUME NEW u \in Uploads, NEW f \in Files, Create(u, f) PROVE TypeOK'
  <2>1. DocOK'
    BY <1>0, <1>2 DEF Create, DocOK, Document, NewFile
  <2>2. AtOK'
    BY <1>0, <1>2, AtStep DEF Create, SingleStages, ClientStages, Stages
  <2> QED BY <1>2, <2>1, <2>2, TypeKept DEF Create, backend
<1>3. ASSUME NEW u \in Uploads, CreateFails(u) \/ Awakes(u) \/ Crash(u) PROVE TypeOK'
  <2>1. CASE CreateFails(u)
    <3>1. AtOK'
      BY <1>0, <2>1, AtStep DEF CreateFails, Enter, SingleStages, ClientStages, Stages
    <3> QED BY <2>1, <3>1, TypeKept DEF CreateFails, Enter, backend
  <2>2. CASE Awakes(u)
    <3>1. CASE \E f \in Live : Checkout(u, f)
      BY <1>a, <3>1, CheckoutType
    <3>2. CASE Enter(u, "refused") /\ UNCHANGED <<file, entries, lock>>
      <4>1. AtOK'
        BY <1>0, <3>2, AtStep DEF Enter, SingleStages, ClientStages, Stages
      <4> QED BY <3>2, <4>1, TypeKept DEF Enter, doc, backend
    <3> QED BY <2>2, <3>1, <3>2 DEF Awakes
  <2>3. CASE Crash(u)
    <3>1. AtOK'
      <4>1. \E stage \in {"failed", "gone"} : at' = [at EXCEPT ![u] = stage]
               /\ stage \in IF u \in Singles THEN SingleStages ELSE ClientStages
        BY <1>0, <2>3 DEF Crash, AtOK, SingleStages, ClientStages, Stages
      <4> QED BY <1>0, <2>3, <4>1, AtStep DEF Crash
    <3>2. CountOK'
      BY <1>0, <2>3, CountStep DEF Crash
    <3> QED BY <2>3, <3>1, <3>2, TypeKept DEF Crash, backend
  <2> QED BY <1>3, <2>1, <2>2, <2>3
<1>4. ASSUME NEW u \in Singles, Store(u) \/ Finish(u) \/ Fail(u) \/ SetFileWritable(u)
      PROVE  TypeOK'
  <2>1. AtOK'
    <3>1. \E stage \in {"stored", "done", "failing", "failed"} : at' = [at EXCEPT ![u] = stage]
      BY <1>4 DEF Store, Finish, Fail, SetFileWritable, Leave, Enter
    <3>2. lock' = lock /\ (of' = of \/ of' = [of EXCEPT ![u] = NoOne])
      BY <1>4 DEF Store, Finish, Fail, SetFileWritable, Leave, Enter
    <3> QED BY <1>0, <1>a, <3>1, <3>2, AtStep DEF SingleStages, Stages
  <2>2. DocOK'
    <3>1. CASE Store(u) \/ Fail(u)
      BY <1>0, <3>1 DEF Store, Fail, DocOK, doc
    <3>2. CASE Finish(u)
      <4>1. of[u] \in Files
        BY <1>a, <3>2 DEF Finish, GivenInv, Stages
      <4> QED BY <1>0, <3>2, <4>1, DocumentFacts, FileStep DEF Finish
    <3>3. CASE SetFileWritable(u)
      <4>1. of[u] \in Files
        BY <1>a, <3>3 DEF SetFileWritable, GivenInv, Stages
      <4>2. [file[of[u]] EXCEPT !.writable = TRUE] \in Document
        BY <1>0, <4>1, DocumentFacts DEF Document
      <4> QED BY <1>0, <3>3, <4>1, <4>2, FileStep DEF SetFileWritable
    <3> QED BY <1>4, <3>1, <3>2, <3>3
  <2>3. UNCHANGED <<idOf, part, partDocs, cleanups, faults, retries, stored, issued, open>>
    BY <1>4 DEF Store, Finish, Fail, SetFileWritable, Enter, backend
  <2>4. object' \subseteq Uploads \X (Parts \cup {Whole})
    BY <1>0, <1>a, <1>4 DEF Store, Finish, Fail, SetFileWritable, Enter, backend, BackendOK
  <2>5. BackendOK'
    BY <1>0, <2>3, <2>4 DEF BackendOK
  <2> QED BY <2>1, <2>2, <2>3, <2>5, TypeKept
<1>5. ASSUME NEW m \in Clients, NEW i \in UploadIds, StartMultipart(m, i) PROVE TypeOK'
  <2>1. of[m] \in Files
    BY <1>a, <1>5 DEF StartMultipart, GivenInv, Stages
  <2>2. AtOK'
    BY <1>0, <1>a, <1>5, AtStep DEF StartMultipart, ClientStages
  <2>3. PartOK' /\ BackendOK'
    BY <1>0, <1>5, <2>1 DEF StartMultipart, PartOK, BackendOK
  <2> QED BY <1>5, <2>2, <2>3, TypeKept DEF StartMultipart
<1>6. ASSUME NEW m \in Clients, UsesId(m) \/ RecordId(m) \/ RequestCompletion(m) PROVE TypeOK'
  <2>1. CASE UsesId(m) \/ RequestCompletion(m)
    <3>1. AtOK'
      BY <1>0, <1>a, <2>1, AtStep DEF UsesId, RequestCompletion, Enter, ClientStages
    <3> QED BY <2>1, <3>1, TypeKept DEF UsesId, RequestCompletion, Enter, doc, backend
  <2>2. CASE RecordId(m)
    <3>1. of[m] \in Files
      BY <1>a, <2>2 DEF RecordId, GivenInv, Stages
    <3>2. [file[of[m]] EXCEPT !.timeout = "running", !.id = idOf[m], !.client = m] \in Document
      <4>1. file[of[m]] \in Document /\ idOf[m] \in UploadIds \cup {NoId}
        BY <1>0, <3>1, DocumentFacts DEF PartOK
      <4> QED BY <4>1 DEF Document
    <3>3. DocOK'
      BY <1>0, <2>2, <3>1, <3>2, FileStep DEF RecordId, Update
    <3>4. AtOK'
      BY <1>0, <1>a, <2>2, AtStep DEF RecordId, ClientStages
    <3>5. PartOK'
      BY <1>0, <2>2 DEF RecordId, PartOK
    <3> QED BY <2>2, <3>3, <3>4, <3>5, TypeKept DEF RecordId, backend
  <2> QED BY <1>6, <2>1, <2>2
<1>7. ASSUME NEW m \in Clients, Abort(m) \/ DeleteMultipart(m) PROVE TypeOK'
  <2>1. of[m] \in Files
    BY <1>a, <1>7 DEF Abort, DeleteMultipart, GivenInv, Stages
  <2>2. CASE Abort(m)
    <3>1. PartOK'
      BY <1>0, <2>1, <2>2, DocumentFacts DEF Abort, PartOK, Document
    <3>2. AtOK'
      BY <1>0, <1>a, <2>2, AtStep DEF Abort, ClientStages
    <3> QED BY <2>2, <3>1, <3>2, TypeKept DEF Abort, backend
  <2>3. CASE DeleteMultipart(m)
    <3>1. DocOK'
      BY <1>0, <2>1, <2>3, DocumentFacts, FileStep DEF DeleteMultipart, Update
    <3>2. AtOK'
      BY <1>0, <1>a, <2>3, AtStep DEF DeleteMultipart, Leave, ClientStages, Stages
    <3>3. PartOK'
      BY <1>0, <2>3, ForgetType DEF DeleteMultipart
    <3>4. BackendOK'
      BY <1>0, <2>3 DEF DeleteMultipart, BackendOK
    <3> QED BY <2>3, <3>1, <3>2, <3>3, <3>4, TypeKept DEF DeleteMultipart
  <2> QED BY <1>7, <2>2, <2>3
<1>8. ASSUME NEW m \in Clients, JobReads(m) \/ JobAssembles(m) \/ JobFinishes(m) \/ JobFails(m)
      PROVE  TypeOK'
  <2>1. of[m] \in Files
    BY <1>a, <1>8 DEF JobReads, JobAssembles, JobFinishes, JobFails, GivenInv, Stages
  <2>2. CASE JobReads(m)
    <3>1. PartOK'
      BY <1>0, <2>1, <2>2, DocumentFacts DEF JobReads, PartOK, Document
    <3>2. AtOK'
      BY <1>0, <1>a, <2>2, AtStep DEF JobReads, ClientStages
    <3> QED BY <2>2, <3>1, <3>2, TypeKept DEF JobReads, backend
  <2>3. CASE JobAssembles(m)
    <3>1. idOf[m] \in UploadIds
      BY <1>0, <2>3 DEF JobAssembles, BackendOK
    <3>2. object' \subseteq Uploads \X (Parts \cup {Whole})
      BY <1>0, <1>a, <2>3, <3>1 DEF JobAssembles, Documented, BackendOK
    <3>3. BackendOK'
      BY <1>0, <2>3, <3>2 DEF JobAssembles, BackendOK
    <3>4. AtOK'
      BY <1>0, <1>a, <2>3, AtStep DEF JobAssembles, ClientStages
    <3> QED BY <2>3, <3>3, <3>4, TypeKept DEF JobAssembles
  <2>4. CASE JobFinishes(m)
    <3>1. idOf[m] \in UploadIds
      BY <2>4 DEF JobFinishes, GivenInv
    <3>2. DocOK'
      BY <1>0, <2>1, <2>4, DocumentFacts, FileStep DEF JobFinishes
    <3>3. AtOK'
      BY <1>0, <1>a, <2>4, AtStep DEF JobFinishes, Leave, ClientStages, Stages
    <3>4. PartOK'
      BY <1>0, <2>4, ForgetType DEF JobFinishes
    <3>5. BackendOK'
      BY <1>0, <2>1, <2>4, <3>1 DEF JobFinishes, BackendOK, backend
    <3> QED BY <2>4, <3>2, <3>3, <3>4, <3>5, TypeKept DEF JobFinishes
  <2>5. CASE JobFails(m)
    <3>1. AtOK'
      BY <1>0, <1>a, <2>5, AtStep DEF JobFails, ClientStages
    <3>2. PartOK'
      BY <1>0, <2>5, ForgetType DEF JobFails
    <3>3. CountOK'
      BY <1>0, <2>5, CountStep DEF JobFails
    <3> QED BY <2>5, <3>1, <3>2, <3>3, TypeKept DEF JobFails, backend
  <2> QED BY <1>8, <2>2, <2>3, <2>4, <2>5
<1>9. ASSUME NEW m \in Clients, GiveUp(m) \/ Return(m) PROVE TypeOK'
  <2>1. CASE GiveUp(m)
    <3>1. AtOK'
      BY <1>0, <1>a, <2>1, AtStep DEF GiveUp, Enter, ClientStages
    <3> QED BY <2>1, <3>1, TypeKept DEF GiveUp, Enter, doc, backend
  <2>2. CASE Return(m)
    <3>1. of[m] \in Files
      BY <1>a, <2>2 DEF Return, GivenInv, Stages
    <3>2. AtOK'
      <4>1. \E stage \in {"open", "idle"} : at' = [at EXCEPT ![m] = stage]
        BY <2>2 DEF Return
      <4> QED BY <1>0, <1>a, <2>2, <4>1, AtStep DEF Return, ClientStages, Stages
    <3>3. PartOK'
      <4>1. file[of[m]].id \in UploadIds \cup {NoId}
        BY <1>0, <3>1, DocumentFacts DEF Document
      <4> DEFINE listed == {p \in Parts :
                    \E i \in UploadIds : <<of[m], i>> \in issued /\ p \in partDocs[i]}
                 resumed == [p \in Parts |-> IF p \in listed
                    THEN [step |-> "saved", id |-> file[of[m]].id] ELSE NoPart]
      <4>2. CASE file[of[m]].id # NoId /\ part' = [part EXCEPT ![m] = resumed]
        <5> HIDE DEF listed
        <5> QED BY <1>0, <2>2, <4>1, <4>2 DEF Return, PartOK, NoPart
      <4>3. CASE part' = [part EXCEPT ![m] = [p \in Parts |-> NoPart]]
        BY <1>0, <2>2, <4>3 DEF Return, PartOK, NoPart
      <4> QED BY <2>2, <4>2, <4>3 DEF Return
    <3>4. CountOK'
      BY <1>0, <2>2, CountStep DEF Return
    <3> QED BY <2>2, <3>2, <3>3, <3>4, TypeKept DEF Return, backend
  <2> QED BY <1>9, <2>1, <2>2
<1>10. ASSUME NEW m \in Clients, NEW f \in Files, StrayPart(m, f) PROVE TypeOK'
  <2>1. DocOK'
    BY <1>0, <1>10 DEF StrayPart, DocOK, Document, NewFile
  <2>2. AtOK'
    BY <1>0, <1>a, <1>10, AtStep DEF StrayPart, ClientStages
  <2>3. CountOK'
    BY <1>0, <1>10, CountStep DEF StrayPart
  <2> QED BY <1>10, <2>1, <2>2, <2>3, TypeKept DEF StrayPart, backend
<1>11. ASSUME NEW m \in Clients, NEW p \in Parts, SendPart(m, p) \/ StorePart(m, p) PROVE TypeOK'
  <2>1. CASE SendPart(m, p)
    <3>1. of[m] \in Files
      BY <1>a, <2>1 DEF SendPart, GivenInv, Stages
    <3>2. CheckedOut(m, of[m]) \in Document /\ Outdated(m, of[m]) \subseteq Files \X UploadIds
      BY <1>0, <1>a, <2>1, <3>1, DocumentFacts DEF SendPart
    <3>3. DocOK'
      BY <1>0, <2>1, <3>1, <3>2, FileStep DEF SendPart
    <3>4. PartOK'
      BY <1>0, <2>1, <3>2, PartGoesType DEF SendPart, Document
    <3>5. BackendOK'
      BY <1>0, <2>1, <3>2 DEF SendPart, BackendOK, PartGoes
    <3> QED BY <2>1, <3>3, <3>4, <3>5, TypeKept DEF SendPart, PartGoes
  <2>2. CASE StorePart(m, p)
    <3>1. part[m][p].id \in UploadIds
      BY <1>0, <2>2 DEF StorePart, BackendOK
    <3>2. PartOK'
      BY <1>0, <1>a, <2>2, <3>1, UploadAssumption, PartGoesType DEF StorePart
    <3>3. BackendOK'
      BY <1>0, <2>2, <3>1 DEF StorePart, BackendOK, PartGoes
    <3> QED BY <2>2, <3>2, <3>3, TypeKept DEF StorePart, PartGoes
  <2> QED BY <1>11, <2>1, <2>2
<1>12. ASSUME NEW m \in Clients, NEW p \in Parts, SavePart(m, p) \/ PartFails(m, p) PROVE TypeOK'
  <2>1. CASE SavePart(m, p)
    <3>1. of[m] \in Files /\ part[m][p].id \in UploadIds
      BY <1>0, <1>a, <2>1 DEF SavePart, GivenInv, Stages, InFlight, PartOK
    <3>2. [file[of[m]] EXCEPT !.writable = FALSE, !.timeout = "running", !.id = part[m][p].id] \in Document
      BY <1>0, <3>1, DocumentFacts DEF Document
    <3>3. DocOK'
      BY <1>0, <2>1, <3>1, <3>2, FileStep DEF SavePart
    <3>4. PartOK'
      BY <1>0, <2>1, <3>1, UploadAssumption, PartGoesType DEF SavePart
    <3>5. BackendOK'
      BY <1>0, <2>1, <3>1 DEF SavePart, BackendOK, PartGoes
    <3> QED BY <2>1, <3>3, <3>4, <3>5, TypeKept DEF SavePart, PartGoes
  <2>2. CASE PartFails(m, p)
    <3>1. PartOK'
      BY <1>0, <2>2, PartGoesType DEF PartFails
    <3>2. CountOK'
      BY <1>0, <2>2, CountStep DEF PartFails
    <3> QED BY <2>2, <3>1, <3>2, TypeKept DEF PartFails, PartGoes
  <2> QED BY <1>12, <2>1, <2>2
<1>13. ASSUME NEW f \in Files, NEW i \in UploadIds, CleanUp(f, i) PROVE TypeOK'
  <2>1. BackendOK'
    BY <1>0, <1>13 DEF CleanUp, BackendOK
  <2> QED BY <1>13, <2>1, TypeKept DEF CleanUp, requests
<1>14. ASSUME NEW f \in Files, Expire(f) \/ BeginDeleteFile(f) \/ RunDeleteFile(f) PROVE TypeOK'
  <2>1. CASE Expire(f)
    <3>1. DocOK'
      BY <1>0, <2>1 DEF Expire, DocOK, Document
    <3>2. AtOK'
      BY <1>0, <1>a, <2>1 DEF Expire, AtOK, ClientStages, SingleStages, Stages
    <3> QED BY <2>1, <3>1, <3>2, TypeKept DEF Expire, backend
  <2>2. CASE BeginDeleteFile(f)
    <3>1. DocOK'
      BY <1>0, <2>2 DEF BeginDeleteFile, DocOK, Document
    <3> QED BY <2>2, <3>1, TypeKept DEF BeginDeleteFile, requests, backend
  <2>3. CASE RunDeleteFile(f)
    <3>1. DocOK'
      <4>1. [NewFile EXCEPT !.state = "erased"] \in Document
        BY DEF NewFile, Document
      <4> QED BY <1>0, <2>3, <4>1, FileStep DEF RunDeleteFile
    <3>2. BackendOK'
      BY <1>0, <2>3 DEF RunDeleteFile, BackendOK
    <3> QED BY <2>3, <3>1, <3>2, TypeKept DEF RunDeleteFile, requests
  <2> QED BY <1>14, <2>1, <2>2, <2>3
<1>15. CASE UNCHANGED vars
  BY <1>15, TypeKept DEF vars, doc
<1> QED BY <1>1, <1>2, <1>3, <1>4, <1>5, <1>6, <1>7, <1>8, <1>9, <1>10, <1>11, <1>12, <1>13,
           <1>14, <1>15, NextCases

\* What requests have been given stays theirs while they need it.
LEMMA GivenStep == ASSUME TypeOK, GivenInv, [Next]_vars PROVE GivenInv'
<1>0. AtOK /\ PartOK /\ BackendOK
  BY TypeParts
<1>a. Live \subseteq Files /\ Clients \subseteq Uploads /\ Singles \subseteq Uploads
      /\ Clients \cap Singles = {}
  BY UploadAssumption DEF Live, Uploads
<1> USE DEF GivenInv, InFlight, Stages
<1>1. ASSUME NEW u \in Uploads, Lookup(u) \/ Decide(u) \/ LookAgain(u) PROVE GivenInv'
  BY <1>0, <1>a, <1>1 DEF Lookup, Decide, LookAgain, Enter, Checkout, AtOK
<1>2. ASSUME NEW u \in Uploads, NEW f \in Files, Create(u, f) PROVE GivenInv'
  BY <1>0, <1>a, <1>2 DEF Create, AtOK
<1>3. ASSUME NEW u \in Uploads, CreateFails(u) \/ Awakes(u) \/ Crash(u) PROVE GivenInv'
  BY <1>0, <1>a, <1>3 DEF CreateFails, Awakes, Crash, Enter, Checkout, AtOK
<1>4. ASSUME NEW u \in Singles, Store(u) \/ Finish(u) \/ Fail(u) \/ SetFileWritable(u)
      PROVE  GivenInv'
  BY <1>0, <1>a, <1>4 DEF Store, Finish, Fail, SetFileWritable, Enter, Leave, AtOK
<1>5. ASSUME NEW m \in Clients, NEW i \in UploadIds, StartMultipart(m, i) PROVE GivenInv'
  BY <1>0, <1>a, <1>5 DEF StartMultipart, AtOK, PartOK
<1>6. ASSUME NEW m \in Clients, UsesId(m) \/ RecordId(m) \/ RequestCompletion(m) PROVE GivenInv'
  BY <1>0, <1>a, <1>6 DEF UsesId, RecordId, RequestCompletion, Enter, AtOK, PartOK
<1>7. ASSUME NEW m \in Clients, Abort(m) \/ DeleteMultipart(m) PROVE GivenInv'
  <2>1. CASE Abort(m)
    BY <1>0, <1>a, <2>1 DEF Abort, AtOK, PartOK
  <2>2. CASE DeleteMultipart(m)
    BY <1>0, <1>a, <2>2 DEF DeleteMultipart, Leave, Forget, NoPart, AtOK, PartOK
  <2> QED BY <1>7, <2>1, <2>2
<1>8. ASSUME NEW m \in Clients, JobReads(m) \/ JobAssembles(m) \/ JobFinishes(m) \/ JobFails(m)
      PROVE  GivenInv'
  <2>1. CASE JobReads(m)
    BY <1>0, <1>a, <2>1 DEF JobReads, AtOK, PartOK
  <2>2. CASE JobAssembles(m)
    BY <1>0, <1>a, <2>2 DEF JobAssembles, AtOK, BackendOK
  <2>3. CASE JobFinishes(m)
    BY <1>0, <1>a, <2>3 DEF JobFinishes, Leave, Forget, NoPart, AtOK, PartOK
  <2>4. CASE JobFails(m)
    BY <1>0, <1>a, <2>4 DEF JobFails, Forget, NoPart, AtOK, PartOK
  <2> QED BY <1>8, <2>1, <2>2, <2>3, <2>4
<1>9. ASSUME NEW m \in Clients, GiveUp(m) \/ Return(m) PROVE GivenInv'
  <2>1. CASE GiveUp(m)
    BY <1>0, <1>a, <2>1 DEF GiveUp, Enter, AtOK
  <2>2. CASE Return(m)
    <3>1. \A n \in Clients : InFlight(n)' => n # m /\ InFlight(n)
      <4>1. \A p \in Parts : part'[m][p].step \in {"none", "saved"}
        <5> DEFINE listed == {p \in Parts :
                      \E i \in UploadIds : <<of[m], i>> \in issued /\ p \in partDocs[i]}
                   resumed == [p \in Parts |-> IF p \in listed
                      THEN [step |-> "saved", id |-> file[of[m]].id] ELSE NoPart]
        <5>1. \/ part' = [part EXCEPT ![m] = resumed]
              \/ part' = [part EXCEPT ![m] = [p \in Parts |-> NoPart]]
          BY <2>2 DEF Return
        <5> HIDE DEF listed
        <5> QED BY <1>0, <5>1 DEF NoPart, PartOK
      <4>2. \A n \in Clients : n # m => part'[n] = part[n]
        BY <1>0, <2>2 DEF Return, PartOK
      <4> QED BY <4>1, <4>2
    <3> QED BY <1>0, <1>a, <2>2, <3>1 DEF Return, AtOK
  <2> QED BY <1>9, <2>1, <2>2
<1>10. ASSUME NEW m \in Clients, NEW f \in Files, StrayPart(m, f) PROVE GivenInv'
  BY <1>0, <1>a, <1>10 DEF StrayPart, AtOK
<1>11. ASSUME NEW m \in Clients, NEW p \in Parts, SendPart(m, p) \/ StorePart(m, p) PROVE GivenInv'
  BY <1>0, <1>a, <1>11 DEF SendPart, StorePart, PartGoes, AtOK, PartOK
<1>12. ASSUME NEW m \in Clients, NEW p \in Parts, SavePart(m, p) \/ PartFails(m, p) PROVE GivenInv'
  BY <1>0, <1>a, <1>12 DEF SavePart, PartFails, PartGoes, AtOK, PartOK
<1>13. ASSUME NEW f \in Files, NEW i \in UploadIds, CleanUp(f, i) PROVE GivenInv'
  BY <1>13 DEF CleanUp, requests
<1>14. ASSUME NEW f \in Files, Expire(f) \/ BeginDeleteFile(f) \/ RunDeleteFile(f) PROVE GivenInv'
  BY <1>0, <1>a, <1>14 DEF Expire, BeginDeleteFile, RunDeleteFile, requests, AtOK
<1>15. CASE UNCHANGED vars
  BY <1>15 DEF vars
<1> QED BY <1>1, <1>2, <1>3, <1>4, <1>5, <1>6, <1>7, <1>8, <1>9, <1>10, <1>11, <1>12, <1>13,
           <1>14, <1>15, NextCases

LEMMA InitTypes == Init => TypeOK /\ GivenInv
<1> SUFFICES ASSUME Init PROVE TypeOK /\ GivenInv
  OBVIOUS
<1>1. [NewFile EXCEPT !.state = "none"] \in Document
  BY DEF NewFile, Document
<1>2. file \in [Files -> Document] /\ entries \subseteq Files
  BY <1>1 DEF Init
<1>3. /\ at \in [Uploads -> SingleStages \cup ClientStages]
      /\ \A u \in Uploads : at[u] \in IF u \in Singles THEN SingleStages ELSE ClientStages
      /\ of \in [Uploads -> Files \cup {NoOne}] /\ lock \subseteq Uploads
  BY DEF Init, SingleStages, ClientStages, Stages
<1>4. /\ idOf \in [Clients -> UploadIds \cup {NoId}]
      /\ part \in [Clients -> [Parts -> [step : {"none", "sent", "stored", "saved"},
                                        id : UploadIds \cup {NoId}]]]
      /\ \A m \in Clients, p \in Parts : part[m][p].step = "none"
  BY DEF Init, NoPart
<1>5. /\ object = {} /\ issued = {} /\ open = {} /\ cleanups = {}
      /\ stored \in [UploadIds -> SUBSET (Clients \X Parts)]
      /\ partDocs \in [UploadIds -> SUBSET Parts]
      /\ faults = 0 /\ retries = 0
  BY DEF Init
<1>6. TypeOK
  BY <1>2, <1>3, <1>4, <1>5, UploadAssumption DEF TypeOK
<1>7. GivenInv
  BY <1>4, UploadAssumption DEF Init, GivenInv, InFlight, Stages, Uploads
<1> QED BY <1>6, <1>7

\* Every variable has a value of its type, whatever fails or expires.
THEOREM TypeCorrect == Spec => []TypeOK
<1>1. TypeOK /\ GivenInv /\ [Next]_vars => (TypeOK /\ GivenInv)'
  BY TypeStep, GivenStep
<1> QED BY <1>1, InitTypes, PTL DEF Spec

-----------------------------------------------------------------------------
(* One upload writes a file.  The write flag says so only together with    *)
(* the client and the timeout that are stored beside it: an upload that    *)
(* has expired may be replaced, and its client must not come back.         *)

\* The client that is named in a file, if there is one, has let its upload expire.
Lapsed(f) == file[f].client = NoOne \/ at[file[f].client] = "lapsed"

\* A file that is free, or may be taken over, is in nobody's multipart upload.
FreeInv(f) ==
    /\ file[f].writable => file[f].timeout = "none"
    /\ file[f].writable \/ file[f].timeout = "over" => Lapsed(f)
    /\ file[f].timeout = "running" =>
          file[f].client \in Clients /\ of[file[f].client] = f

\* Who writes a file has it checked out, for its own client if it is one.
HolderInv(f) ==
    \A u \in Uploads : Writes(u, f) =>
       /\ ~file[f].writable /\ file[f].timeout # "over"
       /\ u \in Clients => file[f].client = u
       /\ u \in Singles => file[f].timeout = "none" /\ Lapsed(f)

OneWriterOf(f) == \A u, v \in Uploads : Writes(u, f) /\ Writes(v, f) => u = v
FileInv(f) == FreeInv(f) /\ HolderInv(f) /\ OneWriterOf(f)

\* The path has one file, and none while a request is about to create it.
LockInv == \A u \in Uploads : at[u] = "creating" => lock = {u} /\ Live = {}
OneLive == \A f, g \in Live : f = g
Known == \A u \in Uploads : of[u] \in Files => file[of[u]].state # "none"

WriterInv == LockInv /\ OneLive /\ Known /\ \A f \in Live : FileInv(f)

\* A step that leaves live files and who has them alone, and gives nobody a right
\* to write.
LEMMA KeepsWriters ==
    ASSUME TypeOK, WriterInv, of' = of, LockInv',
           \A f \in Live' : f \in Live /\ file'[f] = file[f],
           \A f \in Files : file[f].state # "none" => file'[f].state # "none",
           \A u \in Uploads : at[u] = "lapsed" => at'[u] = "lapsed",
           \A f \in Live, u \in Uploads : Writes(u, f)' => Writes(u, f)
    PROVE  WriterInv'
<1>1. OneLive' /\ Known'
  BY DEF WriterInv, OneLive, Known
<1>2. ASSUME NEW f \in Live' PROVE FileInv(f)'
  <2>1. f \in Live /\ f \in Files /\ file'[f] = file[f] /\ FileInv(f)
    BY <1>2 DEF WriterInv, Live
  <2>2. file[f].client \in Clients \cup {NoOne} /\ Clients \subseteq Uploads
    BY <2>1 DEF TypeOK, Document, Uploads
  <2>3. Lapsed(f) => Lapsed(f)'
    BY <2>1, <2>2 DEF Lapsed
  <2>4. FreeInv(f)'
    BY <2>1, <2>3 DEF FileInv, FreeInv
  <2>5. HolderInv(f)'
    BY <2>1, <2>3 DEF FileInv, HolderInv
  <2>6. OneWriterOf(f)'
    BY <2>1 DEF FileInv, OneWriterOf
  <2> QED BY <2>4, <2>5, <2>6 DEF FileInv
<1> QED BY <1>1, <1>2 DEF WriterInv

\* A step that changes the path's one live file.
LEMMA OneFileStep ==
    ASSUME TypeOK, WriterInv, NEW f \in Live, Live' = Live, LockInv', Known', FileInv(f)'
    PROVE  WriterInv'
  BY DEF WriterInv, OneLive

\* A request that may check out a file finds nobody writing it.
LEMMA CheckoutFree ==
    ASSUME TypeOK, GivenInv, WriterInv, NEW u \in Uploads, NEW f \in Live,
           at[u] \in {"idle", "waiting"}, Available(u, f)
    PROVE  /\ \A v \in Uploads : ~Writes(v, f)
           /\ CheckedOut(u, f).timeout = "none" \/ CheckedOut(u, f).timeout = file[f].timeout
           /\ CheckedOut(u, f).timeout # "over"
           /\ u \in Singles => CheckedOut(u, f).timeout = "none" /\ Lapsed(f)
<1>0. Singles \cap Clients = {} /\ NoOne \notin Uploads /\ Uploads = Singles \cup Clients
  BY UploadAssumption DEF Uploads
<1>1. FreeInv(f) /\ HolderInv(f)
  BY DEF WriterInv, FileInv
<1>2. file[f] \in Document
  BY DEF TypeOK, Live
<1>3. u \in Clients /\ file[f].client = u => ~Lapsed(f)
  BY <1>0 DEF Lapsed
<1>4. ~Writes(u, f)
  BY <1>0 DEF Writes, GivenInv
<1>5. ASSUME NEW v \in Uploads, Writes(v, f) PROVE FALSE
  BY <1>0, <1>1, <1>3, <1>4, <1>5 DEF HolderInv, Available
<1>6. CheckedOut(u, f).timeout =
         IF ~file[f].writable /\ ~(u \in Clients /\ file[f].client = u) THEN "none"
         ELSE file[f].timeout
  BY <1>2 DEF CheckedOut, Document
<1>7. CheckedOut(u, f).timeout # "over"
  BY <1>1, <1>2, <1>3, <1>6 DEF FreeInv, Available, Document
<1>8. u \in Singles => CheckedOut(u, f).timeout = "none" /\ Lapsed(f)
  BY <1>0, <1>1, <1>6 DEF FreeInv, Available
<1> QED BY <1>5, <1>6, <1>7, <1>8

LEMMA CheckoutStep ==
    ASSUME TypeOK, GivenInv, WriterInv, NEW u \in Uploads, NEW f \in Live,
           at[u] \in {"idle", "waiting"}, Checkout(u, f)
    PROVE  WriterInv'
<1>0. Singles \cap Clients = {} /\ NoOne \notin Uploads /\ Uploads = Singles \cup Clients
  BY UploadAssumption DEF Uploads
<1>a. f \in Files /\ file[f] \in Document /\ file[f].state = "live" /\ file \in [Files -> Document]
      /\ at \in [Uploads -> SingleStages \cup ClientStages] /\ of \in [Uploads -> Files \cup {NoOne}]
  BY DEF TypeOK, Live
<1>b. \A v \in Uploads : v # u => at'[v] = at[v]
  BY <1>a DEF Checkout
<1>c. at'[u] \in {"held", "checked", "refused"}
  BY <1>a DEF Checkout
<1>1. CASE ~Available(u, f)
  <2>1. LockInv'
    BY <1>1, <1>b, <1>c DEF Checkout, WriterInv, LockInv, Live
  <2>2. \A g \in Live, v \in Uploads : Writes(v, g)' => Writes(v, g)
    BY <1>1, <1>a, <1>b DEF Checkout, Writes, InFlight
  <2> QED BY <1>1, <1>b, <2>1, <2>2, KeepsWriters DEF Checkout, Live
<1>2. CASE Available(u, f)
  <2>1. file' = [file EXCEPT ![f] = CheckedOut(u, f)] /\ of'[u] = f
        /\ \A v \in Uploads : v # u => of'[v] = of[v]
    BY <1>2, <1>a DEF Checkout
  <2>2. /\ file'[f] = CheckedOut(u, f) /\ CheckedOut(u, f).state = "live"
        /\ ~CheckedOut(u, f).writable
        /\ CheckedOut(u, f).client = IF u \in Clients THEN u ELSE file[f].client
    BY <1>a, <2>1 DEF CheckedOut, Document
  <2>3. Live' = Live
    BY <1>a, <2>1, <2>2 DEF Live
  <2>4. LockInv' /\ Known'
    BY <1>2, <1>a, <1>b, <1>c, <2>1, <2>2, <2>3 DEF Checkout, WriterInv, LockInv, Known
  <2>5. \A v \in Uploads : Writes(v, f)' => v = u
    <3>1. \A v \in Uploads : v # u => (Writes(v, f)' => Writes(v, f))
      BY <1>b, <2>1 DEF Writes, InFlight, Checkout
    <3> QED BY <1>2, <3>1, CheckoutFree
  <2>6. u \in Singles => Lapsed(f)'
    <3> SUFFICES ASSUME u \in Singles PROVE Lapsed(f)'
      OBVIOUS
    <3>1. Lapsed(f) /\ file'[f].client = file[f].client /\ file[f].client \in Clients \cup {NoOne}
      BY <1>0, <1>2, <1>a, <2>2, CheckoutFree DEF Document
    <3> QED BY <1>0, <1>b, <3>1 DEF Lapsed
  <2>7. FreeInv(f)'
    <3>1. ~file'[f].writable /\ file'[f].timeout # "over"
      BY <1>2, <2>2, CheckoutFree
    <3>2. ASSUME file'[f].timeout = "running" PROVE file'[f].client \in Clients /\ of'[file'[f].client] = f
      BY <1>0, <1>2, <1>a, <2>1, <2>2, <3>2, CheckoutFree
    <3> QED BY <3>1, <3>2 DEF FreeInv
  <2>8. HolderInv(f)'
    BY <1>0, <1>2, <2>2, <2>5, <2>6, CheckoutFree DEF HolderInv
  <2>9. OneWriterOf(f)'
    BY <2>5 DEF OneWriterOf
  <2>10. FileInv(f)'
    BY <2>7, <2>8, <2>9 DEF FileInv
  <2> QED BY <2>3, <2>4, <2>10, OneFileStep
<1> QED BY <1>1, <1>2

Holding == {"held", "stored", "failing", "checked", "starting", "open", "completing",
            "assembling", "assembled", "aborting"}

\* A request that enters another stage, without a right to write it had not.
LEMMA StageStep ==
    ASSUME TypeOK, WriterInv, NEW u \in Uploads, NEW stage, UNCHANGED <<file, of, lock>>,
           at' = [at EXCEPT ![u] = stage], at[u] # "lapsed", stage # "creating",
           at[u] \in Holding \/ stage \notin Holding,
           \A m \in Clients : InFlight(m)' => InFlight(m)
    PROVE  WriterInv'
<1>1. (\A v \in Uploads : v # u => at'[v] = at[v]) /\ at'[u] = stage
  BY DEF TypeOK
<1>2. LockInv'
  BY <1>1 DEF WriterInv, LockInv, Live
<1>3. \A f \in Live, v \in Uploads : Writes(v, f)' => Writes(v, f)
  BY <1>1 DEF Writes, Holding
<1> QED BY <1>1, <1>2, <1>3, KeepsWriters DEF Live

\* A new file, checked out by u or left to it, that nobody has been given.
LEMMA NewFileStep ==
    ASSUME TypeOK, WriterInv, NEW u \in Uploads, NEW f \in Files, file[f].state = "none", Live = {},
           file' = [file EXCEPT ![f] = [NewFile EXCEPT !.writable = FALSE,
                                                     !.client = IF u \in Clients THEN u ELSE @]],
           \A v \in Uploads : v # u => at'[v] = at[v] /\ of'[v] = of[v],
           \A v \in Uploads : at'[v] # "creating",
           of'[u] = f \/ of'[u] = of[u], part' = part
    PROVE  WriterInv'
<1>0. Singles \cap Clients = {} /\ NoOne \notin Uploads /\ Uploads = Singles \cup Clients
  BY UploadAssumption DEF Uploads
<1>1. /\ file'[f].state = "live" /\ ~file'[f].writable /\ file'[f].timeout = "none"
      /\ file'[f].client = IF u \in Clients THEN u ELSE NoOne
      /\ \A g \in Files : g # f => file'[g] = file[g]
  BY DEF TypeOK, NewFile
<1>2. Live' = {f}
  BY <1>1 DEF Live
<1>3. \A v \in Uploads : Writes(v, f)' => v = u
  BY DEF WriterInv, Known, Writes
<1>4. Known' /\ OneLive' /\ LockInv'
  BY <1>1, <1>2 DEF WriterInv, Known, OneLive, LockInv
<1>5. u \in Singles => Lapsed(f)'
  BY <1>0, <1>1 DEF Lapsed
<1>6. FileInv(f)'
  BY <1>0, <1>1, <1>3, <1>5 DEF FileInv, FreeInv, HolderInv, OneWriterOf
<1> QED BY <1>2, <1>4, <1>6 DEF WriterInv

\* A step by which u ends, and frees its file if it is live.
LEMMA ReleaseStep ==
    ASSUME TypeOK, GivenInv, WriterInv, NEW u \in Uploads, Writes(u, of[u]), of[u] \in Files,
           at' = [at EXCEPT ![u] = at'[u]], at'[u] \in {"done", "failed"},
           of' = [of EXCEPT ![u] = NoOne], UNCHANGED lock,
           \A v \in Clients : v # u => (InFlight(v)' => InFlight(v)),
           \A g \in Files : g # of[u] => file'[g] = file[g],
           file'[of[u]].state = file[of[u]].state,
           of[u] \in Live =>
              /\ file'[of[u]].writable /\ file'[of[u]].timeout = "none"
              /\ \/ file'[of[u]].client = NoOne
                 \/ u \in Singles /\ file'[of[u]].client = file[of[u]].client
    PROVE  WriterInv'
<1>f. PICK f \in Files : f = of[u]
  OBVIOUS
<1>0. Singles \cap Clients = {} /\ NoOne \notin Uploads /\ Uploads = Singles \cup Clients
      /\ NoOne \notin Files
  BY UploadAssumption DEF Uploads
<1>1. \A v \in Uploads : v # u => at'[v] = at[v] /\ of'[v] = of[v]
  BY DEF TypeOK
<1>2. of'[u] = NoOne
  BY DEF TypeOK
<1>3. \A g \in Files, v \in Uploads : Writes(v, g)' => v # u /\ Writes(v, g)
  BY <1>0, <1>1, <1>2 DEF Writes
<1>4. Live' = Live /\ \A g \in Files : file'[g].state = file[g].state
  BY DEF Live
<1>5. LockInv' /\ Known'
  <2>1. LockInv'
    BY <1>1, <1>4 DEF WriterInv, LockInv
  <2> QED BY <1>0, <1>1, <1>2, <1>4, <2>1 DEF WriterInv, Known
<1>6. CASE f \in Live
  <2>1. \A v \in Uploads : ~Writes(v, f)'
    BY <1>f, <1>3, <1>6 DEF WriterInv, FileInv, OneWriterOf
  <2>2. Lapsed(f)'
    <3>1. u \in Singles => Lapsed(f) /\ file[f].client \in Clients \cup {NoOne}
      BY <1>f, <1>6 DEF WriterInv, FileInv, HolderInv, TypeOK, Document
    <3> QED BY <1>f, <1>0, <1>1, <1>6, <3>1 DEF Lapsed
  <2>3. FileInv(f)'
    BY <1>f, <1>6, <2>1, <2>2 DEF FileInv, FreeInv, HolderInv, OneWriterOf
  <2> QED BY <1>4, <1>5, <1>6, <2>3, OneFileStep
<1>7. CASE f \notin Live
  <2>1. ASSUME NEW g \in Live' PROVE FileInv(g)'
    <3>1. g \in Live /\ g # f /\ g \in Files /\ file'[g] = file[g] /\ FileInv(g)
      BY <1>f, <1>4, <1>7, <2>1 DEF WriterInv, Live
    <3>2. file[g].client \in Clients \cup {NoOne}
      BY <3>1 DEF TypeOK, Document
    <3>3. Lapsed(g) => Lapsed(g)'
      <4>1. at[u] # "lapsed"
        BY DEF Writes, GivenInv
      <4> QED BY <1>0, <1>1, <3>1, <3>2, <4>1 DEF Lapsed
    <3>4. file[g].timeout = "running" => file[g].client # u
      BY <1>f, <3>1 DEF FileInv, FreeInv
    <3>5. FreeInv(g)'
      BY <1>f, <1>0, <1>1, <3>1, <3>3, <3>4 DEF FileInv, FreeInv
    <3> QED BY <1>3, <3>1, <3>3, <3>5 DEF FileInv, HolderInv, OneWriterOf
  <2> QED BY <1>4, <1>5, <2>1 DEF WriterInv, OneLive
<1> QED BY <1>6, <1>7

\* A step of a client that writes a file, and changes nothing of who does.
LEMMA HeldStep ==
    ASSUME TypeOK, GivenInv, WriterInv, NEW m \in Clients, Writes(m, of[m]), of[m] \in Files,
           UNCHANGED <<of, lock>>, \A v \in Uploads : v # m => at'[v] = at[v],
           at'[m] \notin {"creating"}, at[m] # "lapsed",
           \A f \in Files, v \in Uploads : Writes(v, f)' => Writes(v, f),
           \A g \in Files : g # of[m] => file'[g] = file[g],
           file'[of[m]].state = file[of[m]].state,
           of[m] \in Live =>
              /\ ~file'[of[m]].writable /\ file'[of[m]].client = m
              /\ file'[of[m]].timeout \in {"running", file[of[m]].timeout}
    PROVE  WriterInv'
<1>f. PICK f \in Files : f = of[m]
  OBVIOUS
<1>0. Singles \cap Clients = {} /\ Uploads = Singles \cup Clients
  BY UploadAssumption DEF Uploads
<1>1. Live' = Live /\ \A g \in Files : file'[g].state = file[g].state
  BY DEF Live
<1>2. LockInv'
  BY <1>1 DEF WriterInv, LockInv
<1>3. CASE f \in Live
  <2>1. \A v \in Uploads : Writes(v, f)' => v = m
    BY <1>f, <1>0, <1>3 DEF WriterInv, FileInv, OneWriterOf
  <2>2. file'[f].timeout # "over"
    BY <1>f, <1>0, <1>3 DEF WriterInv, FileInv, HolderInv
  <2>3. FreeInv(f)'
    BY <1>f, <1>3, <2>2 DEF FreeInv
  <2>4. HolderInv(f)'
    BY <1>f, <1>0, <1>3, <2>1, <2>2 DEF HolderInv
  <2>5. FileInv(f)' /\ Known'
    BY <1>1, <2>1, <2>3, <2>4 DEF FileInv, OneWriterOf, WriterInv, Known
  <2> QED BY <1>1, <1>2, <1>3, <2>5, OneFileStep
<1>4. CASE f \notin Live
  <2>1. \A g \in Live' : g \in Live /\ file'[g] = file[g]
    BY <1>f, <1>1, <1>4 DEF Live
  <2>2. \A v \in Uploads : at[v] = "lapsed" => at'[v] = "lapsed"
    OBVIOUS
  <2>3. \A g \in Live, v \in Uploads : Writes(v, g)' => Writes(v, g)
    BY DEF Live
  <2> QED BY <1>1, <1>2, <2>1, <2>2, <2>3, KeepsWriters
<1> QED BY <1>3, <1>4

\* A multipart upload that is aborted or completed.
LEMMA EndsStep ==
    ASSUME TypeOK, GivenInv, WriterInv, NEW m \in Clients, DeleteMultipart(m) \/ JobFinishes(m)
    PROVE  WriterInv'
<1>0. DocOK /\ AtOK /\ PartOK /\ m \in Uploads
  BY TypeParts DEF Uploads
<1>1. of[m] \in Files /\ Writes(m, of[m])
  BY <1>0 DEF DeleteMultipart, JobFinishes, GivenInv, Stages, Writes
<1>2. /\ at' = [at EXCEPT ![m] = at'[m]] /\ at'[m] \in {"done", "failed"}
      /\ of' = [of EXCEPT ![m] = NoOne] /\ UNCHANGED lock
  BY <1>0 DEF DeleteMultipart, JobFinishes, Leave, AtOK
<1>3. \A n \in Clients : n # m => (InFlight(n)' => InFlight(n))
  BY <1>0 DEF DeleteMultipart, JobFinishes, Forget, InFlight, PartOK
<1>4. \A g \in Files : g # of[m] => file'[g] = file[g]
  BY <1>0 DEF DeleteMultipart, JobFinishes, Update, DocOK
<1>5. file'[of[m]] \in {file[of[m]], Released(of[m]), Final(of[m])}
      /\ (file[of[m]].state = "live" => file'[of[m]] \in {Released(of[m]), Final(of[m])})
  BY <1>0, <1>1 DEF DeleteMultipart, JobFinishes, Update, DocOK
<1>6. file[of[m]] \in Document /\ (of[m] \in Live <=> file[of[m]].state = "live")
  BY <1>0, <1>1, DocumentFacts DEF Live
<1>7. /\ file'[of[m]].state = file[of[m]].state
      /\ of[m] \in Live =>
            /\ file'[of[m]].writable /\ file'[of[m]].timeout = "none"
            /\ \/ file'[of[m]].client = NoOne
               \/ m \in Singles /\ file'[of[m]].client = file[of[m]].client
  BY <1>5, <1>6 DEF Released, Final, Document
<1> QED BY <1>0, <1>1, <1>2, <1>3, <1>4, <1>7, ReleaseStep

\* A step that changes no file and no request's place, and puts no part under way.
LEMMA SamePlaces ==
    ASSUME TypeOK, WriterInv, UNCHANGED <<file, at, of, lock>>,
           \A n \in Clients : InFlight(n)' => InFlight(n)
    PROVE  WriterInv'
<1>1. LockInv'
  BY DEF WriterInv, LockInv, Live
<1>2. \A f \in Live, v \in Uploads : Writes(v, f)' => Writes(v, f)
  BY DEF Writes
<1> QED BY <1>1, <1>2, KeepsWriters DEF Live

\* A client that comes back in time to the file that still names it.
LEMMA ReturnStep ==
    ASSUME TypeOK, GivenInv, WriterInv, NEW m \in Clients, of[m] \in Files, at[m] = "gone",
           UNCHANGED <<file, of, lock>>, at' = [at EXCEPT ![m] = "open"],
           file[of[m]].state = "live", file[of[m]].client = m,
           \A n \in Clients : InFlight(n)' => n # m /\ InFlight(n)
    PROVE  WriterInv'
<1>f. PICK f \in Live : f = of[m]
  BY DEF Live
<1>0. Singles \cap Clients = {} /\ Uploads = Singles \cup Clients /\ m \in Uploads /\ m # NoOne
  BY UploadAssumption DEF Uploads
<1>1. at'[m] = "open" /\ \A v \in Uploads : v # m => at'[v] = at[v]
  BY <1>0 DEF TypeOK
<1>2. FreeInv(f) /\ HolderInv(f) /\ ~Lapsed(f)
  BY <1>f, <1>0 DEF WriterInv, FileInv, Lapsed
<1>3. ~file[f].writable /\ file[f].timeout # "over" /\ file[f].client = m
  BY <1>f, <1>2 DEF FreeInv
<1>4. \A v \in Uploads : Writes(v, f)' => v = m
  <2>1. \A v \in Uploads : v # m => (Writes(v, f)' => Writes(v, f))
    BY <1>1 DEF Writes
  <2> QED BY <1>0, <1>2, <1>3, <2>1 DEF HolderInv
<1>5. Live' = Live /\ LockInv' /\ Known'
  BY <1>1 DEF WriterInv, LockInv, Known, Live
<1>6. FileInv(f)'
  BY <1>0, <1>2, <1>3, <1>4 DEF FileInv, FreeInv, HolderInv, OneWriterOf
<1> QED BY <1>5, <1>6, OneFileStep

\* A day without parts: the client that the file names has gone, and nobody else
\* writes it.
LEMMA ExpireStep ==
    ASSUME TypeOK, GivenInv, WriterInv, NEW f \in Files, Expire(f) PROVE WriterInv'
<1>0. Singles \cap Clients = {} /\ Uploads = Singles \cup Clients
  BY UploadAssumption DEF Uploads
<1>1. /\ file[f].timeout = "running" /\ UNCHANGED <<of, lock, part>>
      /\ \A v \in Uploads : at'[v] = IF of[v] = f /\ at[v] = "gone" THEN "lapsed" ELSE at[v]
      /\ \A n \in Clients : of[n] = f => at[n] \in {"gone", "lapsed"} /\ ~InFlight(n)
  BY DEF Expire
<1>2. /\ file'[f] = [file[f] EXCEPT !.timeout = "over"] /\ file[f] \in Document
      /\ \A g \in Files : g # f => file'[g] = file[g]
  BY DEF Expire, TypeOK
<1>3. /\ file'[f].state = file[f].state /\ file'[f].writable = file[f].writable
      /\ file'[f].client = file[f].client /\ file'[f].timeout = "over"
  BY <1>2 DEF Document
<1>4. Live' = Live
  BY <1>2, <1>3 DEF Live
<1>5. LockInv' /\ Known'
  <2>1. LockInv'
    <3>1. \A v \in Uploads : at'[v] = "creating" => at[v] = "creating"
      BY <1>1
    <3> QED BY <1>1, <1>4, <3>1 DEF WriterInv, LockInv
  <2>2. \A g \in Files : file'[g].state = file[g].state
    BY <1>2, <1>3
  <2> QED BY <1>1, <2>1, <2>2 DEF WriterInv, Known
<1>6. \A g \in Files, v \in Uploads : Writes(v, g)' => Writes(v, g)
  BY <1>1 DEF Writes, InFlight
<1>7. CASE f \in Live
  <2>1. FreeInv(f) /\ HolderInv(f)
    BY <1>7 DEF WriterInv, FileInv
  <2>2. \A v \in Uploads : ~Writes(v, f)'
    <3>1. \A v \in Singles : ~Writes(v, f)
      BY <1>0, <1>1, <2>1 DEF HolderInv
    <3>2. \A v \in Clients : ~Writes(v, f)
      BY <1>0, <1>1 DEF Writes
    <3> QED BY <1>0, <1>6, <3>1, <3>2
  <2>3. ~file[f].writable /\ file[f].client \in Clients /\ of[file[f].client] = f
    BY <1>1, <2>1 DEF FreeInv
  <2>4. Lapsed(f)'
    BY <1>0, <1>1, <1>3, <2>3 DEF Lapsed
  <2>5. FileInv(f)'
    BY <1>3, <2>2, <2>3, <2>4 DEF FileInv, FreeInv, HolderInv, OneWriterOf
  <2> QED BY <1>4, <1>5, <1>7, <2>5, OneFileStep
<1>8. CASE f \notin Live
  <2>1. \A g \in Live' : g \in Live /\ file'[g] = file[g]
    BY <1>2, <1>4, <1>8 DEF Live
  <2>2. \A v \in Uploads : at[v] = "lapsed" => at'[v] = "lapsed"
    BY <1>1
  <2>3. \A g \in Files : file[g].state # "none" => file'[g].state # "none"
    BY <1>2, <1>3
  <2>4. \A g \in Live, v \in Uploads : Writes(v, g)' => Writes(v, g)
    BY <1>6 DEF Live
  <2> QED BY <1>1, <1>5, <2>1, <2>2, <2>3, <2>4, KeepsWriters
<1> QED BY <1>7, <1>8

\* One upload writes a file, through every step.
LEMMA WriterStep ==
    ASSUME ~StaleLookups, ~Resumes, TypeOK, GivenInv, WriterInv, [Next]_vars PROVE WriterInv'
<1>0. DocOK /\ AtOK /\ PartOK
  BY TypeParts
<1>a. Live \subseteq Files /\ Uploads = Singles \cup Clients /\ Clients \cap Singles = {}
      /\ NoOne \notin Files /\ NoOne \notin Uploads
  BY UploadAssumption DEF Live, Uploads
<1>1. ASSUME NEW u \in Uploads, Lookup(u) \/ Decide(u) \/ LookAgain(u) PROVE WriterInv'
  <2>1. CASE \E f \in Live : Checkout(u, f) /\ Lookup(u)
    BY <2>1, CheckoutStep DEF Lookup
  <2>2. CASE ~\E f \in Live : Checkout(u, f) /\ Lookup(u)
    <3>1. \E stage \in {"missed", "waiting", "creating", "idle"} :
             Enter(u, stage) /\ (stage = "creating" => lock = {} /\ lock' = {u} /\ Live = {})
      BY <1>1, <2>2 DEF Lookup, Decide, LookAgain
    <3>2. file' = file /\ (lock' = lock \/ at'[u] = "creating")
      BY <1>0, <1>1, <2>2 DEF Lookup, Decide, LookAgain, doc, Enter, AtOK
    <3>3. at[u] # "lapsed" /\ at[u] # "creating"
      BY <1>1 DEF Lookup, Decide, LookAgain
    <3>4. LockInv'
      BY <1>0, <3>1, <3>2, <3>3 DEF Enter, WriterInv, LockInv, AtOK, Live
    <3>5. \A f \in Live, v \in Uploads : Writes(v, f)' => Writes(v, f)
      BY <1>0, <3>1 DEF Enter, Writes, InFlight, AtOK
    <3> QED BY <1>0, <3>1, <3>2, <3>3, <3>4, <3>5, KeepsWriters DEF Enter, AtOK, Live
  <2> QED BY <2>1, <2>2
<1>2. ASSUME NEW u \in Uploads, NEW f \in Files, Create(u, f) PROVE WriterInv'
  <2>1. Live = {} /\ lock = {u}
    BY <1>2 DEF Create, WriterInv, LockInv
  <2>2. \A v \in Uploads : at'[v] # "creating" /\ (v # u => at'[v] = at[v] /\ of'[v] = of[v])
    BY <1>0, <1>2 DEF Create, WriterInv, LockInv, AtOK
  <2>3. of'[u] = f
    BY <1>0, <1>2 DEF Create, AtOK
  <2> QED BY <1>2, <2>1, <2>2, <2>3, NewFileStep DEF Create
<1>3. ASSUME NEW u \in Uploads, CreateFails(u) \/ Awakes(u) \/ Crash(u) PROVE WriterInv'
  <2>1. CASE \E f \in Live : Checkout(u, f) /\ Awakes(u)
    BY <2>1, CheckoutStep DEF Awakes
  <2>2. CASE ~\E f \in Live : Checkout(u, f) /\ Awakes(u)
    <3>1. \E stage \in {"refused", "failed", "gone"} : at' = [at EXCEPT ![u] = stage]
      BY <1>3, <2>2 DEF CreateFails, Awakes, Crash, Enter
    <3>2. file' = file /\ of' = of /\ part' = part
      BY <1>3, <2>2 DEF CreateFails, Awakes, Crash, Enter, doc
    <3>3. at[u] # "lapsed"
      BY <1>3 DEF CreateFails, Awakes, Crash
    <3>4. lock' = lock \/ at[u] = "creating"
      BY <1>3, <2>2 DEF CreateFails, Awakes, Crash
    <3>5. LockInv'
      BY <1>0, <3>1, <3>2, <3>4 DEF WriterInv, LockInv, AtOK, Live
    <3>6. \A f \in Live, v \in Uploads : Writes(v, f)' => Writes(v, f)
      BY <1>0, <3>1, <3>2 DEF Writes, InFlight, AtOK
    <3> QED BY <1>0, <3>1, <3>2, <3>3, <3>5, <3>6, KeepsWriters DEF AtOK, Live
  <2> QED BY <2>1, <2>2
<1>4. ASSUME NEW u \in Singles, Store(u) \/ Finish(u) \/ Fail(u) \/ SetFileWritable(u)
      PROVE  WriterInv'
  <2>0. u \in Uploads /\ of[u] \in Files /\ Writes(u, of[u])
    BY <1>a, <1>4 DEF Store, Finish, Fail, SetFileWritable, GivenInv, Stages, Writes
  <2>1. CASE Store(u) \/ Fail(u)
    <3>1. /\ at' = [at EXCEPT ![u] = at'[u]] /\ at'[u] \in {"stored", "failing"}
          /\ file' = file /\ of' = of /\ part' = part /\ lock' = lock
          /\ at[u] \in {"held", "stored"}
      BY <1>0, <2>0, <2>1 DEF Store, Fail, Enter, doc, AtOK
    <3>2. LockInv'
      BY <1>0, <3>1 DEF WriterInv, LockInv, AtOK, Live
    <3>3. \A f \in Live, v \in Uploads : Writes(v, f)' => Writes(v, f)
      BY <1>0, <3>1 DEF Writes, InFlight, AtOK
    <3> QED BY <1>0, <3>1, <3>2, <3>3, KeepsWriters DEF AtOK, Live
  <2>2. CASE Finish(u) \/ SetFileWritable(u)
    <3>1. /\ at' = [at EXCEPT ![u] = at'[u]] /\ at'[u] \in {"done", "failed"}
          /\ of' = [of EXCEPT ![u] = NoOne] /\ UNCHANGED lock /\ part' = part
      BY <1>0, <2>0, <2>2 DEF Finish, SetFileWritable, Leave, AtOK
    <3>2. \A g \in Files : g # of[u] => file'[g] = file[g]
      BY <1>0, <2>2 DEF Finish, SetFileWritable, DocOK
    <3>3. \/ file'[of[u]] = Final(of[u]) /\ file[of[u]].state = "live"
          \/ file'[of[u]] = file[of[u]] /\ file[of[u]].state # "live"
          \/ file'[of[u]] = [file[of[u]] EXCEPT !.writable = TRUE] /\ file[of[u]].state = "live"
      BY <1>0, <2>0, <2>2 DEF Finish, SetFileWritable, DocOK
    <3>4. file[of[u]] \in Document /\ (of[u] \in Live <=> file[of[u]].state = "live")
      BY <1>0, <2>0, DocumentFacts DEF Live
    <3>5. of[u] \in Live => file[of[u]].timeout = "none"
      BY <1>4, <2>0 DEF WriterInv, FileInv, HolderInv
    <3>6. /\ file'[of[u]].state = file[of[u]].state
          /\ of[u] \in Live =>
                /\ file'[of[u]].writable /\ file'[of[u]].timeout = "none"
                /\ \/ file'[of[u]].client = NoOne
                   \/ u \in Singles /\ file'[of[u]].client = file[of[u]].client
      BY <1>4, <3>3, <3>4, <3>5 DEF Final, Released, Document
    <3>7. \A v \in Clients : v # u => (InFlight(v)' => InFlight(v))
      BY <3>1 DEF InFlight
    <3> QED BY <2>0, <3>1, <3>2, <3>6, <3>7, ReleaseStep
  <2> QED BY <1>4, <2>1, <2>2
<1>5. ASSUME NEW m \in Clients, NEW i \in UploadIds, StartMultipart(m, i) PROVE WriterInv'
  <2>1. \A n \in Clients : InFlight(n)' => InFlight(n)
    BY <1>5 DEF StartMultipart, InFlight
  <2>2. at[m] = "checked" /\ at' = [at EXCEPT ![m] = "starting"] /\ UNCHANGED <<file, of, lock>>
    BY <1>5 DEF StartMultipart, doc
  <2> QED BY <1>a, <2>1, <2>2, StageStep DEF Holding
<1>6. ASSUME NEW m \in Clients, UsesId(m) \/ RecordId(m) \/ RequestCompletion(m) PROVE WriterInv'
  <2>1. CASE UsesId(m) \/ RequestCompletion(m)
    <3>1. \A n \in Clients : InFlight(n)' => InFlight(n)
      BY <2>1 DEF UsesId, RequestCompletion, Enter, InFlight
    <3>2. /\ at[m] \in {"checked", "open"}
          /\ \E stage \in {"open", "completing"} : at' = [at EXCEPT ![m] = stage]
          /\ UNCHANGED <<file, of, lock>>
      BY <2>1 DEF UsesId, RequestCompletion, Enter
    <3> QED BY <1>a, <3>1, <3>2, StageStep DEF Holding
  <2>2. CASE RecordId(m)
    <3>1. of[m] \in Files /\ Writes(m, of[m]) /\ at[m] = "starting"
      BY <1>a, <2>2 DEF RecordId, GivenInv, Stages, Writes
    <3>2. UNCHANGED <<of, lock, part>> /\ at' = [at EXCEPT ![m] = "open"]
      BY <2>2 DEF RecordId
    <3>3. \A g \in Files : g # of[m] => file'[g] = file[g]
      BY <1>0, <2>2 DEF RecordId, Update, DocOK
    <3>4. \/ file'[of[m]] = file[of[m]] /\ file[of[m]].state = "erased"
          \/ file'[of[m]] = [file[of[m]] EXCEPT !.timeout = "running", !.id = idOf[m], !.client = m]
      BY <1>0, <2>2, <3>1 DEF RecordId, Update, DocOK
    <3>5. file[of[m]] \in Document
      BY <1>0, <3>1, DocumentFacts
    <3>6. of[m] \in Live => ~file[of[m]].writable
      BY <1>a, <3>1 DEF WriterInv, FileInv, HolderInv
    <3>7. /\ file'[of[m]].state = file[of[m]].state
          /\ of[m] \in Live =>
                /\ ~file'[of[m]].writable /\ file'[of[m]].client = m
                /\ file'[of[m]].timeout \in {"running", file[of[m]].timeout}
      BY <3>4, <3>5, <3>6 DEF Document, Live
    <3>8. (\A v \in Uploads : v # m => at'[v] = at[v]) /\ at'[m] = "open"
      BY <1>0, <1>a, <3>2 DEF AtOK
    <3>9. \A f \in Files, v \in Uploads : Writes(v, f)' => Writes(v, f)
      BY <3>1, <3>2, <3>8 DEF Writes, InFlight
    <3> QED BY <1>a, <3>1, <3>2, <3>3, <3>7, <3>8, <3>9, HeldStep
  <2> QED BY <1>6, <2>1, <2>2
<1>7. ASSUME NEW m \in Clients, Abort(m) \/ DeleteMultipart(m) PROVE WriterInv'
  <2>1. CASE Abort(m)
    <3>1. \A n \in Clients : InFlight(n)' => InFlight(n)
      BY <2>1 DEF Abort, InFlight
    <3>2. at[m] = "open" /\ at' = [at EXCEPT ![m] = "aborting"] /\ UNCHANGED <<file, of, lock>>
      BY <2>1 DEF Abort, doc
    <3> QED BY <1>a, <3>1, <3>2, StageStep DEF Holding
  <2>2. CASE DeleteMultipart(m)
    BY <1>a, <2>2, EndsStep DEF DeleteMultipart
  <2> QED BY <1>7, <2>1, <2>2
<1>8. ASSUME NEW m \in Clients, JobReads(m) \/ JobAssembles(m) \/ JobFinishes(m) \/ JobFails(m)
      PROVE  WriterInv'
  <2>1. CASE JobReads(m) \/ JobAssembles(m)
    <3>1. \A n \in Clients : InFlight(n)' => InFlight(n)
      BY <2>1 DEF JobReads, JobAssembles, InFlight
    <3>2. /\ at[m] \in {"completing", "assembling"}
          /\ \E stage \in {"assembling", "assembled"} : at' = [at EXCEPT ![m] = stage]
          /\ UNCHANGED <<file, of, lock>>
      BY <2>1 DEF JobReads, JobAssembles, doc
    <3> QED BY <1>a, <3>1, <3>2, StageStep DEF Holding
  <2>2. CASE JobFinishes(m)
    BY <1>a, <2>2, EndsStep DEF JobFinishes
  <2>3. CASE JobFails(m)
    <3>1. \A n \in Clients : InFlight(n)' => InFlight(n)
      BY <1>0, <2>3 DEF JobFails, Forget, NoPart, InFlight, PartOK
    <3>2. at[m] # "lapsed" /\ at' = [at EXCEPT ![m] = "gone"] /\ UNCHANGED <<file, of, lock>>
      BY <2>3 DEF JobFails, doc
    <3> QED BY <1>a, <3>1, <3>2, StageStep DEF Holding
  <2> QED BY <1>8, <2>1, <2>2, <2>3
<1>9. ASSUME NEW m \in Clients, GiveUp(m) \/ Return(m) PROVE WriterInv'
  <2>1. CASE GiveUp(m)
    <3>1. \A n \in Clients : InFlight(n)' => InFlight(n)
      BY <2>1 DEF GiveUp, Enter, InFlight
    <3>2. at[m] = "open" /\ at' = [at EXCEPT ![m] = "gone"] /\ UNCHANGED <<file, of, lock>>
      BY <2>1 DEF GiveUp, Enter
    <3> QED BY <1>a, <3>1, <3>2, StageStep DEF Holding
  <2>2. CASE Return(m)
    <3>1. \A n \in Clients : InFlight(n)' => n # m /\ InFlight(n)
      <4>1. \A p \in Parts : part'[m][p].step \in {"none", "saved"}
        <5> DEFINE listed == {p \in Parts :
                      \E i \in UploadIds : <<of[m], i>> \in issued /\ p \in partDocs[i]}
                   resumed == [p \in Parts |-> IF p \in listed
                      THEN [step |-> "saved", id |-> file[of[m]].id] ELSE NoPart]
        <5>1. \/ part' = [part EXCEPT ![m] = resumed]
              \/ part' = [part EXCEPT ![m] = [p \in Parts |-> NoPart]]
          BY <2>2 DEF Return
        <5> HIDE DEF listed
        <5> QED BY <1>0, <5>1 DEF NoPart, PartOK
      <4>2. \A n \in Clients : n # m => part'[n] = part[n]
        BY <1>0, <2>2 DEF Return, PartOK
      <4> QED BY <4>1, <4>2 DEF InFlight
    <3>2. /\ at[m] = "gone" /\ UNCHANGED <<file, of, lock>>
          /\ \/ at' = [at EXCEPT ![m] = "idle"]
             \/ /\ at' = [at EXCEPT ![m] = "open"]
                /\ file[of[m]].state = "live" /\ file[of[m]].client = m
      BY <2>2 DEF Return, doc
    <3>3. CASE at' = [at EXCEPT ![m] = "idle"]
      BY <1>a, <3>1, <3>2, <3>3, StageStep DEF Holding
    <3>4. CASE at' = [at EXCEPT ![m] = "open"] /\ file[of[m]].state = "live" /\ file[of[m]].client = m
      BY <1>a, <3>1, <3>2, <3>4, ReturnStep DEF GivenInv, Stages
    <3> QED BY <3>2, <3>3, <3>4
  <2> QED BY <1>9, <2>1, <2>2
<1>10. ASSUME NEW m \in Clients, NEW f \in Files, StrayPart(m, f) PROVE WriterInv'
  <2>1. \A v \in Uploads : at'[v] # "creating" /\ (v # m => at'[v] = at[v] /\ of'[v] = of[v])
    BY <1>0, <1>10 DEF StrayPart, WriterInv, LockInv, AtOK
  <2>2. /\ Live = {} /\ file[f].state = "none" /\ of' = of /\ part' = part
        /\ file' = [file EXCEPT ![f] = [NewFile EXCEPT !.writable = FALSE,
                                                      !.client = IF m \in Clients THEN m ELSE @]]
    BY <1>10 DEF StrayPart
  <2> QED BY <1>a, <2>1, <2>2, NewFileStep
<1>11. ASSUME NEW m \in Clients, NEW p \in Parts, SendPart(m, p) \/ StorePart(m, p) PROVE WriterInv'
  <2>1. CASE SendPart(m, p)
    <3>1. of[m] \in Files /\ Writes(m, of[m]) /\ at[m] = "open" /\ of[m] \in Live
      BY <1>a, <2>1 DEF SendPart, GivenInv, Stages, Writes, Live
    <3>2. UNCHANGED <<at, of, lock>> /\ file' = [file EXCEPT ![of[m]] = CheckedOut(m, of[m])]
      BY <2>1 DEF SendPart, PartGoes
    <3>3. \A g \in Files : g # of[m] => file'[g] = file[g]
      BY <1>0, <3>2 DEF DocOK
    <3>4. file[of[m]] \in Document /\ file'[of[m]] = CheckedOut(m, of[m])
      BY <1>0, <3>1, <3>2, DocumentFacts DEF DocOK
    <3>5. ~file[of[m]].writable /\ file[of[m]].client = m
      BY <1>a, <3>1 DEF WriterInv, FileInv, HolderInv
    <3>6. /\ file'[of[m]].state = file[of[m]].state /\ ~file'[of[m]].writable
          /\ file'[of[m]].client = m /\ file'[of[m]].timeout = file[of[m]].timeout
      BY <3>4, <3>5 DEF CheckedOut, Document
    <3>7. \A v \in Clients : v # m => (InFlight(v)' => InFlight(v))
      BY <1>0, <2>1 DEF SendPart, PartGoes, InFlight, PartOK
    <3>8. \A f \in Files, v \in Uploads : Writes(v, f)' => Writes(v, f)
      BY <1>a, <3>1, <3>2, <3>7 DEF Writes
    <3> QED BY <1>a, <3>1, <3>2, <3>3, <3>6, <3>8, HeldStep
  <2>2. CASE StorePart(m, p)
    <3>1. UNCHANGED <<file, at, of, lock>>
      BY <2>2 DEF StorePart, PartGoes, doc
    <3>2. \A n \in Clients : InFlight(n)' => InFlight(n)
      BY <1>0, <2>2 DEF StorePart, PartGoes, InFlight, PartOK
    <3> QED BY <3>1, <3>2, SamePlaces
  <2> QED BY <1>11, <2>1, <2>2
<1>12. ASSUME NEW m \in Clients, NEW p \in Parts, SavePart(m, p) \/ PartFails(m, p) PROVE WriterInv'
  <2>0. \A n \in Clients : InFlight(n)' => InFlight(n)
    BY <1>0, <1>12 DEF SavePart, PartFails, PartGoes, InFlight, NoPart, PartOK
  <2>1. CASE SavePart(m, p)
    <3>1. InFlight(m) /\ UNCHANGED <<at, of, lock>>
      BY <2>1 DEF SavePart, PartGoes, InFlight
    <3>2. of[m] \in Files /\ Writes(m, of[m]) /\ at[m] \in {"open", "gone"} /\ of[m] \in Live
      BY <1>a, <2>1, <3>1 DEF SavePart, GivenInv, Stages, Writes, Live
    <3>3. /\ file' = [file EXCEPT ![of[m]].writable = FALSE, ![of[m]].timeout = "running",
                                 ![of[m]].id = part[m][p].id]
          /\ file[of[m]] \in Document
      BY <1>0, <2>1, <3>2, DocumentFacts DEF SavePart
    <3>4. \A g \in Files : g # of[m] => file'[g] = file[g]
      BY <1>0, <3>3 DEF DocOK
    <3>5. file[of[m]].client = m
      BY <1>a, <3>2 DEF WriterInv, FileInv, HolderInv
    <3>6. /\ file'[of[m]].state = file[of[m]].state /\ ~file'[of[m]].writable
          /\ file'[of[m]].client = m /\ file'[of[m]].timeout = "running"
      BY <1>0, <3>2, <3>3, <3>5 DEF DocOK, Document
    <3>7. \A f \in Files, v \in Uploads : Writes(v, f)' => Writes(v, f)
      BY <2>0, <3>1 DEF Writes
    <3> QED BY <1>a, <3>1, <3>2, <3>4, <3>6, <3>7, HeldStep
  <2>2. CASE PartFails(m, p)
    <3>1. UNCHANGED <<file, at, of, lock>>
      BY <2>2 DEF PartFails, PartGoes, doc
    <3> QED BY <2>0, <3>1, SamePlaces
  <2> QED BY <1>12, <2>1, <2>2
<1>13. ASSUME NEW f \in Files, NEW i \in UploadIds, CleanUp(f, i) PROVE WriterInv'
  <2>1. UNCHANGED <<file, at, of, lock>> /\ part' = part
    BY <1>13 DEF CleanUp, doc, requests
  <2> QED BY <2>1, SamePlaces DEF InFlight
<1>14. ASSUME NEW f \in Files, Expire(f) \/ BeginDeleteFile(f) \/ RunDeleteFile(f) PROVE WriterInv'
  <2>1. CASE Expire(f)
    BY <2>1, ExpireStep
  <2>2. CASE BeginDeleteFile(f) \/ RunDeleteFile(f)
    <3>1. UNCHANGED <<at, of, lock, part>>
      BY <2>2 DEF BeginDeleteFile, RunDeleteFile, requests
    <3>2. /\ \A g \in Files : g # f => file'[g] = file[g]
          /\ file'[f].state \in {"deleted", "erased"}
      BY <1>0, <2>2 DEF BeginDeleteFile, RunDeleteFile, DocOK, Document, NewFile
    <3>3. /\ \A g \in Live' : g \in Live /\ file'[g] = file[g]
          /\ \A g \in Files : file[g].state # "none" => file'[g].state # "none"
      BY <3>2 DEF Live
    <3>4. LockInv'
      BY <3>1, <3>3 DEF WriterInv, LockInv
    <3>5. \A g \in Live, v \in Uploads : Writes(v, g)' => Writes(v, g)
      BY <3>1 DEF Writes, InFlight
    <3> QED BY <3>1, <3>3, <3>4, <3>5, KeepsWriters
  <2> QED BY <1>14, <2>1, <2>2
<1>15. CASE UNCHANGED vars
  <2>1. UNCHANGED <<file, at, of, lock>> /\ part' = part
    BY <1>15 DEF vars
  <2> QED BY <2>1, SamePlaces DEF InFlight
<1> QED BY <1>1, <1>2, <1>3, <1>4, <1>5, <1>6, <1>7, <1>8, <1>9, <1>10, <1>11, <1>12, <1>13,
           <1>14, <1>15, NextCases

\* At the start there is no file, and nobody has been given one.
LEMMA InitWriters == Init => WriterInv
<1> SUFFICES ASSUME Init PROVE WriterInv
  OBVIOUS
<1>1. Live = {} /\ \A u \in Uploads : at[u] = "idle" /\ of[u] = NoOne
  BY DEF Init, Live, NewFile
<1> QED BY <1>1, UploadAssumption DEF WriterInv, LockInv, OneLive, Known

\* Never do two uploads write one file, whatever fails, expires, is resumed in time
\* or is deleted: if a file is created only while none is there, and no client comes
\* back to an upload that has expired.
THEOREM OneWriterHolds == ~StaleLookups /\ ~Resumes => (Spec => []OneWriter)
<1> SUFFICES ASSUME ~StaleLookups, ~Resumes PROVE Spec => []OneWriter
  OBVIOUS
<1> DEFINE Inv == TypeOK /\ GivenInv /\ WriterInv
<1>1. Init => Inv
  BY InitTypes, InitWriters
<1>2. Inv /\ [Next]_vars => Inv'
  BY TypeStep, GivenStep, WriterStep
<1>3. Inv => OneWriter
  BY DEF WriterInv, FileInv, OneWriterOf, OneWriter
<1> QED BY <1>1, <1>2, <1>3, PTL DEF Spec

-----------------------------------------------------------------------------
(* No file stays checked out.  A client that is past its start has had its *)
(* multipart id recorded with a timeout; before it, only a fault makes it  *)
(* leave its file as it is.  This needs none of the switches.              *)

Minding == {"held", "stored", "failing", "checked", "starting"}

\* Who has f checked out and will release it, or record a multipart upload of it.
Minds(u, f) == of[u] = f /\ at[u] \in Minding

\* A file in a multipart upload, and no other, has a time at which that expires.
TimedOf(f) == file[f].id = NoId <=> file[f].timeout = "none"
MindedOf(f) ==
    file[f].writable \/ file[f].timeout # "none" \/ faults > 0 \/ \E u \in Uploads : Minds(u, f)
SoundOf(f) == TimedOf(f) /\ MindedOf(f)
StartInv == \A m \in Clients : at[m] = "starting" => idOf[m] # NoId
SoundInv == StartInv /\ \A f \in Live : SoundOf(f)

\* A fault is not forgotten.
LEMMA FaultsKept == ASSUME TypeOK, [Next]_vars PROVE faults > 0 => faults' > 0
<1>0. faults \in Nat
  BY DEF TypeOK
<1> USE <1>0 DEF Retry, Fault, Untroubled, Enter
<1>1. \A u \in Uploads : Lookup(u) \/ Decide(u) \/ LookAgain(u) => faults' = faults
  BY DEF Lookup, Decide, LookAgain, Checkout
<1>2. \A u \in Uploads, f \in Files : Create(u, f) => faults' = faults
  BY DEF Create
<1>3. \A u \in Uploads : CreateFails(u) \/ Awakes(u) \/ Crash(u) => (faults > 0 => faults' > 0)
  BY DEF CreateFails, Awakes, Crash, Checkout
<1>4. \A u \in Singles : Store(u) \/ Finish(u) \/ Fail(u) \/ SetFileWritable(u) => faults' = faults
  BY DEF Store, Finish, Fail, SetFileWritable
<1>5. \A m \in Clients, i \in UploadIds : StartMultipart(m, i) => faults' = faults
  BY DEF StartMultipart
<1>6. \A m \in Clients : UsesId(m) \/ RecordId(m) \/ RequestCompletion(m) => faults' = faults
  BY DEF UsesId, RecordId, RequestCompletion
<1>7. \A m \in Clients : Abort(m) \/ DeleteMultipart(m) => faults' = faults
  BY DEF Abort, DeleteMultipart
<1>8. \A m \in Clients : JobReads(m) \/ JobAssembles(m) \/ JobFinishes(m) \/ JobFails(m) => faults' = faults
  BY DEF JobReads, JobAssembles, JobFinishes, JobFails
<1>9. \A m \in Clients : GiveUp(m) \/ Return(m) => faults' = faults
  BY DEF GiveUp, Return
<1>10. \A m \in Clients, f \in Files : StrayPart(m, f) => (faults > 0 => faults' > 0)
  BY DEF StrayPart
<1>11. \A m \in Clients, p \in Parts : SendPart(m, p) \/ StorePart(m, p) => faults' = faults
  BY DEF SendPart, StorePart
<1>12. \A m \in Clients, p \in Parts : SavePart(m, p) \/ PartFails(m, p) => faults' = faults
  BY DEF SavePart, PartFails
<1>13. \A f \in Files, i \in UploadIds : CleanUp(f, i) => faults' = faults
  BY DEF CleanUp
<1>14. \A f \in Files : Expire(f) \/ BeginDeleteFile(f) \/ RunDeleteFile(f) => faults' = faults
  BY DEF Expire, BeginDeleteFile, RunDeleteFile
<1>15. UNCHANGED vars => faults' = faults
  BY DEF vars
<1> QED BY <1>1, <1>2, <1>3, <1>4, <1>5, <1>6, <1>7, <1>8, <1>9, <1>10, <1>11, <1>12, <1>13,
           <1>14, <1>15, NextCases

\* A client that starts has the id that the backend gave it until that is recorded.
LEMMA StartStep == ASSUME TypeOK, StartInv, [Next]_vars PROVE StartInv'
<1>0. AtOK /\ PartOK /\ Clients \subseteq Uploads /\ Singles \cap Clients = {} /\ Singles \subseteq Uploads
  BY TypeParts, UploadAssumption DEF Uploads
<1> USE <1>0 DEF StartInv, AtOK, PartOK
<1>1. ASSUME NEW u \in Uploads, Lookup(u) \/ Decide(u) \/ LookAgain(u) PROVE StartInv'
  BY <1>1 DEF Lookup, Decide, LookAgain, Checkout, Enter
<1>2. ASSUME NEW u \in Uploads, NEW f \in Files, Create(u, f) PROVE StartInv'
  BY <1>2 DEF Create
<1>3. ASSUME NEW u \in Uploads, CreateFails(u) \/ Awakes(u) \/ Crash(u) PROVE StartInv'
  BY <1>3 DEF CreateFails, Awakes, Crash, Checkout, Enter
<1>4. ASSUME NEW u \in Singles, Store(u) \/ Finish(u) \/ Fail(u) \/ SetFileWritable(u)
      PROVE  StartInv'
  BY <1>4 DEF Store, Finish, Fail, SetFileWritable, Enter, Leave
<1>5. ASSUME NEW m \in Clients, NEW i \in UploadIds, StartMultipart(m, i) PROVE StartInv'
  BY <1>5, UploadAssumption DEF StartMultipart
<1>6. ASSUME NEW m \in Clients, UsesId(m) \/ RecordId(m) \/ RequestCompletion(m) PROVE StartInv'
  BY <1>6 DEF UsesId, RecordId, RequestCompletion, Enter
<1>7. ASSUME NEW m \in Clients, Abort(m) \/ DeleteMultipart(m) PROVE StartInv'
  BY <1>7 DEF Abort, DeleteMultipart, Leave, Forget
<1>8. ASSUME NEW m \in Clients, JobReads(m) \/ JobAssembles(m) \/ JobFinishes(m) \/ JobFails(m)
      PROVE  StartInv'
  <2>1. CASE JobReads(m) \/ JobAssembles(m)
    BY <2>1 DEF JobReads, JobAssembles
  <2>2. CASE JobFinishes(m) \/ JobFails(m)
    BY <2>2 DEF JobFinishes, JobFails, Leave, Forget
  <2> QED BY <1>8, <2>1, <2>2
<1>9. ASSUME NEW m \in Clients, GiveUp(m) \/ Return(m) PROVE StartInv'
  <2>1. idOf' = idOf /\ \A n \in Clients : at'[n] = "starting" => at[n] = "starting"
    BY <1>9 DEF GiveUp, Return, Enter
  <2> QED BY <2>1
<1>10. ASSUME NEW m \in Clients, NEW f \in Files, StrayPart(m, f) PROVE StartInv'
  BY <1>10 DEF StrayPart
<1>11. ASSUME NEW m \in Clients, NEW p \in Parts, SendPart(m, p) \/ StorePart(m, p) PROVE StartInv'
  BY <1>11 DEF SendPart, StorePart, PartGoes
<1>12. ASSUME NEW m \in Clients, NEW p \in Parts, SavePart(m, p) \/ PartFails(m, p) PROVE StartInv'
  BY <1>12 DEF SavePart, PartFails, PartGoes
<1>13. ASSUME NEW f \in Files, NEW i \in UploadIds, CleanUp(f, i) PROVE StartInv'
  BY <1>13 DEF CleanUp, requests
<1>14. ASSUME NEW f \in Files, Expire(f) \/ BeginDeleteFile(f) \/ RunDeleteFile(f) PROVE StartInv'
  BY <1>14 DEF Expire, BeginDeleteFile, RunDeleteFile, requests
<1>15. CASE UNCHANGED vars
  BY <1>15 DEF vars
<1> QED BY <1>1, <1>2, <1>3, <1>4, <1>5, <1>6, <1>7, <1>8, <1>9, <1>10, <1>11, <1>12, <1>13,
           <1>14, <1>15, NextCases

\* A step leaves f as it is, and takes nobody from it who minds it, but by a fault or
\* when it has a timeout.
Leaves(f) ==
    /\ f \in Live /\ file'[f] = file[f]
    /\ \A u \in Uploads : Minds(u, f) => Minds(u, f)' \/ faults' > 0 \/ file[f].timeout # "none"

LEMMA SoundKept ==
    ASSUME SoundInv, StartInv', faults > 0 => faults' > 0, \A f \in Live' : SoundOf(f)' \/ Leaves(f)
    PROVE  SoundInv'
<1> SUFFICES ASSUME NEW f \in Live', Leaves(f) PROVE SoundOf(f)'
  BY DEF SoundInv
<1>1. SoundOf(f) /\ file'[f] = file[f]
  BY DEF SoundInv, Leaves
<1>2. TimedOf(f)'
  BY <1>1 DEF SoundOf, TimedOf
<1>3. MindedOf(f)'
  BY <1>1 DEF SoundOf, MindedOf, Leaves
<1> QED BY <1>2, <1>3 DEF SoundOf

\* A step that changes only where a request is.
LEMMA SoundStage ==
    ASSUME TypeOK, SoundInv, StartInv', faults > 0 => faults' > 0, UNCHANGED <<file, of>>,
           NEW u \in Uploads, NEW stage, at' = [at EXCEPT ![u] = stage],
           \/ at[u] \notin Minding \/ stage \in Minding \/ faults' > 0
           \/ file[of[u]].id # NoId
    PROVE  SoundInv'
<1>1. (\A v \in Uploads : v # u => at'[v] = at[v]) /\ at'[u] = stage
  BY DEF TypeOK
<1>2. Live' = Live
  BY DEF Live
<1>3. ASSUME NEW f \in Live PROVE Leaves(f)
  <2>1. of[u] = f /\ file[of[u]].id # NoId => file[f].timeout # "none"
    BY DEF SoundInv, SoundOf, TimedOf
  <2> QED BY <1>1, <2>1 DEF Leaves, Minds
<1> QED BY <1>2, <1>3, SoundKept

\* A step that changes the document of f, and at most where its own uploads are.
LEMMA SoundChange ==
    ASSUME SoundInv, StartInv', faults > 0 => faults' > 0, NEW f,
           \A g \in Files : g # f => file'[g] = file[g],
           \A u \in Uploads, g \in Files : g # f /\ Minds(u, g) => Minds(u, g)',
           f \in Live' => SoundOf(f)'
    PROVE  SoundInv'
<1>1. \A g \in Live' : g # f => Leaves(g)
  BY DEF Live, Leaves
<1> QED BY <1>1, SoundKept

LEMMA SoundCheckout ==
    ASSUME TypeOK, SoundInv, StartInv', NEW u \in Uploads, NEW f \in Live,
           at[u] \in {"idle", "waiting"}, Checkout(u, f)
    PROVE  SoundInv'
<1>0. f \in Files /\ file[f] \in Document /\ DocOK /\ AtOK /\ faults' = faults
  BY TypeParts DEF TypeOK, Live, Checkout
<1>1. CASE ~Available(u, f)
  <2>1. at' = [at EXCEPT ![u] = "refused"] /\ UNCHANGED <<file, of>>
    BY <1>1 DEF Checkout
  <2> QED BY <1>0, <2>1, SoundStage DEF Minding
<1>2. CASE Available(u, f)
  <2>1. /\ file'[f] = CheckedOut(u, f) /\ of'[u] = f /\ at'[u] \in {"held", "checked"}
        /\ \A g \in Files : g # f => file'[g] = file[g]
        /\ \A v \in Uploads : v # u => of'[v] = of[v] /\ at'[v] = at[v]
    BY <1>0, <1>2 DEF Checkout, DocOK, AtOK
  <2>2. \/ file'[f].id = NoId /\ file'[f].timeout = "none"
        \/ file'[f].id = file[f].id /\ file'[f].timeout = file[f].timeout
    BY <1>0, <2>1 DEF CheckedOut, Document
  <2>3. TimedOf(f)'
    BY <2>2 DEF SoundInv, SoundOf, TimedOf
  <2>4. MindedOf(f)'
    BY <2>1 DEF MindedOf, Minds, Minding
  <2>5. \A v \in Uploads, g \in Files : g # f /\ Minds(v, g) => Minds(v, g)'
    BY <2>1 DEF Minds, Minding
  <2> QED BY <1>0, <2>1, <2>3, <2>4, <2>5, SoundChange DEF SoundOf
<1> QED BY <1>1, <1>2

\* A step that lets u go, if at all, and leaves its document writable and in no
\* multipart upload, or in the one it was in.
LEMMA SoundRelease ==
    ASSUME SoundInv, StartInv', NEW u \in Uploads, NEW f \in Files, of[u] = f, faults' = faults,
           \A v \in Uploads : v # u => at'[v] = at[v] /\ of'[v] = of[v],
           \A g \in Files : g # f => file'[g] = file[g],
           f \in Live' => /\ f \in Live /\ file'[f].writable
                          /\ \/ file'[f].id = NoId /\ file'[f].timeout = "none"
                             \/ file'[f].id = file[f].id /\ file'[f].timeout = file[f].timeout
    PROVE  SoundInv'
<1>1. f \in Live' => TimedOf(f)'
  BY DEF SoundInv, SoundOf, TimedOf
<1>2. f \in Live' => MindedOf(f)'
  BY DEF MindedOf
<1>3. \A v \in Uploads, g \in Files : g # f /\ Minds(v, g) => Minds(v, g)'
  BY DEF Minds
<1> QED BY <1>1, <1>2, <1>3, SoundChange DEF SoundOf

\* Every step keeps every live file as it should be.
LEMMA SoundStep == ASSUME TypeOK, GivenInv, SoundInv, [Next]_vars PROVE SoundInv'
<1>0. DocOK /\ AtOK /\ PartOK /\ CountOK /\ (faults > 0 => faults' > 0) /\ StartInv'
  BY TypeParts, FaultsKept, StartStep DEF SoundInv
<1>a. Live \subseteq Files /\ Clients \subseteq Uploads /\ Singles \subseteq Uploads
  BY DEF Live, Uploads
<1>1. ASSUME NEW u \in Uploads, Lookup(u) \/ Decide(u) \/ LookAgain(u) PROVE SoundInv'
  <2>1. CASE \E f \in Live : Checkout(u, f) /\ Lookup(u)
    BY <1>0, <2>1, SoundCheckout DEF Lookup
  <2>2. CASE ~\E f \in Live : Checkout(u, f) /\ Lookup(u)
    <3>1. /\ at[u] \in {"idle", "missed"} /\ UNCHANGED <<file, of>>
          /\ \E stage \in {"missed", "waiting", "creating", "idle"} :
                at' = [at EXCEPT ![u] = stage]
      BY <1>1, <2>2 DEF Lookup, Decide, LookAgain, Enter, doc
    <3> QED BY <1>0, <3>1, SoundStage DEF Minding
  <2> QED BY <2>1, <2>2
<1>2. ASSUME NEW u \in Uploads, NEW f \in Files, Create(u, f) PROVE SoundInv'
  <2>1. /\ of'[u] = f /\ at'[u] \in {"held", "checked"} /\ at[u] = "creating"
        /\ \A v \in Uploads : v # u => of'[v] = of[v] /\ at'[v] = at[v]
        /\ \A g \in Files : g # f => file'[g] = file[g]
    BY <1>0, <1>2 DEF Create, AtOK, DocOK
  <2>2. file'[f].id = NoId /\ file'[f].timeout = "none"
    BY <1>0, <1>2 DEF Create, DocOK, NewFile
  <2>3. SoundOf(f)'
    BY <2>1, <2>2 DEF SoundOf, TimedOf, MindedOf, Minds, Minding
  <2>4. \A v \in Uploads, g \in Files : g # f /\ Minds(v, g) => Minds(v, g)'
    BY <2>1 DEF Minds, Minding
  <2> QED BY <1>0, <2>1, <2>3, <2>4, SoundChange
<1>3. ASSUME NEW u \in Uploads, CreateFails(u) \/ Awakes(u) \/ Crash(u) PROVE SoundInv'
  <2>1. CASE \E f \in Live : Checkout(u, f) /\ Awakes(u)
    BY <1>0, <2>1, SoundCheckout DEF Awakes
  <2>2. CASE ~\E f \in Live : Checkout(u, f) /\ Awakes(u)
    <3>1. UNCHANGED <<file, of>>
      BY <1>3, <2>2 DEF CreateFails, Awakes, Crash, Enter, doc
    <3>2. \E stage \in {"refused", "failed", "gone"} : at' = [at EXCEPT ![u] = stage]
      BY <1>3, <2>2 DEF CreateFails, Awakes, Crash, Enter
    <3>3. at[u] \in {"creating", "waiting"} \/ faults' > 0
      BY <1>0, <1>3 DEF CreateFails, Awakes, Crash, Fault, CountOK
    <3> QED BY <1>0, <3>1, <3>2, <3>3, SoundStage DEF Minding
  <2> QED BY <2>1, <2>2
<1>4. ASSUME NEW u \in Singles, Store(u) \/ Finish(u) \/ Fail(u) \/ SetFileWritable(u)
      PROVE  SoundInv'
  <2>1. CASE Store(u) \/ Fail(u)
    <3>1. /\ UNCHANGED <<file, of>>
          /\ \E stage \in {"stored", "failing"} : at' = [at EXCEPT ![u] = stage]
      BY <2>1 DEF Store, Fail, Enter, doc
    <3> QED BY <1>0, <1>a, <3>1, SoundStage DEF Minding
  <2>2. CASE Finish(u) \/ SetFileWritable(u)
    <3>1. of[u] \in Files /\ u \in Uploads /\ faults' = faults
      BY <1>a, <2>2 DEF Finish, SetFileWritable, GivenInv, Stages
    <3>2. /\ \A v \in Uploads : v # u => at'[v] = at[v] /\ of'[v] = of[v]
          /\ \A g \in Files : g # of[u] => file'[g] = file[g]
      BY <1>0, <2>2 DEF Finish, SetFileWritable, Leave, AtOK, DocOK
    <3>3. file[of[u]] \in Document
      BY <1>0, <3>1, DocumentFacts
    <3>4. \/ file'[of[u]] = Final(of[u]) /\ file[of[u]].state = "live"
          \/ file'[of[u]] = file[of[u]] /\ file[of[u]].state # "live"
          \/ file'[of[u]] = [file[of[u]] EXCEPT !.writable = TRUE] /\ file[of[u]].state = "live"
      BY <1>0, <2>2, <3>1 DEF Finish, SetFileWritable, DocOK
    <3>5. of[u] \in Live' =>
            /\ of[u] \in Live /\ file'[of[u]].writable
            /\ \/ file'[of[u]].id = NoId /\ file'[of[u]].timeout = "none"
               \/ /\ file'[of[u]].id = file[of[u]].id
                  /\ file'[of[u]].timeout = file[of[u]].timeout
      BY <3>1, <3>2, <3>3, <3>4 DEF Final, Released, Document, Live
    <3> QED BY <1>0, <3>1, <3>2, <3>5, SoundRelease
  <2> QED BY <1>4, <2>1, <2>2
<1>5. ASSUME NEW m \in Clients, NEW i \in UploadIds, StartMultipart(m, i) PROVE SoundInv'
  <2>1. UNCHANGED <<file, of>> /\ at' = [at EXCEPT ![m] = "starting"]
    BY <1>5 DEF StartMultipart, doc
  <2> QED BY <1>0, <1>a, <2>1, SoundStage DEF Minding
<1>6. ASSUME NEW m \in Clients, UsesId(m) \/ RecordId(m) \/ RequestCompletion(m) PROVE SoundInv'
  <2>1. CASE UsesId(m) \/ RequestCompletion(m)
    <3>1. /\ UNCHANGED <<file, of>>
          /\ \E stage \in {"open", "completing"} : at' = [at EXCEPT ![m] = stage]
          /\ file[of[m]].id # NoId \/ at[m] = "open"
      BY <2>1 DEF UsesId, RequestCompletion, Enter
    <3> QED BY <1>0, <1>a, <3>1, SoundStage DEF Minding
  <2>2. CASE RecordId(m)
    <3>f. PICK f \in Files : f = of[m]
      BY <1>a, <2>2 DEF RecordId, GivenInv, Stages
    <3>1. /\ UNCHANGED of /\ idOf[m] # NoId
          /\ \A v \in Uploads : v # m => at'[v] = at[v]
      BY <1>0, <2>2 DEF RecordId, AtOK, SoundInv, StartInv
    <3>2. /\ \A g \in Files : g # f => file'[g] = file[g]
          /\ file[f] \in Document
          /\ \/ file'[f] = file[f] /\ file[f].state = "erased"
             \/ file'[f] = [file[f] EXCEPT !.timeout = "running", !.id = idOf[m], !.client = m]
      BY <1>0, <2>2, <3>f, DocumentFacts DEF RecordId, Update, DocOK
    <3>3. f \in Live' => SoundOf(f)'
      BY <3>1, <3>2 DEF Live, Document, SoundOf, TimedOf, MindedOf
    <3>4. \A v \in Uploads, g \in Files : g # f /\ Minds(v, g) => Minds(v, g)'
      BY <3>f, <3>1 DEF Minds
    <3> QED BY <1>0, <3>2, <3>3, <3>4, SoundChange
  <2> QED BY <1>6, <2>1, <2>2
<1>7. ASSUME NEW m \in Clients, Abort(m) \/ DeleteMultipart(m) PROVE SoundInv'
  <2>1. CASE Abort(m)
    <3>1. UNCHANGED <<file, of>> /\ at[m] = "open" /\ at' = [at EXCEPT ![m] = "aborting"]
      BY <2>1 DEF Abort, doc
    <3> QED BY <1>0, <1>a, <3>1, SoundStage DEF Minding
  <2>2. CASE DeleteMultipart(m)
    <3>1. of[m] \in Files /\ m \in Uploads /\ faults' = faults
      BY <1>a, <2>2 DEF DeleteMultipart, GivenInv, Stages
    <3>2. /\ \A v \in Uploads : v # m => at'[v] = at[v] /\ of'[v] = of[v]
          /\ \A g \in Files : g # of[m] => file'[g] = file[g]
      BY <1>0, <2>2 DEF DeleteMultipart, Leave, Update, AtOK, DocOK
    <3>3. file[of[m]] \in Document
      BY <1>0, <3>1, DocumentFacts
    <3>4. \/ file'[of[m]] = Released(of[m])
          \/ file'[of[m]] = file[of[m]] /\ file[of[m]].state = "erased"
      BY <1>0, <2>2, <3>1 DEF DeleteMultipart, Update, DocOK
    <3>5. of[m] \in Live' => /\ of[m] \in Live /\ file'[of[m]].writable
                             /\ file'[of[m]].id = NoId /\ file'[of[m]].timeout = "none"
      BY <3>1, <3>2, <3>3, <3>4 DEF Released, Document, Live
    <3> QED BY <1>0, <3>1, <3>2, <3>5, SoundRelease
  <2> QED BY <1>7, <2>1, <2>2
<1>8. ASSUME NEW m \in Clients, JobReads(m) \/ JobAssembles(m) \/ JobFinishes(m) \/ JobFails(m)
      PROVE  SoundInv'
  <2>1. CASE JobReads(m) \/ JobAssembles(m) \/ JobFails(m)
    <3>1. /\ UNCHANGED <<file, of>> /\ at[m] \in {"completing", "assembling", "assembled"}
          /\ \E stage \in {"assembling", "assembled", "gone"} : at' = [at EXCEPT ![m] = stage]
      BY <2>1 DEF JobReads, JobAssembles, JobFails, doc
    <3> QED BY <1>0, <1>a, <3>1, SoundStage DEF Minding
  <2>2. CASE JobFinishes(m)
    <3>1. of[m] \in Files /\ m \in Uploads /\ faults' = faults
      BY <1>a, <2>2 DEF JobFinishes, GivenInv, Stages
    <3>2. /\ \A v \in Uploads : v # m => at'[v] = at[v] /\ of'[v] = of[v]
          /\ \A g \in Files : g # of[m] => file'[g] = file[g]
      BY <1>0, <2>2 DEF JobFinishes, Leave, AtOK, DocOK
    <3>3. /\ file[of[m]] \in Document /\ file'[of[m]] = Final(of[m])
          /\ of[m] \in Live
      BY <1>0, <2>2, <3>1, DocumentFacts DEF JobFinishes, DocOK, Live
    <3>4. of[m] \in Live' => /\ of[m] \in Live /\ file'[of[m]].writable
                             /\ file'[of[m]].id = NoId /\ file'[of[m]].timeout = "none"
      BY <3>3 DEF Final, Released, Document
    <3> QED BY <1>0, <3>1, <3>2, <3>4, SoundRelease
  <2> QED BY <1>8, <2>1, <2>2
<1>9. ASSUME NEW m \in Clients, GiveUp(m) \/ Return(m) PROVE SoundInv'
  <2>1. UNCHANGED <<file, of>> /\ at[m] \in {"open", "gone", "lapsed"}
    BY <1>9 DEF GiveUp, Return, Enter, doc
  <2>2. \E stage \in {"gone", "open", "idle"} : at' = [at EXCEPT ![m] = stage]
    BY <1>9 DEF GiveUp, Return, Enter
  <2> QED BY <1>0, <1>a, <2>1, <2>2, SoundStage DEF Minding
<1>10. ASSUME NEW m \in Clients, NEW f \in Files, StrayPart(m, f) PROVE SoundInv'
  <2>1. /\ UNCHANGED of /\ at[m] = "open" /\ faults' > 0
        /\ \A v \in Uploads : v # m => at'[v] = at[v]
        /\ \A g \in Files : g # f => file'[g] = file[g]
    BY <1>0, <1>10 DEF StrayPart, Fault, CountOK, AtOK, DocOK
  <2>2. file'[f].id = NoId /\ file'[f].timeout = "none"
    BY <1>0, <1>10 DEF StrayPart, DocOK, NewFile
  <2>3. SoundOf(f)'
    BY <2>1, <2>2 DEF SoundOf, TimedOf, MindedOf
  <2>4. \A v \in Uploads, g \in Files : g # f /\ Minds(v, g) => Minds(v, g)'
    BY <2>1 DEF Minds, Minding
  <2> QED BY <1>0, <2>1, <2>3, <2>4, SoundChange
<1>11. ASSUME NEW m \in Clients, NEW p \in Parts, SendPart(m, p) \/ StorePart(m, p) PROVE SoundInv'
  <2>0. UNCHANGED <<at, of>>
    BY <1>11 DEF SendPart, StorePart, PartGoes
  <2>1. CASE SendPart(m, p)
    <3>f. PICK f \in Files : f = of[m] /\ file[f].state = "live"
      BY <1>a, <2>1 DEF SendPart, GivenInv, Stages
    <3>1. /\ \A g \in Files : g # f => file'[g] = file[g]
          /\ file'[f] = CheckedOut(m, f) /\ file'[f].id # NoId
      BY <1>0, <2>1, <3>f DEF SendPart, DocOK
    <3>2. file[f] \in Document
      BY <1>0, DocumentFacts
    <3>3. file'[f].id = file[f].id /\ file'[f].timeout = file[f].timeout
      BY <3>1, <3>2 DEF CheckedOut, Document
    <3>4. SoundOf(f)'
      BY <3>f, <3>1, <3>3 DEF SoundInv, SoundOf, TimedOf, MindedOf, Live
    <3> QED BY <1>0, <2>0, <3>1, <3>4, SoundChange DEF Minds
  <2>2. CASE StorePart(m, p)
    BY <1>0, <2>0, <2>2, SoundKept DEF StorePart, doc, Leaves, Minds, Live
  <2> QED BY <1>11, <2>1, <2>2
<1>12. ASSUME NEW m \in Clients, NEW p \in Parts, SavePart(m, p) \/ PartFails(m, p) PROVE SoundInv'
  <2>0. UNCHANGED <<at, of>>
    BY <1>12 DEF SavePart, PartFails, PartGoes
  <2>1. CASE SavePart(m, p)
    <3>1. part[m][p].id # NoId
      BY <2>1 DEF SavePart, TypeOK
    <3>f. PICK f \in Files : f = of[m] /\ file[f].state = "live"
      <4>1. InFlight(m)
        BY <2>1 DEF SavePart, InFlight
      <4> QED BY <1>a, <2>1, <4>1 DEF SavePart, GivenInv, Stages
    <3>2. file' = [file EXCEPT ![f].writable = FALSE, ![f].timeout = "running",
                              ![f].id = part[m][p].id]
      BY <2>1, <3>f DEF SavePart
    <3>3. \A g \in Files : g # f => file'[g] = file[g]
      BY <1>0, <3>2 DEF DocOK
    <3>4. file'[f].id # NoId /\ file'[f].timeout # "none"
      BY <1>0, <3>1, <3>2 DEF DocOK, Document
    <3>5. SoundOf(f)'
      BY <3>4 DEF SoundOf, TimedOf, MindedOf
    <3> QED BY <1>0, <2>0, <3>3, <3>5, SoundChange DEF Minds
  <2>2. CASE PartFails(m, p)
    BY <1>0, <2>0, <2>2, SoundKept DEF PartFails, doc, Leaves, Minds, Live
  <2> QED BY <1>12, <2>1, <2>2
<1>13. ASSUME NEW f \in Files, NEW i \in UploadIds, CleanUp(f, i) PROVE SoundInv'
  BY <1>0, <1>13, SoundKept DEF CleanUp, doc, requests, Leaves, Minds, Live
<1>14. ASSUME NEW f \in Files, Expire(f) \/ BeginDeleteFile(f) \/ RunDeleteFile(f) PROVE SoundInv'
  <2>1. CASE Expire(f)
    <3>1. /\ UNCHANGED of
          /\ \A v \in Uploads : at'[v] = IF of[v] = f /\ at[v] = "gone" THEN "lapsed" ELSE at[v]
      BY <2>1 DEF Expire
    <3>2. /\ file'[f] = [file[f] EXCEPT !.timeout = "over"] /\ file[f] \in Document
          /\ file[f].timeout = "running" /\ \A g \in Files : g # f => file'[g] = file[g]
      BY <1>0, <2>1 DEF Expire, DocOK
    <3>3. /\ file'[f].id = file[f].id /\ file'[f].timeout = "over"
          /\ file'[f].state = file[f].state
      BY <3>2 DEF Document
    <3>4. f \in Live' => SoundOf(f)'
      BY <3>2, <3>3 DEF Live, SoundInv, SoundOf, TimedOf, MindedOf
    <3>5. \A v \in Uploads, g \in Files : Minds(v, g) => Minds(v, g)'
      BY <3>1 DEF Minds, Minding
    <3> QED BY <1>0, <3>2, <3>4, <3>5, SoundChange
  <2>2. CASE BeginDeleteFile(f) \/ RunDeleteFile(f)
    <3>1. UNCHANGED <<at, of>>
      BY <2>2 DEF BeginDeleteFile, RunDeleteFile, requests
    <3>2. /\ \A g \in Files : g # f => file'[g] = file[g]
          /\ file'[f].state \in {"deleted", "erased"}
      BY <1>0, <2>2 DEF BeginDeleteFile, RunDeleteFile, DocOK, Document, NewFile
    <3>3. \A g \in Live' : Leaves(g)
      BY <3>1, <3>2 DEF Live, Leaves, Minds
    <3> QED BY <1>0, <3>3, SoundKept
  <2> QED BY <1>14, <2>1, <2>2
<1>15. CASE UNCHANGED vars
  BY <1>0, <1>15, SoundKept DEF vars, Leaves, Minds, Live
<1> QED BY <1>1, <1>2, <1>3, <1>4, <1>5, <1>6, <1>7, <1>8, <1>9, <1>10, <1>11, <1>12, <1>13,
           <1>14, <1>15, NextCases

LEMMA InitSound == Init => SoundInv
  BY DEF Init, NewFile, SoundInv, StartInv, Live, Uploads

\* A file that is checked out has an upload that will release it, or a time at which
\* others may take it over, unless a fault came between: no path of failures that the
\* code handles leaves a file that nobody can write, whatever is stale, comes late, is
\* resumed or used again.
THEOREM HeldHasHolderHolds == Spec => []HeldHasHolder
<1> DEFINE Inv == TypeOK /\ GivenInv /\ SoundInv
<1>1. Init => Inv
  BY InitTypes, InitSound
<1>2. Inv /\ [Next]_vars => Inv'
  BY TypeStep, GivenStep, SoundStep
<1>3. Inv => HeldHasHolder
  BY DEF SoundInv, SoundOf, MindedOf, Minds, Minding, HeldHasHolder, Writes
<1> QED BY <1>1, <1>2, <1>3, PTL DEF Spec

-----------------------------------------------------------------------------
(* The path has one file.  Only a request that holds the lock creates it,  *)
(* or a part that finds neither a file nor a lock; and while one is there, *)
(* no older one waits for its deletion job.                                *)

NoneDeleted == \A f \in Files : file[f].state # "deleted"
DeletedInv == (Live # {} \/ \E u \in Uploads : at[u] = "creating") => ReusesPath \/ NoneDeleted
PathInv == LockInv /\ OneLive /\ Known /\ DeletedInv

\* A step that neither creates a file nor deletes one.
LEMMA PathKept ==
    ASSUME AtOK, PathInv,
           \A f \in Files : file'[f].state = file[f].state,
           \A u \in Uploads : at'[u] = "creating" => at[u] = "creating" /\ lock' = lock,
           \A u \in Uploads : of'[u] = of[u] \/ of'[u] = NoOne \/ of'[u] \in Live
    PROVE  PathInv'
<1>1. Live' = Live /\ (NoneDeleted' <=> NoneDeleted)
  BY DEF Live, NoneDeleted
<1>2. Known'
  BY UploadAssumption DEF PathInv, Known, Live
<1> QED BY <1>1, <1>2 DEF PathInv, LockInv, OneLive, DeletedInv

\* A file is created when none is there, and no other request is about to.
LEMMA PathNew ==
    ASSUME DocOK, AtOK, PathInv, NEW f \in Files, NEW d \in Document, Live = {}, d.state = "live",
           file' = [file EXCEPT ![f] = d],
           \A u \in Uploads : at'[u] # "creating",
           \A u \in Uploads : of'[u] = of[u] \/ of'[u] = f,
           ReusesPath \/ NoneDeleted
    PROVE  PathInv'
<1>1. \A g \in Files : file'[g] = IF g = f THEN d ELSE file[g]
  BY DEF DocOK
<1>2. Live' = {f}
  BY <1>1 DEF Live
<1>3. Known'
  BY <1>1 DEF PathInv, Known
<1>4. ReusesPath \/ NoneDeleted'
  BY <1>1 DEF NoneDeleted
<1> QED BY <1>2, <1>3, <1>4 DEF PathInv, LockInv, OneLive, DeletedInv

LEMMA StateKept ==
    ASSUME DocOK, NEW f \in Files
    PROVE  /\ Released(f).state = file[f].state /\ Final(f).state = file[f].state
           /\ \A u \in Uploads : CheckedOut(u, f).state = file[f].state
           /\ Final(f).readable
           /\ Released(f).readable = file[f].readable
           /\ \A u \in Uploads : CheckedOut(u, f).readable = file[f].readable
<1>1. file[f] \in Document
  BY DEF DocOK
<1> QED BY <1>1 DEF Released, Final, CheckedOut, Document

\* What most steps leave of files as it is.
SameStates == \A f \in Files : file'[f].state = file[f].state

LEMMA OneReplaced ==
    ASSUME DocOK, NEW f \in Files, NEW d, d.state = file[f].state,
           file' = file \/ file' = [file EXCEPT ![f] = d]
    PROVE  SameStates
  BY DEF DocOK, SameStates

LEMMA StatesOf ==
    ASSUME TypeOK, GivenInv
    PROVE  /\ \A u \in Uploads, f \in Live : Checkout(u, f) => SameStates
           /\ \A u \in Singles : Finish(u) => SameStates /\ of[u] \in Files
           /\ \A u \in Singles : SetFileWritable(u) => SameStates /\ of[u] \in Files
           /\ \A m \in Clients : RecordId(m) => SameStates /\ of[m] \in Files
           /\ \A m \in Clients : DeleteMultipart(m) => SameStates /\ of[m] \in Files
           /\ \A m \in Clients : JobFinishes(m) => SameStates /\ of[m] \in Files
           /\ \A m \in Clients, p \in Parts : SendPart(m, p) => SameStates /\ of[m] \in Files
           /\ \A m \in Clients, p \in Parts : SavePart(m, p) => SameStates /\ of[m] \in Files
           /\ \A f \in Files : Expire(f) => SameStates
<1>0. DocOK /\ Clients \subseteq Uploads /\ Singles \subseteq Uploads /\ Live \subseteq Files
      /\ (\A g \in Files : file[g] \in Document)
  BY TypeParts DEF Uploads, Live, DocOK
<1>1. ASSUME NEW u \in Uploads, NEW f \in Live, Checkout(u, f) PROVE SameStates
  <2>1. file' = file \/ file' = [file EXCEPT ![f] = CheckedOut(u, f)]
    BY <1>1 DEF Checkout
  <2> QED BY <1>0, <2>1, StateKept, OneReplaced
<1>2. ASSUME NEW u \in Singles, Finish(u) PROVE SameStates /\ of[u] \in Files
  <2>1. of[u] \in Files
    BY <1>0, <1>2 DEF Finish, GivenInv, Stages
  <2>2. file' = [file EXCEPT ![of[u]] = Final(of[u])]
    BY <1>2 DEF Finish
  <2> QED BY <1>0, <2>1, <2>2, StateKept, OneReplaced
<1>3. ASSUME NEW u \in Singles, SetFileWritable(u) PROVE SameStates /\ of[u] \in Files
  <2>1. of[u] \in Files
    BY <1>0, <1>3 DEF SetFileWritable, GivenInv, Stages
  <2>2. [file[of[u]] EXCEPT !.writable = TRUE].state = file[of[u]].state
    BY <1>0, <2>1 DEF Document
  <2>3. file' = file \/ file' = [file EXCEPT ![of[u]] = [file[of[u]] EXCEPT !.writable = TRUE]]
    BY <1>0, <1>3 DEF SetFileWritable
  <2> QED BY <1>0, <2>1, <2>2, <2>3, OneReplaced
<1>4. ASSUME NEW m \in Clients, RecordId(m) PROVE SameStates /\ of[m] \in Files
  <2>1. of[m] \in Files
    BY <1>0, <1>4 DEF RecordId, GivenInv, Stages
  <2> DEFINE d == [file[of[m]] EXCEPT !.timeout = "running", !.id = idOf[m], !.client = m]
  <2>2. d.state = file[of[m]].state
    BY <1>0, <2>1 DEF Document
  <2>3. file' = file \/ file' = [file EXCEPT ![of[m]] = d]
    BY <1>4 DEF RecordId, Update
  <2> QED BY <1>0, <2>1, <2>2, <2>3, OneReplaced
<1>5. ASSUME NEW m \in Clients, DeleteMultipart(m) PROVE SameStates /\ of[m] \in Files
  <2>1. of[m] \in Files
    BY <1>0, <1>5 DEF DeleteMultipart, GivenInv, Stages
  <2>2. file' = file \/ file' = [file EXCEPT ![of[m]] = Released(of[m])]
    BY <1>5 DEF DeleteMultipart, Update
  <2> QED BY <1>0, <2>1, <2>2, StateKept, OneReplaced
<1>6. ASSUME NEW m \in Clients, JobFinishes(m) PROVE SameStates /\ of[m] \in Files
  <2>1. of[m] \in Files
    BY <1>0, <1>6 DEF JobFinishes, GivenInv, Stages
  <2>2. file' = [file EXCEPT ![of[m]] = Final(of[m])]
    BY <1>6 DEF JobFinishes
  <2> QED BY <1>0, <2>1, <2>2, StateKept, OneReplaced
<1>7. ASSUME NEW m \in Clients, NEW p \in Parts, SendPart(m, p)
      PROVE  SameStates /\ of[m] \in Files
  <2>1. of[m] \in Files
    BY <1>0, <1>7 DEF SendPart, GivenInv, Stages
  <2>2. file' = [file EXCEPT ![of[m]] = CheckedOut(m, of[m])]
    BY <1>7 DEF SendPart
  <2> QED BY <1>0, <2>1, <2>2, StateKept, OneReplaced
<1>8. ASSUME NEW m \in Clients, NEW p \in Parts, SavePart(m, p)
      PROVE  SameStates /\ of[m] \in Files
  <2>1. InFlight(m)
    BY <1>8 DEF SavePart, InFlight
  <2>2. of[m] \in Files
    BY <1>0, <2>1 DEF GivenInv, Stages
  <2> DEFINE d == [file[of[m]] EXCEPT !.writable = FALSE, !.timeout = "running",
                                      !.id = part[m][p].id]
  <2>3. d.state = file[of[m]].state
    BY <1>0, <2>2 DEF Document
  <2>4. file' = [file EXCEPT ![of[m]] = d]
    BY <1>0, <1>8, <2>2 DEF SavePart, DocOK, Document
  <2> QED BY <1>0, <2>2, <2>3, <2>4, OneReplaced
<1>9. ASSUME NEW f \in Files, Expire(f) PROVE SameStates
  BY <1>0, <1>9 DEF Expire, SameStates, DocOK, Document
<1> QED BY <1>1, <1>2, <1>3, <1>4, <1>5, <1>6, <1>7, <1>8, <1>9

\* The path keeps to one file, as long as it is created on fresh lookups.
LEMMA PathStep ==
    ASSUME ~StaleLookups, TypeOK, GivenInv, PathInv, [Next]_vars
    PROVE  PathInv'
<1>0. DocOK /\ AtOK /\ PartOK /\ Clients \subseteq Uploads /\ Singles \subseteq Uploads
      /\ Clients \cap Singles = {} /\ Live \subseteq Files
  BY TypeParts, UploadAssumption DEF Uploads, Live
<1>a. ASSUME SameStates, \A u \in Uploads : at'[u] = "creating" => at[u] = "creating" /\ lock' = lock,
             \A u \in Uploads : of'[u] = of[u] \/ of'[u] = NoOne \/ of'[u] \in Live
      PROVE  PathInv'
  BY <1>0, <1>a, PathKept DEF SameStates
<1>b. file' = file => SameStates
  BY DEF SameStates
<1>c. ASSUME NEW u \in Uploads, NEW f \in Live, Checkout(u, f) PROVE PathInv'
  BY <1>0, <1>a, <1>c, StatesOf DEF Checkout, AtOK
<1>1. ASSUME NEW u \in Uploads, Lookup(u) \/ Decide(u) \/ LookAgain(u) PROVE PathInv'
  <2>1. CASE Lookup(u)
    <3>1. CASE \E f \in Live : Checkout(u, f)
      BY <1>c, <3>1
    <3> QED BY <1>0, <1>a, <1>b, <1>c, <2>1 DEF Lookup, Enter, AtOK
  <2>2. CASE LookAgain(u)
    BY <1>0, <1>a, <1>b, <2>2 DEF LookAgain, Enter, AtOK
  <2>3. CASE Decide(u)
    <3>1. Live = {} /\ (ReusesPath \/ NoneDeleted) /\ UNCHANGED <<file, of>>
      BY <2>3 DEF Decide, Enter, doc, NoneDeleted
    <3>2. CASE lock # {}
      BY <1>0, <1>a, <1>b, <2>3, <3>2 DEF Decide, Enter, AtOK, doc
    <3>3. CASE lock = {}
      <4>1. \A v \in Uploads : at[v] # "creating"
        BY <3>3 DEF PathInv, LockInv
      <4>2. lock' = {u} /\ \A v \in Uploads : v # u => at'[v] = at[v]
        BY <1>0, <2>3, <3>3 DEF Decide, Enter, AtOK
      <4>3. LockInv'
        BY <3>1, <4>1, <4>2 DEF LockInv, Live
      <4> QED BY <3>1, <4>3 DEF PathInv, OneLive, Known, DeletedInv, NoneDeleted, Live
    <3> QED BY <3>2, <3>3
  <2> QED BY <1>1, <2>1, <2>2, <2>3
<1>2. ASSUME NEW u \in Uploads, NEW f \in Files, Create(u, f) PROVE PathInv'
  <2> DEFINE d == [NewFile EXCEPT !.writable = FALSE,
                                  !.client = IF u \in Clients THEN u ELSE @]
  <2>1. d \in Document /\ d.state = "live"
    BY <1>0, <1>2 DEF NewFile, Document
  <2>2. Live = {} /\ (ReusesPath \/ NoneDeleted) /\ file' = [file EXCEPT ![f] = d]
    BY <1>2 DEF Create, PathInv, LockInv, DeletedInv
  <2>3. \A v \in Uploads : at'[v] # "creating"
    BY <1>0, <1>2 DEF Create, PathInv, LockInv, AtOK
  <2>4. \A v \in Uploads : of'[v] = of[v] \/ of'[v] = f
    BY <1>0, <1>2 DEF Create, AtOK
  <2> HIDE DEF d
  <2> QED BY <1>0, <2>1, <2>2, <2>3, <2>4, PathNew
<1>3. ASSUME NEW u \in Uploads, CreateFails(u) \/ Awakes(u) \/ Crash(u) PROVE PathInv'
  <2>1. CASE CreateFails(u)
    <3>1. \A v \in Uploads : at'[v] # "creating"
      BY <1>0, <2>1 DEF CreateFails, Enter, PathInv, LockInv, AtOK
    <3> QED BY <1>a, <1>b, <2>1, <3>1 DEF CreateFails, Enter, doc
  <2>2. CASE Awakes(u)
    <3>1. CASE \E f \in Live : Checkout(u, f)
      BY <1>c, <3>1
    <3> QED BY <1>0, <1>a, <1>b, <2>2, <3>1 DEF Awakes, Enter, AtOK
  <2>3. CASE Crash(u)
    BY <1>0, <1>a, <1>b, <2>3 DEF Crash, AtOK, doc
  <2> QED BY <1>3, <2>1, <2>2, <2>3
<1>4. ASSUME NEW u \in Singles, Store(u) \/ Finish(u) \/ Fail(u) \/ SetFileWritable(u)
      PROVE  PathInv'
  <2>1. CASE Store(u) \/ Fail(u)
    BY <1>0, <1>a, <1>b, <2>1 DEF Store, Fail, Enter, AtOK, doc
  <2>2. CASE Finish(u) \/ SetFileWritable(u)
    BY <1>0, <1>a, <2>2, StatesOf DEF Finish, SetFileWritable, Leave, AtOK
  <2> QED BY <1>4, <2>1, <2>2
<1>5. ASSUME NEW m \in Clients, NEW i \in UploadIds, StartMultipart(m, i) PROVE PathInv'
  BY <1>0, <1>a, <1>b, <1>5 DEF StartMultipart, AtOK, doc
<1>6. ASSUME NEW m \in Clients, UsesId(m) \/ RecordId(m) \/ RequestCompletion(m) PROVE PathInv'
  <2>1. CASE UsesId(m) \/ RequestCompletion(m)
    BY <1>0, <1>a, <1>b, <2>1 DEF UsesId, RequestCompletion, Enter, AtOK, doc
  <2>2. CASE RecordId(m)
    <3>1. at' = [at EXCEPT ![m] = "open"] /\ of' = of
      BY <2>2 DEF RecordId
    <3>2. SameStates
      BY <2>2, StatesOf
    <3>3. \A u \in Uploads : at'[u] = "creating" => at[u] = "creating" /\ lock' = lock
      BY <1>0, <2>2, <3>1 DEF RecordId, AtOK
    <3> QED BY <1>a, <3>1, <3>2, <3>3
  <2> QED BY <1>6, <2>1, <2>2
<1>7. ASSUME NEW m \in Clients, Abort(m) \/ DeleteMultipart(m) PROVE PathInv'
  <2>1. CASE Abort(m)
    BY <1>0, <1>a, <1>b, <2>1 DEF Abort, AtOK, doc
  <2>2. CASE DeleteMultipart(m)
    BY <1>0, <1>a, <2>2, StatesOf DEF DeleteMultipart, Leave, AtOK
  <2> QED BY <1>7, <2>1, <2>2
<1>8. ASSUME NEW m \in Clients, JobReads(m) \/ JobAssembles(m) \/ JobFinishes(m) \/ JobFails(m)
      PROVE  PathInv'
  <2>1. CASE JobReads(m) \/ JobAssembles(m) \/ JobFails(m)
    BY <1>0, <1>a, <1>b, <2>1 DEF JobReads, JobAssembles, JobFails, AtOK, doc
  <2>2. CASE JobFinishes(m)
    BY <1>0, <1>a, <2>2, StatesOf DEF JobFinishes, Leave, AtOK
  <2> QED BY <1>8, <2>1, <2>2
<1>9. ASSUME NEW m \in Clients, GiveUp(m) \/ Return(m) PROVE PathInv'
  <2>1. CASE GiveUp(m)
    BY <1>0, <1>a, <1>b, <2>1 DEF GiveUp, Enter, AtOK
  <2>2. CASE Return(m)
    <3>1. /\ UNCHANGED <<file, of, lock>>
          /\ at' = [at EXCEPT ![m] = "open"] \/ at' = [at EXCEPT ![m] = "idle"]
      BY <2>2 DEF Return, doc
    <3> QED BY <1>0, <1>a, <1>b, <3>1 DEF AtOK
  <2> QED BY <1>9, <2>1, <2>2
<1>10. ASSUME NEW m \in Clients, NEW f \in Files, StrayPart(m, f) PROVE PathInv'
  <2> DEFINE d == [NewFile EXCEPT !.writable = FALSE, !.client = m]
  <2>1. d \in Document /\ d.state = "live"
    BY <1>0, <1>10 DEF NewFile, Document
  <2>2. Live = {} /\ (ReusesPath \/ NoneDeleted) /\ file' = [file EXCEPT ![f] = d] /\ of' = of
    BY <1>10 DEF StrayPart, NoneDeleted
  <2>3. \A v \in Uploads : at'[v] # "creating"
    BY <1>0, <1>10 DEF StrayPart, PathInv, LockInv, AtOK
  <2> HIDE DEF d
  <2> QED BY <1>0, <2>1, <2>2, <2>3, PathNew
<1>11. ASSUME NEW m \in Clients, NEW p \in Parts, SendPart(m, p) \/ StorePart(m, p) PROVE PathInv'
  <2>1. UNCHANGED <<at, of, lock>>
    BY <1>11 DEF SendPart, StorePart, PartGoes
  <2>2. SameStates
    BY <1>b, <1>11, StatesOf DEF StorePart, doc
  <2> QED BY <1>a, <2>1, <2>2
<1>12. ASSUME NEW m \in Clients, NEW p \in Parts, SavePart(m, p) \/ PartFails(m, p) PROVE PathInv'
  <2>1. UNCHANGED <<at, of, lock>>
    BY <1>12 DEF SavePart, PartFails, PartGoes
  <2>2. SameStates
    BY <1>b, <1>12, StatesOf DEF PartFails, doc
  <2> QED BY <1>a, <2>1, <2>2
<1>13. ASSUME NEW f \in Files, NEW i \in UploadIds, CleanUp(f, i) PROVE PathInv'
  BY <1>a, <1>b, <1>13 DEF CleanUp, doc, requests
<1>14. ASSUME NEW f \in Files, Expire(f) \/ BeginDeleteFile(f) \/ RunDeleteFile(f) PROVE PathInv'
  <2>1. CASE Expire(f)
    BY <1>0, <1>a, <2>1, StatesOf DEF Expire
  <2>2. CASE BeginDeleteFile(f) \/ RunDeleteFile(f)
    <3>1. UNCHANGED <<at, of, lock>>
      BY <2>2 DEF BeginDeleteFile, RunDeleteFile, requests
    <3>2. \A g \in Files : g # f => file'[g] = file[g]
      BY <1>0, <2>2 DEF BeginDeleteFile, RunDeleteFile, DocOK
    <3>3. file[f].state # "none" /\ file'[f].state \in {"deleted", "erased"}
      BY <1>0, <2>2 DEF BeginDeleteFile, RunDeleteFile, DocOK, Document, NewFile
    <3>4. LockInv' /\ OneLive' /\ Known'
      BY <3>1, <3>2, <3>3 DEF PathInv, LockInv, OneLive, Known, Live
    <3>5. CASE BeginDeleteFile(f)
      <4>1. f \in Live
        BY <3>5 DEF BeginDeleteFile, Live
      <4>2. Live' = {}
        BY <3>2, <3>3, <4>1 DEF PathInv, OneLive, Live
      <4>3. \A u \in Uploads : at'[u] # "creating"
        BY <3>1, <4>1 DEF PathInv, LockInv
      <4> QED BY <3>4, <4>2, <4>3 DEF PathInv, DeletedInv
    <3>6. CASE RunDeleteFile(f)
      <4>1. file'[f].state = "erased" /\ Live' = Live
        BY <1>0, <3>2, <3>6 DEF RunDeleteFile, Live, DocOK, NewFile
      <4>2. DeletedInv'
        BY <3>1, <3>2, <4>1 DEF PathInv, DeletedInv, NoneDeleted
      <4> QED BY <3>4, <4>2 DEF PathInv
    <3> QED BY <2>2, <3>5, <3>6
  <2> QED BY <1>14, <2>1, <2>2
<1>15. CASE UNCHANGED vars
  BY <1>a, <1>b, <1>15 DEF vars
<1> QED BY <1>1, <1>2, <1>3, <1>4, <1>5, <1>6, <1>7, <1>8, <1>9, <1>10, <1>11, <1>12, <1>13,
           <1>14, <1>15, NextCases

LEMMA InitPath == Init => PathInv
  BY UploadAssumption DEF Init, PathInv, LockInv, OneLive, Known, DeletedInv, NoneDeleted, Live, NewFile

\* However many requests find that a file is missing, one document is made: only a
\* lookup that is used after another request has created the file makes a second.
THEOREM OneFileHolds == ~StaleLookups => (Spec => []OneFilePerPath)
<1> SUFFICES ASSUME ~StaleLookups PROVE Spec => []OneFilePerPath
  OBVIOUS
<1> DEFINE Inv == TypeOK /\ GivenInv /\ PathInv
<1>1. Init => Inv
  BY InitTypes, InitPath
<1>2. Inv /\ [Next]_vars => Inv'
  BY TypeStep, GivenStep, PathStep
<1>3. Inv => OneFilePerPath
  <2> SUFFICES ASSUME PathInv PROVE Cardinality(Live) <= 1
    BY DEF OneFilePerPath
  <2>1. CASE Live = {}
    BY <2>1, FS_EmptySet
  <2>2. CASE Live # {}
    <3>1. PICK f \in Live : TRUE
      BY <2>2
    <3>2. Live = {f}
      BY <3>1 DEF PathInv, OneLive
    <3>3. Cardinality({f}) = 1
      BY FS_Singleton
    <3> QED BY <3>2, <3>3
  <2> QED BY <2>1, <2>2
<1> QED BY <1>1, <1>2, <1>3, PTL DEF Spec

-----------------------------------------------------------------------------
(* What can be read has data.  The object is emptied only by the deletion  *)
(* job of a file, and until it has run no other file of the path is there; *)
(* a request that is about to say the file can be read has put data there. *)

Putting == {"stored", "assembled"}
DataInv ==
    /\ \A f \in Live : file[f].readable => object # {}
    /\ \A u \in Uploads : at[u] \in Putting /\ of[u] \in Live => object # {}

\* A step that does not empty the object, and says of no file that it can be read
\* whose object has no data.
LEMMA DataKept ==
    ASSUME DataInv,
           object' = object \/ object' # {} \/ Live' = {},
           \A f \in Live' : file'[f].readable => object' # {} \/ (f \in Live /\ file[f].readable),
           \A u \in Uploads : at'[u] \in Putting /\ of'[u] \in Live' =>
              object' # {} \/ (at[u] \in Putting /\ of[u] \in Live)
    PROVE  DataInv'
  BY DEF DataInv

\* The step leaves files that can be read as they are, and its request stores nothing.
LEMMA DataSame ==
    ASSUME DocOK, AtOK, DataInv, object' = object, Live' = Live,
           \A f \in Live : file'[f].readable => file[f].readable,
           \A u \in Uploads : at'[u] \in Putting => at[u] = at'[u] /\ of'[u] = of[u]
    PROVE  DataInv'
  BY DataKept

\* A step that gives a live file a document with nothing to read that was not there.
LEMMA DataReplaced ==
    ASSUME DocOK, AtOK, DataInv, object' = object, NEW f \in Files, NEW d,
           d.state = file[f].state, d.readable = file[f].readable,
           file' = file \/ file' = [file EXCEPT ![f] = d],
           \A u \in Uploads : at'[u] \in Putting => at[u] = at'[u] /\ of'[u] = of[u]
    PROVE  DataInv'
<1>1. Live' = Live
  BY OneReplaced DEF SameStates, Live
<1>2. \A g \in Live : file'[g].readable => file[g].readable
  BY DEF Live, DocOK
<1> QED BY <1>1, <1>2, DataSame

\* A new file cannot be read, and nobody has it yet.
LEMMA DataNew ==
    ASSUME DocOK, AtOK, DataInv, Known, NEW f \in Files, NEW d, ~d.readable,
           file[f].state = "none", file' = [file EXCEPT ![f] = d], object' = object,
           \A u \in Uploads : at'[u] \in Putting => at[u] = at'[u] /\ of'[u] = of[u]
    PROVE  DataInv'
<1>1. /\ \A g \in Files : g # f => file'[g] = file[g]
      /\ file'[f] = d
  BY DEF DocOK
<1>2. Live' \subseteq Live \cup {f}
  BY <1>1 DEF Live
<1>3. \A u \in Uploads : of[u] # f
  BY DEF Known
<1> QED BY <1>1, <1>2, <1>3, DataKept DEF Live

\* Every step leaves data for what can be read.
LEMMA DataStep ==
    ASSUME FreshIds, ~ReusesPath, TypeOK, GivenInv, PathInv, DataInv, [Next]_vars
    PROVE  DataInv'
<1>0. DocOK /\ AtOK /\ PartOK /\ Clients \subseteq Uploads /\ Singles \subseteq Uploads
      /\ Clients \cap Singles = {} /\ Live \subseteq Files
  BY TypeParts, UploadAssumption DEF Uploads, Live
<1>a. ASSUME file' = file, object' = object,
             \A u \in Uploads : at'[u] \in Putting => at[u] = at'[u] /\ of'[u] = of[u]
      PROVE  DataInv'
  BY <1>0, <1>a, DataSame DEF Live
<1>b. BackendOK /\ Known
  BY TypeParts DEF PathInv
<1>c. ASSUME NEW u \in Uploads, NEW f \in Live, Checkout(u, f) PROVE DataInv'
  <2>1. file' = file \/ file' = [file EXCEPT ![f] = CheckedOut(u, f)]
    BY <1>c DEF Checkout
  <2>2. object' = object
    BY <1>c DEF Checkout, backend
  <2>3. \A v \in Uploads : at'[v] \in Putting => at[v] = at'[v] /\ of'[v] = of[v]
    BY <1>0, <1>c DEF Checkout, AtOK, Putting
  <2> QED BY <1>0, <2>1, <2>2, <2>3, StateKept, DataReplaced
<1>1. ASSUME NEW u \in Uploads, Lookup(u) \/ Decide(u) \/ LookAgain(u) PROVE DataInv'
  <2>1. CASE Lookup(u)
    <3>1. CASE \E f \in Live : Checkout(u, f)
      BY <1>c, <3>1
    <3> QED BY <1>0, <1>a, <2>1, <3>1 DEF Lookup, Enter, AtOK, Putting, backend
  <2>2. CASE LookAgain(u) \/ Decide(u)
    <3>1. UNCHANGED <<file, of, object>>
      BY <2>2 DEF LookAgain, Decide, Enter, backend, doc
    <3>2. \E stage \in {"idle", "waiting", "creating"} : at' = [at EXCEPT ![u] = stage]
      BY <2>2 DEF LookAgain, Decide, Enter
    <3> QED BY <1>0, <1>a, <3>1, <3>2 DEF AtOK, Putting
  <2> QED BY <1>1, <2>1, <2>2
<1>2. ASSUME NEW u \in Uploads, NEW f \in Files, Create(u, f) PROVE DataInv'
  <2> DEFINE d == [NewFile EXCEPT !.writable = FALSE,
                                  !.client = IF u \in Clients THEN u ELSE @]
  <2>1. ~d.readable
    BY DEF NewFile
  <2>2. file[f].state = "none" /\ file' = [file EXCEPT ![f] = d] /\ object' = object
    BY <1>2 DEF Create, backend
  <2>3. \A v \in Uploads : at'[v] \in Putting => at[v] = at'[v] /\ of'[v] = of[v]
    BY <1>0, <1>2 DEF Create, AtOK, Putting
  <2> HIDE DEF d
  <2> QED BY <1>0, <1>b, <2>1, <2>2, <2>3, DataNew
<1>3. ASSUME NEW u \in Uploads, CreateFails(u) \/ Awakes(u) \/ Crash(u) PROVE DataInv'
  <2>1. CASE CreateFails(u) \/ Crash(u)
    <3>1. UNCHANGED <<file, of, object>>
      BY <2>1 DEF CreateFails, Crash, Enter, backend, doc
    <3>2. \E stage \in {"refused", "failed", "gone"} : at' = [at EXCEPT ![u] = stage]
      BY <2>1 DEF CreateFails, Crash, Enter
    <3> QED BY <1>0, <1>a, <3>1, <3>2 DEF AtOK, Putting
  <2>2. CASE Awakes(u)
    <3>1. CASE \E f \in Live : Checkout(u, f)
      BY <1>c, <3>1
    <3> QED BY <1>0, <1>a, <2>2, <3>1 DEF Awakes, Enter, AtOK, Putting, backend
  <2> QED BY <1>3, <2>1, <2>2
<1>4. ASSUME NEW u \in Singles, Store(u) \/ Finish(u) \/ Fail(u) \/ SetFileWritable(u)
      PROVE  DataInv'
  <2>1. CASE Store(u)
    BY <2>1 DEF Store, DataInv
  <2>2. CASE Fail(u)
    BY <1>0, <1>a, <2>2 DEF Fail, Enter, AtOK, Putting, backend
  <2>3. CASE Finish(u)
    <3>1. of[u] \in Files /\ SameStates
      BY <2>3, StatesOf
    <3>2. object # {} /\ object' = object
      BY <1>0, <2>3, <3>1 DEF Finish, DataInv, Live, Putting, backend
    <3> QED BY <3>2 DEF DataInv
  <2>4. CASE SetFileWritable(u)
    <3>1. of[u] \in Files
      BY <2>4, StatesOf
    <3> DEFINE d == [file[of[u]] EXCEPT !.writable = TRUE]
    <3>2. d.state = file[of[u]].state /\ d.readable = file[of[u]].readable
      BY <1>0, <3>1, DocumentFacts DEF Document
    <3>3. object' = object /\ (file' = file \/ file' = [file EXCEPT ![of[u]] = d])
      BY <1>0, <2>4, <3>1 DEF SetFileWritable, backend, DocOK
    <3>4. \A v \in Uploads : at'[v] \in Putting => at[v] = at'[v] /\ of'[v] = of[v]
      BY <1>0, <2>4 DEF SetFileWritable, Leave, AtOK, Putting
    <3> QED BY <1>0, <3>1, <3>2, <3>3, <3>4, DataReplaced
  <2> QED BY <1>4, <2>1, <2>2, <2>3, <2>4
<1>5. ASSUME NEW m \in Clients, NEW i \in UploadIds, StartMultipart(m, i) PROVE DataInv'
  BY <1>0, <1>a, <1>5 DEF StartMultipart, AtOK, doc, Putting
<1>6. ASSUME NEW m \in Clients, UsesId(m) \/ RecordId(m) \/ RequestCompletion(m) PROVE DataInv'
  <2>1. CASE UsesId(m) \/ RequestCompletion(m)
    BY <1>0, <1>a, <2>1 DEF UsesId, RequestCompletion, Enter, AtOK, backend, Putting
  <2>2. CASE RecordId(m)
    <3>1. of[m] \in Files
      BY <2>2, StatesOf
    <3> DEFINE d == [file[of[m]] EXCEPT !.timeout = "running", !.id = idOf[m], !.client = m]
    <3>2. d.state = file[of[m]].state /\ d.readable = file[of[m]].readable
      BY <1>0, <3>1, DocumentFacts DEF Document
    <3>3. object' = object /\ (file' = file \/ file' = [file EXCEPT ![of[m]] = d])
      BY <2>2 DEF RecordId, Update, backend
    <3>4. \A v \in Uploads : at'[v] \in Putting => at[v] = at'[v] /\ of'[v] = of[v]
      BY <1>0, <2>2 DEF RecordId, AtOK, Putting
    <3> QED BY <1>0, <3>1, <3>2, <3>3, <3>4, DataReplaced
  <2> QED BY <1>6, <2>1, <2>2
<1>7. ASSUME NEW m \in Clients, Abort(m) \/ DeleteMultipart(m) PROVE DataInv'
  <2>1. CASE Abort(m)
    BY <1>0, <1>a, <2>1 DEF Abort, AtOK, doc, backend, Putting
  <2>2. CASE DeleteMultipart(m)
    <3>1. of[m] \in Files
      BY <2>2, StatesOf
    <3>2. object' = object /\ (file' = file \/ file' = [file EXCEPT ![of[m]] = Released(of[m])])
      BY <2>2 DEF DeleteMultipart, Update
    <3>3. \A v \in Uploads : at'[v] \in Putting => at[v] = at'[v] /\ of'[v] = of[v]
      BY <1>0, <2>2 DEF DeleteMultipart, Leave, AtOK, Putting
    <3> QED BY <1>0, <3>1, <3>2, <3>3, StateKept, DataReplaced
  <2> QED BY <1>7, <2>1, <2>2
<1>8. ASSUME NEW m \in Clients, JobReads(m) \/ JobAssembles(m) \/ JobFinishes(m) \/ JobFails(m)
      PROVE  DataInv'
  <2>1. CASE JobReads(m) \/ JobFails(m)
    BY <1>0, <1>a, <2>1 DEF JobReads, JobFails, AtOK, doc, backend, Putting
  <2>2. CASE JobAssembles(m)
    <3>1. idOf[m] \in UploadIds /\ partDocs[idOf[m]] # {}
      BY <1>b, <2>2 DEF JobAssembles, BackendOK
    <3>2. PICK p \in partDocs[idOf[m]] : TRUE
      BY <3>1
    <3>3. PICK w \in stored[idOf[m]] : w[2] = p
      BY <2>2 DEF JobAssembles
    <3>4. w \in object'
      BY <2>2, <3>2, <3>3 DEF JobAssembles, Documented
    <3> QED BY <3>4 DEF DataInv
  <2>3. CASE JobFinishes(m)
    <3>1. of[m] \in Files
      BY <2>3, StatesOf
    <3>2. object # {} /\ object' = object
      BY <1>0, <2>3, <3>1 DEF JobFinishes, DataInv, Live, Putting, backend
    <3> QED BY <3>2 DEF DataInv
  <2> QED BY <1>8, <2>1, <2>2, <2>3
<1>9. ASSUME NEW m \in Clients, GiveUp(m) \/ Return(m) PROVE DataInv'
  <2>1. CASE GiveUp(m)
    BY <1>0, <1>a, <2>1 DEF GiveUp, Enter, AtOK, backend, Putting
  <2>2. CASE Return(m)
    <3>1. /\ UNCHANGED <<file, of, object>>
          /\ at' = [at EXCEPT ![m] = "open"] \/ at' = [at EXCEPT ![m] = "idle"]
      BY <2>2 DEF Return, doc, backend
    <3> QED BY <1>0, <1>a, <3>1 DEF AtOK, Putting
  <2> QED BY <1>9, <2>1, <2>2
<1>10. ASSUME NEW m \in Clients, NEW f \in Files, StrayPart(m, f) PROVE DataInv'
  <2> DEFINE d == [NewFile EXCEPT !.writable = FALSE, !.client = m]
  <2>1. ~d.readable
    BY DEF NewFile
  <2>2. file[f].state = "none" /\ file' = [file EXCEPT ![f] = d] /\ object' = object
    BY <1>10 DEF StrayPart, backend
  <2>3. \A v \in Uploads : at'[v] \in Putting => at[v] = at'[v] /\ of'[v] = of[v]
    BY <1>0, <1>10 DEF StrayPart, AtOK, Putting
  <2> HIDE DEF d
  <2> QED BY <1>0, <1>b, <2>1, <2>2, <2>3, DataNew
<1>11. ASSUME NEW m \in Clients, NEW p \in Parts, SendPart(m, p) \/ StorePart(m, p) PROVE DataInv'
  <2>1. UNCHANGED <<at, of, object>>
    BY <1>11 DEF SendPart, StorePart, PartGoes
  <2>2. CASE StorePart(m, p)
    BY <1>a, <2>1, <2>2 DEF StorePart, doc
  <2>3. CASE SendPart(m, p)
    <3>1. of[m] \in Files
      BY <2>3, StatesOf
    <3>2. file' = [file EXCEPT ![of[m]] = CheckedOut(m, of[m])]
      BY <2>3 DEF SendPart
    <3> QED BY <1>0, <2>1, <3>1, <3>2, StateKept, DataReplaced
  <2> QED BY <1>11, <2>2, <2>3
<1>12. ASSUME NEW m \in Clients, NEW p \in Parts, SavePart(m, p) \/ PartFails(m, p) PROVE DataInv'
  <2>1. UNCHANGED <<at, of, object>>
    BY <1>12 DEF SavePart, PartFails, PartGoes
  <2>2. CASE PartFails(m, p)
    BY <1>a, <2>1, <2>2 DEF PartFails, doc
  <2>3. CASE SavePart(m, p)
    <3>1. of[m] \in Files
      BY <2>3, StatesOf
    <3> DEFINE d == [file[of[m]] EXCEPT !.writable = FALSE, !.timeout = "running",
                                        !.id = part[m][p].id]
    <3>2. d.state = file[of[m]].state /\ d.readable = file[of[m]].readable
      BY <1>0, <3>1, DocumentFacts DEF Document
    <3>3. file' = [file EXCEPT ![of[m]] = d]
      BY <1>0, <2>3, <3>1 DEF SavePart, DocOK, Document
    <3> QED BY <1>0, <2>1, <3>1, <3>2, <3>3, DataReplaced
  <2> QED BY <1>12, <2>2, <2>3
<1>13. ASSUME NEW f \in Files, NEW i \in UploadIds, CleanUp(f, i) PROVE DataInv'
  BY <1>a, <1>13 DEF CleanUp, doc, requests
<1>14. ASSUME NEW f \in Files, Expire(f) \/ BeginDeleteFile(f) \/ RunDeleteFile(f) PROVE DataInv'
  <2>1. CASE Expire(f)
    <3> DEFINE d == [file[f] EXCEPT !.timeout = "over"]
    <3>1. d.state = file[f].state /\ d.readable = file[f].readable
      BY <1>0, DocumentFacts DEF Document
    <3>2. file' = [file EXCEPT ![f] = d] /\ object' = object
      BY <1>0, <2>1 DEF Expire, DocOK, backend
    <3>3. \A u \in Uploads : at'[u] \in Putting => at[u] = at'[u] /\ of'[u] = of[u]
      BY <1>0, <2>1 DEF Expire, Putting
    <3> QED BY <1>0, <3>1, <3>2, <3>3, DataReplaced
  <2>2. CASE BeginDeleteFile(f)
    <3>1. UNCHANGED <<at, of, object>>
      BY <2>2 DEF BeginDeleteFile, requests, backend
    <3>2. \A g \in Live' : g \in Live /\ file'[g] = file[g]
      BY <1>0, <2>2 DEF BeginDeleteFile, DocOK, Document, Live
    <3> QED BY <3>1, <3>2 DEF DataInv
  <2>3. CASE RunDeleteFile(f)
    <3>1. Live = {}
      BY <2>3 DEF RunDeleteFile, PathInv, DeletedInv, NoneDeleted
    <3>2. Live' = {}
      BY <1>0, <2>3, <3>1 DEF RunDeleteFile, DocOK, Document, NewFile, Live
    <3> QED BY <3>2 DEF DataInv
  <2> QED BY <1>14, <2>1, <2>2, <2>3
<1>15. CASE UNCHANGED vars
  BY <1>a, <1>15 DEF vars
<1> QED BY <1>1, <1>2, <1>3, <1>4, <1>5, <1>6, <1>7, <1>8, <1>9, <1>10, <1>11, <1>12, <1>13,
           <1>14, <1>15, NextCases

\* A file that can be read has data, also while it is replaced, its uploads fail or
\* older files of the path are deleted: if the backend gives every multipart upload
\* an id of its own and completes none without parts, and files are created on fresh
\* lookups and not before the deletion of an older one has run.
THEOREM ReadableHasData == FreshIds /\ ~StaleLookups /\ ~ReusesPath => (Spec => []ReadableHasObject)
<1> SUFFICES ASSUME FreshIds, ~StaleLookups, ~ReusesPath PROVE Spec => []ReadableHasObject
  OBVIOUS
<1> DEFINE Inv == TypeOK /\ GivenInv /\ PathInv /\ DataInv
<1>1. Init => Inv
  BY InitTypes, InitPath DEF DataInv, Live, Init, NewFile, Putting
<1>2. Inv /\ [Next]_vars => Inv'
  BY TypeStep, GivenStep, PathStep, DataStep
<1>3. Inv => ReadableHasObject
  BY DEF DataInv, ReadableHasObject
<1> QED BY <1>1, <1>2, <1>3, PTL DEF Spec

-----------------------------------------------------------------------------
(* A completed multipart upload is all parts of one client.  A multipart   *)
(* id belongs to one file, and at any time to one client that works with   *)
(* it; the parts with a document are those of the file's own id, or of one *)
(* that a cleanup is on its way for; so a client that begins again, and    *)
(* the job that completes, find parts of that client only, and all of them *)
(* once the client has saved them.                                         *)

\* A client that has a multipart id to record, complete or abort.
Named == {"starting", "assembling", "assembled", "aborting"}
Sending == {"sent", "stored"}

\* A client that goes on with the multipart upload i.
Works(m, i) ==
    \/ at[m] \in Named /\ idOf[m] = i
    \/ \E p \in Parts : part[m][p].step \in Sending /\ part[m][p].id = i

IdsInv ==
    /\ \A f, g \in Files, i \in UploadIds : <<f, i>> \in issued /\ <<g, i>> \in issued => f = g
    /\ \A f \in Files, i \in UploadIds : <<f, i>> \in issued => file[f].state # "none"
    /\ \A f \in Files : file[f].id # NoId => <<f, file[f].id>> \in issued
    /\ cleanups \subseteq issued
    /\ \A i \in UploadIds :
          (\A f \in Files : <<f, i>> \notin issued) => stored[i] = {} /\ partDocs[i] = {}

UsersInv ==
    /\ \A m \in Clients : at[m] \in Named => idOf[m] \in UploadIds
    /\ \A m \in Clients, i \in UploadIds : Works(m, i) => <<of[m], i>> \in issued
    /\ \A m, n \in Clients, i \in UploadIds : Works(m, i) /\ Works(n, i) => m = n

\* What earlier multipart uploads of a file have left, and whose parts its own has.
LeftInv(f) ==
    /\ <<f, file[f].id>> \notin cleanups
    /\ \A i \in UploadIds :
          <<f, i>> \in issued /\ i # file[f].id => <<f, i>> \in cleanups \/ partDocs[i] = {}
    /\ file[f].id # NoId => stored[file[f].id] \subseteq {file[f].client} \X Parts

\* Before a client sends parts it has none, and it completes when all are saved.
Before == {"idle", "missed", "waiting", "creating", "checked", "starting"}
Completing == {"completing", "assembling", "assembled"}
PartsInv(m) ==
    /\ at[m] \in Before => \A p \in Parts : part[m][p].step = "none"
    /\ at[m] \in Completing => \A p \in Parts : part[m][p].step = "saved"

\* The client that writes a file has parts of the file's multipart upload, and
\* completes or aborts that one; the id it is about to record is new.
MineInv(m) ==
    (of[m] \in Live /\ Writes(m, of[m])) =>
       /\ \A p \in Parts : part[m][p].step # "none" => part[m][p].id = file[of[m]].id
       /\ \A p \in Parts : part[m][p].step = "saved" => p \in partDocs[part[m][p].id]
       /\ at[m] \in {"assembling", "assembled", "aborting"} => idOf[m] = file[of[m]].id
       /\ at[m] = "starting" =>
             /\ file[of[m]].id = NoId /\ <<of[m], idOf[m]>> \notin cleanups
             /\ stored[idOf[m]] = {} /\ partDocs[idOf[m]] = {}

\* The multipart upload that a job completes, also of a file that is deleted by then.
AssembledInv(m) ==
    (at[m] = "assembling" /\ idOf[m] \in open) =>
       partDocs[idOf[m]] \in {{}, Parts} /\ stored[idOf[m]] \subseteq {m} \X Parts

ClientInv(m) == PartsInv(m) /\ MineInv(m) /\ AssembledInv(m)

WholeInv ==
    IdsInv /\ UsersInv /\ (\A f \in Live : LeftInv(f)) /\ (\A m \in Clients : ClientInv(m))

LEMMA IdsKept ==
    ASSUME IdsInv, issued' = issued, cleanups' \subseteq issued,
           \A f \in Files : file[f].state # "none" => file'[f].state # "none",
           \A f \in Files : file'[f].id = NoId \/ <<f, file'[f].id>> \in issued,
           \A i \in UploadIds : (\A f \in Files : <<f, i>> \notin issued) =>
              stored'[i] \subseteq stored[i] /\ partDocs'[i] \subseteq partDocs[i]
    PROVE  IdsInv'
  BY DEF IdsInv

LEMMA UsersKept ==
    ASSUME UsersInv, issued \subseteq issued',
           \A n \in Clients : at'[n] \in Named =>
              at[n] \in Named /\ idOf'[n] = idOf[n] /\ of'[n] = of[n],
           \A n \in Clients, p \in Parts : part'[n][p].step \in Sending =>
              part[n][p].step \in Sending /\ part'[n][p].id = part[n][p].id /\ of'[n] = of[n]
    PROVE  UsersInv'
<1>1. \A n \in Clients, i \in UploadIds : Works(n, i)' => Works(n, i) /\ of'[n] = of[n]
  BY DEF Works
<1> QED BY <1>1 DEF UsersInv

\* A client begins to work with an id that no other works with.
LEMMA UsersNew ==
    ASSUME UsersInv, issued \subseteq issued', of' = of, NEW m \in Clients, NEW i \in UploadIds,
           <<of[m], i>> \in issued', \A n \in Clients : Works(n, i) => n = m,
           \A n \in Clients : at'[n] \in Named => idOf'[n] \in UploadIds,
           \A n \in Clients, j \in UploadIds : Works(n, j)' => Works(n, j) \/ (n = m /\ j = i)
    PROVE  UsersInv'
  BY DEF UsersInv

LEMMA LeftKept ==
    ASSUME DocOK, NEW f \in Files, LeftInv(f),
           file'[f].id = file[f].id,
           file'[f].client = file[f].client \/ file[f].id = NoId,
           issued' = issued, cleanups' = cleanups,
           \A i \in UploadIds : stored'[i] \subseteq stored[i] /\ partDocs'[i] \subseteq partDocs[i]
    PROVE  LeftInv(f)'
<1>1. file[f].id \in UploadIds \cup {NoId}
  BY DEF DocOK, Document
<1> QED BY <1>1 DEF LeftInv

LEMMA MineKept ==
    ASSUME PartOK, NEW m \in Clients, MineInv(m), at'[m] = at[m], of'[m] = of[m],
           idOf'[m] = idOf[m], part'[m] = part[m],
           of[m] \in Live' => of[m] \in Live /\ file'[of[m]].id = file[of[m]].id,
           of[m] \in Live /\ Writes(m, of[m]) /\ file[of[m]].id \in UploadIds =>
              partDocs[file[of[m]].id] \subseteq partDocs'[file[of[m]].id],
           of[m] \in Live /\ at[m] = "starting" =>
              /\ <<of[m], idOf[m]>> \notin cleanups => <<of[m], idOf[m]>> \notin cleanups'
              /\ stored'[idOf[m]] \subseteq stored[idOf[m]]
              /\ partDocs'[idOf[m]] \subseteq partDocs[idOf[m]]
    PROVE  MineInv(m)'
<1>1. of'[m] \in Live' /\ Writes(m, of[m])' => of[m] \in Live /\ Writes(m, of[m])
  BY DEF Writes, InFlight
<1> SUFFICES ASSUME of[m] \in Live', Writes(m, of[m])'
             PROVE  /\ \A p \in Parts : part[m][p].step # "none" => part[m][p].id = file'[of[m]].id
                    /\ \A p \in Parts : part[m][p].step = "saved" => p \in partDocs'[part[m][p].id]
                    /\ at[m] \in {"assembling", "assembled", "aborting"} => idOf[m] = file'[of[m]].id
                    /\ at[m] = "starting" =>
                         /\ file'[of[m]].id = NoId /\ <<of[m], idOf[m]>> \notin cleanups'
                         /\ stored'[idOf[m]] = {} /\ partDocs'[idOf[m]] = {}
  BY DEF MineInv
<1>2. of[m] \in Live /\ Writes(m, of[m]) /\ file'[of[m]].id = file[of[m]].id
  BY <1>1
<1>3. \A p \in Parts : part[m][p].step # "none" => part[m][p].id \in UploadIds
  BY DEF PartOK
<1> QED BY <1>2, <1>3 DEF MineInv

LEMMA AssembledKept ==
    ASSUME NEW m \in Clients, AssembledInv(m), at'[m] = at[m], idOf'[m] = idOf[m],
           at[m] = "assembling" /\ idOf[m] \in open' =>
              /\ idOf[m] \in open /\ partDocs'[idOf[m]] \in {{}, partDocs[idOf[m]]}
              /\ stored'[idOf[m]] \subseteq stored[idOf[m]]
    PROVE  AssembledInv(m)'
  BY DEF AssembledInv

\* Another client, whose variables the step leaves alone.
LEMMA ClientKept ==
    ASSUME NEW m \in Clients, ClientInv(m), at'[m] = at[m], of'[m] = of[m], idOf'[m] = idOf[m],
           part'[m] = part[m], MineInv(m)', AssembledInv(m)'
    PROVE  ClientInv(m)'
  BY DEF ClientInv, PartsInv

AllInv == TypeOK /\ GivenInv /\ WriterInv /\ SoundInv /\ WholeInv

\* What holds of files and clients whatever the step.
LEMMA AllFacts ==
    ASSUME AllInv
    PROVE  /\ DocOK /\ AtOK /\ PartOK /\ BackendOK
           /\ Clients \subseteq Uploads /\ Singles \subseteq Uploads /\ Clients \cap Singles = {}
           /\ NoId \notin UploadIds /\ NoOne \notin Files /\ NoOne \notin Uploads
           /\ \A f \in Live : f \in Files /\ file[f] \in Document /\ file[f].state = "live"
           /\ \A f \in Files : file[f] \in Document
           /\ \A f, g \in Live : f = g
           /\ IdsInv /\ UsersInv
           /\ \A f \in Live : LeftInv(f)
           /\ \A m \in Clients : PartsInv(m) /\ MineInv(m) /\ AssembledInv(m)
<1>1. TypeOK /\ GivenInv /\ WriterInv /\ SoundInv /\ WholeInv
  BY DEF AllInv
<1>2. DocOK /\ AtOK /\ PartOK /\ BackendOK
  BY <1>1, TypeParts
<1>3. \A f \in Files : file[f] \in Document
  BY <1>2 DEF DocOK
<1>4. OneLive
  BY <1>1 DEF WriterInv
<1> QED BY <1>1, <1>2, <1>3, <1>4, UploadAssumption DEF Uploads, Live, OneLive, WholeInv, ClientInv

\* Who works with an id has its file, and may write it.
LEMMA WorksWrites ==
    ASSUME AllInv, NEW m \in Clients, NEW i \in UploadIds, Works(m, i)
    PROVE  <<of[m], i>> \in issued /\ of[m] \in Files /\ Writes(m, of[m])
<1>1. <<of[m], i>> \in issued
  BY AllFacts DEF UsersInv
<1>2. of[m] \in Files
  BY <1>1, AllFacts DEF BackendOK
<1>3. Writes(m, of[m])
  BY DEF Works, Writes, InFlight, Named, Sending
<1> QED BY <1>1, <1>2, <1>3

\* The id of a live file is worked with by the client that writes the file.
LEMMA OwnerOf ==
    ASSUME AllInv, NEW f \in Live, NEW i \in UploadIds, <<f, i>> \in issued,
           NEW m \in Clients, NEW n \in Clients, Writes(m, f), Works(n, i)
    PROVE  n = m
<1>1. of[n] = f /\ Writes(n, of[n])
  BY WorksWrites, AllFacts DEF IdsInv
<1>2. OneWriterOf(f)
  BY DEF AllInv, WriterInv, FileInv
<1> QED BY <1>1, <1>2, AllFacts DEF OneWriterOf

LEMMA HolderOf ==
    ASSUME AllInv, NEW f \in Live, NEW m \in Clients, Writes(m, f)
    PROVE  ~file[f].writable /\ file[f].client = m
  BY AllFacts DEF AllInv, WriterInv, FileInv, HolderInv

\* Who writes a live file is its only writer.
LEMMA WriterOf ==
    ASSUME AllInv, NEW f \in Live, NEW u \in Uploads, NEW v \in Uploads, Writes(u, f), Writes(v, f)
    PROVE  u = v
  BY DEF AllInv, WriterInv, FileInv, OneWriterOf

\* A request enters a stage in which it works with no id.
LEMMA WholeStage ==
    ASSUME AllInv, NEW u \in Uploads, NEW stage, at' = [at EXCEPT ![u] = stage],
           UNCHANGED <<file, of, idOf, part, stored, partDocs, issued, open, cleanups>>,
           stage \notin Named, stage \in Holding => at[u] \in Holding,
           u \in Clients /\ stage \in Before => at[u] \in Before,
           u \in Clients /\ stage = "completing" => \A p \in Parts : part[u][p].step = "saved"
    PROVE  WholeInv'
<1>0. Live' = Live /\ \A v \in Uploads : v # u => at'[v] = at[v]
  BY AllFacts DEF Live, AtOK
<1>a. at'[u] = stage
  BY AllFacts DEF AtOK
<1>1. IdsInv'
  BY AllFacts, IdsKept DEF IdsInv
<1>2. UsersInv'
  BY <1>0, <1>a, AllFacts, UsersKept
<1>3. \A f \in Live' : LeftInv(f)'
  BY <1>0, AllFacts DEF LeftInv
<1>4. ASSUME NEW m \in Clients PROVE ClientInv(m)'
  <2>0. ClientInv(m) /\ m \in Uploads
    BY AllFacts DEF ClientInv
  <2>1. PartsInv(m)'
    BY <1>0, <1>a, <2>0 DEF ClientInv, PartsInv, Completing, Named
  <2>2. Writes(m, of[m])' => Writes(m, of[m])
    BY <1>0, <1>a, <2>0 DEF Writes, InFlight, Holding
  <2>3. MineInv(m)'
    BY <1>0, <1>a, <2>0, <2>2 DEF ClientInv, MineInv, Named
  <2>4. AssembledInv(m)'
    BY <1>0, <1>a, <2>0 DEF ClientInv, AssembledInv, Named
  <2> QED BY <2>1, <2>3, <2>4 DEF ClientInv
<1> QED BY <1>1, <1>2, <1>3, <1>4 DEF WholeInv

LEMMA WholeCheckout ==
    ASSUME AllInv, NEW u \in Uploads, NEW f \in Live, at[u] \in {"idle", "waiting"}, Checkout(u, f)
    PROVE  WholeInv'
<1>0. f \in Files /\ file[f] \in Document
  BY AllFacts
<1>1. CASE ~Available(u, f)
  <2>1. /\ at' = [at EXCEPT ![u] = "refused"]
        /\ UNCHANGED <<file, of, idOf, part, stored, partDocs, issued, open, cleanups>>
    BY <1>1 DEF Checkout, backend
  <2> QED BY <2>1, WholeStage DEF Named, Holding, Before
<1>2. CASE Available(u, f)
  <2> DEFINE d == CheckedOut(u, f)
  <2>1. /\ file' = [file EXCEPT ![f] = d] /\ cleanups' = cleanups \cup Outdated(u, f)
        /\ at' = [at EXCEPT ![u] = IF u \in Singles THEN "held" ELSE "checked"]
        /\ of' = [of EXCEPT ![u] = f]
        /\ UNCHANGED <<idOf, part, stored, partDocs, issued, open>>
    BY <1>2 DEF Checkout, backend
  <2>2. /\ file'[f] = d /\ at'[u] \in {"held", "checked"} /\ of'[u] = f
        /\ u \in Clients => at'[u] = "checked"
        /\ \A g \in Files : g # f => file'[g] = file[g]
        /\ \A v \in Uploads : v # u => at'[v] = at[v] /\ of'[v] = of[v]
    BY <1>0, <2>1, AllFacts DEF DocOK, AtOK
  <2>3. Live' = Live /\ d.state = file[f].state
    BY <1>0, <2>2, StateKept, AllFacts DEF Live
  <2>4. \A v \in Uploads : ~Writes(v, f)
    BY <1>2, CheckoutFree DEF AllInv
  <2> DEFINE expires == ~file[f].writable /\ ~(u \in Clients /\ file[f].client = u)
  <2>5. /\ expires => d.id = NoId /\ file[f].id # NoId /\ Outdated(u, f) = {<<f, file[f].id>>}
        /\ ~expires => d.id = file[f].id /\ Outdated(u, f) = {}
        /\ d.client = IF u \in Clients THEN u ELSE file[f].client
    BY <1>0, <1>2 DEF Available, CheckedOut, Outdated, Document
  <2>6. ~expires /\ file[f].id # NoId => d.client = file[f].client
    <3>1. file[f].writable => file[f].timeout = "none"
      BY DEF AllInv, WriterInv, FileInv, FreeInv
    <3>2. file[f].timeout = "none" => file[f].id = NoId
      BY DEF AllInv, SoundInv, SoundOf, TimedOf
    <3> QED BY <2>5, <3>1, <3>2
  <2>7. LeftInv(f)
    BY AllFacts
  <2>8. file[f].id # NoId => <<f, file[f].id>> \in issued
    BY <1>0, AllFacts DEF IdsInv
  <2> HIDE DEF d, expires
  <2>9. IdsInv'
    <3>1. cleanups' \subseteq issued
      BY <2>1, <2>5, <2>8, AllFacts DEF IdsInv
    <3>2. \A g \in Files : file'[g].id = NoId \/ <<g, file'[g].id>> \in issued
      BY <2>2, <2>5, <2>8, AllFacts DEF IdsInv
    <3> QED BY <2>1, <2>2, <2>3, <3>1, <3>2, AllFacts, IdsKept
  <2>10. ~InFlight(u) \/ u \notin Clients
    BY DEF AllInv, GivenInv
  <2>11. UsersInv'
    <3>1. \A n \in Clients : at'[n] \in Named => n # u
      BY <2>2 DEF Named
    <3>2. \A n \in Clients, p \in Parts : part[n][p].step \in Sending => n # u
      BY <2>10 DEF InFlight, Sending
    <3> QED BY <2>1, <2>2, <3>1, <3>2, AllFacts, UsersKept
  <2>12. LeftInv(f)'
    <3>1. CASE ~expires
      BY <1>0, <2>1, <2>2, <2>5, <2>6, <2>7, <3>1, AllFacts, LeftKept
    <3>2. CASE expires
      <4>1. file'[f].id = NoId /\ cleanups' = cleanups \cup {<<f, file[f].id>>}
        BY <2>1, <2>2, <2>5, <3>2
      <4>2. <<f, NoId>> \notin cleanups'
        BY <2>5, <3>2, <4>1, AllFacts DEF BackendOK
      <4> QED BY <2>1, <2>7, <4>1, <4>2 DEF LeftInv
    <3> QED BY <3>1, <3>2
  <2>13. \A g \in Live' : LeftInv(g)'
    BY <2>3, <2>12, AllFacts
  <2>14. ASSUME NEW m \in Clients PROVE ClientInv(m)'
    <3>0. ClientInv(m) /\ m \in Uploads
      BY AllFacts DEF ClientInv
    <3>1. PartsInv(m)'
      BY <2>1, <2>2, <3>0 DEF ClientInv, PartsInv, Before, Completing
    <3>2. of'[m] \in Live' /\ Writes(m, of[m])' => m = u
      BY <2>1, <2>2, <2>3, <2>4, <3>0, AllFacts DEF Writes, InFlight
    <3>3. MineInv(m)'
      <4> SUFFICES ASSUME m = u PROVE MineInv(m)'
        BY <3>2, <2>2, <3>0 DEF MineInv, Writes
      <4>1. at'[m] = "checked" /\ \A p \in Parts : part'[m][p].step = "none"
        BY <2>1, <2>2, <3>0 DEF ClientInv, PartsInv, Before
      <4> QED BY <4>1 DEF MineInv
    <3>4. AssembledInv(m)'
      BY <2>1, <2>2, <3>0 DEF ClientInv, AssembledInv
    <3> QED BY <3>1, <3>3, <3>4 DEF ClientInv
  <2> QED BY <2>9, <2>11, <2>13, <2>14 DEF WholeInv
<1> QED BY <1>1, <1>2

\* A file is made that is in no multipart upload yet.
LEMMA WholeNew ==
    ASSUME AllInv, NEW f \in Files, NEW u \in Uploads, NEW d \in Document, d.id = NoId, d.state = "live",
           Live = {}, file[f].state = "none", file' = [file EXCEPT ![f] = d],
           UNCHANGED <<idOf, part, stored, partDocs, issued, open, cleanups>>,
           \A v \in Uploads : v # u => at'[v] = at[v] /\ of'[v] = of[v],
           at'[u] \in {"held", "checked", "gone"}, of'[u] \in {f, of[u]},
           of'[u] = f => at'[u] # "gone",
           u \in Clients => at'[u] # "held" /\ (at'[u] = "checked" => at[u] \in Before),
           u \in Clients /\ InFlight(u) => of'[u] = of[u]
    PROVE  WholeInv'
<1>1. file'[f] = d /\ \A g \in Files : g # f => file'[g] = file[g]
  BY AllFacts DEF DocOK
<1>2. Live' = {f}
  BY <1>1 DEF Live
<1>3. \A v \in Uploads : of[v] # f
  BY DEF AllInv, WriterInv, Known
<1>4. \A i \in UploadIds : <<f, i>> \notin issued
  BY AllFacts DEF IdsInv
<1>5. IdsInv'
  <2>1. \A g \in Files : file'[g].id = NoId \/ <<g, file'[g].id>> \in issued
    BY <1>1, AllFacts DEF IdsInv
  <2>2. \A g \in Files : file[g].state # "none" => file'[g].state # "none"
    BY <1>1
  <2>3. cleanups' \subseteq issued
    BY AllFacts DEF IdsInv
  <2> QED BY <2>1, <2>2, <2>3, AllFacts, IdsKept
<1>6. UsersInv'
  <2>1. \A n \in Clients : at'[n] \in Named => n # u
    BY DEF Named
  <2>2. \A n \in Clients, p \in Parts : part[n][p].step \in Sending => n # u \/ of'[u] = of[u]
    BY DEF InFlight, Sending
  <2> QED BY <2>1, <2>2, AllFacts, UsersKept
<1>7. LeftInv(f)'
  <2>1. <<f, NoId>> \notin cleanups
    BY AllFacts DEF BackendOK
  <2> QED BY <1>1, <1>4, <2>1 DEF LeftInv
<1>8. ASSUME NEW m \in Clients PROVE ClientInv(m)'
  <2>0. ClientInv(m) /\ m \in Uploads
    BY AllFacts DEF ClientInv
  <2>1. PartsInv(m)'
    BY <2>0 DEF ClientInv, PartsInv, Before, Completing
  <2>2. of'[m] \in Live' => m = u /\ at'[m] = "checked"
    BY <1>2, <1>3, <2>0
  <2>3. MineInv(m)'
    <3> SUFFICES ASSUME at'[m] = "checked", m = u PROVE MineInv(m)'
      BY <2>2 DEF MineInv
    <3>1. \A p \in Parts : part'[m][p].step = "none"
      BY <2>0 DEF ClientInv, PartsInv
    <3> QED BY <3>1 DEF MineInv
  <2>4. AssembledInv(m)'
    BY <2>0 DEF ClientInv, AssembledInv
  <2> QED BY <2>1, <2>3, <2>4 DEF ClientInv
<1> QED BY <1>2, <1>5, <1>6, <1>7, <1>8 DEF WholeInv

\* A single upload that ends leaves a file that is in no multipart upload.
LEMMA WholeSingle ==
    ASSUME AllInv, NEW u \in Singles, Finish(u) \/ SetFileWritable(u)
    PROVE  WholeInv'
<1>0. of[u] \in Files /\ SameStates /\ u \in Uploads
  BY StatesOf, AllFacts DEF AllInv
<1>1. /\ \A v \in Uploads : v # u => at'[v] = at[v] /\ of'[v] = of[v]
      /\ UNCHANGED <<idOf, part, stored, partDocs, issued, open, cleanups>>
      /\ Live' = Live
  BY <1>0, AllFacts DEF Finish, SetFileWritable, Leave, AtOK, backend, SameStates, Live
<1>2. \A g \in Files : g # of[u] => file'[g] = file[g]
  BY <1>0, AllFacts DEF Finish, SetFileWritable, DocOK
<1>3. of[u] \in Live => file[of[u]].id = NoId
  <2> SUFFICES ASSUME of[u] \in Live PROVE file[of[u]].id = NoId
    OBVIOUS
  <2>1. Writes(u, of[u])
    BY DEF Finish, SetFileWritable, Writes
  <2>2. file[of[u]].timeout = "none"
    BY <1>0, <2>1 DEF AllInv, WriterInv, FileInv, HolderInv
  <2> QED BY <2>2 DEF AllInv, SoundInv, SoundOf, TimedOf
<1>4. \/ of[u] \in Live /\ file'[of[u]].id = NoId
      \/ file' = file /\ of[u] \notin Live
  <2>1. file[of[u]] \in Document /\ (of[u] \in Live <=> file[of[u]].state = "live")
    BY <1>0, AllFacts DEF Live
  <2>2. CASE Finish(u)
    BY <1>0, <2>1, <2>2, AllFacts DEF Finish, Final, Released, DocOK, Document
  <2>3. CASE SetFileWritable(u)
    <3>1. CASE of[u] \in Live
      <4>1. file'[of[u]] = [file[of[u]] EXCEPT !.writable = TRUE]
        BY <1>0, <2>1, <2>3, <3>1, AllFacts DEF SetFileWritable, DocOK
      <4> QED BY <1>3, <2>1, <3>1, <4>1 DEF Document
    <3>2. CASE of[u] \notin Live
      BY <2>1, <2>3, <3>2 DEF SetFileWritable
    <3> QED BY <3>1, <3>2
  <2> QED BY <2>2, <2>3
<1>5. IdsInv'
  <2>1. \A g \in Files : file'[g].id = NoId \/ <<g, file'[g].id>> \in issued
    BY <1>2, <1>4, AllFacts DEF IdsInv
  <2>2. cleanups' \subseteq issued
    BY <1>1, AllFacts DEF IdsInv
  <2> QED BY <1>0, <1>1, <2>1, <2>2, AllFacts, IdsKept DEF SameStates
<1>6. UsersInv'
  BY <1>0, <1>1, AllFacts, UsersKept
<1>7. ASSUME NEW g \in Live' PROVE LeftInv(g)'
  <2>1. g \in Files /\ LeftInv(g) /\ file'[g].id = file[g].id
        /\ (file'[g].client = file[g].client \/ file[g].id = NoId)
    BY <1>1, <1>2, <1>3, <1>4, AllFacts, <1>7
  <2> QED BY <1>1, <2>1, AllFacts, LeftKept
<1>8. ASSUME NEW m \in Clients PROVE ClientInv(m)'
  <2>0. ClientInv(m) /\ m \in Uploads /\ m # u
    BY <1>0, AllFacts DEF ClientInv
  <2>1. of[m] \in Live => file'[of[m]].id = file[of[m]].id
    BY <1>2, <1>3, <1>4, AllFacts
  <2>2. MineInv(m)'
    BY <1>1, <2>0, <2>1, AllFacts, MineKept DEF ClientInv
  <2>3. AssembledInv(m)'
    BY <1>1, <2>0, AssembledKept DEF ClientInv
  <2> QED BY <1>1, <2>0, <2>2, <2>3, ClientKept
<1> QED BY <1>5, <1>6, <1>7, <1>8 DEF WholeInv

\* A client that writes a live file keeps all others from it.
LEMMA OthersElsewhere ==
    ASSUME AllInv, NEW m \in Clients, Writes(m, of[m]), of[m] \in Live,
           NEW n \in Clients, n # m, of[n] \in Live
    PROVE  ~Writes(n, of[n])
  BY WriterOf, AllFacts

\* startMultipartUpload gives the file an id that no file has had.
LEMMA WholeStart ==
    ASSUME FreshIds, AllInv, NEW m \in Clients, NEW i \in UploadIds, StartMultipart(m, i)
    PROVE  WholeInv'
<1>0. of[m] \in Files /\ file[of[m]].state # "none" /\ m \in Uploads
  BY AllFacts DEF AllInv, WriterInv, Known, GivenInv, StartMultipart, Stages
<1>1. /\ UNCHANGED <<file, of, part, stored, partDocs, cleanups>>
      /\ at'[m] = "starting" /\ idOf'[m] = i /\ issued' = issued \cup {<<of[m], i>>}
      /\ \A v \in Uploads : v # m => at'[v] = at[v]
      /\ \A n \in Clients : n # m => idOf'[n] = idOf[n]
      /\ at[m] = "checked" /\ file[of[m]].id = NoId /\ open' = open \cup {i}
  BY <1>0, AllFacts DEF StartMultipart, doc, AtOK, PartOK
<1>2. \A g \in Files : <<g, i>> \notin issued
  BY DEF StartMultipart, Ids
<1>3. stored[i] = {} /\ partDocs[i] = {}
  BY <1>2, AllFacts DEF IdsInv
<1>4. Live' = Live /\ \A g \in Files : <<g, i>> \notin cleanups
  BY <1>1, <1>2, AllFacts DEF Live, IdsInv
<1>5. IdsInv'
  BY <1>0, <1>1, <1>2, AllFacts DEF IdsInv
<1>6. \A n \in Clients : ~Works(n, i)
  BY <1>2, WorksWrites
<1>7. UsersInv'
  <2>1. ~InFlight(m)
    BY <1>1 DEF AllInv, GivenInv
  <2>2. \A n \in Clients, j \in UploadIds : Works(n, j)' => Works(n, j) \/ (n = m /\ j = i)
    BY <1>1, <2>1, AllFacts DEF Works, InFlight, Sending
  <2>3. \A n \in Clients : at'[n] \in Named => idOf'[n] \in UploadIds
    BY <1>1, AllFacts DEF UsersInv
  <2> QED BY <1>0, <1>1, <1>6, <2>2, <2>3, AllFacts, UsersNew
<1>8. ASSUME NEW f \in Live' PROVE LeftInv(f)'
  BY <1>1, <1>3, <1>4, <1>8, AllFacts DEF LeftInv
<1>9. ASSUME NEW n \in Clients PROVE ClientInv(n)'
  <2>0. ClientInv(n) /\ n \in Uploads
    BY AllFacts DEF ClientInv
  <2>1. CASE n # m
    <3>1. MineInv(n)'
      BY <1>1, <1>4, <2>0, <2>1, AllFacts, MineKept DEF ClientInv
    <3>2. AssembledInv(n)'
      <4>1. at[n] = "assembling" => Works(n, idOf[n]) /\ idOf[n] \in UploadIds
        BY AllFacts DEF Works, UsersInv, Named
      <4>2. at[n] = "assembling" => idOf[n] # i
        BY <1>6, <4>1
      <4> QED BY <1>1, <2>0, <2>1, <4>2, AssembledKept DEF ClientInv
    <3> QED BY <1>1, <2>0, <2>1, <3>1, <3>2, ClientKept
  <2>2. CASE n = m
    <3>1. \A p \in Parts : part'[m][p].step = "none"
      BY <1>1, <2>0, <2>2 DEF ClientInv, PartsInv, Before
    <3>2. PartsInv(m)' /\ AssembledInv(m)'
      BY <1>1, <3>1 DEF PartsInv, AssembledInv, Completing
    <3>3. MineInv(m)'
      BY <1>0, <1>1, <1>3, <1>4, <3>1 DEF MineInv
    <3> QED BY <2>2, <3>2, <3>3 DEF ClientInv
  <2> QED BY <2>1, <2>2
<1> QED BY <1>5, <1>7, <1>8, <1>9 DEF WholeInv

\* ... and records it.
LEMMA WholeRecord ==
    ASSUME AllInv, NEW m \in Clients, RecordId(m)
    PROVE  WholeInv'
<1> DEFINE d == [file[of[m]] EXCEPT !.timeout = "running", !.id = idOf[m], !.client = m]
<1>0. of[m] \in Files /\ SameStates /\ m \in Uploads /\ Live' = Live
  BY StatesOf, AllFacts DEF AllInv, SameStates, Live
<1>1. /\ UNCHANGED <<of, part, stored, partDocs, issued, open, cleanups>>
      /\ at'[m] = "open" /\ idOf'[m] = NoId /\ at[m] = "starting"
      /\ \A v \in Uploads : v # m => at'[v] = at[v]
      /\ \A n \in Clients : n # m => idOf'[n] = idOf[n]
  BY <1>0, AllFacts DEF RecordId, AtOK, PartOK, backend
<1>2. /\ \A g \in Files : g # of[m] => file'[g] = file[g]
      /\ \/ file'[of[m]] = file[of[m]] /\ of[m] \notin Live
         \/ file'[of[m]] = d
  BY <1>0, AllFacts DEF RecordId, Update, DocOK, Live
<1>3. d.id = idOf[m] /\ d.client = m
  BY <1>0, AllFacts DEF Document
<1>4. Works(m, idOf[m]) /\ idOf[m] \in UploadIds /\ Writes(m, of[m])
  BY <1>1, AllFacts DEF Works, Named, UsersInv, Writes
<1>5. <<of[m], idOf[m]>> \in issued
  BY <1>4, WorksWrites
<1> HIDE DEF d
<1>6. IdsInv'
  <2>1. \A g \in Files : file'[g].id = NoId \/ <<g, file'[g].id>> \in issued
    BY <1>2, <1>3, <1>5, AllFacts DEF IdsInv
  <2>2. cleanups' \subseteq issued
    BY <1>1, AllFacts DEF IdsInv
  <2> QED BY <1>0, <1>1, <2>1, <2>2, AllFacts, IdsKept DEF SameStates
<1>7. UsersInv'
  <2>1. \A n \in Clients : at'[n] \in Named => n # m
    BY <1>1 DEF Named
  <2> QED BY <1>0, <1>1, <2>1, AllFacts, UsersKept
<1>8. ASSUME NEW f \in Live' PROVE LeftInv(f)'
  <2>0. f \in Live /\ f \in Files /\ LeftInv(f)
    BY <1>0, <1>8, AllFacts
  <2>1. CASE f # of[m]
    BY <1>1, <1>2, <2>0, <2>1, AllFacts, LeftKept
  <2>2. CASE f = of[m]
    <3>1. /\ file[f].id = NoId /\ <<f, idOf[m]>> \notin cleanups
          /\ stored[idOf[m]] = {} /\ partDocs[idOf[m]] = {}
      BY <1>1, <1>4, <2>0, <2>2, AllFacts DEF MineInv
    <3>2. file'[f].id = idOf[m]
      BY <1>2, <1>3, <2>0, <2>2
    <3>3. \A i \in UploadIds : <<f, i>> \in issued => <<f, i>> \in cleanups \/ partDocs[i] = {}
      BY <2>0, <3>1, AllFacts DEF LeftInv
    <3> QED BY <1>1, <3>1, <3>2, <3>3 DEF LeftInv
  <2> QED BY <2>1, <2>2
<1>9. ASSUME NEW n \in Clients PROVE ClientInv(n)'
  <2>0. ClientInv(n) /\ n \in Uploads
    BY AllFacts DEF ClientInv
  <2>1. CASE n # m
    <3>1. MineInv(n)'
      <4>1. CASE of[n] \in Live /\ of[n] = of[m]
        <5>1. ~Writes(n, of[n])
          BY <1>4, <2>1, <4>1, OthersElsewhere
        <5> QED BY <1>1, <2>0, <2>1, <5>1 DEF MineInv, Writes, InFlight
      <4>2. CASE ~(of[n] \in Live /\ of[n] = of[m])
        <5>1. of[n] \in Live => file'[of[n]].id = file[of[n]].id
          BY <1>2, <4>2, AllFacts
        <5> QED BY <1>0, <1>1, <2>0, <2>1, <5>1, AllFacts, MineKept DEF ClientInv
      <4> QED BY <4>1, <4>2
    <3>2. AssembledInv(n)'
      BY <1>1, <2>0, <2>1, AssembledKept DEF ClientInv
    <3> QED BY <1>1, <2>0, <2>1, <3>1, <3>2, ClientKept
  <2>2. CASE n = m
    <3>1. \A p \in Parts : part'[m][p].step = "none"
      BY <1>1, <2>0, <2>2 DEF ClientInv, PartsInv, Before
    <3> QED BY <1>1, <2>2, <3>1 DEF ClientInv, PartsInv, MineInv, AssembledInv, Completing
  <2> QED BY <2>1, <2>2
<1> QED BY <1>6, <1>7, <1>8, <1>9 DEF WholeInv

\* A client that completes or aborts reads the id of its file: all parts of it are
\* saved when it completes, and are the client's.
LEMMA WholeReads ==
    ASSUME AllInv, NEW m \in Clients, Abort(m) \/ JobReads(m)
    PROVE  WholeInv'
<1> DEFINE i == file[of[m]].id
<1>0. of[m] \in Live /\ m \in Uploads /\ Writes(m, of[m]) /\ ~InFlight(m)
  <2>1. of[m] \in Files /\ m \in Uploads
    BY AllFacts DEF AllInv, GivenInv, Abort, JobReads, Stages
  <2> QED BY <2>1 DEF Abort, JobReads, Live, Writes, AllInv, GivenInv
<1>1. /\ UNCHANGED <<file, of, part, stored, partDocs, issued, open, cleanups>>
      /\ idOf'[m] = i
      /\ \A v \in Uploads : v # m => at'[v] = at[v]
      /\ \A n \in Clients : n # m => idOf'[n] = idOf[n]
      /\ \/ at[m] = "open" /\ at'[m] = "aborting"
         \/ at[m] = "completing" /\ at'[m] = "assembling"
  BY <1>0, AllFacts DEF Abort, JobReads, AtOK, PartOK, backend, doc
<1>2. i \in UploadIds /\ <<of[m], i>> \in issued
  BY <1>0, AllFacts DEF Abort, JobReads, IdsInv, Document
<1>3. \A n \in Clients : Works(n, i) => n = m
  BY <1>0, <1>2, OwnerOf
<1>4. Live' = Live
  BY <1>1 DEF Live
<1> HIDE DEF i
<1>5. IdsInv'
  BY <1>1, AllFacts DEF IdsInv
<1>6. UsersInv'
  <2>1. \A n \in Clients, j \in UploadIds : Works(n, j)' => Works(n, j) \/ (n = m /\ j = i)
    BY <1>0, <1>1, AllFacts DEF Works, InFlight, Sending
  <2>2. \A n \in Clients : at'[n] \in Named => idOf'[n] \in UploadIds
    BY <1>1, <1>2, AllFacts DEF UsersInv
  <2> QED BY <1>1, <1>2, <1>3, <2>1, <2>2, UsersNew, AllFacts
<1>7. \A f \in Live' : LeftInv(f)'
  BY <1>1, <1>4, AllFacts DEF LeftInv
<1>8. ASSUME NEW n \in Clients PROVE ClientInv(n)'
  <2>0. ClientInv(n) /\ n \in Uploads
    BY AllFacts DEF ClientInv
  <2>1. CASE n # m
    <3>1. MineInv(n)'
      BY <1>1, <1>4, <2>0, <2>1, AllFacts, MineKept DEF ClientInv
    <3>2. AssembledInv(n)'
      BY <1>1, <2>0, <2>1, AssembledKept DEF ClientInv
    <3> QED BY <1>1, <2>0, <2>1, <3>1, <3>2, ClientKept
  <2>2. CASE n = m
    <3>1. /\ \A p \in Parts : part[m][p].step # "none" => part[m][p].id = i
          /\ \A p \in Parts : part[m][p].step = "saved" => p \in partDocs[part[m][p].id]
          /\ at[m] = "completing" => \A p \in Parts : part[m][p].step = "saved"
      BY <1>0, <2>0, <2>2 DEF i, ClientInv, MineInv, PartsInv, Completing
    <3>2. PartsInv(m)'
      BY <1>1, <3>1 DEF PartsInv, Before, Completing
    <3>3. MineInv(m)'
      BY <1>1, <3>1 DEF MineInv, i
    <3>4. AssembledInv(m)'
      <4> SUFFICES ASSUME at[m] = "completing"
                   PROVE  partDocs[i] \in {{}, Parts} /\ stored[i] \subseteq {m} \X Parts
        BY <1>1 DEF AssembledInv
      <4>1. \A p \in Parts : p \in partDocs[i]
        BY <3>1
      <4>2. partDocs[i] = Parts
        BY <1>2, <4>1, AllFacts DEF BackendOK
      <4>3. stored[i] \subseteq {m} \X Parts
        BY <1>0, <1>2, HolderOf, AllFacts DEF LeftInv, i
      <4> QED BY <4>2, <4>3
    <3> QED BY <2>2, <3>2, <3>3, <3>4 DEF ClientInv
  <2> QED BY <2>1, <2>2
<1> QED BY <1>5, <1>6, <1>7, <1>8 DEF WholeInv

\* An abortion, and the end of a completed multipart upload: the file is in none
\* any more, and what is left of it is gone or will be cleaned up.
LEMMA WholeEnds ==
    ASSUME AllInv, NEW m \in Clients, DeleteMultipart(m) \/ JobFinishes(m)
    PROVE  WholeInv'
<1> DEFINE i == idOf[m]
           d == IF at[m] = "aborting" THEN Released(of[m]) ELSE Final(of[m])
<1>0. of[m] \in Files /\ SameStates /\ m \in Uploads /\ Live' = Live
  BY StatesOf, AllFacts DEF AllInv, SameStates, Live
<1>1. at[m] \in {"aborting", "assembled"} /\ Writes(m, of[m]) /\ i \in UploadIds /\ Works(m, i)
  BY AllFacts DEF DeleteMultipart, JobFinishes, UsersInv, Named, Works, Writes
<1>2. <<of[m], i>> \in issued
  BY <1>1, WorksWrites
<1>3. /\ \A g \in Files : g # of[m] => file'[g] = file[g]
      /\ \/ file'[of[m]] = file[of[m]] /\ of[m] \notin Live
         \/ file'[of[m]] = d
  BY <1>0, AllFacts DEF DeleteMultipart, JobFinishes, Update, DocOK, Live
<1>4. d.id = NoId
  BY <1>0, AllFacts DEF Released, Final, Document
<1>5. /\ issued' = issued /\ cleanups' \subseteq cleanups \cup {<<of[m], i>>}
      /\ at[m] = "aborting" => cleanups' = cleanups /\ partDocs'[i] = {}
      /\ at[m] = "assembled" =>
            of[m] \in Live /\ cleanups' = cleanups \cup {<<of[m], i>>} /\ partDocs' = partDocs
      /\ open' \subseteq open
      /\ \A j \in UploadIds : j # i => stored'[j] = stored[j] /\ partDocs'[j] = partDocs[j]
      /\ \A j \in UploadIds : stored'[j] \subseteq stored[j] /\ partDocs'[j] \subseteq partDocs[j]
  BY <1>0, <1>1, AllFacts DEF DeleteMultipart, JobFinishes, backend, BackendOK, Live
<1>6. /\ at'[m] = "done" /\ of'[m] = NoOne /\ \A p \in Parts : part'[m][p].step = "none"
      /\ \A v \in Uploads : v # m => at'[v] = at[v] /\ of'[v] = of[v]
      /\ \A n \in Clients : n # m => part'[n] = part[n] /\ idOf'[n] = idOf[n]
  BY <1>0, AllFacts DEF DeleteMultipart, JobFinishes, Leave, Forget, NoPart, AtOK, PartOK
<1> HIDE DEF d, i
<1>7. IdsInv'
  <2>1. \A g \in Files : file'[g].id = NoId \/ <<g, file'[g].id>> \in issued
    BY <1>3, <1>4, AllFacts DEF IdsInv
  <2>2. cleanups' \subseteq issued
    BY <1>2, <1>5, AllFacts DEF IdsInv
  <2> QED BY <1>0, <1>5, <2>1, <2>2, AllFacts, IdsKept DEF SameStates
<1>8. UsersInv'
  <2>1. \A n \in Clients : at'[n] \in Named => n # m
    BY <1>6 DEF Named
  <2>2. \A n \in Clients, p \in Parts : part'[n][p].step \in Sending => n # m
    BY <1>6 DEF Sending
  <2> QED BY <1>5, <1>6, <2>1, <2>2, AllFacts, UsersKept
<1>9. ASSUME NEW f \in Live' PROVE LeftInv(f)'
  <2>0. f \in Live /\ f \in Files /\ LeftInv(f)
    BY <1>0, <1>9, AllFacts
  <2>1. CASE f # of[m]
    <3>1. at[m] = "aborting"
      BY <1>1, <1>5, <2>0, <2>1, AllFacts
    <3> QED BY <1>3, <1>5, <2>0, <2>1, <3>1, AllFacts, LeftKept
  <2>2. CASE f = of[m]
    <3>1. file'[f].id = NoId /\ file[f].id = i
      BY <1>1, <1>3, <1>4, <2>0, <2>2, AllFacts DEF MineInv, i
    <3>2. <<f, NoId>> \notin cleanups'
      BY <1>1, <1>5, AllFacts DEF BackendOK
    <3>3. ASSUME NEW j \in UploadIds, <<f, j>> \in issued
          PROVE  <<f, j>> \in cleanups' \/ partDocs'[j] = {}
      <4>1. CASE j = i
        BY <1>1, <1>5, <2>2, <4>1
      <4>2. CASE j # i
        BY <1>1, <1>5, <2>0, <3>1, <3>3, <4>2 DEF LeftInv
      <4> QED BY <4>1, <4>2
    <3> QED BY <1>5, <3>1, <3>2, <3>3 DEF LeftInv
  <2> QED BY <2>1, <2>2
<1>10. ASSUME NEW n \in Clients PROVE ClientInv(n)'
  <2>0. ClientInv(n) /\ n \in Uploads
    BY AllFacts DEF ClientInv
  <2>1. CASE n # m
    <3>1. MineInv(n)'
      <4>1. CASE of[n] \in Live /\ Writes(n, of[n])
        <5>1. of[m] # of[n]
          BY <1>1, <2>1, <4>1, OthersElsewhere
        <5>2. at[m] = "aborting"
          BY <1>1, <1>5, <4>1, <5>1, AllFacts
        <5>3. file'[of[n]] = file[of[n]] /\ file[of[n]].id # i
          <6>1. of[n] \in Files /\ i # NoId
            BY <1>1, <4>1, AllFacts
          <6>2. file[of[n]].id = i => <<of[n], i>> \in issued
            BY <6>1, AllFacts DEF IdsInv
          <6> QED BY <1>0, <1>1, <1>2, <1>3, <5>1, <6>1, <6>2, AllFacts DEF IdsInv
        <5>4. file[of[n]].id \in UploadIds =>
                 partDocs[file[of[n]].id] \subseteq partDocs'[file[of[n]].id]
          BY <1>5, <5>3
        <5>5. at[n] = "starting" => idOf[n] \in UploadIds
          BY AllFacts DEF UsersInv, Named
        <5> QED BY <1>0, <1>5, <1>6, <2>0, <2>1, <5>2, <5>3, <5>4, <5>5, AllFacts, MineKept DEF ClientInv
      <4>2. CASE ~(of[n] \in Live /\ Writes(n, of[n]))
        BY <1>0, <1>6, <2>0, <2>1, <4>2 DEF MineInv, Writes, InFlight
      <4> QED BY <4>1, <4>2
    <3>2. AssembledInv(n)'
      <4>1. at[n] = "assembling" => Works(n, idOf[n]) /\ idOf[n] \in UploadIds
        BY AllFacts DEF Works, UsersInv, Named
      <4>2. at[n] = "assembling" => idOf[n] # i
        BY <1>1, <2>1, <4>1, AllFacts DEF UsersInv
      <4> QED BY <1>5, <1>6, <2>0, <2>1, <4>1, <4>2, AssembledKept DEF ClientInv
    <3> QED BY <1>6, <2>0, <2>1, <3>1, <3>2, ClientKept
  <2>2. CASE n = m
    BY <1>0, <1>6, <2>2, AllFacts DEF ClientInv, PartsInv, MineInv, AssembledInv, Completing
  <2> QED BY <2>1, <2>2
<1> QED BY <1>7, <1>8, <1>9, <1>10 DEF WholeInv

\* The job closes its multipart upload in the backend.
LEMMA WholeAssembles ==
    ASSUME AllInv, NEW m \in Clients, JobAssembles(m)
    PROVE  WholeInv'
<1>0. m \in Uploads /\ idOf[m] \in UploadIds
  BY AllFacts DEF JobAssembles, BackendOK
<1>1. /\ UNCHANGED <<file, of, idOf, part, partDocs, issued, cleanups>>
      /\ at[m] = "assembling" /\ at'[m] = "assembled"
      /\ \A v \in Uploads : v # m => at'[v] = at[v]
      /\ open' \subseteq open
      /\ \A j \in UploadIds : stored'[j] \subseteq stored[j]
  BY <1>0, AllFacts DEF JobAssembles, AtOK, BackendOK, doc
<1>2. Live' = Live
  BY <1>1 DEF Live
<1>3. IdsInv'
  BY <1>1, AllFacts DEF IdsInv
<1>4. UsersInv'
  <2>1. \A n \in Clients : at'[n] \in Named => at[n] \in Named
    BY <1>1, AllFacts DEF Named
  <2> QED BY <1>1, <2>1, AllFacts, UsersKept
<1>5. ASSUME NEW f \in Live' PROVE LeftInv(f)'
  BY <1>1, <1>2, <1>5, AllFacts, LeftKept
<1>6. ASSUME NEW n \in Clients PROVE ClientInv(n)'
  <2>0. ClientInv(n) /\ n \in Uploads
    BY AllFacts DEF ClientInv
  <2>1. CASE n # m
    <3>0. at[n] \in Named => idOf[n] \in UploadIds
      BY AllFacts DEF UsersInv
    <3>1. MineInv(n)'
      BY <1>1, <1>2, <2>0, <2>1, <3>0, AllFacts, MineKept DEF ClientInv, Named
    <3>2. AssembledInv(n)'
      BY <1>1, <2>0, <2>1, <3>0, AssembledKept DEF ClientInv, Named
    <3> QED BY <1>1, <2>0, <2>1, <3>1, <3>2, ClientKept
  <2>2. CASE n = m
    <3>1. Writes(m, of[m])
      BY <1>1 DEF Writes
    <3> QED BY <1>1, <1>2, <2>0, <2>2, <3>1
            DEF ClientInv, PartsInv, MineInv, AssembledInv, Before, Completing
  <2> QED BY <2>1, <2>2
<1> QED BY <1>3, <1>4, <1>5, <1>6 DEF WholeInv

\* What was assembled is all parts of the client.
LEMMA AssembledWhole ==
    ASSUME FreshIds, AllInv, NEW m \in Clients, JobAssembles(m)
    PROVE  object' = {m} \X Parts
<1> DEFINE i == idOf[m]
<1>1. i \in UploadIds
  BY AllFacts DEF JobAssembles, BackendOK
<1>2. partDocs[i] = Parts /\ stored[i] \subseteq {m} \X Parts
  BY AllFacts DEF JobAssembles, AssembledInv
<1>3. object' = {w \in stored[i] : w[2] \in partDocs[i]}
  BY DEF JobAssembles, Documented
<1>4. ASSUME NEW p \in Parts PROVE <<m, p>> \in stored[i]
  <2>1. PICK w \in stored[i] : w[2] = p
    BY <1>2 DEF JobAssembles
  <2>2. w = <<m, p>>
    BY <1>2, <2>1
  <2> QED BY <2>1, <2>2
<1> HIDE DEF i
<1>5. \A w \in {m} \X Parts : w \in stored[i] /\ w[2] \in Parts
  BY <1>4
<1> QED BY <1>2, <1>3, <1>5

\* A job that fails lets its client go, without its parts.
LEMMA WholeFails ==
    ASSUME AllInv, NEW m \in Clients, JobFails(m)
    PROVE  WholeInv'
<1>0. m \in Uploads
  BY AllFacts
<1>1. /\ UNCHANGED <<file, of, stored, partDocs, issued, open, cleanups>>
      /\ at'[m] = "gone" /\ \A p \in Parts : part'[m][p].step = "none"
      /\ \A v \in Uploads : v # m => at'[v] = at[v]
      /\ \A n \in Clients : n # m => part'[n] = part[n] /\ idOf'[n] = idOf[n]
  BY <1>0, AllFacts DEF JobFails, Forget, NoPart, AtOK, PartOK, doc, backend
<1>2. Live' = Live
  BY <1>1 DEF Live
<1>3. IdsInv'
  BY <1>1, AllFacts DEF IdsInv
<1>4. UsersInv'
  <2>1. \A n \in Clients : at'[n] \in Named => n # m
    BY <1>1 DEF Named
  <2>2. \A n \in Clients, p \in Parts : part'[n][p].step \in Sending => n # m
    BY <1>1 DEF Sending
  <2> QED BY <1>1, <2>1, <2>2, AllFacts, UsersKept
<1>5. \A f \in Live' : LeftInv(f)'
  BY <1>1, <1>2, AllFacts DEF LeftInv
<1>6. ASSUME NEW n \in Clients PROVE ClientInv(n)'
  <2>0. ClientInv(n) /\ n \in Uploads
    BY AllFacts DEF ClientInv
  <2>1. CASE n # m
    <3>1. MineInv(n)'
      BY <1>1, <1>2, <2>0, <2>1, AllFacts, MineKept DEF ClientInv
    <3>2. AssembledInv(n)'
      BY <1>1, <2>0, <2>1, AssembledKept DEF ClientInv
    <3> QED BY <1>1, <2>0, <2>1, <3>1, <3>2, ClientKept
  <2>2. CASE n = m
    <3>1. ~Writes(m, of[m])'
      BY <1>1, AllFacts DEF Writes, InFlight
    <3> QED BY <1>1, <2>2, <3>1 DEF ClientInv, PartsInv, MineInv, AssembledInv, Before, Completing
  <2> QED BY <2>1, <2>2
<1> QED BY <1>3, <1>4, <1>5, <1>6 DEF WholeInv

\* A client that begins again is told of parts of its own multipart upload only:
\* the parts of earlier ones are cleaned up by then.
LEMMA WholeReturns ==
    ASSUME ~SlowCleanups, ~Resumes, AllInv, NEW m \in Clients, Return(m)
    PROVE  WholeInv'
<1> DEFINE f == of[m]
           listed == {p \in Parts : \E i \in UploadIds : <<f, i>> \in issued /\ p \in partDocs[i]}
<1>0. m \in Uploads
  BY AllFacts
<1>1. /\ UNCHANGED <<file, of, idOf, stored, partDocs, issued, open, cleanups>>
      /\ at[m] = "gone" /\ ~InFlight(m)
      /\ \A i \in UploadIds : <<f, i>> \notin cleanups
      /\ \A v \in Uploads : v # m => at'[v] = at[v]
      /\ \A n \in Clients : n # m => part'[n] = part[n]
  BY <1>0, AllFacts DEF Return, AtOK, PartOK, doc, backend
<1>2. \/ /\ file[f].state = "live" /\ file[f].id # NoId /\ file[f].client = m
         /\ at'[m] = "open"
         /\ \A p \in Parts : part'[m][p] = IF p \in listed
                                           THEN [step |-> "saved", id |-> file[f].id] ELSE NoPart
      \/ at'[m] = "idle" /\ \A p \in Parts : part'[m][p] = NoPart
  <2>1. \/ /\ file[f].state = "live" /\ file[f].id # NoId /\ file[f].client = m
           /\ at' = [at EXCEPT ![m] = "open"]
           /\ part' = [part EXCEPT ![m] = [p \in Parts |->
                         IF p \in listed THEN [step |-> "saved", id |-> file[f].id] ELSE NoPart]]
        \/ /\ at' = [at EXCEPT ![m] = "idle"]
           /\ part' = [part EXCEPT ![m] = [p \in Parts |-> NoPart]]
    BY DEF Return
  <2> HIDE DEF listed, f
  <2> QED BY <1>0, <2>1, AllFacts DEF AtOK, PartOK
<1>3. Live' = Live
  BY <1>1 DEF Live
<1> HIDE DEF listed
<1>4. \A p \in Parts : part'[m][p].step \in {"none", "saved"}
  BY <1>2 DEF NoPart
<1>5. IdsInv'
  BY <1>1, AllFacts DEF IdsInv
<1>6. UsersInv'
  <2>1. \A n \in Clients : at'[n] \in Named => n # m
    BY <1>2 DEF Named
  <2>2. \A n \in Clients, p \in Parts : part'[n][p].step \in Sending => n # m
    BY <1>4 DEF Sending
  <2> QED BY <1>1, <2>1, <2>2, AllFacts, UsersKept
<1>7. \A g \in Live' : LeftInv(g)'
  BY <1>1, <1>3, AllFacts DEF LeftInv
<1>8. ASSUME NEW n \in Clients PROVE ClientInv(n)'
  <2>0. ClientInv(n) /\ n \in Uploads
    BY AllFacts DEF ClientInv
  <2>1. CASE n # m
    <3>1. MineInv(n)'
      BY <1>1, <1>3, <2>0, <2>1, AllFacts, MineKept DEF ClientInv
    <3>2. AssembledInv(n)'
      BY <1>1, <2>0, <2>1, AssembledKept DEF ClientInv
    <3> QED BY <1>1, <2>0, <2>1, <3>1, <3>2, ClientKept
  <2>2. CASE n = m /\ at'[m] = "idle"
    <3>1. \A p \in Parts : part'[m][p].step = "none"
      BY <1>2, <2>2 DEF NoPart
    <3>2. ~Writes(m, of[m])'
      BY <1>1, <2>2, <3>1, AllFacts DEF Writes, InFlight
    <3> QED BY <1>1, <2>2, <3>1, <3>2 DEF ClientInv, PartsInv, MineInv, AssembledInv, Completing
  <2>3. CASE n = m /\ at'[m] = "open"
    <3>1. /\ file[f].state = "live" /\ file[f].id # NoId
          /\ \A p \in Parts : part'[m][p] = IF p \in listed
                                            THEN [step |-> "saved", id |-> file[f].id] ELSE NoPart
      BY <1>2, <2>3
    <3>2. PartsInv(m)' /\ AssembledInv(m)'
      BY <2>3 DEF PartsInv, AssembledInv, Before, Completing
    <3>3. MineInv(m)'
      <4> SUFFICES ASSUME f \in Live, NEW p \in Parts, part'[m][p].step # "none"
                   PROVE  part'[m][p].id = file[f].id /\ p \in partDocs[file[f].id]
        BY <1>1, <1>3, <2>3 DEF MineInv
      <4>1. p \in listed /\ part'[m][p].id = file[f].id
        BY <3>1 DEF NoPart
      <4>2. PICK i \in UploadIds : <<f, i>> \in issued /\ p \in partDocs[i]
        BY <4>1 DEF listed
      <4>3. i = file[f].id
        BY <1>1, <4>2, AllFacts DEF LeftInv
      <4> QED BY <4>1, <4>2, <4>3
    <3> QED BY <2>3, <3>2, <3>3 DEF ClientInv
  <2> QED BY <1>2, <2>1, <2>2, <2>3
<1> QED BY <1>5, <1>6, <1>7, <1>8 DEF WholeInv

\* A part is sent for the file's own multipart upload.
LEMMA WholeSend ==
    ASSUME AllInv, NEW m \in Clients, NEW p \in Parts, SendPart(m, p)
    PROVE  WholeInv'
<1> DEFINE i == file[of[m]].id
<1>0. of[m] \in Live /\ Writes(m, of[m]) /\ m \in Uploads /\ of[m] \in Files /\ at[m] = "open"
      /\ SameStates
  <2>1. of[m] \in Files /\ SameStates
    BY StatesOf DEF AllInv
  <2> QED BY <2>1, AllFacts DEF SendPart, Live, Writes
<1>1. ~file[of[m]].writable /\ file[of[m]].client = m /\ file[of[m]] \in Document
  BY <1>0, HolderOf, AllFacts
<1>2. CheckedOut(m, of[m]).id = i /\ CheckedOut(m, of[m]).client = m /\ Outdated(m, of[m]) = {}
  BY <1>1 DEF CheckedOut, Outdated, Document
<1>3. /\ file'[of[m]] = CheckedOut(m, of[m]) /\ \A g \in Files : g # of[m] => file'[g] = file[g]
      /\ cleanups' = cleanups
      /\ UNCHANGED <<at, of, idOf, stored, partDocs, issued, open>>
      /\ part'[m][p].step = "sent" /\ part'[m][p].id = i
      /\ \A n \in Clients, q \in Parts : n # m \/ q # p => part'[n][q] = part[n][q]
      /\ \A n \in Clients : n # m => part'[n] = part[n]
  BY <1>0, <1>2, AllFacts DEF SendPart, PartGoes, DocOK, PartOK
<1>4. \A g \in Files : file'[g].id = file[g].id /\ file'[g].client = file[g].client
  BY <1>1, <1>2, <1>3
<1>5. i \in UploadIds /\ <<of[m], i>> \in issued /\ Live' = Live
  BY <1>0, <1>2, AllFacts DEF SendPart, Document, IdsInv, SameStates, Live
<1>6. \A n \in Clients : Works(n, i) => n = m
  BY <1>0, <1>5, OwnerOf
<1> HIDE DEF i
<1>7. IdsInv'
  BY <1>0, <1>3, <1>4, AllFacts DEF IdsInv, SameStates
<1>8. UsersInv'
  <2>1. \A n \in Clients, j \in UploadIds : Works(n, j)' => Works(n, j) \/ (n = m /\ j = i)
    BY <1>3 DEF Works
  <2>2. \A n \in Clients : at'[n] \in Named => idOf'[n] \in UploadIds
    BY <1>3, AllFacts DEF UsersInv
  <2> QED BY <1>3, <1>5, <1>6, <2>1, <2>2, UsersNew, AllFacts
<1>9. ASSUME NEW g \in Live' PROVE LeftInv(g)'
  BY <1>3, <1>4, <1>5, <1>9, AllFacts, LeftKept
<1>10. ASSUME NEW n \in Clients PROVE ClientInv(n)'
  <2>0. ClientInv(n) /\ n \in Uploads
    BY AllFacts DEF ClientInv
  <2>1. CASE n # m
    <3>1. MineInv(n)'
      BY <1>3, <1>4, <1>5, <2>0, <2>1, AllFacts, MineKept DEF ClientInv
    <3>2. AssembledInv(n)'
      BY <1>3, <2>0, <2>1, AssembledKept DEF ClientInv
    <3> QED BY <1>3, <2>0, <2>1, <3>1, <3>2, ClientKept
  <2>2. CASE n = m
    <3>1. PartsInv(m)' /\ AssembledInv(m)'
      BY <1>0, <1>3 DEF PartsInv, AssembledInv, Before, Completing
    <3>2. MineInv(m)'
      BY <1>0, <1>3, <1>4, <2>0, <2>2 DEF ClientInv, MineInv, i
    <3> QED BY <2>2, <3>1, <3>2 DEF ClientInv
  <2> QED BY <2>1, <2>2
<1> QED BY <1>5, <1>7, <1>8, <1>9, <1>10 DEF WholeInv

\* The backend has a part, or the part has failed; or it has a document as well.
LEMMA WholePart ==
    ASSUME AllInv, NEW m \in Clients, NEW p \in Parts,
           StorePart(m, p) \/ SavePart(m, p) \/ PartFails(m, p)
    PROVE  WholeInv'
<1> DEFINE i == part[m][p].id
<1>0. /\ m \in Uploads /\ InFlight(m) /\ at[m] \in {"open", "gone"} /\ of[m] \in Files
      /\ Writes(m, of[m]) /\ Works(m, i) /\ i \in UploadIds
  <2>1. part[m][p].step \in Sending /\ m \in Uploads
    BY AllFacts DEF StorePart, SavePart, PartFails, Sending
  <2>2. InFlight(m) /\ Works(m, i) /\ i \in UploadIds
    BY <2>1, AllFacts DEF InFlight, Works, Sending, AllInv, TypeOK, PartOK
  <2> QED BY <2>1, <2>2, AllFacts DEF AllInv, GivenInv, Stages, Writes
<1>1. <<of[m], i>> \in issued
  BY <1>0, WorksWrites
<1>2. /\ UNCHANGED <<at, of, idOf, issued, open, cleanups>>
      /\ \A n \in Clients, q \in Parts : n # m \/ q # p => part'[n][q] = part[n][q]
      /\ \A n \in Clients : n # m => part'[n] = part[n]
      /\ part'[m][p].step \notin Sending \/ part'[m][p].id = i
      /\ part'[m][p].step = "none" \/ part'[m][p].id = i
  BY AllFacts DEF StorePart, SavePart, PartFails, PartGoes, PartOK, Sending, backend
<1>3. /\ \A j \in UploadIds : j # i => stored'[j] = stored[j] /\ partDocs'[j] = partDocs[j]
      /\ stored'[i] = stored[i] \/ stored'[i] \subseteq stored[i] \cup {<<m, p>>}
      /\ partDocs'[i] = partDocs[i] \/ (partDocs'[i] = partDocs[i] \cup {p} /\ SavePart(m, p))
      /\ part'[m][p].step = "saved" => p \in partDocs'[i]
  BY <1>0, AllFacts DEF StorePart, SavePart, PartFails, PartGoes, BackendOK, PartOK
<1>4. SavePart(m, p) => of[m] \in Live
  BY <1>0 DEF SavePart, Live
<1>5. of[m] \in Live => i = file[of[m]].id /\ file[of[m]].client = m
  <2>1. part[m][p].step # "none"
    BY DEF StorePart, SavePart, PartFails
  <2>2. of[m] \in Live => i = file[of[m]].id
    BY <1>0, <2>1, AllFacts DEF MineInv
  <2> QED BY <1>0, <2>2, HolderOf
<1>6. \A g \in Files : /\ file'[g].id = file[g].id /\ file'[g].client = file[g].client
                       /\ file'[g].state = file[g].state
  <2>1. CASE SavePart(m, p)
    <3> DEFINE d == [file[of[m]] EXCEPT !.writable = FALSE, !.timeout = "running", !.id = i]
    <3>0. DocOK /\ file[of[m]] \in Document
      BY <1>0, AllFacts
    <3>1. file' = [file EXCEPT ![of[m]] = d]
      BY <1>0, <2>1, <3>0 DEF SavePart, DocOK, Document
    <3>2. d.id = i /\ d.client = file[of[m]].client /\ d.state = file[of[m]].state
      BY <3>0 DEF Document
    <3> HIDE DEF d, i
    <3> QED BY <1>0, <1>4, <1>5, <2>1, <3>0, <3>1, <3>2 DEF DocOK
  <2>2. CASE ~SavePart(m, p)
    BY <2>2 DEF StorePart, PartFails, doc
  <2> QED BY <2>1, <2>2
<1>7. Live' = Live
  BY <1>6 DEF Live
<1> HIDE DEF i
<1>8. IdsInv'
  BY <1>0, <1>1, <1>2, <1>3, <1>6, AllFacts DEF IdsInv
<1>9. UsersInv'
  <2>1. \A n \in Clients, j \in UploadIds : Works(n, j)' => Works(n, j)
    BY <1>0, <1>2 DEF Works
  <2>2. \A n \in Clients : at'[n] \in Named => idOf'[n] \in UploadIds
    BY <1>2, AllFacts DEF UsersInv
  <2> QED BY <1>2, <2>1, <2>2, AllFacts DEF UsersInv
<1>10. ASSUME NEW f \in Live' PROVE LeftInv(f)'
  <2>0. f \in Live /\ f \in Files /\ LeftInv(f) /\ file[f] \in Document
    BY <1>7, <1>10, AllFacts
  <2>1. file[f].id = i => f = of[m]
    <3>1. i # NoId
      BY <1>0, AllFacts
    <3>2. file[f].id = i => <<f, i>> \in issued
      BY <2>0, <3>1, AllFacts DEF IdsInv
    <3> QED BY <1>0, <1>1, <2>0, <3>2, AllFacts DEF IdsInv
  <2>2. ASSUME NEW j \in UploadIds, <<f, j>> \in issued, j # file[f].id
        PROVE  <<f, j>> \in cleanups \/ partDocs'[j] = {}
    <3>1. partDocs'[j] = partDocs[j]
      BY <1>0, <1>1, <1>3, <1>4, <1>5, <2>0, <2>2, AllFacts DEF IdsInv
    <3> QED BY <2>0, <2>2, <3>1 DEF LeftInv
  <2>3. ASSUME file[f].id # NoId PROVE stored'[file[f].id] \subseteq {file[f].client} \X Parts
    <3>1. file[f].id \in UploadIds /\ stored[file[f].id] \subseteq {file[f].client} \X Parts
      BY <2>0, <2>3 DEF LeftInv, Document
    <3>2. CASE file[f].id = i
      BY <1>3, <1>5, <2>0, <2>1, <3>1, <3>2
    <3>3. CASE file[f].id # i
      BY <1>3, <3>1, <3>3
    <3> QED BY <3>2, <3>3
  <2> QED BY <1>2, <1>6, <2>0, <2>2, <2>3 DEF LeftInv
<1>11. ASSUME NEW n \in Clients PROVE ClientInv(n)'
  <2>0. ClientInv(n) /\ n \in Uploads
    BY AllFacts DEF ClientInv
  <2>1. at[n] \in Named => Works(n, idOf[n]) /\ idOf[n] \in UploadIds /\ idOf[n] # i
    <3> SUFFICES ASSUME at[n] \in Named PROVE Works(n, idOf[n]) /\ idOf[n] \in UploadIds /\ idOf[n] # i
      OBVIOUS
    <3>1. Works(n, idOf[n]) /\ idOf[n] \in UploadIds
      BY AllFacts DEF Works, UsersInv
    <3>2. n # m
      BY <1>0 DEF Named
    <3> QED BY <1>0, <3>1, <3>2, AllFacts DEF UsersInv
  <2>2. AssembledInv(n)'
    BY <1>2, <1>3, <2>0, <2>1, AssembledKept DEF ClientInv, Named
  <2>3. CASE n # m
    <3>1. MineInv(n)'
      BY <1>2, <1>3, <1>6, <1>7, <2>0, <2>1, <2>3, AllFacts, MineKept DEF ClientInv, Named
    <3> QED BY <1>2, <2>0, <2>2, <2>3, <3>1, ClientKept
  <2>4. CASE n = m
    <3>1. PartsInv(m)'
      BY <1>0, <1>2 DEF PartsInv, Before, Completing
    <3>2. MineInv(m)'
      <4> SUFFICES ASSUME of[m] \in Live, NEW q \in Parts, part'[m][q].step # "none"
                   PROVE  /\ part'[m][q].id = file[of[m]].id
                          /\ part'[m][q].step = "saved" => q \in partDocs'[part'[m][q].id]
        BY <1>0, <1>2, <1>6, <1>7, AllFacts DEF MineInv
      <4>1. CASE q = p
        BY <1>2, <1>3, <1>5, <4>1
      <4>2. CASE q # p
        <5>1. /\ part[m][q].id = i /\ part'[m][q] = part[m][q]
              /\ part[m][q].step = "saved" => q \in partDocs[i]
          BY <1>0, <1>2, <1>5, <2>0, <2>4, <4>2 DEF ClientInv, MineInv
        <5> QED BY <1>3, <1>5, <5>1
      <4> QED BY <4>1, <4>2
    <3> QED BY <2>2, <2>4, <3>1, <3>2 DEF ClientInv
  <2> QED BY <2>3, <2>4
<1> QED BY <1>8, <1>9, <1>10, <1>11 DEF WholeInv

\* A cleanup is of a multipart upload that no live file is in.
LEMMA WholeCleanUp ==
    ASSUME FreshIds, AllInv, NEW f \in Files, NEW i \in UploadIds, CleanUp(f, i)
    PROVE  WholeInv'
<1>1. /\ UNCHANGED <<file, at, of, idOf, part, issued>>
      /\ <<f, i>> \in cleanups /\ cleanups' = cleanups \ {<<f, i>>}
      /\ open' = open \ {i} /\ stored'[i] = {} /\ partDocs'[i] = {}
      /\ \A j \in UploadIds : j # i => stored'[j] = stored[j] /\ partDocs'[j] = partDocs[j]
      /\ \A j \in UploadIds : stored'[j] \subseteq stored[j] /\ partDocs'[j] \subseteq partDocs[j]
  BY AllFacts DEF CleanUp, BackendOK, doc, requests
<1>2. Live' = Live
  BY <1>1 DEF Live
<1>3. <<f, i>> \in issued
  BY <1>1, AllFacts DEF IdsInv
<1>4. \A g \in Live : file[g].id # i
  <2> SUFFICES ASSUME NEW g \in Live, file[g].id = i PROVE FALSE
    OBVIOUS
  <2>1. g \in Files /\ LeftInv(g) /\ i # NoId
    BY AllFacts
  <2>2. <<g, i>> \in issued
    BY <2>1, AllFacts DEF IdsInv
  <2>3. g = f
    BY <1>3, <2>1, <2>2, AllFacts DEF IdsInv
  <2> QED BY <1>1, <2>1, <2>3 DEF LeftInv
<1>5. IdsInv'
  BY <1>1, AllFacts, IdsKept DEF IdsInv
<1>6. UsersInv'
  BY <1>1, AllFacts, UsersKept
<1>7. \A g \in Live' : LeftInv(g)'
  <2> SUFFICES ASSUME NEW g \in Live, LeftInv(g) PROVE LeftInv(g)'
    BY <1>2, AllFacts
  <2>1. file[g].id \in UploadIds \cup {NoId}
    BY AllFacts DEF Document
  <2>2. ASSUME NEW j \in UploadIds, <<g, j>> \in issued, j # file[g].id
        PROVE  <<g, j>> \in cleanups' \/ partDocs'[j] = {}
    <3>1. CASE j = i
      BY <1>1, <3>1
    <3>2. CASE j # i
      <4>1. <<g, j>> # <<f, i>>
        BY <3>2
      <4> QED BY <1>1, <2>2, <3>2, <4>1 DEF LeftInv
    <3> QED BY <3>1, <3>2
  <2> QED BY <1>1, <2>1, <2>2 DEF LeftInv
<1>8. ASSUME NEW n \in Clients PROVE ClientInv(n)'
  <2>0. ClientInv(n) /\ n \in Uploads
    BY AllFacts DEF ClientInv
  <2>1. at[n] \in Named => idOf[n] \in UploadIds
    BY AllFacts DEF UsersInv
  <2>2. MineInv(n)'
    <3>1. of[n] \in Live /\ file[of[n]].id \in UploadIds =>
             partDocs[file[of[n]].id] \subseteq partDocs'[file[of[n]].id]
      BY <1>1, <1>4
    <3> QED BY <1>1, <1>2, <2>0, <2>1, <3>1, AllFacts, MineKept DEF ClientInv, Named
  <2>3. AssembledInv(n)'
    BY <1>1, <2>0, <2>1, AssembledKept DEF ClientInv, Named
  <2> QED BY <1>1, <2>0, <2>2, <2>3, ClientKept
<1> QED BY <1>5, <1>6, <1>7, <1>8 DEF WholeInv

\* Time and deletion: no client gets anything, and files only go.
LEMMA WholeExpires ==
    ASSUME AllInv, NEW f \in Files, Expire(f)
    PROVE  WholeInv'
<1>1. /\ UNCHANGED <<of, idOf, part, stored, partDocs, issued, open, cleanups>>
      /\ \A u \in Uploads : at'[u] = at[u] \/ (at[u] = "gone" /\ at'[u] = "lapsed")
      /\ \A g \in Files : /\ file'[g].id = file[g].id /\ file'[g].client = file[g].client
                          /\ file'[g].state = file[g].state
  BY AllFacts DEF Expire, DocOK, Document, backend
<1>2. Live' = Live
  BY <1>1 DEF Live
<1>3. IdsInv' /\ UsersInv'
  <2>1. \A n \in Clients : at'[n] \in Named => at[n] \in Named
    BY <1>1, AllFacts DEF Named
  <2>2. UsersInv'
    BY <1>1, <2>1, AllFacts, UsersKept
  <2>3. IdsInv'
    BY <1>1, AllFacts DEF IdsInv
  <2> QED BY <2>2, <2>3
<1>4. ASSUME NEW g \in Live' PROVE LeftInv(g)'
  BY <1>1, <1>2, <1>4, AllFacts, LeftKept
<1>5. ASSUME NEW n \in Clients PROVE ClientInv(n)'
  <2>0. ClientInv(n) /\ n \in Uploads
    BY AllFacts DEF ClientInv
  <2>1. at'[n] = at[n] \/ (at[n] = "gone" /\ at'[n] = "lapsed")
    BY <1>1, <2>0
  <2>2. Writes(n, of[n])' => Writes(n, of[n])
    BY <1>1, <2>1 DEF Writes, InFlight
  <2>3. of[n] \in Live => file'[of[n]].id = file[of[n]].id
    BY <1>1, AllFacts
  <2> QED BY <1>1, <1>2, <2>0, <2>1, <2>2, <2>3
          DEF ClientInv, PartsInv, MineInv, AssembledInv, Before, Completing
<1> QED BY <1>3, <1>4, <1>5 DEF WholeInv

LEMMA WholeDeletes ==
    ASSUME AllInv, NEW f \in Files, BeginDeleteFile(f) \/ RunDeleteFile(f)
    PROVE  WholeInv'
<1>1. /\ UNCHANGED <<at, of, idOf, part, issued, cleanups>>
      /\ \A g \in Files : g # f => file'[g] = file[g]
      /\ file'[f].state \in {"deleted", "erased"} /\ file'[f].id \in {NoId, file[f].id}
      /\ open' \subseteq open
      /\ \A j \in UploadIds : stored'[j] \subseteq stored[j] /\ partDocs'[j] \in {{}, partDocs[j]}
      /\ \A j \in UploadIds : <<f, j>> \notin issued => partDocs'[j] = partDocs[j]
  <2>1. CASE BeginDeleteFile(f)
    BY <2>1, AllFacts DEF BeginDeleteFile, DocOK, Document, requests, backend
  <2>2. CASE RunDeleteFile(f)
    <3>1. file'[f] = [NewFile EXCEPT !.state = "erased"] /\ \A g \in Files : g # f => file'[g] = file[g]
      BY <2>2, AllFacts DEF RunDeleteFile, DocOK
    <3>2. file'[f].state = "erased" /\ file'[f].id = NoId
      BY <3>1 DEF NewFile
    <3>3. /\ UNCHANGED <<at, of, idOf, part, issued, cleanups>>
          /\ open' \subseteq open
          /\ \A j \in UploadIds : stored'[j] \subseteq stored[j] /\ partDocs'[j] \in {{}, partDocs[j]}
          /\ \A j \in UploadIds : <<f, j>> \notin issued => partDocs'[j] = partDocs[j]
      BY <2>2, AllFacts DEF RunDeleteFile, BackendOK, requests
    <3> QED BY <3>1, <3>2, <3>3
  <2> QED BY <2>1, <2>2
<1>2. Live' \subseteq Live /\ f \notin Live'
  BY <1>1 DEF Live
<1>3. IdsInv'
  <2>1. \A g \in Files : file'[g].id = NoId \/ <<g, file'[g].id>> \in issued
    BY <1>1, AllFacts DEF IdsInv
  <2>2. \A g \in Files : file[g].state # "none" => file'[g].state # "none"
    BY <1>1
  <2>3. \A j \in UploadIds : partDocs'[j] \subseteq partDocs[j]
    BY <1>1
  <2> QED BY <1>1, <2>1, <2>2, <2>3, AllFacts, IdsKept DEF IdsInv
<1>4. UsersInv'
  BY <1>1, AllFacts, UsersKept
<1>5. ASSUME NEW g \in Live' PROVE LeftInv(g)'
  <2>1. g \in Live /\ g \in Files /\ LeftInv(g) /\ file'[g] = file[g]
    BY <1>1, <1>2, <1>5, AllFacts
  <2>2. \A j \in UploadIds : partDocs'[j] \subseteq partDocs[j]
    BY <1>1
  <2> QED BY <1>1, <2>1, <2>2, AllFacts, LeftKept
<1>6. ASSUME NEW n \in Clients PROVE ClientInv(n)'
  <2>0. ClientInv(n) /\ n \in Uploads
    BY AllFacts DEF ClientInv
  <2>1. at[n] \in Named => idOf[n] \in UploadIds
    BY AllFacts DEF UsersInv
  <2>2. MineInv(n)'
    <3>0. CASE of[n] \notin Live'
      BY <1>1, <3>0 DEF MineInv
    <3>1. CASE of[n] \in Live'
      <4>1. of[n] \in Live /\ of[n] # f /\ file'[of[n]] = file[of[n]]
        BY <1>1, <1>2, <3>1, AllFacts
      <4>2. ASSUME file[of[n]].id \in UploadIds
            PROVE  partDocs[file[of[n]].id] \subseteq partDocs'[file[of[n]].id]
        <5>1. <<of[n], file[of[n]].id>> \in issued
          BY <4>1, <4>2, AllFacts DEF IdsInv
        <5>2. <<f, file[of[n]].id>> \notin issued
          BY <4>1, <4>2, <5>1, AllFacts DEF IdsInv
        <5> QED BY <1>1, <4>2, <5>2
      <4>3. at[n] = "starting" =>
              partDocs'[idOf[n]] \subseteq partDocs[idOf[n]] /\ stored'[idOf[n]] \subseteq stored[idOf[n]]
        BY <1>1, <2>1 DEF Named
      <4> QED BY <1>1, <2>0, <4>1, <4>2, <4>3, AllFacts, MineKept DEF ClientInv
    <3> QED BY <3>0, <3>1
  <2>3. AssembledInv(n)'
    BY <1>1, <2>0, <2>1, AssembledKept DEF ClientInv, Named
  <2> QED BY <1>1, <2>0, <2>2, <2>3, ClientKept
<1> QED BY <1>3, <1>4, <1>5, <1>6 DEF WholeInv

\* The object is replaced as a whole.
LEMMA ObjectStep ==
    ASSUME FreshIds, AllInv, MultipartIsWhole, [Next]_vars
    PROVE  MultipartIsWhole'
<1>a. object' = object => MultipartIsWhole'
  BY DEF MultipartIsWhole
<1> USE DEF backend
<1>1. ASSUME NEW u \in Uploads, Lookup(u) \/ Decide(u) \/ LookAgain(u) PROVE MultipartIsWhole'
  BY <1>a, <1>1 DEF Lookup, Decide, LookAgain, Enter, Checkout
<1>2. ASSUME NEW u \in Uploads, NEW f \in Files, Create(u, f) PROVE MultipartIsWhole'
  BY <1>a, <1>2 DEF Create
<1>3. ASSUME NEW u \in Uploads, CreateFails(u) \/ Awakes(u) \/ Crash(u) PROVE MultipartIsWhole'
  BY <1>a, <1>3 DEF CreateFails, Awakes, Crash, Enter, Checkout
<1>4. ASSUME NEW u \in Singles, Store(u) \/ Finish(u) \/ Fail(u) \/ SetFileWritable(u)
      PROVE  MultipartIsWhole'
  <2>1. CASE Store(u)
    BY <2>1 DEF Store, MultipartIsWhole
  <2>2. CASE ~Store(u)
    BY <1>a, <1>4, <2>2 DEF Finish, Fail, SetFileWritable, Enter
  <2> QED BY <2>1, <2>2
<1>5. ASSUME NEW m \in Clients, NEW i \in UploadIds, StartMultipart(m, i) PROVE MultipartIsWhole'
  BY <1>a, <1>5 DEF StartMultipart
<1>6. ASSUME NEW m \in Clients, UsesId(m) \/ RecordId(m) \/ RequestCompletion(m)
      PROVE  MultipartIsWhole'
  BY <1>a, <1>6 DEF UsesId, RecordId, RequestCompletion, Enter
<1>7. ASSUME NEW m \in Clients, Abort(m) \/ DeleteMultipart(m) PROVE MultipartIsWhole'
  BY <1>a, <1>7 DEF Abort, DeleteMultipart
<1>8. ASSUME NEW m \in Clients, JobReads(m) \/ JobAssembles(m) \/ JobFinishes(m) \/ JobFails(m)
      PROVE  MultipartIsWhole'
  <2>1. CASE JobAssembles(m)
    BY <2>1, AssembledWhole DEF MultipartIsWhole
  <2>2. CASE ~JobAssembles(m)
    BY <1>a, <1>8, <2>2 DEF JobReads, JobFinishes, JobFails
  <2> QED BY <2>1, <2>2
<1>9. ASSUME NEW m \in Clients, GiveUp(m) \/ Return(m) PROVE MultipartIsWhole'
  <2>1. object' = object
    BY <1>9 DEF GiveUp, Return, Enter
  <2> QED BY <1>a, <2>1
<1>10. ASSUME NEW m \in Clients, NEW f \in Files, StrayPart(m, f) PROVE MultipartIsWhole'
  BY <1>a, <1>10 DEF StrayPart
<1>11. ASSUME NEW m \in Clients, NEW p \in Parts, SendPart(m, p) \/ StorePart(m, p)
       PROVE  MultipartIsWhole'
  BY <1>a, <1>11 DEF SendPart, StorePart
<1>12. ASSUME NEW m \in Clients, NEW p \in Parts, SavePart(m, p) \/ PartFails(m, p)
       PROVE  MultipartIsWhole'
  BY <1>a, <1>12 DEF SavePart, PartFails
<1>13. ASSUME NEW f \in Files, NEW i \in UploadIds, CleanUp(f, i) PROVE MultipartIsWhole'
  BY <1>a, <1>13 DEF CleanUp
<1>14. ASSUME NEW f \in Files, Expire(f) \/ BeginDeleteFile(f) \/ RunDeleteFile(f)
       PROVE  MultipartIsWhole'
  BY <1>a, <1>14 DEF Expire, BeginDeleteFile, RunDeleteFile, MultipartIsWhole
<1>15. CASE UNCHANGED vars
  BY <1>a, <1>15 DEF vars
<1> QED BY <1>1, <1>2, <1>3, <1>4, <1>5, <1>6, <1>7, <1>8, <1>9, <1>10, <1>11, <1>12, <1>13,
           <1>14, <1>15, NextCases

\* Every step keeps multipart uploads apart.
LEMMA WholeStep ==
    ASSUME FreshIds, ~SlowCleanups, ~StaleLookups, ~Resumes, AllInv, [Next]_vars
    PROVE  WholeInv'
<1>0. Live \subseteq Files /\ Clients \subseteq Uploads /\ Singles \subseteq Uploads
      /\ Clients \cap Singles = {} /\ NoOne \notin Files
  BY AllFacts
<1>1. ASSUME NEW u \in Uploads, Lookup(u) \/ Decide(u) \/ LookAgain(u) PROVE WholeInv'
  <2>1. CASE \E f \in Live : Checkout(u, f) /\ Lookup(u)
    BY <2>1, WholeCheckout DEF Lookup
  <2>2. CASE ~\E f \in Live : Checkout(u, f) /\ Lookup(u)
    <3>1. /\ at[u] \in {"idle", "missed"}
          /\ UNCHANGED <<file, of, idOf, part, stored, partDocs, issued, open, cleanups>>
          /\ \E stage \in {"missed", "waiting", "creating", "idle"} :
                at' = [at EXCEPT ![u] = stage]
      BY <1>1, <2>2 DEF Lookup, Decide, LookAgain, Enter, doc, backend
    <3> QED BY <3>1, WholeStage DEF Named, Holding, Before
  <2> QED BY <2>1, <2>2
<1>2. ASSUME NEW u \in Uploads, NEW f \in Files, Create(u, f) PROVE WholeInv'
  <2> DEFINE d == [NewFile EXCEPT !.writable = FALSE,
                                  !.client = IF u \in Clients THEN u ELSE @]
  <2>1. d \in Document /\ d.id = NoId /\ d.state = "live"
    BY <1>0 DEF NewFile, Document
  <2>2. Live = {} /\ at[u] = "creating" /\ file[f].state = "none"
    BY <1>2 DEF Create, AllInv, WriterInv, LockInv
  <2>3. /\ file' = [file EXCEPT ![f] = d]
        /\ UNCHANGED <<idOf, part, stored, partDocs, issued, open, cleanups>>
        /\ of'[u] = f /\ at'[u] \in {"held", "checked"} /\ (u \in Clients => at'[u] = "checked")
        /\ \A v \in Uploads : v # u => at'[v] = at[v] /\ of'[v] = of[v]
    BY <1>0, <1>2, AllFacts DEF Create, AtOK, backend
  <2>4. u \notin Clients \/ ~InFlight(u)
    BY <2>2 DEF AllInv, GivenInv
  <2> HIDE DEF d
  <2> QED BY <2>1, <2>2, <2>3, <2>4, WholeNew DEF Before
<1>3. ASSUME NEW u \in Uploads, CreateFails(u) \/ Awakes(u) \/ Crash(u) PROVE WholeInv'
  <2>1. CASE \E f \in Live : Checkout(u, f) /\ Awakes(u)
    BY <2>1, WholeCheckout DEF Awakes
  <2>2. CASE ~\E f \in Live : Checkout(u, f) /\ Awakes(u)
    <3>1. UNCHANGED <<file, of, idOf, part, stored, partDocs, issued, open, cleanups>>
      BY <1>3, <2>2 DEF CreateFails, Awakes, Crash, Enter, doc, backend
    <3>2. \E stage \in {"refused", "failed", "gone"} : at' = [at EXCEPT ![u] = stage]
      BY <1>3, <2>2 DEF CreateFails, Awakes, Crash, Enter
    <3> QED BY <3>1, <3>2, WholeStage DEF Named, Holding, Before
  <2> QED BY <2>1, <2>2
<1>4. ASSUME NEW u \in Singles, Store(u) \/ Finish(u) \/ Fail(u) \/ SetFileWritable(u)
      PROVE  WholeInv'
  <2>1. CASE Store(u) \/ Fail(u)
    <3>1. /\ UNCHANGED <<file, of, idOf, part, stored, partDocs, issued, open, cleanups>>
          /\ at[u] \in {"held", "stored"}
          /\ \E stage \in {"stored", "failing"} : at' = [at EXCEPT ![u] = stage]
      BY <2>1 DEF Store, Fail, Enter, doc, backend
    <3> QED BY <1>0, <3>1, WholeStage DEF Named, Holding, Before
  <2>2. CASE Finish(u) \/ SetFileWritable(u)
    BY <2>2, WholeSingle
  <2> QED BY <1>4, <2>1, <2>2
<1>5. ASSUME NEW m \in Clients, NEW i \in UploadIds, StartMultipart(m, i) PROVE WholeInv'
  BY <1>5, WholeStart
<1>6. ASSUME NEW m \in Clients, UsesId(m) \/ RecordId(m) \/ RequestCompletion(m) PROVE WholeInv'
  <2>1. CASE UsesId(m)
    <3>1. /\ UNCHANGED <<file, of, idOf, part, stored, partDocs, issued, open, cleanups>>
          /\ at[m] = "checked" /\ at' = [at EXCEPT ![m] = "open"]
      BY <2>1 DEF UsesId, Enter, backend
    <3> QED BY <1>0, <3>1, WholeStage DEF Named, Holding, Before
  <2>2. CASE RequestCompletion(m)
    <3>1. /\ UNCHANGED <<file, of, idOf, part, stored, partDocs, issued, open, cleanups>>
          /\ at[m] = "open" /\ at' = [at EXCEPT ![m] = "completing"]
          /\ \A p \in Parts : part[m][p].step = "saved"
      BY <2>2 DEF RequestCompletion, Enter, backend
    <3> QED BY <1>0, <3>1, WholeStage DEF Named, Holding, Before
  <2>3. CASE RecordId(m)
    BY <2>3, WholeRecord
  <2> QED BY <1>6, <2>1, <2>2, <2>3
<1>7. ASSUME NEW m \in Clients, Abort(m) \/ DeleteMultipart(m) PROVE WholeInv'
  BY <1>7, WholeReads, WholeEnds
<1>8. ASSUME NEW m \in Clients, JobReads(m) \/ JobAssembles(m) \/ JobFinishes(m) \/ JobFails(m)
      PROVE  WholeInv'
  BY <1>8, WholeReads, WholeAssembles, WholeEnds, WholeFails
<1>9. ASSUME NEW m \in Clients, GiveUp(m) \/ Return(m) PROVE WholeInv'
  <2>1. CASE GiveUp(m)
    <3>1. /\ UNCHANGED <<file, of, idOf, part, stored, partDocs, issued, open, cleanups>>
          /\ at' = [at EXCEPT ![m] = "gone"]
      BY <2>1 DEF GiveUp, Enter, backend
    <3> QED BY <1>0, <3>1, WholeStage DEF Named, Holding, Before
  <2>2. CASE Return(m)
    BY <2>2, WholeReturns
  <2> QED BY <1>9, <2>1, <2>2
<1>10. ASSUME NEW m \in Clients, NEW f \in Files, StrayPart(m, f) PROVE WholeInv'
  <2> DEFINE d == [NewFile EXCEPT !.writable = FALSE, !.client = m]
  <2>1. d \in Document /\ d.id = NoId /\ d.state = "live"
    BY <1>0 DEF NewFile, Document
  <2>2. Live = {} /\ file[f].state = "none" /\ of[m] # f
    BY <1>0, <1>10 DEF StrayPart, AllInv, WriterInv, Known
  <2>3. /\ file' = [file EXCEPT ![f] = d]
        /\ UNCHANGED <<of, idOf, part, stored, partDocs, issued, open, cleanups>>
        /\ at'[m] = "gone" /\ m \in Uploads
        /\ \A v \in Uploads : v # m => at'[v] = at[v]
    BY <1>0, <1>10, AllFacts DEF StrayPart, AtOK, backend
  <2> HIDE DEF d
  <2> QED BY <2>1, <2>2, <2>3, WholeNew DEF Before
<1>11. ASSUME NEW m \in Clients, NEW p \in Parts, SendPart(m, p) \/ StorePart(m, p) PROVE WholeInv'
  BY <1>11, WholeSend, WholePart
<1>12. ASSUME NEW m \in Clients, NEW p \in Parts, SavePart(m, p) \/ PartFails(m, p) PROVE WholeInv'
  BY <1>12, WholePart
<1>13. ASSUME NEW f \in Files, NEW i \in UploadIds, CleanUp(f, i) PROVE WholeInv'
  BY <1>13, WholeCleanUp
<1>14. ASSUME NEW f \in Files, Expire(f) \/ BeginDeleteFile(f) \/ RunDeleteFile(f) PROVE WholeInv'
  BY <1>14, WholeExpires, WholeDeletes
<1>15. CASE UNCHANGED vars
  <2>1. UNCHANGED <<file, at, of, idOf, part, stored, partDocs, issued, open, cleanups>>
    BY <1>15 DEF vars
  <2>2. Live' = Live
    BY <2>1 DEF Live
  <2>3. IdsInv' /\ UsersInv'
    BY <2>1, AllFacts, UsersKept DEF IdsInv
  <2>4. \A f \in Live' : LeftInv(f)'
    BY <2>1, <2>2, AllFacts DEF LeftInv
  <2>5. \A m \in Clients : ClientInv(m)'
    <3> TAKE m \in Clients
    <3>1. ClientInv(m)
      BY AllFacts DEF ClientInv
    <3>2. MineInv(m)'
      BY <2>1, <2>2, AllFacts, MineKept
    <3>3. AssembledInv(m)'
      BY <2>1, AllFacts, AssembledKept
    <3> QED BY <2>1, <3>1, <3>2, <3>3, ClientKept
  <2> QED BY <2>3, <2>4, <2>5 DEF WholeInv
<1> QED BY <1>1, <1>2, <1>3, <1>4, <1>5, <1>6, <1>7, <1>8, <1>9, <1>10, <1>11, <1>12, <1>13,
           <1>14, <1>15, NextCases

LEMMA InitWhole == Init => WholeInv /\ MultipartIsWhole
<1> SUFFICES ASSUME Init PROVE WholeInv /\ MultipartIsWhole
  OBVIOUS
<1>1. Live = {} /\ issued = {} /\ cleanups = {} /\ object = {}
      /\ (\A f \in Files : file[f].id = NoId)
      /\ (\A i \in UploadIds : stored[i] = {} /\ partDocs[i] = {})
  BY DEF Init, Live, NewFile
<1>2. \A m \in Clients : /\ at[m] = "idle" /\ of[m] = NoOne
                         /\ \A p \in Parts : part[m][p].step = "none"
  BY UploadAssumption DEF Init, NoPart, Uploads
<1>3. IdsInv
  BY <1>1 DEF IdsInv
<1>4. UsersInv
  BY <1>2 DEF UsersInv, Works, Named, Sending
<1>5. \A m \in Clients : ClientInv(m)
  BY <1>1, <1>2 DEF ClientInv, PartsInv, MineInv, AssembledInv, Completing
<1> QED BY <1>1, <1>3, <1>4, <1>5 DEF WholeInv, MultipartIsWhole

\* A multipart upload is all parts of one client: parts of an upload that expired or
\* was cleaned up are never put together with others, and none is missing, whatever
\* fails, expires or is deleted in between: if the backend gives every multipart upload
\* an id of its own, a client that takes one over begins again after the one before is
\* cleaned up, and none comes back to an upload that has expired.
THEOREM MultipartWhole ==
    FreshIds /\ ~SlowCleanups /\ ~StaleLookups /\ ~Resumes => (Spec => []MultipartIsWhole)
<1> SUFFICES ASSUME FreshIds, ~SlowCleanups, ~StaleLookups, ~Resumes
             PROVE  Spec => []MultipartIsWhole
  OBVIOUS
<1> DEFINE Inv == AllInv /\ MultipartIsWhole
<1>1. Init => Inv
  BY InitTypes, InitWriters, InitSound, InitWhole DEF AllInv
<1>2. Inv /\ [Next]_vars => Inv'
  BY TypeStep, GivenStep, WriterStep, SoundStep, WholeStep, ObjectStep DEF AllInv
<1> QED BY <1>1, <1>2, PTL DEF Spec
=============================================================================
