----------------------------- MODULE FileUpload -----------------------------
(***************************************************************************)
(* Uploads to one path: src/src/endpoints/files/uploadFile, with           *)
(* startMultipartUpload, completeMultipartUpload, deleteFile and the jobs  *)
(* that complete a multipart upload and delete a file.  The clients of     *)
(* multipart uploads are the SDK's (src/sdk/js-sdk/src/multipart).         *)
(*                                                                         *)
(* A request checks a file out by resetting its write flag in the          *)
(* database, sends data to a backend, and writes the file's final fields.  *)
(* A multipart upload keeps the file checked out over many requests, for   *)
(* the client id the file was checked out with, until it is completed,     *)
(* aborted, or a day has passed since its last part.                       *)
(*                                                                         *)
(* Data is who wrote it: the object at the path is a set of pairs          *)
(* <<upload, part>>, Whole being the part of a single upload.              *)
(***************************************************************************)
EXTENDS Naturals, FiniteSets

CONSTANTS
    Singles,     \* uploads of one request
    Clients,     \* multipart uploads: their clientMultipartIds
    Files,       \* ids of file documents of the path
    Parts,       \* part numbers
    UploadIds,   \* what the backend calls multipart uploads
    NoOne, NoId, Whole,
    FreshIds,      \* startMultipartUpload makes a new id (S3), or returns the file's (disk, memory)
    Resumes,       \* clients come back although their upload has expired
    SlowCleanups,  \* a client comes back before the multipart upload it took over is cleaned up
    StaleLookups,  \* a file may be created between a lookup and what is done for its result
    ReusesPath,    \* files are created while the deletion job of an older one has not run
    MaxTroubles    \* bound on the failures of one behaviour, handled or not

Uploads == Singles \cup Clients

ASSUME UploadAssumption ==
    /\ Singles \cap Clients = {} /\ NoOne \notin Uploads /\ NoOne \notin Files
    /\ NoId \notin UploadIds /\ Whole \notin Parts /\ MaxTroubles \in Nat
    /\ {FreshIds, Resumes, SlowCleanups, StaleLookups, ReusesPath} \subseteq BOOLEAN

VARIABLES
    file,      \* file[f]: the document
    entries,   \* the files that have a resolved mount entry
    at,        \* at[u]: what the request, or the client, is doing
    of,        \* of[u]: the file it was given
    lock,      \* the requests that hold the lock of the path (locks())
    idOf,      \* idOf[m]: the multipart id that is being recorded, completed or aborted
    part,      \* part[m][p]: the upload of a part, and the multipart id it was sent for
    object,    \* the object at the path
    stored,    \* stored[i]: the parts the backend holds for the multipart id i
    partDocs,  \* partDocs[i]: the parts with a document
    issued,    \* history: <<file, id>> for the ids startMultipartUpload has returned
    open,      \* ids the backend still takes parts for
    cleanups,  \* calls of deleteMultipartUpload nobody waits for: <<file, id>>
    faults,    \* failures nothing handles: crashes, calls that time out
    retries    \* failures and pauses after which something is tried again

doc == <<file, entries>>
backend == <<object, stored, issued, open>>
requests == <<at, of, lock, idOf, part>>
vars == <<file, entries, at, of, lock, idOf, part, object, stored, partDocs, issued, open,
          cleanups, faults, retries>>

-----------------------------------------------------------------------------

Document == [state : {"none", "live", "deleted", "erased"}, writable : BOOLEAN, readable : BOOLEAN,
             client : Clients \cup {NoOne}, id : UploadIds \cup {NoId},
             timeout : {"none", "running", "over"}]

NewFile == [state |-> "live", writable |-> TRUE, readable |-> FALSE,
            client |-> NoOne, id |-> NoId, timeout |-> "none"]

\* The stages of a request: looking up, waiting for the lock, creating the file,
\* and then, for a single upload, checked out ("held"), with its data in the
\* backend ("stored"), or failed with the reset of the write flag on its way.
\* A client has the file ("checked"), a multipart id to record ("starting"),
\* sends parts ("open"), completes ("completing", "assembling", "assembled"),
\* aborts, or has gone.
Stages == {"idle", "missed", "waiting", "creating", "refused", "done"}
SingleStages == Stages \cup {"held", "stored", "failing", "failed"}
ClientStages == Stages \cup {"checked", "starting", "open", "completing", "assembling",
                             "assembled", "aborting", "gone", "lapsed"}

TypeOK ==
    /\ file \in [Files -> Document]
    /\ entries \subseteq Files
    /\ at \in [Uploads -> SingleStages \cup ClientStages]
    /\ \A u \in Uploads : at[u] \in IF u \in Singles THEN SingleStages ELSE ClientStages
    /\ of \in [Uploads -> Files \cup {NoOne}]
    /\ lock \subseteq Uploads
    /\ idOf \in [Clients -> UploadIds \cup {NoId}]
    /\ part \in [Clients -> [Parts -> [step : {"none", "sent", "stored", "saved"},
                                       id : UploadIds \cup {NoId}]]]
    /\ \A m \in Clients, p \in Parts : part[m][p].step # "none" => part[m][p].id # NoId
    /\ object \subseteq Uploads \X (Parts \cup {Whole})
    /\ stored \in [UploadIds -> SUBSET (Clients \X Parts)]
    /\ partDocs \in [UploadIds -> SUBSET Parts]
    /\ issued \subseteq Files \X UploadIds /\ open \subseteq UploadIds
    /\ cleanups \subseteq Files \X UploadIds
    /\ faults \in Nat /\ retries \in Nat /\ faults + retries <= MaxTroubles

NoPart == [step |-> "none", id |-> NoId]

Init ==
    /\ file = [f \in Files |-> [NewFile EXCEPT !.state = "none"]]
    /\ entries = {}
    /\ at = [u \in Uploads |-> "idle"]
    /\ of = [u \in Uploads |-> NoOne]
    /\ lock = {}
    /\ idOf = [m \in Clients |-> NoId]
    /\ part = [m \in Clients |-> [p \in Parts |-> NoPart]]
    /\ object = {}
    /\ stored = [i \in UploadIds |-> {}]
    /\ partDocs = [i \in UploadIds |-> {}]
    /\ issued = {} /\ open = {}
    /\ cleanups = {}
    /\ faults = 0 /\ retries = 0

Live == {f \in Files : file[f].state = "live"}

\* updateOneById: of a file that is there, also when it is marked as deleted.
Update(f, new) == IF file[f].state = "erased" THEN file ELSE [file EXCEPT ![f] = new]

InFlight(m) == \E p \in Parts : part[m][p].step \in {"sent", "stored"}

Trouble == faults + retries < MaxTroubles
Retry == Trouble /\ retries' = retries + 1 /\ UNCHANGED faults
Fault == Trouble /\ faults' = faults + 1 /\ UNCHANGED retries
Untroubled == UNCHANGED <<faults, retries>>

-----------------------------------------------------------------------------
(* Preparing a file: handlePrepareFileEntry and checkoutFileForUpload *)

\* Mutant: any client takes a multipart upload over.
Available_AnyClient(u, f) ==
    file[f].writable \/ u \in Clients \/ (file[f].timeout = "over" /\ file[f].id # NoId)

Available(u, f) ==
    \/ file[f].writable
    \/ u \in Clients /\ file[f].client = u
    \/ file[f].timeout = "over" /\ file[f].id # NoId

\* Mutant: a checkout leaves the expired multipart upload in the file.
CheckedOut_KeepsId(u, f) ==
    [file[f] EXCEPT !.writable = FALSE, !.client = IF u \in Clients THEN u ELSE @]

\* The update leaves clientMultipartId alone for a single upload: it is undefined
\* there, and undefined fields are left out of updates.
CheckedOut(u, f) ==
    LET taken == [file[f] EXCEPT !.writable = FALSE,
                                 !.client = IF u \in Clients THEN u ELSE @]
        expires == ~file[f].writable /\ ~(u \in Clients /\ file[f].client = u)
    IN IF expires THEN [taken EXCEPT !.id = NoId, !.timeout = "none"] ELSE taken

\* The multipart upload that a checkout ends is cleaned up later.
Outdated(u, f) ==
    IF ~file[f].writable /\ ~(u \in Clients /\ file[f].client = u)
    THEN {<<f, file[f].id>>} ELSE {}

Checkout(u, f) ==
    /\ IF Available(u, f)
       THEN /\ file' = [file EXCEPT ![f] = CheckedOut(u, f)]
            /\ cleanups' = cleanups \cup Outdated(u, f)
            /\ at' = [at EXCEPT ![u] = IF u \in Singles THEN "held" ELSE "checked"]
            /\ of' = [of EXCEPT ![u] = f]
       ELSE /\ at' = [at EXCEPT ![u] = "refused"]
            /\ UNCHANGED <<file, cleanups, of>>
    /\ UNCHANGED <<entries, lock, idOf, part, partDocs, faults, retries>>
    /\ UNCHANGED backend

Enter(u, stage) ==
    /\ at' = [at EXCEPT ![u] = stage]
    /\ UNCHANGED <<of, idOf, part, partDocs, cleanups, faults, retries>>
    /\ UNCHANGED backend

\* The upload has ended.
Leave(u, stage) ==
    /\ at' = [at EXCEPT ![u] = stage]
    /\ of' = [of EXCEPT ![u] = NoOne]

\* The first look for the file, in a transaction of its own.
Lookup(u) ==
    /\ at[u] = "idle"
    /\ \/ \E f \in Live : Checkout(u, f)
       \/ Live = {} /\ Enter(u, "missed") /\ UNCHANGED <<file, entries, lock>>


\* No file was found: wait for the request that is creating it, or take the lock.
Decide(u) ==
    /\ at[u] = "missed"
    /\ StaleLookups \/ Live = {}
    /\ ReusesPath \/ \A f \in Files : file[f].state # "deleted"
    /\ IF lock # {}
       THEN Enter(u, "waiting") /\ UNCHANGED lock
       ELSE Enter(u, "creating") /\ lock' = {u}
    /\ UNCHANGED doc

\* The same request again, when its lookup is not to be used any more.
LookAgain(u) ==
    /\ at[u] = "missed" /\ ~StaleLookups /\ Live # {}
    /\ Enter(u, "idle")
    /\ UNCHANGED <<file, entries, lock>>

\* createAndPrepareNewFile: the file is inserted and checked out in one transaction.
Create(u, f) ==
    /\ at[u] = "creating" /\ file[f].state = "none"
    /\ file' = [file EXCEPT ![f] = [NewFile EXCEPT !.writable = FALSE,
                                                   !.client = IF u \in Clients THEN u ELSE @]]
    /\ at' = [at EXCEPT ![u] = IF u \in Singles THEN "held" ELSE "checked"]
    /\ of' = [of EXCEPT ![u] = f]
    /\ lock' = {}
    /\ UNCHANGED <<entries, idOf, part, partDocs, cleanups, faults, retries>>
    /\ UNCHANGED backend

\* The agent may not create the file, or the transaction fails.
CreateFails(u) ==
    /\ at[u] = "creating"
    /\ Enter(u, "refused") /\ lock' = {}
    /\ UNCHANGED doc

\* The lock is released: the file is expected to be there now.
Awakes(u) ==
    /\ at[u] = "waiting" /\ lock = {}
    /\ \/ \E f \in Live : Checkout(u, f)
       \/ Live = {} /\ Enter(u, "refused") /\ UNCHANGED <<file, entries, lock>>

-----------------------------------------------------------------------------
(* Single uploads: handleUploadFile *)

\* The backend has the data.  What a single upload or a completed multipart
\* upload writes replaces the object.
Store(u) ==
    /\ u \in Singles /\ at[u] = "held"
    /\ at' = [at EXCEPT ![u] = "stored"]
    /\ object' = {<<u, Whole>>}
    /\ UNCHANGED <<of, lock, idOf, part, partDocs, stored, issued, open, cleanups, faults, retries>>
    /\ UNCHANGED doc

\* getCleanupMultipartFileUpdate and getFinalFileUpdate
Released(f) == [file[f] EXCEPT !.writable = TRUE, !.client = NoOne, !.id = NoId,
                               !.timeout = "none"]
Final(f) == [Released(f) EXCEPT !.readable = TRUE]

\* completeFileUpload: the update and the mount entry, unless the file was deleted.
Finish(u) ==
    /\ u \in Singles /\ at[u] = "stored" /\ file[of[u]].state = "live"
    /\ file' = [file EXCEPT ![of[u]] = Final(of[u])]
    /\ entries' = entries \cup {of[u]}
    /\ Leave(u, "done")
    /\ UNCHANGED <<lock, idOf, part, partDocs, cleanups, faults, retries>>
    /\ UNCHANGED backend

\* Mutant: a failed upload leaves the file checked out.
Fail_KeepsFlag(u) ==
    /\ u \in Singles /\ at[u] \in {"held", "stored"}
    /\ Leave(u, "failed")
    /\ UNCHANGED <<file, entries, lock, idOf, part, partDocs, cleanups, faults, retries>>
    /\ UNCHANGED backend

\* The body ends early, the backend or the usage check refuses, the file is gone.
Fail(u) ==
    /\ u \in Singles /\ at[u] \in {"held", "stored"}
    /\ Enter(u, "failing")
    /\ UNCHANGED <<file, entries, lock>>

\* Mutant: a failed upload writes the final fields.
SetFileWritable_Final(u) ==
    /\ u \in Singles /\ at[u] = "failing"
    /\ file' = IF file[of[u]].state = "live" THEN [file EXCEPT ![of[u]] = Final(of[u])] ELSE file
    /\ Leave(u, "failed")
    /\ UNCHANGED <<entries, lock, idOf, part, partDocs, cleanups, faults, retries>>
    /\ UNCHANGED backend

\* setFileWritable, which nobody waits for.
SetFileWritable(u) ==
    /\ u \in Singles /\ at[u] = "failing"
    /\ file' = IF file[of[u]].state = "live"
               THEN [file EXCEPT ![of[u]].writable = TRUE] ELSE file
    /\ Leave(u, "failed")
    /\ UNCHANGED <<entries, lock, idOf, part, partDocs, cleanups, faults, retries>>
    /\ UNCHANGED backend

-----------------------------------------------------------------------------
(* Multipart uploads: start, parts, completion, abortion *)

Ids(f) == IF FreshIds THEN {i \in UploadIds : \A g \in Files : <<g, i>> \notin issued} ELSE {f}

\* startMultipartUpload: a file in a multipart upload has its id already, also
\* when another request is recording one (its lock is waited for).
UsesId(m) ==
    /\ m \in Clients /\ at[m] = "checked" /\ file[of[m]].id # NoId
    /\ Enter(m, "open")
    /\ UNCHANGED <<file, entries, lock>>

\* addFileInternalMultipartId, the call of the backend.
StartMultipart(m, i) ==
    /\ m \in Clients /\ at[m] = "checked" /\ file[of[m]].id = NoId
    /\ \A n \in Clients : ~(at[n] = "starting" /\ of[n] = of[m])
    /\ i \in Ids(of[m])
    /\ at' = [at EXCEPT ![m] = "starting"]
    /\ idOf' = [idOf EXCEPT ![m] = i]
    /\ issued' = issued \cup {<<of[m], i>>} /\ open' = open \cup {i}
    /\ UNCHANGED <<of, lock, part, object, stored, partDocs, cleanups, faults, retries>>
    /\ UNCHANGED doc

\* ... and its update, which is made to deleted files too.
RecordId(m) ==
    /\ m \in Clients /\ at[m] = "starting"
    /\ file' = Update(of[m], [file[of[m]] EXCEPT !.timeout = "running", !.id = idOf[m],
                                                 !.client = m])
    /\ at' = [at EXCEPT ![m] = "open"]
    /\ idOf' = [idOf EXCEPT ![m] = NoId]
    /\ UNCHANGED <<entries, of, lock, part, partDocs, cleanups, faults, retries>>
    /\ UNCHANGED backend

PartGoes(m, p, step, id) ==
    /\ part' = [part EXCEPT ![m][p] = [step |-> step, id |-> id]]
    /\ UNCHANGED <<at, of, lock, idOf, issued>>

\* uploadFile with a part: the file is checked out once more.
SendPart(m, p) ==
    /\ at[m] = "open" /\ part[m][p].step = "none"
    /\ file[of[m]].state = "live" /\ Available(m, of[m]) /\ CheckedOut(m, of[m]).id # NoId
    /\ file' = [file EXCEPT ![of[m]] = CheckedOut(m, of[m])]
    /\ cleanups' = cleanups \cup Outdated(m, of[m])
    /\ PartGoes(m, p, "sent", CheckedOut(m, of[m]).id)
    /\ UNCHANGED <<entries, object, stored, open, partDocs, faults, retries>>

StorePart(m, p) ==
    LET i == part[m][p].id IN
    /\ part[m][p].step = "sent" /\ i \in open
    /\ stored' = [stored EXCEPT ![i] = {w \in @ : w[2] # p} \cup {<<m, p>>}]
    /\ PartGoes(m, p, "stored", i)
    /\ UNCHANGED <<object, open, partDocs, cleanups, faults, retries>>
    /\ UNCHANGED doc

\* completePartialFileUpload: the part's document, the file and a mount entry in
\* one transaction.
SavePart(m, p) ==
    LET i == part[m][p].id
        f == of[m]
    IN
    /\ part[m][p].step = "stored" /\ file[f].state = "live"
    /\ partDocs' = [partDocs EXCEPT ![i] = @ \cup {p}]
    /\ file' = [file EXCEPT ![f].writable = FALSE, ![f].timeout = "running", ![f].id = i]
    /\ entries' = entries \cup {f}
    /\ PartGoes(m, p, "saved", i)
    /\ UNCHANGED <<object, stored, open, cleanups, faults, retries>>

\* The request fails: the stream ends, or the file or the multipart upload is
\* gone.  The file stays checked out; the SDK tries again.
PartFails(m, p) ==
    /\ part[m][p].step \in {"sent", "stored"}
    /\ \/ (file[of[m]].state # "live" \/ part[m][p].id \notin open) /\ Untroubled
       \/ Retry
    /\ PartGoes(m, p, "none", NoId)
    /\ UNCHANGED <<object, stored, open, partDocs, cleanups>>
    /\ UNCHANGED doc

\* completeMultipartUpload queues a job when all parts are there.
RequestCompletion(m) ==
    /\ m \in Clients /\ at[m] = "open" /\ \A p \in Parts : part[m][p].step = "saved"
    /\ Enter(m, "completing")
    /\ UNCHANGED <<file, entries, lock>>

\* The job reads the file: whichever multipart upload it is in now.
JobReads(m) ==
    /\ at[m] = "completing" /\ file[of[m]].state = "live"
    /\ file[of[m]].client # NoOne /\ file[of[m]].id # NoId
    /\ at' = [at EXCEPT ![m] = "assembling"]
    /\ idOf' = [idOf EXCEPT ![m] = file[of[m]].id]
    /\ UNCHANGED <<of, lock, part, partDocs, cleanups, faults, retries>>
    /\ UNCHANGED doc /\ UNCHANGED backend

\* The client is done with its parts.
Forget(m) ==
    /\ idOf' = [idOf EXCEPT ![m] = NoId]
    /\ part' = [part EXCEPT ![m] = [p \in Parts |-> NoPart]]

Documented(i) == {w \in stored[i] : w[2] \in partDocs[i]}

\* The backend puts the parts with a document together, and fails if it misses
\* one.  S3 also wants at least one.
JobAssembles(m) ==
    LET i == idOf[m] IN
    /\ at[m] = "assembling" /\ i \in open
    /\ \A p \in partDocs[i] : \E w \in stored[i] : w[2] = p
    /\ FreshIds => partDocs[i] # {}
    /\ object' = Documented(i)
    /\ stored' = [stored EXCEPT ![i] = {}]
    /\ open' = open \ {i}
    /\ at' = [at EXCEPT ![m] = "assembled"]
    /\ UNCHANGED <<of, lock, idOf, part, partDocs, issued, cleanups, faults, retries>>
    /\ UNCHANGED doc

\* completeFileUpload, and the cleanup that is not waited for.
JobFinishes(m) ==
    LET f == of[m] IN
    /\ at[m] = "assembled" /\ file[f].state = "live"
    /\ file' = [file EXCEPT ![f] = Final(f)]
    /\ entries' = entries \cup {f}
    /\ Leave(m, "done")
    /\ Forget(m)
    /\ cleanups' = cleanups \cup {<<f, idOf[m]>>}
    /\ UNCHANGED <<lock, partDocs, faults, retries>>
    /\ UNCHANGED backend

\* The job fails: an assertion, the backend, or the update of a deleted file.
JobFails(m) ==
    /\ at[m] \in {"completing", "assembling", "assembled"}
    /\ \/ (file[of[m]].state # "live" \/ (idOf[m] # NoId /\ idOf[m] \notin open)) /\ Untroubled
       \/ Retry
    /\ at' = [at EXCEPT ![m] = "gone"]
    /\ Forget(m)
    /\ UNCHANGED <<of, lock, partDocs, cleanups>>
    /\ UNCHANGED doc /\ UNCHANGED backend

\* deleteFile with the client's id: the file is read ...
Abort(m) ==
    /\ m \in Clients /\ at[m] = "open" /\ ~InFlight(m) /\ file[of[m]].state = "live"
    /\ file[of[m]].id # NoId
    /\ at' = [at EXCEPT ![m] = "aborting"]
    /\ idOf' = [idOf EXCEPT ![m] = file[of[m]].id]
    /\ UNCHANGED <<of, lock, part, partDocs, cleanups, faults, retries>>
    /\ UNCHANGED doc /\ UNCHANGED backend

\* ... and deleteMultipartUpload clears the multipart upload and the file's fields.
DeleteMultipart(m) ==
    LET i == idOf[m] IN
    /\ at[m] = "aborting"
    /\ file' = Update(of[m], Released(of[m]))
    /\ stored' = [stored EXCEPT ![i] = {}]
    /\ partDocs' = [partDocs EXCEPT ![i] = {}]
    /\ open' = IF FreshIds THEN open \ {i} ELSE open
    /\ Leave(m, "done")
    /\ Forget(m)
    /\ UNCHANGED <<entries, lock, object, issued, cleanups, faults, retries>>

\* fireAndForgetHandleMultipartCleanup: by id, whoever uses it by then.
CleanUp(f, i) ==
    /\ <<f, i>> \in cleanups
    /\ cleanups' = cleanups \ {<<f, i>>}
    /\ stored' = [stored EXCEPT ![i] = {}]
    /\ partDocs' = [partDocs EXCEPT ![i] = {}]
    /\ open' = IF FreshIds THEN open \ {i} ELSE open
    /\ UNCHANGED <<object, issued, faults, retries>>
    /\ UNCHANGED doc /\ UNCHANGED requests

-----------------------------------------------------------------------------
(* Time, clients that go and return, deletion, faults *)

\* The client stops: between parts, or because the file is gone.
GiveUp(m) ==
    /\ m \in Clients /\ at[m] = "open"
    /\ Enter(m, "gone") /\ UNCHANGED <<file, entries, lock>>

\* The SDK begins again when no request of its first attempt is under way: with
\* the parts that are listed, which are those of all the file's multipart uploads,
\* or from the start.
Return(m) ==
    LET f == of[m]
        listed == {p \in Parts : \E i \in UploadIds : <<f, i>> \in issued /\ p \in partDocs[i]}
    IN
    /\ m \in Clients /\ ~InFlight(m)
    /\ at[m] = "gone" \/ (Resumes /\ at[m] = "lapsed")
    /\ SlowCleanups \/ \A i \in UploadIds : <<f, i>> \notin cleanups
    /\ Retry
    /\ \/ /\ file[f].state = "live" /\ file[f].id # NoId /\ file[f].client = m
          /\ at' = [at EXCEPT ![m] = "open"]
          /\ part' = [part EXCEPT ![m] = [p \in Parts |->
                        IF p \in listed THEN [step |-> "saved", id |-> file[f].id] ELSE NoPart]]
       \/ /\ at' = [at EXCEPT ![m] = "idle"]
          /\ part' = [part EXCEPT ![m] = [p \in Parts |-> NoPart]]
    /\ UNCHANGED <<of, lock, idOf, partDocs, cleanups>>
    /\ UNCHANGED doc /\ UNCHANGED backend

\* A day passes after the last part: none of the client's requests is under way.
Expire(f) ==
    /\ file[f].timeout = "running"
    /\ \A m \in Clients : of[m] = f => at[m] \in {"gone", "lapsed"} /\ ~InFlight(m)
    /\ file' = [file EXCEPT ![f].timeout = "over"]
    /\ at' = [u \in Uploads |-> IF of[u] = f /\ at[u] = "gone" THEN "lapsed" ELSE at[u]]
    /\ UNCHANGED <<entries, of, lock, idOf, part, partDocs, cleanups, faults, retries>>
    /\ UNCHANGED backend

\* deleteFile: the file is marked and its job queued in one transaction.
BeginDeleteFile(f) ==
    /\ file[f].state = "live"
    /\ file' = [file EXCEPT ![f].state = "deleted"]
    /\ UNCHANGED <<entries, partDocs, cleanups, faults, retries>>
    /\ UNCHANGED requests /\ UNCHANGED backend

\* The job deletes what the file's mount entries name, and its multipart upload.
RunDeleteFile(f) ==
    /\ file[f].state = "deleted"
    /\ file' = [file EXCEPT ![f] = [NewFile EXCEPT !.state = "erased"]]
    /\ entries' = entries \ {f}
    /\ object' = IF f \in entries THEN {} ELSE object
    /\ stored' = [i \in UploadIds |-> IF f \in entries /\ i = file[f].id THEN {} ELSE stored[i]]
    /\ open' = IF FreshIds /\ f \in entries THEN open \ {file[f].id} ELSE open
    /\ partDocs' = [i \in UploadIds |-> IF <<f, i>> \in issued THEN {} ELSE partDocs[i]]
    /\ UNCHANGED <<issued, cleanups, faults, retries>>
    /\ UNCHANGED requests

\* The server stops, or a call that nothing handles fails, after the checkout:
\* mounts cannot be resolved, or the request's queue does not answer in time.
Crash(u) ==
    /\ Fault
    /\ \/ at[u] \in {"held", "stored", "failing"} /\ at' = [at EXCEPT ![u] = "failed"]
       \/ at[u] \in {"checked", "starting"} /\ at' = [at EXCEPT ![u] = "gone"]
    /\ UNCHANGED <<of, lock, idOf, part, partDocs, cleanups>>
    /\ UNCHANGED doc /\ UNCHANGED backend

\* A part for a path whose file has been deleted makes a new file, checked out for
\* the client and in no multipart upload, and fails.
StrayPart(m, f) ==
    /\ at[m] = "open" /\ Fault
    /\ Live = {} /\ lock = {} /\ file[f].state = "none"
    /\ ReusesPath \/ \A g \in Files : file[g].state # "deleted"
    /\ file' = [file EXCEPT ![f] = [NewFile EXCEPT !.writable = FALSE, !.client = m]]
    /\ at' = [at EXCEPT ![m] = "gone"]
    /\ UNCHANGED <<entries, of, lock, idOf, part, partDocs, cleanups>>
    /\ UNCHANGED backend

-----------------------------------------------------------------------------

Prepare(u) == Lookup(u) \/ Decide(u) \/ LookAgain(u) \/ (\E f \in Files : Create(u, f))
                \/ CreateFails(u) \/ Awakes(u)
RunSingle(u) == Store(u) \/ Finish(u) \/ Fail(u) \/ SetFileWritable(u)
RunPart(m, p) == SendPart(m, p) \/ StorePart(m, p) \/ SavePart(m, p) \/ PartFails(m, p)
RunClient(m) ==
    \/ UsesId(m) \/ (\E i \in UploadIds : StartMultipart(m, i)) \/ RecordId(m)
    \/ RequestCompletion(m) \/ Abort(m) \/ DeleteMultipart(m)
RunJob(m) == JobReads(m) \/ JobAssembles(m) \/ JobFinishes(m) \/ JobFails(m)

Next ==
    \/ \E u \in Uploads : Prepare(u) \/ Crash(u)
    \/ \E u \in Singles : RunSingle(u)
    \/ \E m \in Clients : RunClient(m) \/ RunJob(m) \/ GiveUp(m) \/ Return(m)
    \/ \E m \in Clients, f \in Files : StrayPart(m, f)
    \/ \E m \in Clients, p \in Parts : RunPart(m, p)
    \/ \E f \in Files, i \in UploadIds : CleanUp(f, i)
    \/ \E f \in Files : Expire(f) \/ BeginDeleteFile(f) \/ RunDeleteFile(f)

Spec == Init /\ [][Next]_vars

-----------------------------------------------------------------------------
(* Properties *)

\* Who may still write the file f: an upload that has checked it out and has not
\* ended, or a part that is under way.
Writes(u, f) ==
    /\ of[u] = f
    /\ \/ at[u] \in {"held", "stored", "failing", "checked", "starting", "open", "completing",
                     "assembling", "assembled", "aborting"}
       \/ u \in Clients /\ InFlight(u)

\* "File not writable because it is currently being written to": never do two
\* uploads write one file, whatever fails, expires or is resumed in time.
OneWriter == \A f \in Live : \A u, v \in Uploads : Writes(u, f) /\ Writes(v, f) => u = v

\* A multipart upload is all parts of one client: parts of an upload that expired
\* or was cleaned up are never put together with others, and none is missing.
MultipartIsWhole ==
    \/ object = {}
    \/ \E u \in Singles : object = {<<u, Whole>>}
    \/ \E m \in Clients : object = {m} \X Parts

\* However many requests find that a file is missing, one document is made.
OneFilePerPath == Cardinality(Live) <= 1

\* A file that can be read has data, also while it is replaced, its uploads fail
\* or older files of the path are deleted.
ReadableHasObject == \A f \in Live : file[f].readable => object # {}

\* A file that is checked out has an upload that will release it, or a time at
\* which others may take it over, unless a fault came between: no path of failures
\* that the code handles leaves a file that nobody can write.
HeldHasHolder ==
    \A f \in Live :
       file[f].writable \/ file[f].timeout # "none" \/ faults > 0 \/ \E u \in Uploads : Writes(u, f)
=============================================================================
