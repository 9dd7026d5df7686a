----------------------------- MODULE AddFolder -----------------------------
(***************************************************************************)
(* Creating folders (src/src/endpoints/folders/addFolder): addFolder, and  *)
(* the folders that an upload makes for its file (ensureFolders).          *)
(*                                                                         *)
(* Requests wait in a queue that is chosen by a part of their path.  A     *)
(* server takes a batch, reads in a transaction the folders that are       *)
(* there, makes those that are missing, each with its parent, checks the   *)
(* agents, and inserts the folders of the inputs that are allowed; the     *)
(* answers come after it.                                                  *)
(*                                                                         *)
(* Paths are sequences of names, in one case: the code compares them in    *)
(* lower case.  A batch is of one workspace.                               *)
(***************************************************************************)
EXTENDS Naturals, FiniteSets, Sequences, SequencesExt

CONSTANTS
    Clients,      \* requests
    Asks,         \* Asks[c]: the agent, the path, and whether it is for an upload
    Agents,
    Paths,        \* the paths of folders
    Existing,     \* the paths of the folders that are there at first
    Access,       \* <<agent, path>>: may add folders in that folder (or workspace)
    Uploaders,    \* agents that may upload files
    Gone,         \* agents whose token is deleted while they wait
    Servers,      \* processes that read the queue
    ReadCount,    \* 100 in the code
    MaxTroubles   \* bound on timeouts, crashes and retries

Root == << >>

ASSUME AddFolderAssumption ==
    /\ Paths \subseteq Seq(STRING) \ {Root} /\ Existing \subseteq Paths
    /\ \A p \in Paths : Prefixes(p) \subseteq Paths \cup {Root}
    /\ \A p \in Existing : Prefixes(p) \subseteq Existing \cup {Root}
    /\ Asks \in [Clients -> [agent : Agents, path : Paths, upload : BOOLEAN]]
    /\ Access \subseteq Agents \X (Existing \cup {Root})
    /\ Uploaders \subseteq Agents /\ Gone \subseteq Agents
    /\ ReadCount \in Nat \ {0} /\ MaxTroubles \in Nat

VARIABLES
    folders,   \* the folders' documents
    status,    \* status[c]: what the client knows of its request
    queue,
    batch,     \* batch[s]: the clients whose requests the server handles
    seen,      \* seen[s]: the folders its transaction sees
    batches,   \* number of batches that were committed
    troubles

vars == <<folders, status, queue, batch, seen, batches, troubles>>

\* A folder is known by its path and the batch that made it, and has its parent's.
Folder == [path : Paths, made : Nat, parent : Nat]

-----------------------------------------------------------------------------

Pending == {"queued", "taken"}
Refused == {"denied", "exists", "failed"}

TypeOK ==
    /\ folders \subseteq Folder
    /\ status \in [Clients -> {"new", "added", "gaveUp", "uploaded", "notUploaded"}
                                 \cup Pending \cup Refused]
    /\ queue \in Seq(Clients) /\ Range(queue) = {c \in Clients : status[c] = "queued"}
    /\ batch \in [Servers -> Seq(Clients)]
    /\ seen \in [Servers -> SUBSET Folder]
    /\ batches \in Nat /\ troubles \in 0..MaxTroubles

Init ==
    /\ folders = {[path |-> p, made |-> 0, parent |-> 0] : p \in Existing}
    /\ status = [c \in Clients |-> "new"]
    /\ queue = << >>
    /\ batch = [s \in Servers |-> << >>] /\ seen = [s \in Servers |-> {}]
    /\ batches = 0 /\ troubles = 0

-----------------------------------------------------------------------------
(* Clients *)

Send(c) ==
    /\ status[c] = "new"
    /\ status' = [status EXCEPT ![c] = "queued"]
    /\ queue' = Append(queue, c)
    /\ UNCHANGED <<folders, batch, seen, batches, troubles>>

\* Mutant: the request stays in the queue.
GiveUp_Leaves(c) ==
    /\ troubles < MaxTroubles /\ troubles' = troubles + 1
    /\ status[c] \in Pending
    /\ status' = [status EXCEPT ![c] = "gaveUp"]
    /\ UNCHANGED <<folders, queue, batch, seen, batches>>

\* After 30 seconds; the request is taken out of the queue if it is still there.
GiveUp(c) ==
    /\ troubles < MaxTroubles /\ troubles' = troubles + 1
    /\ status[c] \in Pending
    /\ status' = [status EXCEPT ![c] = "gaveUp"]
    /\ \/ c \notin Range(queue) /\ UNCHANGED queue
       \/ \E i \in DOMAIN queue : queue[i] = c /\ queue' = RemoveAt(queue, i)
    /\ UNCHANGED <<folders, batch, seen, batches>>

\* The client sends its request again, and does not take the first one's answer for
\* the second's.
Retry(c) ==
    /\ troubles < MaxTroubles /\ troubles' = troubles + 1
    /\ status[c] \in {"gaveUp", "failed"} /\ \A s \in Servers : c \notin Range(batch[s])
    /\ status' = [status EXCEPT ![c] = "queued"]
    /\ queue' = Append(queue, c)
    /\ UNCHANGED <<folders, batch, seen, batches>>

\* An upload goes on in its own transaction when it has its folders, and checks its
\* agent after it.
Upload(c) ==
    /\ Asks[c].upload /\ status[c] = "added"
    /\ status' = [status EXCEPT ![c] = IF Asks[c].agent \in Uploaders THEN "uploaded"
                                       ELSE "notUploaded"]
    /\ UNCHANGED <<folders, queue, batch, seen, batches, troubles>>

-----------------------------------------------------------------------------
(* The handler *)

Idle(s) == batch[s] = << >>

\* Mutant: the folders are those that were there when the server started.
Take_Cached(s) ==
    /\ Idle(s) /\ queue # << >>
    /\ LET n == IF Len(queue) < ReadCount THEN Len(queue) ELSE ReadCount
       IN /\ batch' = [batch EXCEPT ![s] = SubSeq(queue, 1, n)]
          /\ queue' = SubSeq(queue, n + 1, Len(queue))
    /\ status' = [c \in Clients |-> IF c \in Range(batch'[s]) THEN "taken" ELSE status[c]]
    /\ seen' = [seen EXCEPT ![s] = {f \in folders : f.made = 0}]
    /\ UNCHANGED <<folders, batches, troubles>>

\* The batch is read and the folders that are there, in the batch's transaction.
Take(s) ==
    /\ Idle(s) /\ queue # << >>
    /\ LET n == IF Len(queue) < ReadCount THEN Len(queue) ELSE ReadCount
       IN /\ batch' = [batch EXCEPT ![s] = SubSeq(queue, 1, n)]
          /\ queue' = SubSeq(queue, n + 1, Len(queue))
    /\ status' = [c \in Clients |-> IF c \in Range(batch'[s]) THEN "taken" ELSE status[c]]
    /\ seen' = [seen EXCEPT ![s] = folders]
    /\ UNCHANGED <<folders, batches, troubles>>

At(known, p) == {f \in known : f.path = p}

\* getSelfOrClosestParent: the longest path of which there is a folder, or the root.
Closest(known, p) ==
    CHOOSE q \in Prefixes(p) :
       /\ q = Root \/ At(known, q) # {}
       /\ \A r \in Prefixes(p) : r = Root \/ At(known, r) # {} => Len(r) <= Len(q)

MadeBy(known, p) == IF p = Root THEN 0 ELSE (CHOOSE f \in At(known, p) : TRUE).made

\* The folders of the path that are missing; number is the batch's.
Missing(known, p, number) ==
    {[path |-> q, made |-> number,
      parent |-> IF Front(q) = Closest(known, p) THEN MadeBy(known, Front(q)) ELSE number] :
        q \in {r \in Prefixes(p) : Len(r) > Len(Closest(known, p))}}

\* What an input adds to what those before it in the batch did: its folders, for
\* which it is remembered, and the folder its agent's access is checked in.
Prepare(plan, c, number) ==
    LET new == Missing(plan.known, Asks[c].path, number)
    IN [known  |-> plan.known \cup new,
        maker  |-> [f \in new \cup DOMAIN plan.maker |->
                       IF f \in new THEN Asks[c].path ELSE plan.maker[f]],
        target |-> [d \in {c} \cup DOMAIN plan.target |->
                       IF d = c THEN Closest(plan.known, Asks[c].path) ELSE plan.target[d]]]

\* Plans(s)[i]: the folders that are there, and those the first i inputs would make.
Plans(s) ==
    LET plan[i \in 0..Len(batch[s])] ==
            IF i = 0 THEN [known |-> seen[s], maker |-> << >>, target |-> << >>]
            ELSE Prepare(plan[i - 1], batch[s][i], batches + 1)
    IN  plan

Plan(s) == Plans(s)[Len(batch[s])]

\* Mutant: access is not checked for the inputs of one batch but the first.
HasAccess_First(target, s, c) ==
    LET asks == Asks[Head(batch[s])]
    IN asks.upload \/ \E q \in Prefixes(target[Head(batch[s])]) : <<asks.agent, q>> \in Access

\* checkAuthOnManyTargets: access is checked once for an agent and a folder, as the
\* last of their inputs asks for; an upload's is not.  Access is inherited.
HasAccess(target, s, c) ==
    LET same == {i \in 1..Len(batch[s]) : /\ Asks[batch[s][i]].agent = Asks[c].agent
                                          /\ target[batch[s][i]] = target[c]}
        last == Asks[batch[s][CHOOSE i \in same : \A j \in same : j <= i]]
    IN last.upload \/ \E q \in Prefixes(target[c]) : <<last.agent, q>> \in Access

\* Mutant: only the folders that were asked for are inserted.
Inserted_Leaves(plan, s) ==
    {f \in DOMAIN plan.maker : f.path = plan.maker[f] /\ \E c \in Range(batch[s]) : Asks[c].path = f.path}

\* A folder is inserted when an input of the path that it was made for has access.
Inserted(plan, s) ==
    {f \in DOMAIN plan.maker :
        \E c \in Range(batch[s]) :
           Asks[c].path = plan.maker[f] /\ HasAccess(plan.target, s, c)}

\* The answer to an input.  A folder of its path that is missing (its child was
\* found, itself was not) fails the whole batch.
AnswerTo(plan, s, c) ==
    LET isNew == HasAccess(plan.target, s, c)
                 /\ \E f \in Inserted(plan, s) : f.path \in Prefixes(Asks[c].path)
    IN IF ~Asks[c].upload /\ ~isNew THEN "exists"
       ELSE IF HasAccess(plan.target, s, c) THEN "added" ELSE "denied"

Broken(plan, s) ==
    \E c \in Range(batch[s]) : \E q \in Prefixes(Asks[c].path) \ {Root} :
       At(plan.known, q) = {} /\ (HasAccess(plan.target, s, c) \/ Len(q) = 1)

\* Inputs whose agent is gone are told so, and then nobody else gets an answer.
Answers(plan, s) ==
    LET gone == {c \in Range(batch[s]) : Asks[c].agent \in Gone}
    IN IF gone # {} THEN [c \in gone |-> "failed"]
       ELSE [c \in Range(batch[s]) |-> IF Broken(plan, s) THEN "failed" ELSE AnswerTo(plan, s, c)]

\* What the transaction inserts: nothing if somebody's agent is gone.
Stored(plan, s) ==
    IF \E c \in Range(batch[s]) : Asks[c].agent \in Gone THEN {} ELSE Inserted(plan, s)

\* The transaction commits and the answers are sent; who gave up does not hear it.
Handle(s) ==
    LET plan == Plan(s) answers == Answers(plan, s) IN
    /\ ~Idle(s)
    /\ folders' = folders \cup Stored(plan, s)
    /\ status' = [c \in Clients |-> IF c \in DOMAIN answers /\ status[c] = "taken"
                                    THEN answers[c] ELSE status[c]]
    /\ batch' = [batch EXCEPT ![s] = << >>] /\ seen' = [seen EXCEPT ![s] = {}]
    /\ batches' = batches + 1
    /\ UNCHANGED <<queue, troubles>>

\* The server dies before the transaction commits, or before it sends the answers.
Crash(s) ==
    /\ troubles < MaxTroubles /\ troubles' = troubles + 1
    /\ ~Idle(s)
    /\ folders' \in {folders, folders \cup Stored(Plan(s), s)}
    /\ batch' = [batch EXCEPT ![s] = << >>] /\ seen' = [seen EXCEPT ![s] = {}]
    /\ batches' = batches + 1
    /\ UNCHANGED <<status, queue>>

-----------------------------------------------------------------------------

Next ==
    \/ \E c \in Clients : Send(c) \/ GiveUp(c) \/ Retry(c) \/ Upload(c)
    \/ \E s \in Servers : Take(s) \/ Handle(s) \/ Crash(s)

Spec == Init /\ [][Next]_vars

-----------------------------------------------------------------------------
(* Properties *)

\* A path has one folder, however many requests make it at once: the batch shares
\* what it makes, and the next one sees what was committed.
OnePerPath == \A f, g \in folders : f.path = g.path => f = g

\* The folder that a folder says it is in is there.
ParentsStored ==
    \A f \in folders : Len(f.path) > 1 =>
       \E g \in folders : g.path = Front(f.path) /\ g.made = f.parent

\* A folder was asked for by an upload, or by an agent who may add it, by itself or
\* above another: what the others of its batch ask for does not count.
OnlyAllowed ==
    \A f \in folders : f.made # 0 =>
       \E c \in Clients :
          /\ f.path \in Prefixes(Asks[c].path)
          /\ Asks[c].upload \/ \E q \in Prefixes(Asks[c].path) : <<Asks[c].agent, q>> \in Access

\* The comment of ensureFolders: the folders of an upload that is denied are rolled
\* back with it.
DeniedLeavesNothing ==
    \A f \in folders : f.made # 0 =>
       \E c \in Clients : f.path \in Prefixes(Asks[c].path) /\ status[c] # "notUploaded"
=============================================================================
