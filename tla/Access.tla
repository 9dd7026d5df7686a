------------------------------- MODULE Access -------------------------------
(***************************************************************************)
(* Who has which permissions in a workspace: permission items and groups,  *)
(* the requests by which a user becomes a collaborator, and the jobs that  *)
(* take everything from a collaborator or a group that is removed.         *)
(*                                                                         *)
(* Endpoints check first that the entity they are about exists (a user:    *)
(* that it is a collaborator) and write in a transaction later, so a call  *)
(* is two actions, between which the entity may be removed.  The caller's  *)
(* own permission is taken for granted.                                    *)
(***************************************************************************)
EXTENDS Permissions

CONSTANTS
    Requests,     \* ids of collaboration requests
    AddInputs,    \* the items that are added, without their time
    AssignInputs, \* the pairs <<entity, group>> that are assigned
    MaxAdds,      \* bound on addPermissionItems calls
    MaxRemovals,  \* bound on removals
    MaxCalls      \* bound on the calls that are under way at a time

VARIABLES
    items,     \* permission items that are stored and not marked as deleted
    assigned,  \* pairs <<entity, group>> of assigned items
    member,    \* how many live assigned items give each user the workspace
    group,     \* [Groups -> "live" | "deleted" (marked) | "gone"]
    request,   \* the collaboration requests
    jobs,      \* removal jobs: [of, step]
    doomed,    \* items that have a removal job of their own
    calls,     \* calls that have checked and not yet written
    clock,     \* lastUpdatedAt of the next item
    removals,  \* how many there have been
    late       \* history: entities given something during or after a removal

vars == <<items, assigned, member, group, request, jobs, doomed, calls, clock, removals, late>>

ASSUME AccessAssumption ==
    /\ AddInputs \subseteq [entity : Entities, target : Files \cup {Workspace},
                            action : Actions \cup {Wildcard}, access : BOOLEAN]
    /\ AssignInputs \subseteq Entities \X Groups
    /\ {MaxAdds, MaxRemovals, MaxCalls} \subseteq Nat

Statuses == {"none", "pending", "accepted", "declined", "revoked", "deleted"}
Steps == {"items", "assigned", "self"}

Call == [do : {"add"}, item : Item, insert : BOOLEAN]
            \cup [do : {"assign"}, pair : AssignInputs]

TypeOK ==
    /\ items \subseteq Item
    /\ assigned \subseteq AssignInputs
    /\ member \in [Users -> Nat]
    /\ group \in [Groups -> {"live", "deleted", "gone"}]
    /\ request \in [Requests -> [to : Users, status : Statuses]]
    /\ jobs \subseteq [of : Entities, step : Steps]
    /\ doomed \subseteq items
    /\ calls \subseteq Call
    /\ clock \in 0..MaxAdds /\ removals \in 0..MaxRemovals
    /\ late \subseteq Entities

Init ==
    /\ items = {} /\ assigned = {} /\ jobs = {} /\ doomed = {} /\ calls = {} /\ late = {}
    /\ clock = 0 /\ removals = 0
    /\ member \in [Users -> {0, 1}]
    /\ group = [g \in Groups |-> "live"]
    /\ request \in [Requests -> [to : Users, status : {"none"}]]

\* Checks find users that are collaborators and groups that are not deleted.
Present(e) == IF e \in Users THEN member[e] > 0 ELSE group[e] = "live"

InRemoval(e) == (\E j \in jobs : j.of = e) \/ (\E i \in doomed : i.entity = e)

\* What is given to an entity that is being removed, or has been, is late.
LateFor(es) == {e \in es : InRemoval(e) \/ ~Present(e)}

----------------------------------------------------------------------------
(* permissionItems/addItems: the items that are there are read before the  *)
(* transaction that inserts the new ones.                                  *)

CheckAdd(input) ==
    LET item == [entity |-> input.entity, target |-> input.target, action |-> input.action,
                 access |-> input.access, at |-> clock]
    IN  /\ clock < MaxAdds
        /\ Cardinality(calls) < MaxCalls
        /\ Present(input.entity)
        /\ calls' = calls \cup {[do |-> "add", item |-> item, insert |-> IsNew(items, item)]}
        /\ clock' = clock + 1
        /\ UNCHANGED <<doomed, items, assigned, member, group, request, jobs, removals, late>>

Add(c) ==
    /\ c.do = "add"
    /\ calls' = calls \ {c}
    /\ items' = IF c.insert THEN items \cup {c.item} ELSE items
    /\ late' = late \cup (IF c.insert THEN LateFor({c.item.entity}) ELSE {})
    /\ UNCHANGED <<doomed, assigned, member, group, request, jobs, clock, removals>>

\* The job of a deletePermissionItems call about an entity, of one access or
\* of both.
DeleteItems(e, accesses) ==
    /\ \E i \in items : i.entity = e /\ i.access \in accesses
    /\ items' = {i \in items : ~(i.entity = e /\ i.access \in accesses)}
    /\ doomed' = doomed \cap items'
    /\ UNCHANGED <<assigned, member, group, request, jobs, calls, clock, removals, late>>

----------------------------------------------------------------------------
(* permissionGroups: groups may be assigned to groups, in a circle too. *)

CheckAssign(pair) ==
    /\ Cardinality(calls) < MaxCalls
    /\ pair \notin assigned
    /\ Present(pair[1]) /\ Present(pair[2])
    /\ calls' = calls \cup {[do |-> "assign", pair |-> pair]}
    /\ UNCHANGED <<doomed, items, assigned, member, group, request, jobs, clock, removals, late>>

\* The transaction's own reading fails when the entity is a group that has
\* been deleted; it does not look at the group that is assigned again.
Assign(c) ==
    /\ c.do = "assign"
    /\ calls' = calls \ {c}
    /\ IF c.pair[1] \in Groups /\ group[c.pair[1]] # "live"
       THEN UNCHANGED <<assigned, late>>
       ELSE /\ assigned' = assigned \cup {c.pair}
            /\ late' = late \cup LateFor({c.pair[1], c.pair[2]})
    /\ UNCHANGED <<doomed, items, member, group, request, jobs, clock, removals>>

Unassign(pair) ==
    /\ pair \in assigned
    /\ assigned' = assigned \ {pair}
    /\ UNCHANGED <<doomed, items, member, group, request, jobs, calls, clock, removals, late>>

DeleteGroup(g) ==
    /\ removals < MaxRemovals /\ removals' = removals + 1
    /\ g # Public
    /\ group[g] = "live"
    /\ group' = [group EXCEPT ![g] = "deleted"]
    /\ jobs' = jobs \cup {[of |-> g, step |-> "items"]}
    /\ UNCHANGED <<doomed, items, assigned, member, request, calls, clock, late>>

----------------------------------------------------------------------------
(* collaborationRequests: time passes and updateRequest moves the time at   *)
(* which a request expires, so that an answer may be refused at any moment *)
(* and changes nothing then.                                               *)

\* A user has at most one pending request as long as the request that is found
\* for the address is the pending one: any one of them may be.
Send(r, u) ==
    /\ request[r].status = "none"
    /\ member[u] = 0
    /\ LET sent == {q \in Requests : /\ request[q].to = u
                                     /\ request[q].status \notin {"none", "deleted"}}
       IN  sent # {} => \E q \in sent : request[q].status # "pending"
    /\ request' = [request EXCEPT ![r] = [to |-> u, status |-> "pending"]]
    /\ UNCHANGED <<doomed, items, assigned, member, group, jobs, calls, clock, removals, late>>

Exists(r) == request[r].status \notin {"none", "deleted"}

Revoke(r) ==
    /\ Exists(r)
    /\ request[r].status # "revoked"
    /\ request' = [request EXCEPT ![r].status = "revoked"]
    /\ UNCHANGED <<doomed, items, assigned, member, group, jobs, calls, clock, removals, late>>

\* Whatever the request's status is; bounded at two memberships of one user.
Respond(r, answer) ==
    LET user == request[r].to IN
    /\ Exists(r)
    /\ request[r].status # answer \/ answer = "accepted"
    /\ request' = [request EXCEPT ![r].status = answer]
    /\ IF answer = "accepted"
       THEN /\ member[user] < 2
            /\ member' = [member EXCEPT ![user] = @ + 1]
            /\ late' = late \cup (IF InRemoval(user) THEN {user} ELSE {})
       ELSE UNCHANGED <<member, late>>
    /\ UNCHANGED <<doomed, items, assigned, group, jobs, calls, clock, removals>>

DeleteRequest(r) ==
    /\ Exists(r)
    /\ request' = [request EXCEPT ![r].status = "deleted"]
    /\ UNCHANGED <<doomed, items, assigned, member, group, jobs, calls, clock, removals, late>>

----------------------------------------------------------------------------
(* Removal: the memberships, or the group, are marked at once, and a job   *)
(* takes the rest.                                                         *)

RemoveCollaborator(u) ==
    /\ removals < MaxRemovals /\ removals' = removals + 1
    /\ member[u] > 0
    /\ member' = [member EXCEPT ![u] = 0]
    /\ jobs' = jobs \cup {[of |-> u, step |-> "items"]}
    /\ UNCHANGED <<doomed, items, assigned, group, request, calls, clock, late>>

\* Each item the entity has by now gets a job of its own; the page size is
\* larger than what is modelled.
EraseItems(j) ==
    /\ j.step = "items"
    /\ jobs' = (jobs \ {j}) \cup {[j EXCEPT !.step = "assigned"]}
    /\ doomed' = doomed \cup {i \in items : i.entity = j.of}
    /\ UNCHANGED <<items, assigned, member, group, request, calls, clock, removals, late>>

EraseItem(i) ==
    /\ items' = items \ {i}
    /\ doomed' = doomed \ {i}
    /\ UNCHANGED <<assigned, member, group, request, jobs, calls, clock, removals, late>>

\* Mutant: what the entity is assigned to is left.
EraseAssigned_OneSide(j) ==
    /\ j.step = "assigned"
    /\ jobs' = (jobs \ {j}) \cup {[j EXCEPT !.step = "self"]}
    /\ assigned' = {p \in assigned : p[2] # j.of}
    /\ member' = IF j.of \in Users THEN [member EXCEPT ![j.of] = 0] ELSE member
    /\ UNCHANGED <<doomed, items, group, request, calls, clock, removals, late>>

\* What is assigned to the entity, the workspace included, and what it is
\* assigned to.
EraseAssigned(j) ==
    /\ j.step = "assigned"
    /\ jobs' = (jobs \ {j}) \cup {[j EXCEPT !.step = "self"]}
    /\ assigned' = {p \in assigned : j.of \notin {p[1], p[2]}}
    /\ member' = IF j.of \in Users THEN [member EXCEPT ![j.of] = 0] ELSE member
    /\ UNCHANGED <<doomed, items, group, request, calls, clock, removals, late>>

\* Mutant: one membership is deleted.
EraseSelf_One(j) ==
    /\ j.step = "self"
    /\ jobs' = jobs \ {j}
    /\ IF j.of \in Users
       THEN /\ assigned' = {p \in assigned : p[1] # j.of}
            /\ member' = [member EXCEPT ![j.of] = @ - 1]
            /\ UNCHANGED group
       ELSE /\ group' = [group EXCEPT ![j.of] = "gone"]
            /\ UNCHANGED <<assigned, member>>
    /\ UNCHANGED <<doomed, items, request, calls, clock, removals, late>>

\* A user stays: what the job deletes is once more all that is assigned to it.
EraseSelf(j) ==
    /\ j.step = "self"
    /\ jobs' = jobs \ {j}
    /\ IF j.of \in Users
       THEN /\ assigned' = {p \in assigned : p[1] # j.of}
            /\ member' = [member EXCEPT ![j.of] = 0]
            /\ UNCHANGED group
       ELSE /\ group' = [group EXCEPT ![j.of] = "gone"]
            /\ UNCHANGED <<assigned, member>>
    /\ UNCHANGED <<doomed, items, request, calls, clock, removals, late>>

----------------------------------------------------------------------------

Next ==
    \/ \E input \in AddInputs : CheckAdd(input)
    \/ \E pair \in AssignInputs : CheckAssign(pair) \/ Unassign(pair)
    \/ \E c \in calls : Add(c) \/ Assign(c)
    \/ \E e \in Entities, accesses \in SUBSET BOOLEAN : DeleteItems(e, accesses)
    \/ \E g \in Groups : DeleteGroup(g)
    \/ \E r \in Requests, u \in Users : Send(r, u)
    \/ \E r \in Requests : Revoke(r) \/ DeleteRequest(r)
    \/ \E r \in Requests, answer \in {"accepted", "declined"} : Respond(r, answer)
    \/ \E u \in Users : RemoveCollaborator(u)
    \/ \E j \in jobs : EraseItems(j) \/ EraseAssigned(j) \/ EraseSelf(j)
    \/ \E i \in doomed : EraseItem(i)

Spec == Init /\ [][Next]_vars

----------------------------------------------------------------------------
(* Properties *)

Below(e) == UNION {Layers(assigned, e)[d] : d \in 1..Depth}

\* g inherits h: h is reached from g and g is not reached from h.
Inherits(g, h) == h \in Below(g) /\ g \notin Below(h)

\* No item that should win is passed over.  The item that decides is beaten by
\* none that is more specific, none of the agent itself if it is a group's,
\* none of a group that inherits its own, none of the agent's groups if it is
\* one of the public group's, and, within one entity, by none on a nearer
\* target and none that is newer on the same one.  Assignments that run in a
\* circle have no such order.
NoBetterItem ==
    (\A g \in Groups : g \notin Below(g)) =>
    \A u \in Users, target \in Files \cup {Workspace}, action \in Actions :
        \A i \in Deciding(items, assigned, u, target, action) :
            LET rivals == Applying(items, assigned, u, target, i.action)
                public == Reached(assigned, Public)
            IN  /\ i.action = Wildcard => Applying(items, assigned, u, target, action) = {}
                /\ \A j \in rivals :
                    /\ j.entity = u => i.entity = u
                    /\ ~Inherits(j.entity, i.entity)
                    /\ i.entity \in public => j.entity \in public
                    /\ (j.entity = i.entity /\ j.target # i.target) => i.target = target
                    /\ (j.entity = i.entity /\ j.target = i.target) => j.at <= i.at

\* The files an agent is shown in the workspace are those it may access, as
\* long as all the items that concern it are one entity's and name the action:
\* a file may be shown and not readable, or the other way round, only when
\* items of several entities or for every action meet.
ShownIsAllowed ==
    \A u \in Users, action \in Actions :
        LET mine == {i \in items : i.entity \in Having(assigned, u)}
            plain == /\ \A i, j \in mine : /\ i.entity = j.entity
                                           /\ i.target = j.target => i.access = j.access
                     /\ \A i \in mine : i.action # Wildcard
            may == MayAccess(items, assigned, u, Workspace, action)
        IN  plain => \A access \in (IF may = {} THEN {FALSE} ELSE may) :
                        Shown(items, assigned, u, action, access) =
                            {f \in Files : TRUE \in MayAccess(items, assigned, u, f, action)}

\* A collaborator or a group that is gone, and whose removal has ended, has no
\* item, and nothing is assigned to it or it to anything, unless a call gave it
\* something while it was being removed or after.
GoneHasNothing ==
    \A e \in Entities :
        (~Present(e) /\ ~InRemoval(e) /\ e \notin late) =>
            /\ \A i \in items : i.entity # e
            /\ \A p \in assigned : e \notin {p[1], p[2]}

\* One request to a user is pending at a time.
OnePending ==
    \A r, q \in Requests :
        (request[r].status = "pending" /\ request[q].status = "pending"
            /\ request[r].to = request[q].to) => r = q
=============================================================================
