---------------------------- MODULE Permissions ----------------------------
(***************************************************************************)
(* How fimidara decides whether an agent may do something, as operators    *)
(* over what is stored (contexts/authorizationChecks/checkAuthorizaton.ts  *)
(* and contexts/semantic/permission/model.ts).                             *)
(*                                                                         *)
(* An item gives or denies an entity (a user or a permission group) an     *)
(* action on a target.  Groups are assigned to entities, and an entity has *)
(* the items of every group it reaches.  Everybody has those of the        *)
(* workspace's public group, which rank after all others.                  *)
(***************************************************************************)
EXTENDS Naturals, Sequences, FiniteSets

CONSTANTS
    Users,      \* agents
    Groups,     \* permission groups
    Public,     \* workspace.publicPermissionGroupId
    Workspace,  \* the target that contains all others
    Files,      \* the targets directly inside it
    Actions,    \* the actions that are asked for
    Wildcard,   \* kFimidaraPermissionActions.wildcard
    Depth       \* maxDepth: how many assignments deep groups are looked for

ASSUME PermissionsAssumption ==
    /\ Public \in Groups
    /\ Users \cap Groups = {}
    /\ Workspace \notin Files
    /\ Wildcard \notin Actions
    /\ Depth \in Nat \ {0}

Entities == Users \cup Groups

Item == [entity : Entities, target : Files \cup {Workspace},
         action : Actions \cup {Wildcard}, access : BOOLEAN, at : Nat]

\* A target and what contains it, nearest first.
Containers(target) ==
    IF target = Workspace THEN <<Workspace>> ELSE <<target, Workspace>>

----------------------------------------------------------------------------
(* The entities whose items an agent has, and their order. *)

\* Layers(assigned, e)[d]: what d assignments lead to from e.
Layers(assigned, e) ==
    LET layer[d \in 0..Depth] ==
            IF d = 0 THEN {e}
            ELSE {g \in Groups : \E f \in layer[d - 1] : <<f, g>> \in assigned}
    IN  layer

Reached(assigned, e) == UNION {Layers(assigned, e)[d] : d \in 0..Depth}

\* Mutant: an entity has the order of the first layer it is found in.
Order_First(assigned, e, f) ==
    LET layer == Layers(assigned, e)
        found == {d \in 0..Depth : f \in layer[d]}
    IN  CHOOSE d \in found : \A c \in found : d <= c

\* An entity found in several layers has the order of the last.
Order(assigned, e, f) ==
    LET layer == Layers(assigned, e)
        found == {d \in 0..Depth : f \in layer[d]}
    IN  CHOOSE d \in found : \A c \in found : c <= d

Having(assigned, agent) == Reached(assigned, agent) \cup Reached(assigned, Public)

\* The agent's list, then the public group's: an entity in both ranks by the
\* second, because an id is indexed by the last place it has in the list.
Rank(assigned, agent, f) ==
    IF f \in Reached(assigned, Public)
    THEN Depth + 1 + Order(assigned, Public, f)
    ELSE Order(assigned, agent, f)

----------------------------------------------------------------------------
(* The decision. *)

Place(target, t) == CHOOSE n \in DOMAIN Containers(target) : Containers(target)[n] = t

Applying(items, assigned, agent, target, action) ==
    {i \in items : /\ i.entity \in Having(assigned, agent)
                   /\ \E n \in DOMAIN Containers(target) : i.target = Containers(target)[n]
                   /\ i.action = action}

\* i is sorted before j: by entity, then by target, then the newest first.
Before(assigned, agent, target, i, j) ==
    IF i.entity # j.entity THEN Rank(assigned, agent, i.entity) < Rank(assigned, agent, j.entity)
    ELSE IF i.target # j.target THEN Place(target, i.target) < Place(target, j.target)
    ELSE i.at > j.at

\* Items for the action itself, or, if there is none, those for every action.
Considered(items, assigned, agent, target, action) ==
    LET exact == Applying(items, assigned, agent, target, action)
    IN  IF exact # {} THEN exact ELSE Applying(items, assigned, agent, target, Wildcard)

\* The items that may come first: two groups of one order are sorted as the
\* database returned them.
Deciding(items, assigned, agent, target, action) ==
    LET considered == Considered(items, assigned, agent, target, action)
    IN  {i \in considered : \A j \in considered : ~Before(assigned, agent, target, j, i)}

MayAccess(items, assigned, agent, target, action) ==
    {i.access : i \in Deciding(items, assigned, agent, target, action)}

----------------------------------------------------------------------------
(* What of the workspace an agent is shown (resolveTargetChildrenAccessCheck). *)

ChildItems(items, assigned, agent, action) ==
    {i \in items : /\ i.entity \in Having(assigned, agent)
                   /\ i.target \in Files
                   /\ i.action \in {action, Wildcard}}

FilesWith(items, assigned, agent, action, access) ==
    {i.target : i \in {j \in ChildItems(items, assigned, agent, action) : j.access = access}}

\* Mutant: full access leaves out nothing.
Shown_All(items, assigned, agent, action, access) ==
    IF access THEN Files
    ELSE FilesWith(items, assigned, agent, action, TRUE)

\* Full access leaves out the denied files, and less than that names the
\* allowed ones.  The two differ only when the workspace itself is decided.
Shown(items, assigned, agent, action, access) ==
    IF access THEN Files \ FilesWith(items, assigned, agent, action, FALSE)
    ELSE FilesWith(items, assigned, agent, action, TRUE)

----------------------------------------------------------------------------
(* What an addPermissionItems call inserts. *)

\* An item is left out if the entity has one like it, or one for every action,
\* whatever else was added since.
IsNew(items, item) ==
    ~\E i \in items : /\ i.entity = item.entity
                      /\ i.target = item.target
                      /\ i.access = item.access
                      /\ i.action \in {item.action, Wildcard}
=============================================================================
