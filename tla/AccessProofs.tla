---------------------------- MODULE AccessProofs ----------------------------
(***************************************************************************)
(* What a removal leaves behind, which items decide, and what is shown of  *)
(* a workspace, for any users, groups, inputs and bounds.                  *)
(***************************************************************************)
EXTENDS Access, FiniteSetTheorems, WellFoundedInduction, TLAPS

\* The step of each action, without the inputs that Next chooses.
LEMMA NextCases ==
    ASSUME NEW P, [Next]_vars,
           \A input \in AddInputs : CheckAdd(input) => P,
           \A pair \in AssignInputs : CheckAssign(pair) \/ Unassign(pair) => P,
           \A c \in calls : Add(c) \/ Assign(c) => P,
           \A e \in Entities, accesses \in SUBSET BOOLEAN : DeleteItems(e, accesses) => P,
           \A g \in Groups : DeleteGroup(g) => P,
           \A r \in Requests, u \in Users : Send(r, u) => P,
           \A r \in Requests : Revoke(r) \/ DeleteRequest(r) => P,
           \A r \in Requests, answer \in {"accepted", "declined"} : Respond(r, answer) => P,
           \A u \in Users : RemoveCollaborator(u) => P,
           \A j \in jobs : EraseItems(j) \/ EraseAssigned(j) \/ EraseSelf(j) => P,
           \A i \in doomed : EraseItem(i) => P,
           UNCHANGED vars => P
    PROVE  P
  BY Zenon DEF Next

\* Every variable keeps its type.
THEOREM TypeCorrect == Spec => []TypeOK
<1>1. Init => TypeOK
  BY AccessAssumption, PermissionsAssumption, SMTT(20) DEF Init, TypeOK, Statuses
<1>2. TypeOK /\ [Next]_vars => TypeOK'
  <2> SUFFICES ASSUME TypeOK, [Next]_vars PROVE TypeOK'
    OBVIOUS
  <2> USE AccessAssumption
  <2>1. ASSUME NEW input \in AddInputs, CheckAdd(input) PROVE TypeOK'
    <3> DEFINE item == [entity |-> input.entity, target |-> input.target,
                        action |-> input.action, access |-> input.access, at |-> clock]
    <3>1. item \in Item
      BY <2>1 DEF TypeOK, Item
    <3>2. [do |-> "add", item |-> item, insert |-> IsNew(items, item)] \in Call
      <4>1. IsNew(items, item) \in BOOLEAN
        BY Zenon DEF IsNew
      <4> HIDE DEF item
      <4> QED BY <3>1, <4>1 DEF Call
    <3>3. calls' \subseteq Call
      BY <2>1, <3>2, Zenon DEF CheckAdd, TypeOK
    <3>4. clock' \in 0..MaxAdds
      BY <2>1 DEF CheckAdd, TypeOK
    <3> QED BY <2>1, <3>3, <3>4, Zenon DEF CheckAdd, TypeOK
  <2>2. ASSUME NEW pair \in AssignInputs, CheckAssign(pair) \/ Unassign(pair) PROVE TypeOK'
    BY <2>2 DEF CheckAssign, Unassign, TypeOK, Call
  <2>3. ASSUME NEW c \in calls, Add(c) \/ Assign(c) PROVE TypeOK'
    <3>1. c \in Call
      BY DEF TypeOK
    <3>2. CASE Add(c)
      <4>1. c.item \in Item
        BY <3>1, <3>2 DEF Call, Add
      <4>2. c.item.entity \in Entities
        BY <4>1 DEF Item
      <4>3. late' \subseteq Entities
        BY <3>2, <4>2 DEF Add, LateFor, TypeOK
      <4> QED BY <3>2, <4>1, <4>3 DEF Add, TypeOK
    <3>3. CASE Assign(c)
      <4>1. c.pair \in AssignInputs /\ c.pair[1] \in Entities /\ c.pair[2] \in Entities
        BY <3>1, <3>3 DEF Call, Assign, Entities
      <4>2. late' \subseteq Entities
        BY <3>3, <4>1 DEF Assign, LateFor, TypeOK
      <4> QED BY <3>3, <4>1, <4>2 DEF Assign, TypeOK
    <3> QED BY <2>3, <3>2, <3>3
  <2>4. ASSUME NEW e \in Entities, NEW accesses \in SUBSET BOOLEAN, DeleteItems(e, accesses)
        PROVE  TypeOK'
    BY <2>4 DEF DeleteItems, TypeOK
  <2>5. ASSUME NEW g \in Groups, DeleteGroup(g) PROVE TypeOK'
    BY <2>5 DEF DeleteGroup, TypeOK, Steps, Entities
  <2>6. ASSUME NEW r \in Requests, NEW u \in Users, Send(r, u) PROVE TypeOK'
    BY <2>6 DEF Send, TypeOK, Statuses
  <2>7. ASSUME NEW r \in Requests, Revoke(r) \/ DeleteRequest(r) PROVE TypeOK'
    BY <2>7 DEF Revoke, DeleteRequest, TypeOK, Statuses
  <2>8. ASSUME NEW r \in Requests, NEW answer \in {"accepted", "declined"}, Respond(r, answer)
        PROVE  TypeOK'
    BY <2>8 DEF Respond, TypeOK, Statuses, Entities
  <2>9. ASSUME NEW u \in Users, RemoveCollaborator(u) PROVE TypeOK'
    BY <2>9 DEF RemoveCollaborator, TypeOK, Steps, Entities
  <2>10. ASSUME NEW j \in jobs, EraseItems(j) \/ EraseAssigned(j) \/ EraseSelf(j) PROVE TypeOK'
    <3>1. j \in [of : Entities, step : Steps]
      BY DEF TypeOK
    <3>2. CASE EraseItems(j)
      BY <3>1, <3>2 DEF EraseItems, TypeOK, Steps
    <3>3. CASE EraseAssigned(j)
      BY <3>1, <3>3 DEF EraseAssigned, TypeOK, Steps
    <3>4. CASE EraseSelf(j)
      BY <3>1, <3>4 DEF EraseSelf, TypeOK, Entities
    <3> QED BY <2>10, <3>2, <3>3, <3>4
  <2>12. ASSUME NEW i \in doomed, EraseItem(i) PROVE TypeOK'
    BY <2>12 DEF EraseItem, TypeOK
  <2>11. ASSUME UNCHANGED vars PROVE TypeOK'
    BY <2>11 DEF vars, TypeOK
  <2> HIDE AccessAssumption
  <2> QED BY <2>1, <2>2, <2>3, <2>4, <2>5, <2>6, <2>7, <2>8, <2>9, <2>10, <2>11, <2>12, NextCases, Zenon
<1> QED BY <1>1, <1>2, PTL DEF Spec

(***************************************************************************)
(* The argument for what a removal leaves: as long as nothing comes late,  *)
(* an entity that is not there has items only while its job has not erased *)
(* them or each has a job, and is assigned, or something to it, only while *)
(* the job has not come past that; and what is there is not being removed. *)
(***************************************************************************)
Step(e, steps) == \E j \in jobs : j.of = e /\ j.step \in steps

ItemsHeld(e) ==
    \A i \in items : i.entity = e => Present(e) \/ Step(e, {"items"}) \/ i \in doomed
AssignedHeld(e) ==
    (\E p \in assigned : e \in {p[1], p[2]}) => Present(e) \/ Step(e, {"items", "assigned"})
NotBoth(e) == Present(e) => ~InRemoval(e)

RemovalInv == \A e \in Entities : e \notin late => ItemsHeld(e) /\ AssignedHeld(e) /\ NotBoth(e)

LEMMA RemovalImplies == RemovalInv => GoneHasNothing
  BY DEF RemovalInv, GoneHasNothing, ItemsHeld, AssignedHeld, Step, InRemoval

\* A step that neither makes an entity absent nor touches jobs, and adds to the
\* items and assignments only what belongs to entities that are there.
LEMMA Harmless ==
    ASSUME RemovalInv, UNCHANGED <<member, group, jobs>>, late \subseteq late',
           doomed' \subseteq doomed, doomed \cap items' \subseteq doomed',
           \A i \in items' \ items : i.entity \in late' \/ Present(i.entity),
           \A p \in assigned' \ assigned :
                \A e \in {p[1], p[2]} : e \in late' \/ Present(e)
    PROVE  RemovalInv'
  <1> SUFFICES ASSUME NEW e \in Entities, e \notin late'
               PROVE  (ItemsHeld(e) /\ AssignedHeld(e) /\ NotBoth(e))'
    BY DEF RemovalInv
  <1>1. e \notin late /\ ItemsHeld(e) /\ AssignedHeld(e) /\ NotBoth(e)
    BY DEF RemovalInv
  <1>2. (Present(e)' <=> Present(e)) /\ (InRemoval(e)' => InRemoval(e))
    BY DEF Present, InRemoval
  <1>3. \A steps : Step(e, steps)' <=> Step(e, steps)
    BY DEF Step
  <1>4. ItemsHeld(e)'
    BY <1>1, <1>2, <1>3 DEF ItemsHeld
  <1>5. AssignedHeld(e)'
    BY <1>1, <1>2, <1>3 DEF AssignedHeld
  <1> QED BY <1>1, <1>2, <1>4, <1>5 DEF NotBoth

\* What is gone and not given anything late has nothing, however calls, jobs
\* and the answers to requests interleave.
THEOREM RemovalErases == Spec => []GoneHasNothing
<1>1. Init => RemovalInv
  BY DEF Init, RemovalInv, ItemsHeld, AssignedHeld, NotBoth, InRemoval
<1>2. TypeOK /\ RemovalInv /\ [Next]_vars => RemovalInv'
  <2> SUFFICES ASSUME TypeOK, RemovalInv, [Next]_vars PROVE RemovalInv'
    OBVIOUS
  <2>1. ASSUME NEW input \in AddInputs, CheckAdd(input) PROVE RemovalInv'
    BY <2>1, Harmless DEF CheckAdd
  <2>2. ASSUME NEW pair \in AssignInputs, CheckAssign(pair) \/ Unassign(pair) PROVE RemovalInv'
    BY <2>2, Harmless DEF CheckAssign, Unassign
  <2>3. ASSUME NEW c \in calls, Add(c) \/ Assign(c) PROVE RemovalInv'
    <3>1. CASE Add(c)
      BY <3>1, Harmless DEF Add, LateFor
    <3>2. CASE Assign(c)
      <4>1. \A p \in assigned' \ assigned : \A e \in {p[1], p[2]} : e \in late' \/ Present(e)
        BY <3>2 DEF Assign, LateFor
      <4> QED BY <3>2, <4>1, Harmless DEF Assign
    <3> QED BY <2>3, <3>1, <3>2
  <2>4. ASSUME NEW e \in Entities, NEW accesses \in SUBSET BOOLEAN, DeleteItems(e, accesses)
        PROVE  RemovalInv'
    BY <2>4, Harmless DEF DeleteItems
  <2>5. ASSUME NEW g \in Groups, DeleteGroup(g) PROVE RemovalInv'
    <3> SUFFICES ASSUME NEW e \in Entities, e \notin late'
                 PROVE  (ItemsHeld(e) /\ AssignedHeld(e) /\ NotBoth(e))'
      BY DEF RemovalInv
    <3>1. e \notin late /\ ItemsHeld(e) /\ AssignedHeld(e) /\ NotBoth(e)
      BY <2>5 DEF DeleteGroup, RemovalInv
    <3>2. CASE e = g
      <4>0. [of |-> g, step |-> "items"] \in jobs'
        BY <2>5, Zenon DEF DeleteGroup
      <4>1. Step(e, {"items"})' /\ Step(e, {"items", "assigned"})'
        BY <3>2, <4>0 DEF Step
      <4>2. ~Present(e)'
        BY <2>5, <3>2, PermissionsAssumption DEF DeleteGroup, Present, TypeOK
      <4> QED BY <4>1, <4>2 DEF ItemsHeld, AssignedHeld, NotBoth
    <3>3. CASE e # g
      <4>1. (Present(e)' <=> Present(e)) /\ (InRemoval(e)' <=> InRemoval(e))
        BY <2>5, <3>3 DEF DeleteGroup, Present, InRemoval, TypeOK, Entities
      <4>2. \A steps : Step(e, steps)' <=> Step(e, steps)
        BY <2>5, <3>3 DEF DeleteGroup, Step
      <4>3. items' = items /\ assigned' = assigned /\ doomed' = doomed
        BY <2>5 DEF DeleteGroup
      <4>4. ItemsHeld(e)'
        BY <3>1, <4>1, <4>2, <4>3 DEF ItemsHeld
      <4>5. AssignedHeld(e)'
        BY <3>1, <4>1, <4>2, <4>3 DEF AssignedHeld
      <4> QED BY <3>1, <4>1, <4>4, <4>5 DEF NotBoth
    <3> QED BY <3>2, <3>3
  <2>6. ASSUME NEW r \in Requests, NEW u \in Users, Send(r, u) PROVE RemovalInv'
    BY <2>6, Harmless DEF Send
  <2>7. ASSUME NEW r \in Requests, Revoke(r) \/ DeleteRequest(r) PROVE RemovalInv'
    BY <2>7, Harmless DEF Revoke, DeleteRequest
  <2>8. ASSUME NEW r \in Requests, NEW answer \in {"accepted", "declined"}, Respond(r, answer)
        PROVE  RemovalInv'
    <3>1. CASE answer # "accepted"
      BY <2>8, <3>1, Harmless DEF Respond
    <3>2. CASE answer = "accepted"
      <4> DEFINE u == request[r].to
      <4> SUFFICES ASSUME NEW e \in Entities, e \notin late'
                   PROVE  (ItemsHeld(e) /\ AssignedHeld(e) /\ NotBoth(e))'
        BY DEF RemovalInv
      <4>1. e \notin late /\ ItemsHeld(e) /\ AssignedHeld(e) /\ NotBoth(e)
        BY <2>8, <3>2 DEF Respond, RemovalInv
      <4>2. u \in Users
        BY DEF TypeOK
      <4>3. (InRemoval(e)' <=> InRemoval(e)) /\ \A steps : Step(e, steps)' <=> Step(e, steps)
        BY <2>8 DEF Respond, InRemoval, Step
      <4>4. CASE e = u
        <5>1. ~InRemoval(e)
          BY <2>8, <3>2, <4>4 DEF Respond
        <5>2. Present(e)'
          BY <2>8, <3>2, <4>2, <4>4 DEF Respond, Present, TypeOK
        <5> QED BY <4>3, <5>1, <5>2 DEF ItemsHeld, AssignedHeld, NotBoth
      <4>5. CASE e # u
        <5>1. Present(e)' <=> Present(e)
          BY <2>8, <3>2, <4>2, <4>5 DEF Respond, Present, TypeOK
        <5> QED BY <2>8, <4>1, <4>3, <5>1 DEF Respond, ItemsHeld, AssignedHeld, NotBoth
      <4> QED BY <4>4, <4>5
    <3> QED BY <3>1, <3>2
  <2>9. ASSUME NEW u \in Users, RemoveCollaborator(u) PROVE RemovalInv'
    <3> SUFFICES ASSUME NEW e \in Entities, e \notin late'
                 PROVE  (ItemsHeld(e) /\ AssignedHeld(e) /\ NotBoth(e))'
      BY DEF RemovalInv
    <3>1. e \notin late /\ ItemsHeld(e) /\ AssignedHeld(e) /\ NotBoth(e)
      BY <2>9 DEF RemoveCollaborator, RemovalInv
    <3>2. CASE e = u
      <4>0. [of |-> u, step |-> "items"] \in jobs'
        BY <2>9, Zenon DEF RemoveCollaborator
      <4>1. Step(e, {"items"})' /\ Step(e, {"items", "assigned"})'
        BY <3>2, <4>0 DEF Step
      <4>2. ~Present(e)'
        BY <2>9, <3>2 DEF RemoveCollaborator, Present, TypeOK
      <4> QED BY <4>1, <4>2 DEF ItemsHeld, AssignedHeld, NotBoth
    <3>3. CASE e # u
      <4>1. (Present(e)' <=> Present(e)) /\ (InRemoval(e)' <=> InRemoval(e))
        BY <2>9, <3>3 DEF RemoveCollaborator, Present, InRemoval, TypeOK, Entities
      <4>2. \A steps : Step(e, steps)' <=> Step(e, steps)
        BY <2>9, <3>3 DEF RemoveCollaborator, Step
      <4>3. items' = items /\ assigned' = assigned /\ doomed' = doomed
        BY <2>9 DEF RemoveCollaborator
      <4>4. ItemsHeld(e)'
        BY <3>1, <4>1, <4>2, <4>3 DEF ItemsHeld
      <4>5. AssignedHeld(e)'
        BY <3>1, <4>1, <4>2, <4>3 DEF AssignedHeld
      <4> QED BY <3>1, <4>1, <4>4, <4>5 DEF NotBoth
    <3> QED BY <3>2, <3>3
  <2>10. ASSUME NEW j \in jobs, EraseItems(j) \/ EraseAssigned(j) \/ EraseSelf(j)
         PROVE  RemovalInv'
    <3>0. j \in [of : Entities, step : Steps]
      BY DEF TypeOK
    <3> SUFFICES ASSUME NEW e \in Entities, e \notin late'
                 PROVE  (ItemsHeld(e) /\ AssignedHeld(e) /\ NotBoth(e))'
      BY DEF RemovalInv
    <3>1. e \notin late /\ ItemsHeld(e) /\ AssignedHeld(e) /\ NotBoth(e)
      BY <2>10 DEF EraseItems, EraseAssigned, EraseSelf, RemovalInv
    <3>2. Present(e)' => Present(e)
      BY <2>10, <3>0 DEF EraseItems, EraseAssigned, EraseSelf, Present, TypeOK, Entities
    <3>3. InRemoval(e)' => InRemoval(e)
      BY <2>10, <3>0 DEF EraseItems, EraseAssigned, EraseSelf, InRemoval
    <3>4. NotBoth(e)'
      BY <3>1, <3>2, <3>3 DEF NotBoth
    <3>5. InRemoval(j.of)
      BY DEF InRemoval
    <3>6. e # j.of => (Present(e)' <=> Present(e))
      BY <2>10, <3>0 DEF EraseItems, EraseAssigned, EraseSelf, Present, TypeOK, Entities
    <3>7. e = j.of => ~Present(e)
      BY <3>1, <3>5 DEF NotBoth
    <3>8. Present(e) => Present(e)'
      BY <3>6, <3>7
    <3>9. ItemsHeld(e)'
      <4> SUFFICES ASSUME NEW i \in items', i.entity = e, ~Present(e)'
                   PROVE  Step(e, {"items"})' \/ i \in doomed'
        BY DEF ItemsHeld
      <4>1. i \in items
        BY <2>10 DEF EraseItems, EraseAssigned, EraseSelf
      <4>2. CASE i \in doomed
        BY <2>10, <4>2 DEF EraseItems, EraseAssigned, EraseSelf
      <4>3. CASE i \notin doomed
        <5>1. PICK k \in jobs : k.of = e /\ k.step = "items"
          BY <3>1, <3>8, <4>1, <4>3 DEF ItemsHeld, Step
        <5>2. CASE k = j
          BY <2>10, <4>1, <5>1, <5>2 DEF EraseItems, EraseAssigned, EraseSelf
        <5>3. CASE k # j
          <6>1. k \in jobs'
            BY <2>10, <5>1, <5>3 DEF EraseItems, EraseAssigned, EraseSelf
          <6> QED BY <5>1, <6>1 DEF Step
        <5> QED BY <5>2, <5>3
      <4> QED BY <4>2, <4>3
    <3>10. AssignedHeld(e)'
      <4> SUFFICES ASSUME NEW p \in assigned', e \in {p[1], p[2]}, ~Present(e)'
                   PROVE  Step(e, {"items", "assigned"})'
        BY DEF AssignedHeld
      <4>1. p \in assigned
        BY <2>10 DEF EraseItems, EraseAssigned, EraseSelf
      <4>2. PICK k \in jobs : k.of = e /\ k.step \in {"items", "assigned"}
        BY <3>1, <3>8, <4>1 DEF AssignedHeld, Step
      <4>3. CASE k # j
        <5>1. k \in jobs'
          BY <2>10, <4>2, <4>3 DEF EraseItems, EraseAssigned, EraseSelf
        <5> QED BY <4>2, <5>1 DEF Step
      <4>4. CASE k = j
        <5>1. ~EraseAssigned(j) /\ ~EraseSelf(j)
          BY <4>2, <4>4 DEF EraseAssigned, EraseSelf
        <5>2. EraseItems(j)
          BY <2>10, <5>1
        <5> DEFINE next == [j EXCEPT !.step = "assigned"]
        <5>3. next \in jobs' /\ next.of = e /\ next.step = "assigned"
          BY <3>0, <4>2, <4>4, <5>2 DEF EraseItems
        <5> QED BY <5>3 DEF Step
      <4> QED BY <4>3, <4>4
    <3> QED BY <3>4, <3>9, <3>10
  <2>12. ASSUME NEW i \in doomed, EraseItem(i) PROVE RemovalInv'
    <3>1. doomed' \subseteq doomed /\ doomed \cap items' \subseteq doomed' /\ items' \subseteq items
      BY <2>12 DEF EraseItem, TypeOK
    <3> QED BY <2>12, <3>1, Harmless DEF EraseItem
  <2>11. ASSUME UNCHANGED vars PROVE RemovalInv'
    BY <2>11, Harmless DEF vars
  <2> QED BY <2>1, <2>2, <2>3, <2>4, <2>5, <2>6, <2>7, <2>8, <2>9, <2>10, <2>11, <2>12, NextCases, Zenon
<1> QED BY <1>1, <1>2, TypeCorrect, RemovalImplies, PTL DEF Spec

-----------------------------------------------------------------------------
(* Induction over the natural numbers, as a statement about a set of them:  *)
(* a set of intervals has a least one by the well-foundedness of finite     *)
(* sets.                                                                     *)

LEMMA LeastNumber ==
    ASSUME NEW T \in SUBSET Nat, T # {}
    PROVE  \E x \in T : \A y \in T : x <= y
<1> DEFINE F == {0..x : x \in T}
<1>1. IsWellFoundedOn(StrictSubsetOrdering(Nat), FiniteSubsetsOf(Nat))
  BY FS_StrictSubsetOrderingWellFounded
<1>2. F \subseteq FiniteSubsetsOf(Nat) /\ F # {}
  <2>1. \A x \in T : IsFiniteSet(0..x) /\ 0..x \subseteq Nat
    BY FS_Interval
  <2> QED BY <2>1 DEF FiniteSubsetsOf
<1>3. \E X \in F : \A Y \in F : ~(<<Y, X>> \in StrictSubsetOrdering(Nat))
  <2> HIDE DEF F
  <2> QED BY <1>1, <1>2, WFMin
<1>4. PICK x \in T : \A y \in T : ~(<<0..y, 0..x>> \in StrictSubsetOrdering(Nat))
  BY <1>3
<1>5. SUFFICES ASSUME NEW y \in T, y < x PROVE FALSE
  BY <1>4
<1>6. 0..y \in SUBSET Nat /\ 0..x \in SUBSET Nat /\ 0..y \subseteq 0..x /\ 0..y # 0..x
  <2>1. x \in 0..x /\ x \notin 0..y
    BY <1>5
  <2> QED BY <1>5, <2>1
<1>7. <<0..y, 0..x>> \in StrictSubsetOrdering(Nat)
  BY <1>6, Zenon DEF StrictSubsetOrdering
<1> QED BY <1>4, <1>7

LEMMA SetInduction ==
    ASSUME NEW T, 0 \in T, \A n \in Nat : n \in T => n + 1 \in T
    PROVE  Nat \subseteq T
<1> SUFFICES ASSUME Nat \ T # {} PROVE FALSE
  OBVIOUS
<1>1. PICK x \in Nat \ T : \A y \in Nat \ T : x <= y
  BY LeastNumber
<1>2. x # 0 /\ x - 1 \in Nat
  BY <1>1
<1> QED BY <1>1, <1>2

LEMMA MostNumber ==
    ASSUME NEW n \in Nat, NEW T \in SUBSET (0..n), T # {}
    PROVE  \E x \in T : \A y \in T : y <= x
<1> DEFINE D == {n - x : x \in T}
<1>1. D \in SUBSET Nat /\ D # {}
  <2>1. \A x \in T : n - x \in Nat
    OBVIOUS
  <2>2. D \subseteq Nat
    BY <2>1
  <2> QED BY <2>2
<1>2. PICK d \in D : \A c \in D : d <= c
  <2> HIDE DEF D
  <2> QED BY <1>1, LeastNumber
<1>3. PICK x \in T : d = n - x
  OBVIOUS
<1>4. \A y \in T : n - y \in D
  OBVIOUS
<1> HIDE DEF D
<1>5. ASSUME NEW y \in T PROVE y <= x
  <2>1. n - x <= n - y
    BY <1>2, <1>3, <1>4
  <2>2. x \in Nat /\ y \in Nat
    OBVIOUS
  <2> QED BY <2>1, <2>2
<1> QED BY <1>5

-----------------------------------------------------------------------------
(* What the layers of assignments are, and how they compose.                *)

\* A layer function of the depth n.
Onward(pairs, S) == {g \in Groups : \E f \in S : <<f, g>> \in pairs}
IsLayers(pairs, e, n, layer) ==
    layer = [d \in 0..n |-> IF d = 0 THEN {e} ELSE Onward(pairs, layer[d - 1])]

\* There is one of every depth, so that Layers is one.
LEMMA LayersDef ==
    ASSUME NEW pairs, NEW e
    PROVE  IsLayers(pairs, e, Depth, Layers(pairs, e))
<1> DEFINE Have == {n \in Nat : \E layer : IsLayers(pairs, e, n, layer)}
<1>1. 0 \in Have
  <2>1. IsLayers(pairs, e, 0, [d \in 0..0 |-> {e}])
    BY DEF IsLayers
  <2> QED BY <2>1
<1>2. ASSUME NEW n \in Nat, n \in Have PROVE n + 1 \in Have
  <2>1. PICK layer : IsLayers(pairs, e, n, layer)
    BY <1>2
  <2> DEFINE more == [d \in 0..(n + 1) |-> IF d <= n THEN layer[d] ELSE Onward(pairs, layer[n])]
  <2>2. IsLayers(pairs, e, n + 1, more)
    <3>1. SUFFICES ASSUME NEW d \in 0..(n + 1)
                   PROVE  more[d] = IF d = 0 THEN {e} ELSE Onward(pairs, more[d - 1])
      BY DEF IsLayers
    <3>2. CASE d = 0
      BY <2>1, <3>2 DEF IsLayers
    <3>3. CASE d # 0 /\ d <= n
      <4>1. d \in 0..n /\ d - 1 \in 0..(n + 1) /\ d - 1 <= n
        BY <3>3
      <4>2. more[d] = layer[d] /\ more[d - 1] = layer[d - 1]
        BY <4>1, <3>3
      <4> QED BY <2>1, <3>3, <4>1, <4>2 DEF IsLayers
    <3>4. CASE d = n + 1
      <4>1. more[d] = Onward(pairs, layer[n]) /\ more[d - 1] = layer[n]
        BY <3>4
      <4> QED BY <3>4, <4>1
    <3> QED BY <3>2, <3>3, <3>4
  <2>3. \E l : IsLayers(pairs, e, n + 1, l)
    <3> HIDE DEF more
    <3> QED BY <2>2
  <2> QED BY <2>3
<1>3. \E layer : IsLayers(pairs, e, Depth, layer)
  <2>1. Nat \subseteq Have
    <3> HIDE DEF Have
    <3> QED BY <1>1, <1>2, SetInduction
  <2> QED BY <2>1, PermissionsAssumption
<1>4. IsLayers(pairs, e, Depth, CHOOSE layer : IsLayers(pairs, e, Depth, layer))
  BY <1>3, Zenon
<1>5. Layers(pairs, e) = CHOOSE layer : IsLayers(pairs, e, Depth, layer)
  BY Zenon DEF Layers, IsLayers, Onward
<1> QED BY <1>4, <1>5, Zenon

LEMMA LayerFacts ==
    ASSUME NEW pairs, NEW e
    PROVE  /\ Layers(pairs, e)[0] = {e}
           /\ \A d \in 1..Depth :
                 Layers(pairs, e)[d] = {g \in Groups : \E f \in Layers(pairs, e)[d - 1] : <<f, g>> \in pairs}
           /\ \A d \in Nat : d + 1 \in 0..Depth =>
                 Layers(pairs, e)[d + 1] = {g \in Groups : \E f \in Layers(pairs, e)[d] : <<f, g>> \in pairs}
<1>0. Depth \in Nat /\ 0 \in 0..Depth
  BY PermissionsAssumption
<1>1. ASSUME NEW L, IsLayers(pairs, e, Depth, L)
      PROVE  L[0] = {e} /\ \A d \in 1..Depth : L[d] = Onward(pairs, L[d - 1])
  <2>1. L[0] = {e}
    BY <1>0, <1>1 DEF IsLayers
  <2>2. ASSUME NEW d \in 1..Depth PROVE L[d] = Onward(pairs, L[d - 1])
    <3>1. d \in 0..Depth /\ d # 0
      BY <1>0
    <3> QED BY <1>1, <3>1 DEF IsLayers
  <2> QED BY <2>1, <2>2
<1>2. /\ Layers(pairs, e)[0] = {e}
      /\ \A d \in 1..Depth : Layers(pairs, e)[d] = Onward(pairs, Layers(pairs, e)[d - 1])
  BY <1>1, LayersDef
<1>3. ASSUME NEW d \in Nat, d + 1 \in 0..Depth
      PROVE  Layers(pairs, e)[d + 1] = Onward(pairs, Layers(pairs, e)[d])
  <2>1. d + 1 \in 1..Depth /\ (d + 1) - 1 = d
    BY <1>3
  <2> QED BY <1>2, <2>1
<1> QED BY <1>2, <1>3 DEF Onward

\* Who is d assignments away is d levels deeper, if every assignment leads deeper.
Deepens(level, pairs) ==
    /\ level \in [Entities -> 0..Depth]
    /\ \A p \in pairs : p[1] \in Entities /\ p[2] \in Groups /\ level[p[1]] < level[p[2]]

LEMMA LevelGrows ==
    ASSUME NEW pairs, NEW level, Deepens(level, pairs), NEW e \in Entities
    PROVE  \A d \in 0..Depth : \A f \in Layers(pairs, e)[d] :
              f \in Entities /\ level[f] >= level[e] + d
<1> DEFINE L == Layers(pairs, e)
           T == {d \in Nat : d <= Depth => \A f \in L[d] : f \in Entities /\ level[f] >= level[e] + d}
<1>0. Depth \in Nat /\ Groups \subseteq Entities
  BY PermissionsAssumption DEF Entities
<1>1. 0 \in T
  <2>1. L[0] = {e} /\ level[e] \in Nat
    BY <1>0, LayerFacts DEF Deepens
  <2> QED BY <2>1
<1>2. ASSUME NEW d \in Nat, d \in T PROVE d + 1 \in T
  <2>1. SUFFICES ASSUME d + 1 <= Depth, NEW g \in L[d + 1]
                 PROVE  g \in Entities /\ level[g] >= level[e] + (d + 1)
    OBVIOUS
  <2>2. PICK f \in L[d] : <<f, g>> \in pairs /\ g \in Groups
    BY <1>0, <2>1, LayerFacts
  <2>3. f \in Entities /\ level[f] >= level[e] + d
    BY <1>0, <1>2, <2>1
  <2>4. level[f] < level[g] /\ g \in Entities
    BY <1>0, <2>2 DEF Deepens
  <2>5. level[e] \in Nat /\ level[f] \in Nat /\ level[g] \in Nat
    BY <1>0, <2>3, <2>4 DEF Deepens
  <2> QED BY <2>3, <2>4, <2>5
<1>3. Nat \subseteq T
  <2> HIDE DEF T
  <2> QED BY <1>1, <1>2, SetInduction
<1> QED BY <1>0, <1>3

LEMMA LayersCompose ==
    ASSUME NEW pairs, NEW e, NEW d \in 0..Depth, NEW h \in Layers(pairs, e)[d],
           NEW k \in 0..Depth, NEW i \in Layers(pairs, h)[k], d + k <= Depth
    PROVE  i \in Layers(pairs, e)[d + k]
<1> DEFINE T == {n \in Nat : d + n <= Depth => Layers(pairs, h)[n] \subseteq Layers(pairs, e)[d + n]}
<1>0. Depth \in Nat
  BY PermissionsAssumption
<1>1. 0 \in T
  <2>1. Layers(pairs, h)[0] = {h} /\ d + 0 = d
    BY <1>0, LayerFacts
  <2> QED BY <2>1
<1>2. ASSUME NEW n \in Nat, n \in T PROVE n + 1 \in T
  <2>1. SUFFICES ASSUME d + (n + 1) <= Depth, NEW g \in Layers(pairs, h)[n + 1]
                 PROVE  g \in Layers(pairs, e)[d + (n + 1)]
    OBVIOUS
  <2>2. n + 1 \in 0..Depth /\ d + n \in Nat /\ (d + n) + 1 \in 0..Depth /\ (d + n) + 1 = d + (n + 1)
    BY <1>0, <2>1
  <2>3. PICK f \in Layers(pairs, h)[n] : <<f, g>> \in pairs /\ g \in Groups
    BY <2>2, LayerFacts
  <2>4. f \in Layers(pairs, e)[d + n]
    BY <1>0, <1>2, <2>1, <2>3
  <2>5. g \in Layers(pairs, e)[(d + n) + 1]
    BY <2>2, <2>3, <2>4, LayerFacts
  <2> QED BY <2>2, <2>5
<1>3. Nat \subseteq T
  <2> HIDE DEF T
  <2> QED BY <1>1, <1>2, SetInduction
<1> QED BY <1>0, <1>3

\* The order of an entity is its last layer.
LEMMA OrderFacts ==
    ASSUME NEW pairs, NEW e, NEW f \in Reached(pairs, e)
    PROVE  /\ Order(pairs, e, f) \in 0..Depth
           /\ f \in Layers(pairs, e)[Order(pairs, e, f)]
           /\ \A d \in 0..Depth : f \in Layers(pairs, e)[d] => d <= Order(pairs, e, f)
<1> DEFINE found == {d \in 0..Depth : f \in Layers(pairs, e)[d]}
<1>1. found \in SUBSET (0..Depth) /\ found # {}
  BY DEF Reached
<1>2. \E d \in found : \A c \in found : c <= d
  <2> HIDE DEF found
  <2> QED BY <1>1, MostNumber, PermissionsAssumption
<1>3. Order(pairs, e, f) = CHOOSE d \in found : \A c \in found : c <= d
  BY DEF Order
<1>4. Order(pairs, e, f) \in found /\ \A c \in found : c <= Order(pairs, e, f)
  <2> HIDE DEF found
  <2> QED BY <1>2, <1>3, Zenon
<1> QED BY <1>4

\* A user is nobody's group: it is its own first layer, and in no other.
LEMMA UserIsFirst ==
    ASSUME NEW pairs, NEW u \in Users
    PROVE  /\ u \in Reached(pairs, u) /\ Order(pairs, u, u) = 0
           /\ u \notin Reached(pairs, Public)
           /\ \A f \in Reached(pairs, u) : f # u => Order(pairs, u, f) > 0
<1>0. Depth \in Nat /\ u \notin Groups /\ u # Public
  BY PermissionsAssumption
<1>1. \A e : \A d \in 1..Depth : Layers(pairs, e)[d] \subseteq Groups
  BY LayerFacts
<1>2. \A e : Layers(pairs, e)[0] = {e}
  BY LayerFacts
<1>3. u \in Reached(pairs, u)
  BY <1>0, <1>2 DEF Reached
<1>4. Order(pairs, u, u) = 0
  <2>1. Order(pairs, u, u) \in 0..Depth /\ u \in Layers(pairs, u)[Order(pairs, u, u)]
    BY <1>3, OrderFacts
  <2>2. ASSUME NEW d \in 0..Depth, u \in Layers(pairs, u)[d] PROVE d = 0
    <3>1. d = 0 \/ d \in 1..Depth
      BY <1>0
    <3> QED BY <1>0, <1>1, <2>2, <3>1
  <2> QED BY <2>1, <2>2
<1>5. u \notin Reached(pairs, Public)
  <2>1. \A d \in 0..Depth : u \notin Layers(pairs, Public)[d]
    <3>1. ASSUME NEW d \in 0..Depth PROVE u \notin Layers(pairs, Public)[d]
      <4>1. d = 0 \/ d \in 1..Depth
        BY <1>0
      <4>2. CASE d = 0
        BY <1>0, <1>2, <4>2
      <4>3. CASE d \in 1..Depth
        <5>1. Layers(pairs, Public)[d] \subseteq Groups
          BY <1>1, <4>3
        <5> QED BY <1>0, <5>1
      <4> QED BY <4>1, <4>2, <4>3
    <3> QED BY <3>1
  <2> QED BY <2>1 DEF Reached
<1>6. ASSUME NEW f \in Reached(pairs, u), f # u PROVE Order(pairs, u, f) > 0
  <2>1. Order(pairs, u, f) \in 0..Depth /\ f \in Layers(pairs, u)[Order(pairs, u, f)]
    BY OrderFacts
  <2> QED BY <1>0, <1>2, <1>6, <2>1
<1> QED BY <1>3, <1>4, <1>5, <1>6

\* What is assigned to h, and so on, is reached when h is, and comes after it.
LEMMA BelowComesLater ==
    ASSUME NEW pairs, NEW level, Deepens(level, pairs), NEW e \in Entities,
           NEW h \in Reached(pairs, e), NEW k \in 1..Depth, NEW i \in Layers(pairs, h)[k]
    PROVE  i \in Reached(pairs, e) /\ Order(pairs, e, i) > Order(pairs, e, h)
<1> DEFINE d == Order(pairs, e, h)
<1>0. Depth \in Nat
  BY PermissionsAssumption
<1>1. d \in 0..Depth /\ h \in Layers(pairs, e)[d]
  BY OrderFacts
<1> HIDE DEF d
<1>2. h \in Entities /\ level[h] >= level[e] + d
  BY <1>1, LevelGrows
<1>3. i \in Entities /\ level[i] >= level[h] + k
  BY <1>0, <1>2, LevelGrows
<1>4. d + k \in 0..Depth
  <2>1. level[e] \in Nat /\ level[h] \in Nat /\ level[i] \in 0..Depth
    BY <1>0, <1>2, <1>3 DEF Deepens
  <2> QED BY <1>0, <1>1, <1>2, <1>3, <2>1
<1>5. i \in Layers(pairs, e)[d + k]
  BY <1>0, <1>1, <1>4, LayersCompose
<1>6. i \in Reached(pairs, e)
  BY <1>4, <1>5 DEF Reached
<1>7. d + k <= Order(pairs, e, i) /\ Order(pairs, e, i) \in 0..Depth
  BY <1>4, <1>5, <1>6, OrderFacts
<1>8. d + k > d
  BY <1>0, <1>1
<1> QED BY <1>0, <1>1, <1>4, <1>6, <1>7, <1>8 DEF d

-----------------------------------------------------------------------------
(***************************************************************************)
(* The decision.  The argument: an item that decides is not sorted after   *)
(* any it was considered with, and whoever should win is sorted before:    *)
(* the agent has the rank 0, who inherits is assigned earlier and so has   *)
(* the smaller rank, and the public group's ranks begin after all others.  *)
(***************************************************************************)

\* No chain of assignments is longer than groups are looked for: there is a
\* level for everyone that every assignment leads out of.  It also says that
\* assignments run in no circle.
Shallow ==
    \E level \in [Entities -> 0..Depth] : \A p \in assigned : level[p[1]] < level[p[2]]

LEMMA RankFacts ==
    ASSUME NEW pairs, NEW u \in Users
    PROVE  /\ u \in Having(pairs, u) /\ Rank(pairs, u, u) = 0
           /\ \A f \in Having(pairs, u) :
                /\ Rank(pairs, u, f) \in Nat
                /\ f # u => Rank(pairs, u, f) > 0
                /\ f \in Reached(pairs, Public) => Rank(pairs, u, f) > Depth
                /\ f \notin Reached(pairs, Public) => Rank(pairs, u, f) <= Depth
<1>0. Depth \in Nat
  BY PermissionsAssumption
<1>1. u \in Having(pairs, u) /\ Rank(pairs, u, u) = 0
  BY UserIsFirst DEF Having, Rank
<1>2. ASSUME NEW f \in Reached(pairs, Public)
      PROVE  Rank(pairs, u, f) \in Nat /\ Rank(pairs, u, f) > Depth
  <2>1. Order(pairs, Public, f) \in 0..Depth
    BY OrderFacts
  <2> QED BY <1>0, <2>1 DEF Rank
<1>3. ASSUME NEW f \in Having(pairs, u), f \notin Reached(pairs, Public)
      PROVE  /\ Rank(pairs, u, f) \in Nat /\ Rank(pairs, u, f) <= Depth
             /\ f # u => Rank(pairs, u, f) > 0
  <2>1. f \in Reached(pairs, u) /\ Rank(pairs, u, f) = Order(pairs, u, f)
    BY <1>3 DEF Having, Rank
  <2>2. Order(pairs, u, f) \in 0..Depth
    BY <2>1, OrderFacts
  <2> QED BY <1>0, <2>1, <2>2, UserIsFirst
<1> QED BY <1>0, <1>1, <1>2, <1>3

\* Who inherits ranks before whom it inherits.
LEMMA InheritorFirst ==
    ASSUME NEW pairs, NEW level, Deepens(level, pairs), NEW u \in Users,
           NEW h \in Having(pairs, u), NEW i \in Having(pairs, u),
           NEW k \in 1..Depth, i \in Layers(pairs, h)[k]
    PROVE  Rank(pairs, u, h) < Rank(pairs, u, i)
<1>0. Depth \in Nat /\ u \in Entities /\ Public \in Entities
  BY PermissionsAssumption DEF Entities
<1>1. CASE h \in Reached(pairs, Public)
  <2>1. i \in Reached(pairs, Public) /\ Order(pairs, Public, i) > Order(pairs, Public, h)
    BY <1>0, <1>1, BelowComesLater
  <2>2. Order(pairs, Public, i) \in 0..Depth /\ Order(pairs, Public, h) \in 0..Depth
    BY <1>1, <2>1, OrderFacts
  <2> QED BY <1>0, <1>1, <2>1, <2>2 DEF Rank
<1>2. CASE h \notin Reached(pairs, Public) /\ i \in Reached(pairs, Public)
  <2>1. Rank(pairs, u, h) \in Nat /\ Rank(pairs, u, h) <= Depth
    BY <1>2, RankFacts
  <2>2. Rank(pairs, u, i) \in Nat /\ Rank(pairs, u, i) > Depth
    BY <1>2, RankFacts
  <2> QED BY <1>0, <2>1, <2>2
<1>3. CASE h \notin Reached(pairs, Public) /\ i \notin Reached(pairs, Public)
  <2>1. h \in Reached(pairs, u)
    BY <1>3 DEF Having
  <2>2. i \in Reached(pairs, u) /\ Order(pairs, u, i) > Order(pairs, u, h)
    BY <1>0, <2>1, BelowComesLater
  <2>3. Order(pairs, u, i) \in 0..Depth /\ Order(pairs, u, h) \in 0..Depth
    BY <2>1, <2>2, OrderFacts
  <2> QED BY <1>3, <2>2, <2>3 DEF Rank
<1> QED BY <1>1, <1>2, <1>3

\* A target is its own first container, and the workspace the second of a file.
LEMMA PlaceFacts ==
    ASSUME NEW target \in Files \cup {Workspace}
    PROVE  /\ Place(target, target) = 1
           /\ target # Workspace => Place(target, Workspace) = 2
           /\ \A t : (\E n \in DOMAIN Containers(target) : t = Containers(target)[n])
                        <=> t \in {target, Workspace}
<1>1. CASE target = Workspace
  <2>1. Containers(target) = <<Workspace>> /\ DOMAIN <<Workspace>> = {1}
    BY <1>1 DEF Containers
  <2>2. Place(target, target) = 1
    BY <1>1, <2>1 DEF Place
  <2> QED BY <1>1, <2>1, <2>2
<1>2. CASE target # Workspace
  <2>1. Containers(target) = <<target, Workspace>>
    BY <1>2 DEF Containers
  <2>2. /\ DOMAIN Containers(target) = {1, 2}
        /\ Containers(target)[1] = target /\ Containers(target)[2] = Workspace
    BY <2>1
  <2>3. Place(target, target) = 1
    BY <1>2, <2>2 DEF Place
  <2>4. Place(target, Workspace) = 2
    BY <1>2, <2>2 DEF Place
  <2> QED BY <2>2, <2>3, <2>4
<1> QED BY <1>1, <1>2

LEMMA ApplyingFacts ==
    ASSUME NEW pairs, NEW u \in Users, NEW target \in Files \cup {Workspace}, NEW action
    PROVE  \A i : i \in Applying(items, pairs, u, target, action) <=>
                /\ i \in items /\ i.entity \in Having(pairs, u)
                /\ i.target \in {target, Workspace} /\ i.action = action
<1>1. \A t : (\E n \in DOMAIN Containers(target) : t = Containers(target)[n])
                        <=> t \in {target, Workspace}
  BY PlaceFacts
<1> QED BY <1>1 DEF Applying

\* An item that decides is for the action, or for every action if none is, and
\* is not sorted after any item that is for what it is for.
LEMMA DecidingFacts ==
    ASSUME NEW pairs, NEW u \in Users, NEW target \in Files \cup {Workspace},
           NEW action \in Actions, NEW i \in Deciding(items, pairs, u, target, action)
    PROVE  /\ i \in Applying(items, pairs, u, target, i.action)
           /\ i.action = Wildcard => Applying(items, pairs, u, target, action) = {}
           /\ \A j \in Applying(items, pairs, u, target, i.action) : ~Before(pairs, u, target, j, i)
<1> DEFINE exact == Applying(items, pairs, u, target, action)
           wild == Applying(items, pairs, u, target, Wildcard)
           all == Considered(items, pairs, u, target, action)
<1>0. action # Wildcard
  BY PermissionsAssumption
<1>1. (\A j \in exact : j.action = action) /\ (\A j \in wild : j.action = Wildcard)
  BY DEF Applying
<1>2. all = IF exact # {} THEN exact ELSE wild
  BY DEF Considered
<1>3. i \in all /\ \A j \in all : ~Before(pairs, u, target, j, i)
  BY DEF Deciding
<1> HIDE DEF all
<1>4. CASE exact # {}
  <2>1. all = exact /\ i.action = action
    BY <1>1, <1>2, <1>3, <1>4
  <2> QED BY <1>0, <1>3, <2>1
<1>5. CASE exact = {}
  <2>1. all = wild /\ i.action = Wildcard
    BY <1>1, <1>2, <1>3, <1>5
  <2> QED BY <1>3, <1>5, <2>1
<1> QED BY <1>4, <1>5

LEMMA NobodyBetterLemma == TypeOK /\ Shallow => NoBetterItem
<1> SUFFICES ASSUME TypeOK, Shallow,
                    NEW u \in Users, NEW target \in Files \cup {Workspace}, NEW action \in Actions,
                    NEW i \in Deciding(items, assigned, u, target, action)
             PROVE  /\ i.action = Wildcard => Applying(items, assigned, u, target, action) = {}
                    /\ \A j \in Applying(items, assigned, u, target, i.action) :
                        /\ j.entity = u => i.entity = u
                        /\ ~Inherits(j.entity, i.entity)
                        /\ i.entity \in Reached(assigned, Public) => j.entity \in Reached(assigned, Public)
                        /\ (j.entity = i.entity /\ j.target # i.target) => i.target = target
                        /\ (j.entity = i.entity /\ j.target = i.target) => j.at <= i.at
  BY DEF NoBetterItem
<1>1. i.action = Wildcard => Applying(items, assigned, u, target, action) = {}
  BY DecidingFacts
<1>2. ASSUME NEW j \in Applying(items, assigned, u, target, i.action)
      PROVE  /\ j.entity = u => i.entity = u
             /\ ~Inherits(j.entity, i.entity)
             /\ i.entity \in Reached(assigned, Public) => j.entity \in Reached(assigned, Public)
             /\ (j.entity = i.entity /\ j.target # i.target) => i.target = target
             /\ (j.entity = i.entity /\ j.target = i.target) => j.at <= i.at
  <2>0. PICK level : Deepens(level, assigned)
    BY AccessAssumption DEF Shallow, Deepens, TypeOK
  <2>1. ~Before(assigned, u, target, j, i)
    BY DecidingFacts
  <2>2. /\ i \in items /\ i.entity \in Having(assigned, u) /\ i.target \in {target, Workspace}
        /\ j \in items /\ j.entity \in Having(assigned, u) /\ j.target \in {target, Workspace}
    <3>1. i \in Applying(items, assigned, u, target, i.action)
      BY DecidingFacts
    <3> QED BY <3>1, ApplyingFacts
  <2>3. i.at \in Nat /\ j.at \in Nat
    BY <2>2 DEF TypeOK, Item
  <2>4. i.entity # j.entity => ~(Rank(assigned, u, j.entity) < Rank(assigned, u, i.entity))
    BY <2>1 DEF Before
  <2>5. j.entity = u => i.entity = u
    BY <2>2, <2>4, RankFacts
  <2>6. ASSUME Inherits(j.entity, i.entity) PROVE FALSE
    <3>1. PICK k \in 1..Depth : i.entity \in Layers(assigned, j.entity)[k]
      BY <2>6 DEF Inherits, Below
    <3>2. Rank(assigned, u, j.entity) < Rank(assigned, u, i.entity)
      BY <2>0, <2>2, <3>1, InheritorFirst
    <3>3. Rank(assigned, u, j.entity) \in Nat
      BY <2>2, RankFacts
    <3>4. i.entity # j.entity
      BY <3>2, <3>3
    <3> QED BY <2>4, <3>2, <3>4
  <2>7. ASSUME i.entity \in Reached(assigned, Public), j.entity \notin Reached(assigned, Public)
        PROVE  FALSE
    <3>1. /\ Rank(assigned, u, i.entity) \in Nat /\ Rank(assigned, u, i.entity) > Depth
          /\ Rank(assigned, u, j.entity) \in Nat /\ Rank(assigned, u, j.entity) <= Depth
      BY <2>2, <2>7, RankFacts
    <3> QED BY <2>4, <2>7, <3>1, PermissionsAssumption
  <2>8. ASSUME j.entity = i.entity, j.target # i.target, i.target # target PROVE FALSE
    <3>1. i.target = Workspace /\ j.target = target /\ target # Workspace
      BY <2>2, <2>8
    <3>2. Place(target, j.target) = 1 /\ Place(target, i.target) = 2
      BY <3>1, PlaceFacts
    <3> QED BY <2>1, <2>8, <3>2 DEF Before
  <2>9. (j.entity = i.entity /\ j.target = i.target) => j.at <= i.at
    BY <2>1, <2>3 DEF Before
  <2> QED BY <2>5, <2>6, <2>7, <2>8, <2>9
<1> QED BY <1>1, <1>2

\* No item that should win is passed over, whenever no chain of assignments is
\* longer than groups are looked for.
THEOREM NobodyBetter == Spec => [](Shallow => NoBetterItem)
  BY TypeCorrect, NobodyBetterLemma, PTL

-----------------------------------------------------------------------------
(***************************************************************************)
(* What is shown of the workspace.  The argument: if all the items that    *)
(* concern an agent are one entity's, those of a file decide about it if   *)
(* there are any, and those of the workspace do otherwise; the newest of   *)
(* them exists because every item has a time below the bound.              *)
(***************************************************************************)
Dated ==
    /\ \A i \in items : i.at \in 0..MaxAdds
    /\ \A c \in calls : c.do = "add" => c.item.at \in 0..MaxAdds

LEMMA DatedHolds == Spec => []Dated
<1>1. Init => Dated
  BY DEF Init, Dated
<1>2. TypeOK /\ Dated /\ [Next]_vars => Dated'
  <2> SUFFICES ASSUME TypeOK, Dated, [Next]_vars PROVE Dated'
    OBVIOUS
  <2>0. ASSUME items' \subseteq items, calls' \subseteq calls PROVE Dated'
    BY <2>0 DEF Dated
  <2>1. ASSUME NEW input \in AddInputs, CheckAdd(input) PROVE Dated'
    <3>1. clock \in 0..MaxAdds /\ items' = items
      BY <2>1 DEF CheckAdd, TypeOK
    <3>2. ASSUME NEW c \in calls', c.do = "add" PROVE c.item.at \in 0..MaxAdds
      <4>1. c \in calls \/ c.item.at = clock
        BY <2>1 DEF CheckAdd
      <4> QED BY <3>1, <3>2, <4>1 DEF Dated
    <3> QED BY <3>1, <3>2 DEF Dated
  <2>2. ASSUME NEW pair \in AssignInputs, CheckAssign(pair) \/ Unassign(pair) PROVE Dated'
    <3>1. \A c \in calls' : c \in calls \/ c.do = "assign"
      BY <2>2 DEF CheckAssign, Unassign
    <3>2. items' = items
      BY <2>2 DEF CheckAssign, Unassign
    <3> QED BY <3>1, <3>2 DEF Dated
  <2>3. ASSUME NEW c \in calls, Add(c) \/ Assign(c) PROVE Dated'
    <3>1. calls' \subseteq calls /\ \A i \in items' \ items : c.do = "add" /\ i = c.item
      BY <2>3 DEF Add, Assign
    <3> QED BY <3>1 DEF Dated
  <2>4. ASSUME NEW e \in Entities, NEW accesses \in SUBSET BOOLEAN, DeleteItems(e, accesses)
        PROVE  Dated'
    BY <2>0, <2>4 DEF DeleteItems
  <2>5. ASSUME NEW g \in Groups, DeleteGroup(g) PROVE Dated'
    BY <2>0, <2>5 DEF DeleteGroup
  <2>6. ASSUME NEW r \in Requests, NEW u \in Users, Send(r, u) PROVE Dated'
    BY <2>0, <2>6 DEF Send
  <2>7. ASSUME NEW r \in Requests, Revoke(r) \/ DeleteRequest(r) PROVE Dated'
    BY <2>0, <2>7 DEF Revoke, DeleteRequest
  <2>8. ASSUME NEW r \in Requests, NEW answer \in {"accepted", "declined"}, Respond(r, answer)
        PROVE  Dated'
    BY <2>0, <2>8 DEF Respond
  <2>9. ASSUME NEW u \in Users, RemoveCollaborator(u) PROVE Dated'
    BY <2>0, <2>9 DEF RemoveCollaborator
  <2>10. ASSUME NEW j \in jobs, EraseItems(j) \/ EraseAssigned(j) \/ EraseSelf(j) PROVE Dated'
    BY <2>0, <2>10 DEF EraseItems, EraseAssigned, EraseSelf
  <2>11. ASSUME UNCHANGED vars PROVE Dated'
    BY <2>0, <2>11 DEF vars
  <2>12. ASSUME NEW i \in doomed, EraseItem(i) PROVE Dated'
    BY <2>0, <2>12 DEF EraseItem
  <2> QED BY <2>1, <2>2, <2>3, <2>4, <2>5, <2>6, <2>7, <2>8, <2>9, <2>10, <2>11, <2>12, NextCases, Zenon
<1> QED BY <1>1, <1>2, TypeCorrect, PTL DEF Spec

\* Of some items the newest.
LEMMA NewestExists ==
    ASSUME Dated, NEW S \in SUBSET items, S # {}
    PROVE  \E i \in S : \A j \in S : j.at <= i.at
<1> DEFINE T == {i.at : i \in S}
<1>1. T \in SUBSET (0..MaxAdds) /\ T # {}
  BY DEF Dated
<1>2. PICK t \in T : \A s \in T : s <= t
  <2> HIDE DEF T
  <2> QED BY <1>1, MostNumber, AccessAssumption
<1>3. PICK i \in S : i.at = t
  OBVIOUS
<1> QED BY <1>2, <1>3

\* The items for an action on t itself.
OnTarget(u, action, t) ==
    {i \in items : i.entity \in Having(assigned, u) /\ i.target = t /\ i.action = action}

\* All that concerns the agent is one entity's and names an action.
Plain(u) ==
    LET mine == {i \in items : i.entity \in Having(assigned, u)}
    IN  /\ \A i, j \in mine : /\ i.entity = j.entity
                              /\ i.target = j.target => i.access = j.access
        /\ \A i \in mine : i.action # Wildcard

LEMMA PlainConsidered ==
    ASSUME NEW u \in Users, Plain(u), NEW action \in Actions, NEW t \in Files \cup {Workspace}
    PROVE  Considered(items, assigned, u, t, action) =
                OnTarget(u, action, t) \cup OnTarget(u, action, Workspace)
<1>1. Applying(items, assigned, u, t, Wildcard) = {}
  BY ApplyingFacts DEF Plain
<1>2. Applying(items, assigned, u, t, action) =
            OnTarget(u, action, t) \cup OnTarget(u, action, Workspace)
  BY ApplyingFacts DEF OnTarget
<1> QED BY <1>1, <1>2 DEF Considered

\* The decision about t is by its own items, if it has any.
LEMMA PlainDecision ==
    ASSUME TypeOK, Dated, NEW u \in Users, Plain(u), NEW action \in Actions,
           NEW t \in Files \cup {Workspace}
    PROVE  LET own == OnTarget(u, action, t)
               rest == OnTarget(u, action, Workspace)
               deciding == IF own # {} THEN own ELSE rest
           IN  MayAccess(items, assigned, u, t, action) = {i.access : i \in deciding}
<1> DEFINE own == OnTarget(u, action, t)
           rest == OnTarget(u, action, Workspace)
           S == IF own # {} THEN own ELSE rest
           D == Deciding(items, assigned, u, t, action)
<1>1. own \cup rest = Considered(items, assigned, u, t, action)
  BY PlainConsidered
<1>2. D = {i \in own \cup rest : \A j \in own \cup rest : ~Before(assigned, u, t, j, i)}
  BY <1>1 DEF Deciding
<1>3. \A i, j \in own \cup rest :
         /\ i.entity = j.entity /\ i.at \in Nat /\ j.at \in Nat
         /\ i.target = j.target => i.access = j.access
  BY DEF OnTarget, Plain, TypeOK, Item
<1>4. (\A i \in own : i.target = t) /\ (\A i \in rest : i.target = Workspace)
  BY DEF OnTarget
<1>5. D \subseteq S
  <2>1. SUFFICES ASSUME own # {}, NEW i \in D, i \notin own PROVE FALSE
    BY <1>2
  <2>2. PICK j \in own : TRUE
    BY <2>1
  <2>3. i \in rest /\ ~Before(assigned, u, t, j, i)
    BY <1>2, <2>1, <2>2
  <2>4. i.target = Workspace /\ j.target = t /\ t # Workspace
    BY <1>4, <2>1, <2>3 DEF OnTarget
  <2>5. Place(t, j.target) = 1 /\ Place(t, i.target) = 2
    BY <2>4, PlaceFacts
  <2> QED BY <1>3, <2>3, <2>4, <2>5 DEF Before
<1>6. S # {} => D # {}
  <2> SUFFICES ASSUME S # {} PROVE D # {}
    OBVIOUS
  <2>1. S \in SUBSET items /\ \A i, j \in S : i.target = j.target
    BY <1>4 DEF OnTarget
  <2> HIDE DEF S
  <2>2. PICK i \in S : \A j \in S : j.at <= i.at
    BY <2>1, NewestExists
  <2> USE DEF S
  <2>3. i \in own \cup rest
    OBVIOUS
  <2>4. ASSUME NEW j \in own \cup rest PROVE ~Before(assigned, u, t, j, i)
    <3>1. i.entity = j.entity /\ i.at \in Nat /\ j.at \in Nat
      BY <1>3, <2>3, <2>4
    <3>2. CASE j \in S
      <4>1. j.at <= i.at /\ i.target = j.target
        BY <2>1, <2>2, <3>2
      <4> QED BY <3>1, <4>1 DEF Before
    <3>3. CASE j \notin S
      <4>1. i \in own /\ j \in rest /\ j \notin own
        BY <2>2, <2>4, <3>3
      <4>2. i.target = t /\ j.target = Workspace
        BY <1>4, <4>1
      <4>3. t # Workspace
        BY <4>1
      <4>4. Place(t, i.target) = 1 /\ Place(t, j.target) = 2
        BY <4>2, <4>3, PlaceFacts
      <4> QED BY <3>1, <4>2, <4>3, <4>4 DEF Before
    <3> QED BY <3>2, <3>3
  <2> QED BY <1>2, <2>3, <2>4
<1>7. \A i, j \in S : i.access = j.access
  BY <1>3, <1>4
<1>8. MayAccess(items, assigned, u, t, action) = {i.access : i \in D}
  BY DEF MayAccess
<1> HIDE DEF S, D
<1>9. {i.access : i \in D} = {i.access : i \in S}
  BY <1>5, <1>6, <1>7
<1> QED BY <1>8, <1>9 DEF S

LEMMA ShownLemma == TypeOK /\ Dated => ShownIsAllowed
<1> SUFFICES ASSUME TypeOK, Dated, NEW u \in Users, NEW action \in Actions, Plain(u),
                    NEW access \in (IF MayAccess(items, assigned, u, Workspace, action) = {}
                                    THEN {FALSE}
                                    ELSE MayAccess(items, assigned, u, Workspace, action))
             PROVE  Shown(items, assigned, u, action, access) =
                        {f \in Files : TRUE \in MayAccess(items, assigned, u, f, action)}
  BY DEF ShownIsAllowed, Plain
<1> DEFINE Own(t) == OnTarget(u, action, t)
<1>1. MayAccess(items, assigned, u, Workspace, action) = {i.access : i \in Own(Workspace)}
  BY PlainDecision
<1>2. ASSUME NEW f \in Files
      PROVE  MayAccess(items, assigned, u, f, action) =
                {i.access : i \in IF Own(f) # {} THEN Own(f) ELSE Own(Workspace)}
  BY PlainDecision
<1>3. \A t : \A i, j \in Own(t) : i.access = j.access /\ i.access \in BOOLEAN
  BY DEF OnTarget, Plain, TypeOK, Item
<1>4. \A a : FilesWith(items, assigned, u, action, a) =
                {f \in Files : \E i \in Own(f) : i.access = a}
  BY DEF FilesWith, ChildItems, OnTarget, Plain
<1>5. access \in BOOLEAN /\ \A i \in Own(Workspace) : i.access = access
  BY <1>1, <1>3
<1>6. access => Own(Workspace) # {}
  BY <1>1
<1> HIDE DEF Own
<1>7. ASSUME NEW f \in Files
      PROVE  TRUE \in MayAccess(items, assigned, u, f, action) <=>
                IF Own(f) = {} THEN access ELSE \E i \in Own(f) : i.access = TRUE
  <2>1. CASE Own(f) = {}
    <3>1. TRUE \in MayAccess(items, assigned, u, f, action) <=> \E i \in Own(Workspace) : i.access = TRUE
      BY <1>2, <2>1
    <3>2. (\E i \in Own(Workspace) : i.access = TRUE) <=> access
      BY <1>5, <1>6, Zenon
    <3> QED BY <2>1, <3>1, <3>2
  <2>2. CASE Own(f) # {}
    <3>1. TRUE \in MayAccess(items, assigned, u, f, action) <=> \E i \in Own(f) : i.access = TRUE
      BY <1>2, <2>2
    <3> QED BY <2>2, <3>1
  <2> QED BY <2>1, <2>2
<1>8. ASSUME NEW f \in Files
      PROVE  f \in Shown(items, assigned, u, action, access) <=>
                IF Own(f) = {} THEN access ELSE \E i \in Own(f) : i.access = TRUE
  <2>1. CASE access
    <3>1. f \in Shown(items, assigned, u, action, access) <=> ~\E i \in Own(f) : i.access = FALSE
      BY <1>4, <2>1 DEF Shown
    <3>2. Own(f) # {} => ((\E i \in Own(f) : i.access = TRUE) <=> ~\E i \in Own(f) : i.access = FALSE)
      BY <1>3
    <3> QED BY <2>1, <3>1, <3>2
  <2>2. CASE ~access
    <3>1. f \in Shown(items, assigned, u, action, access) <=> \E i \in Own(f) : i.access = TRUE
      BY <1>4, <2>2 DEF Shown
    <3> QED BY <2>2, <3>1
  <2> QED BY <2>1, <2>2
<1>9. Shown(items, assigned, u, action, access) \subseteq Files
  BY <1>4 DEF Shown
<1> QED BY <1>7, <1>8, <1>9

\* An agent is shown the files it may access, if all that concerns it is one
\* entity's and names the action.
THEOREM ShownMayBeAccessed == Spec => []ShownIsAllowed
  BY TypeCorrect, DatedHolds, ShownLemma, PTL
=============================================================================
