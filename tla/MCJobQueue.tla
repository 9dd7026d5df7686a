----------------------------- MODULE MCJobQueue -----------------------------
(* Instances of JobQueue for TLC. *)
EXTENDS JobQueue, TLC

CONSTANTS r, a, b, c, d, app1

\* r has the children a and b, a has the child c; d stands alone.
TreeParent == [j \in Jobs |->
    CASE j \in {r, d} -> NoJob [] j = a -> r [] j = b -> r [] j = c -> a]
TreeParents == [j \in Jobs |->
    CASE j \in {r, d} -> {} [] j = a -> {r} [] j = b -> {r} [] j = c -> {r, a}]
NoConditions == [j \in Jobs |-> {}]

\* b runs once a has completed and a's child c, if there is one, has ended.
BAfterA == [j \in Jobs |->
    IF j = b THEN {[job |-> a, status |-> {"completed"}],
                   [job |-> c, status |-> {"completed", "failed"}]}
    ELSE {}]

\* The main thread's list of active apps before and after its first heartbeat.
ActiveAppLists == {{}, {app1}}

Symmetry == Permutations(Workers) \cup Permutations(Calls)
=============================================================================
