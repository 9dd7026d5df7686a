---------------------------- MODULE RequestReply ----------------------------
(***************************************************************************)
(* What queueShardRunner promises its callers, whoever runs the items and  *)
(* whatever is lost on the way (src/src/utils/shardRunner/queue.ts):       *)
(*   - the item of a request is handled once at most, even after its       *)
(*     caller has given up;                                                *)
(*   - a request is resolved only when its item has been handled;          *)
(*   - a request is settled once.                                          *)
(***************************************************************************)
EXTENDS Naturals

CONSTANT Callers

VARIABLES
    answer,     \* answer[c]: "none", "resolved" or "rejected"
    runs        \* runs[c]: how often c's item has been handled

Init ==
    /\ answer = [c \in Callers |-> "none"]
    /\ runs = [c \in Callers |-> 0]

\* A server handles the items it has read, one or several.
Handle(handled) ==
    /\ \A c \in handled : runs[c] = 0
    /\ runs' = [c \in Callers |-> IF c \in handled THEN 1 ELSE runs[c]]
    /\ UNCHANGED answer

Resolve(c) ==
    /\ answer[c] = "none" /\ runs[c] = 1
    /\ answer' = [answer EXCEPT ![c] = "resolved"]
    /\ UNCHANGED runs

Reject(c) ==
    /\ answer[c] = "none"
    /\ answer' = [answer EXCEPT ![c] = "rejected"]
    /\ UNCHANGED runs

Next ==
    \/ \E handled \in SUBSET Callers : Handle(handled)
    \/ \E c \in Callers : Resolve(c) \/ Reject(c)

Spec == Init /\ [][Next]_<<answer, runs>>
=============================================================================
