------------------------------ MODULE MCUsage ------------------------------
(* Instances of Usage for TLC. *)
EXTENDS Usage, TLC

CONSTANTS upload, reupload, download, deletion, worker

Categorised == [r \in Requests |-> IF r = download THEN "bandwidth" ELSE "storage"]
Priced == [r \in Requests |-> IF r = reupload THEN 2 ELSE 1]
Budgets == ("total" :> 2) @@ ("storage" :> 2)
=============================================================================
