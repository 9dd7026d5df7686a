------------------------------ MODULE MCAccess ------------------------------
(* Instances of Access for TLC. *)
EXTENDS Access

CONSTANTS u, f, g, h, pub, ws, read, all

I(entity, target, action, access) ==
    [entity |-> entity, target |-> target, action |-> action, access |-> access]

MCAddInputs ==
    {I(u, ws, read, TRUE), I(u, f, read, FALSE), I(u, ws, all, FALSE),
     I(g, f, read, TRUE), I(h, f, read, FALSE), I(pub, f, read, TRUE)}

MCAssignInputs == {<<u, g>>, <<u, h>>, <<g, h>>, <<pub, h>>}
=============================================================================
