---------------------------- MODULE MCAddFolder ----------------------------
(* Instances of AddFolder for TLC. *)
EXTENDS AddFolder, TLC

Ask(agent, path, upload) == [agent |-> agent, path |-> path, upload |-> upload]

Everywhere == {<<"owner", Root>>}
TreePaths == UNION {Prefixes(Asks[c].path) : c \in Clients} \ {Root}
E == {<<"e">>}

\* Folders of a folder for two requests, one that is denied, one whose agent is gone,
\* one in a folder that is there, by an agent who may not upload.
Inside == {<<"owner", Root>>, <<"guest", <<"e">> >>}
FiveAsks == 1 :> Ask("owner", <<"a", "b">>, FALSE) @@ 2 :> Ask("owner", <<"a", "c">>, TRUE)
         @@ 3 :> Ask("guest", <<"d">>, FALSE) @@ 4 :> Ask("ghost", <<"a", "b">>, FALSE)
         @@ 5 :> Ask("guest", <<"e", "f", "g">>, TRUE)

\* A folder that is denied to one is above the one that another adds.
MixedAsks == 1 :> Ask("guest", <<"a">>, FALSE) @@ 2 :> Ask("owner", <<"a", "b">>, FALSE)

\* An upload of an agent who may not upload.
GuestAsks == 1 :> Ask("guest", <<"a", "b">>, TRUE)
=============================================================================
