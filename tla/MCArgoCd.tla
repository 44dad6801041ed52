------------------------------ MODULE MCArgoCd ------------------------------
(***************************************************************************)
(* Two versions of the server, one of them only in the image tag, and      *)
(* Applications that are in sync, out of sync or without a status.         *)
(***************************************************************************)
EXTENDS ArgoCd

MCServers ==
    {[labels |-> <<None, "v2", "v1">>, image |-> "v1"],
     [labels |-> <<None, None, None>>, image |-> "v1"]}
\* All of it, or a namespace only.
MCInstallations ==
    {[crd |-> TRUE, namespace |-> TRUE, servers |-> {CHOOSE d \in MCServers : d.labels[2] # None}],
     [crd |-> FALSE, namespace |-> TRUE, servers |-> {}]}
MCRawStatuses ==
    {[sync |-> "Synced", health |-> "Healthy"], [sync |-> "OutOfSync", health |-> "Missing"],
     [sync |-> "null", health |-> "Progressing"]}
MCFirstStatuses == {s \in MCRawStatuses : s.sync = "Synced"}
=============================================================================
