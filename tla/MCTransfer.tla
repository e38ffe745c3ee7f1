----------------------------- MODULE MCTransfer -----------------------------
(* Instances of Transfer for TLC.                                            *)
EXTENDS Transfer, TLC

CONSTANTS prepA, prepB, prepC

MCBlobs == {"executable", "workspace", "data", "more data", "page", "script"}

\* Two executables and their workspaces, the second of which misses more than
\* its plan delivers; and a preparation from web servers.
MCSeparate ==
    (prepA :> [plan |-> <<"executable", "workspace">>, artifact |-> 1, workspace |-> TRUE, missing |-> {}]) @@
    (prepB :> [plan |-> <<"data", "more data">>, artifact |-> 1, workspace |-> TRUE,
           missing |-> {"more data", "workspace"}]) @@
    (prepC :> [plan |-> <<"page", "script">>, artifact |-> 1, workspace |-> TRUE, missing |-> {}])

\* One executable, needed by one run or by two on the same cluster
MCSame ==
    [w \in Preparations |->
        [plan |-> <<"executable">>, artifact |-> 1, workspace |-> FALSE, missing |-> {}]]

\* Every connector, and from web servers to a file system and to an object store
MCSources == ("executable" :> "ssh") @@ ("workspace" :> "file") @@ ("data" :> "http") @@
             ("more data" :> "plain http") @@ ("page" :> "http") @@ ("script" :> "plain http")
MCDestinations == ("executable" :> "file") @@ ("workspace" :> "s3") @@ ("data" :> "ssh") @@
                  ("more data" :> "file") @@ ("page" :> "file") @@ ("script" :> "s3")

\* From the artifact store to a cluster, or to a file system
MCStore == [b \in MCBlobs |-> "file"]
MCCluster == [b \in MCBlobs |-> "ssh"]
MCFileSystem == [b \in MCBlobs |-> "file"]
=============================================================================
