---------------------------- MODULE MCInventory ----------------------------
(* One instance for TLC of the inventory of environments, the monitor of     *)
(* their connections and the transfers between their storages.               *)
(* Their models share no variables, so a behaviour is one of a single        *)
(* component, chosen once: the numbers of states add up.                     *)
EXTENDS MCTransfer, Inventory, Connections

CONSTANTS x1, x2

VARIABLE component

\* Environments: a cluster in two versions and without its partition, a machine
MCDefinitions ==
  LET plain == [env |-> <<"e">>, version |-> <<"v1">>, connections |-> {<<"c">>},
        runtimes |-> {[id |-> <<"u">>, version |-> <<>>, connection |-> <<"c">>]},
        resources |-> {[id |-> <<"k">>, version |-> <<>>, type |-> "partition", provider |-> <<"cpu">>, parent |-> <<>>]},
        bindings |-> {<< <<"k">>, <<"u">> >>}, relations |-> {}, mounts |-> {}, profiles |-> {<<"k">>}]
      bare == [plain EXCEPT !.resources = {}, !.bindings = {}, !.profiles = {},
                  !.mounts = {<< <<"s">>, <<"u">> >>}]
      second == [plain EXCEPT !.version = <<"v2">>, !.resources = @ \cup {
              [id |-> <<"h">>, version |-> <<>>, type |-> "cluster", provider |-> <<"head">>, parent |-> <<>>]},
            !.relations = {<< <<"h">>, <<"k">> >>}]
      other == [env |-> <<"f">>, version |-> <<"w1">>, connections |-> {<<"d">>},
        runtimes |-> {[id |-> <<"t">>, version |-> <<>>, connection |-> <<"d">>]},
        resources |-> {[id |-> <<"m">>, version |-> <<>>, type |-> "machine", provider |-> <<"local">>, parent |-> <<>>]},
        bindings |-> {<< <<"m">>, <<"t">> >>}, relations |-> {}, mounts |-> {}, profiles |-> {}]
  IN {plain, bare, second, other}
MCReported ==
  (<<"c">> :> [login |-> FALSE, partitions |-> << <<"cpu">>, <<"gpu">> >>,
               nodes |-> <<[name |-> <<"n1">>, partitions |-> {<<"cpu">>, <<"gpu">>}]>>, paths |-> <<>>])
  @@ (<<"d">> :> [login |-> TRUE, partitions |-> <<>>, nodes |-> <<>>, paths |-> <<"scratch">>])
MCIdent == (<<"cpu">> :> "cpu" @@ <<"gpu">> :> "gpu")
MCEndpoints == {<<"k">>, <<"m">>}

\* The interval between checks grows to 2 minutes after a success
MCBackoff == {<<0, 1>>, <<1, 2>>}

\* What UnusedStaysEditable is proved under
ASSUME MCDefinitionsAssumption == Separate /\ \A d \in Definitions : Storable(d)

-----------------------------------------------------------------------------
\* Discoveries of one connection beside everything else, or two at a time in
\* one environment.
OneDiscovery == finding'[x2] = finding[x2]
TwoDiscoveries ==
  /\ db'.scopes = {}
  /\ db'.environments \subseteq {<<"e">>} /\ db'.sessions = {}
  /\ {v.id : v \in db'.versions} \subseteq {<<"v1">>}

\* A client asks for checks of one of the two connections, which are alike.
OneRequested == checker'["request"].pc # "idle" => checker'["request"].conn = "api"

\* A preparation from web servers, or the two others
Active(w) ==
  \/ component = "web" /\ w = prepC
  \/ component = "transfer" /\ w # prepC

MCVars == <<transferVars, inventoryVars, connectionVars, component>>

MCInit ==
  /\ component \in {"transfer", "web", "inventory", "discoveries", "connections"}
  /\ TransferInit /\ InventoryInit /\ ConnectionsInit
  /\ healthy \in (IF component = "connections" THEN {{}, {"api"}} ELSE {{}})   \* a flip leads to the others

MCNext ==
  /\ UNCHANGED component
  /\ \/ /\ \E w \in Preparations : Active(w) /\ (PrepareStep(w) \/ Crash(w))
        /\ UNCHANGED <<inventoryVars, connectionVars>>
     \/ /\ component = "inventory" /\ InventoryNext /\ OneDiscovery
        /\ UNCHANGED <<transferVars, connectionVars>>
     \/ /\ component = "discoveries" /\ (DiscoveryStep \/ (changes < 3 /\ InventoryNext)) /\ TwoDiscoveries
        /\ UNCHANGED <<transferVars, connectionVars>>
     \/ /\ component = "connections" /\ ConnectionsNext /\ OneRequested
        /\ UNCHANGED <<transferVars, inventoryVars>>

\* The fairness of FairTransferSpec and FairConnectionsSpec
MCSpec ==
  /\ MCInit /\ [][MCNext]_MCVars
  /\ \A w \in Preparations : WF_transferVars(Active(w) /\ PrepareStep(w))
  /\ WF_connectionVars(component = "connections" /\ Minute)
  /\ WF_connectionVars(component = "connections" /\ \E c \in Connections : CheckAll(c))
  /\ \A k \in Checkers : WF_connectionVars(component = "connections" /\ CheckStep(k))

\* service.go:72-80 (Delivered, in the behaviours in which blobs are
\* transferred): a preparation that is repeated succeeds once the faults are
\* over, or is held up for ever by a partial file that http.go cannot resume.
RepeatedIsDelivered == \A w \in Preparations : Active(w) => Delivered(w)

\* connection_monitor.go Check and CheckAll (StatusFollowsHealth, in the
\* behaviours in which the monitor runs): an environment all of whose connections
\* stay reachable is shown as connected in the end, one with none as unreachable,
\* and one with some as each of the two again and again.
StatusIsMonitored == component = "connections" => StatusFollowsHealth
=============================================================================
