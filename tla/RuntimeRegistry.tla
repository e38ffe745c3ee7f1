-------------------------- MODULE RuntimeRegistry --------------------------
(***************************************************************************)
(* The runtimes of the engine: the registry filled at start-up, and the    *)
(* CatalogResolver, which for a runtime that is not registered lists the   *)
(* environments, builds an adapter from the runtime's connection and keeps *)
(* the first one built for good, while clients edit the environments.      *)
(***************************************************************************)
EXTENDS Naturals, FiniteSets

CONSTANTS
  Resolvers,        \* executions and sessions that may be resolving at one time
  Addresses,        \* the endpoints that the connection's row may name
  MaxEdits          \* bound on edits of the catalog

VARIABLES
  catalog,          \* the runtime's rows: its driver, its connection and the endpoint
  configured,       \* the cached adapter of the runtime
  resolver,         \* [Resolvers -> a call of Resolve]
  catalogEdits

registryVars == <<catalog, configured, resolver, catalogEdits>>

ASSUME RegistryAssumption ==
  /\ MaxEdits \in Nat /\ "none" \notin Addresses
  /\ Resolvers \cap {"none", "registry"} = {}

\* buildRuntimes registers one adapter for each of these names and mode.
Registered == {<<"simulation", "*">>, <<"real", "local">>, <<"real", "kubernetes">>, <<"real", "slurm">>}
Drivers == {"slurm", "local", "unknown"}
Factories == {"slurm"}          \* the drivers whose adapters need a connection

NoAdapter == [maker |-> "none", endpoint |-> "none"]
NoCall == [pc |-> "idle", mode |-> "real", seen |-> "none", answer |-> NoAdapter]

\* What a definition may say of the runtime: a driver, and a connection that is
\* absent, dangling or one with an endpoint.
Catalogs ==
  [driver : Drivers, connection : {"none", "dangling"} \cup Addresses] \cup {NoAdapter}

----------------------------------------------------------------------------
\* Registry.Resolve for a name, then for "*".
RegistryHas(mode, name) == {<<mode, name>>, <<mode, "*">>} \cap Registered # {}

Answer(r, pc, answer) == resolver' = [resolver EXCEPT ![r].pc = pc, ![r].answer = answer]

\* A request for the runtime: a simulation is answered by "*" at once.
Resolve(r, mode) ==
  /\ resolver[r].pc \in {"idle", "failed", "resolved"}
  /\ resolver' = [resolver EXCEPT ![r] =
       IF RegistryHas(mode, "runtime")
       THEN [NoCall EXCEPT !.pc = "resolved", !.mode = mode, !.answer = [maker |-> "registry", endpoint |-> "none"]]
       ELSE [NoCall EXCEPT !.pc = "list", !.mode = mode]]
  /\ UNCHANGED <<catalog, configured, catalogEdits>>

\* The catalog is listed: the runtime may be gone, need no connection, lack it,
\* or name one that is not there; a cached adapter answers after these checks.
ListCatalog(r) ==
  /\ resolver[r].pc = "list"
  /\ \/ /\ catalog = NoAdapter
        /\ Answer(r, "failed", NoAdapter)
     \/ /\ catalog # NoAdapter /\ catalog.driver \notin Factories
        /\ IF RegistryHas(resolver[r].mode, catalog.driver)
           THEN Answer(r, "resolved", [maker |-> "registry", endpoint |-> "none"])
           ELSE Answer(r, "failed", NoAdapter)
     \/ /\ catalog # NoAdapter /\ catalog.driver \in Factories
        /\ catalog.connection \in {"none", "dangling"}
        /\ Answer(r, "failed", NoAdapter)
     \/ /\ catalog # NoAdapter /\ catalog.driver \in Factories
        /\ catalog.connection \in Addresses
        /\ resolver' = [resolver EXCEPT ![r].pc = "load", ![r].seen = catalog.connection]
  /\ UNCHANGED <<catalog, configured, catalogEdits>>

\* configured.Load, else factory.Build, which may fail and leaves nothing behind.
BuildAdapter(r) ==
  /\ resolver[r].pc = "load"
  /\ \/ configured # NoAdapter /\ Answer(r, "resolved", configured)
     \/ configured = NoAdapter /\ Answer(r, "built", [maker |-> r, endpoint |-> resolver[r].seen])
     \/ configured = NoAdapter /\ Answer(r, "failed", NoAdapter)
  /\ UNCHANGED <<catalog, configured, catalogEdits>>

\* Store instead of LoadOrStore: the last builder wins.
KeepAdapter_Last(r) ==
  /\ resolver[r].pc = "built"
  /\ configured' = resolver[r].answer
  /\ Answer(r, "resolved", resolver[r].answer)
  /\ UNCHANGED <<catalog, catalogEdits>>

\* configured.LoadOrStore.
KeepAdapter(r) ==
  /\ resolver[r].pc = "built"
  /\ configured' = IF configured = NoAdapter THEN resolver[r].answer ELSE configured
  /\ Answer(r, "resolved", configured')
  /\ UNCHANGED <<catalog, catalogEdits>>

\* UpsertConnection, Replace or Delete changes what the catalog says.
EditCatalog(to) ==
  /\ catalogEdits < MaxEdits
  /\ catalogEdits' = catalogEdits + 1
  /\ catalog' = to
  /\ UNCHANGED <<configured, resolver>>

RegistryInit ==
  /\ catalog = NoAdapter
  /\ configured = NoAdapter
  /\ resolver = [r \in Resolvers |-> NoCall]
  /\ catalogEdits = 0

RegistryNext ==
  \/ \E r \in Resolvers :
       \/ \E mode \in {"real", "simulation"} : Resolve(r, mode)
       \/ ListCatalog(r) \/ BuildAdapter(r) \/ KeepAdapter(r)
  \/ \E to \in Catalogs : EditCatalog(to)

RegistrySpec == RegistryInit /\ [][RegistryNext]_registryVars

----------------------------------------------------------------------------
\* Properties.

\* CatalogResolver.Resolve: whatever builds raced, every call that was answered
\* with a configured adapter was given the one that is in the cache, so all
\* executions of a runtime share one adapter and its connection.
OneAdapter ==
  \A r \in Resolvers :
    (resolver[r].pc = "resolved" /\ resolver[r].answer.maker \in Resolvers)
      => resolver[r].answer = configured
=============================================================================
