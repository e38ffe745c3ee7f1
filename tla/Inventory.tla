----------------------------- MODULE Inventory -----------------------------
(***************************************************************************)
(* The infrastructure inventory: the environment, resource, scope, network *)
(* and plan repositories over one SQLite database, and the discovery of an *)
(* HPC connection, which reads a definition, observes the cluster and then *)
(* writes what it found one statement at a time, while the handlers create,*)
(* replace and delete environments, scopes, topologies and plans.          *)
(*                                                                         *)
(* db is the database: one field per table, rows as records or tuples that *)
(* keep identities and references only.  A transaction (or a statement     *)
(* outside one) is an operator from db to db; it takes effect when its     *)
(* result satisfies the constraints of schema.sql (Consistent), and is     *)
(* rolled back otherwise.                                                  *)
(***************************************************************************)
EXTENDS Naturals, Sequences, FiniteSets, Functions

CONSTANTS
  Definitions,      \* the environment definitions a client may submit
  Reported,         \* what a connection's cluster reports: [connection -> observation]
  Ident,            \* resourceIdentifier on the names of partitions: [name -> identifier]
  Discoverers,      \* the requests that may be discovering at one time
  Endpoints,        \* the resources that links, plans and sessions may name
  ScopeIDs,         \* identifiers for scopes, which clients choose
  MaxChanges        \* bound on the client operations of a behaviour

VARIABLES
  db,               \* the tables
  finding,          \* [Discoverers -> one call of DiscoverConnection]
  draft,            \* the rows a client copied before submitting a plan
  current,          \* history: the scope of the draft has not been deleted since
  changes           \* client operations performed

inventoryVars == <<db, finding, draft, current, changes>>

NoParent == <<>>
NoDraft  == [scope |-> NoParent, versions |-> {}, resources |-> {}]
Idle     == [pc |-> "idle", connection |-> NoParent, env |-> NoParent, version |-> NoParent,
             runtimes |-> {}, resources |-> {}, bindings |-> {}, todo |-> <<>>, since |-> 0]

ASSUME InventoryAssumption ==
  /\ MaxChanges \in Nat
  /\ IsFiniteSet(Discoverers) /\ IsFiniteSet(ScopeIDs)
  /\ \A d \in Definitions : \A r \in d.resources : r.parent # r.id
  /\ \A d \in Definitions : IsFiniteSet(d.resources) /\ IsFiniteSet(d.runtimes)
  /\ \A d \in Definitions : \A x \in d.resources \cup d.runtimes : {"id", "version"} \subseteq DOMAIN x
  /\ \A d \in Definitions : \A r \in d.resources : {"type", "provider", "parent"} \subseteq DOMAIN r
  /\ \A c \in DOMAIN Reported :
       \A list \in {Reported[c].partitions, Reported[c].nodes, Reported[c].paths} : list \in Seq(Range(list))

----------------------------------------------------------------------------
\* The tables and their constraints.

EmptyDatabase ==
  [environments |-> {}, versions |-> {}, connections |-> {}, runtimes |-> {},
   resources |-> {}, bindings |-> {}, relations |-> {}, snapshots |-> {},
   profiles |-> {}, storages |-> {}, mounts |-> {}, scopes |-> {},
   topologies |-> {}, plans |-> {}, sessions |-> {}]

IDs(rows) == {x.id : x \in rows}

\* The foreign keys of schema.sql among the modelled tables.
References(t) ==
  LET versions == IDs(t.versions)
      resources == IDs(t.resources)
  IN
  /\ \A v \in t.versions : v.env \in t.environments
  /\ \A c \in t.connections : c.env \in t.environments
  /\ \A x \in t.runtimes \cup t.resources \cup t.storages : x.version \in versions
  /\ \A r \in t.resources : r.parent = NoParent \/ r.parent \in resources
  /\ \A b \in t.bindings : b[1] \in resources /\ b[2] \in IDs(t.runtimes)
  /\ \A l \in t.relations : l[1] \in resources /\ l[2] \in resources /\ l[3] \in versions
  /\ t.snapshots \cup t.profiles \cup t.sessions \subseteq resources
  /\ \A m \in t.mounts :
       /\ \E s \in t.storages : s.id = m[1] /\ s.version = m[3]
       /\ \E u \in t.runtimes : u.id = m[2] /\ u.version = m[3]
  /\ \A s \in t.scopes : s.versions \subseteq versions
  /\ \A n \in t.topologies : n.scope \in IDs(t.scopes) /\ n.ends \subseteq resources
  /\ \A p \in t.plans : p.scope \in IDs(t.scopes) /\ p.resources \subseteq resources

\* The primary keys and the UNIQUE constraints.
Unique(t) ==
  /\ \A rows \in {t.versions, t.connections, t.runtimes, t.resources, t.storages, t.scopes} :
       \A x, y \in rows : x.id = y.id => x = y
  /\ \A x, y \in t.resources : x.provider = y.provider /\ x.version = y.version => x = y
  /\ \A x, y \in t.relations : x[1] = y[1] /\ x[2] = y[2] => x = y

Consistent(t) == References(t) /\ Unique(t)

----------------------------------------------------------------------------
\* The environment repository.

VersionsOf(t, e) == {v.id : v \in {w \in t.versions : w.env = e}}
Owned(t, rows, e) == LET own == VersionsOf(t, e) IN {x \in rows : x.version \in own}

\* Only the snapshots of top-level resources go.
WithoutSnapshots_Discovered(rows, gone) == {r \in rows : r \notin gone \/ Len(r) > 1}

WithoutSnapshots(rows, gone) == rows \ gone

\* The deletions that Replace and Delete share, with their cascades: a binding
\* goes with its resource or runtime, a relation with its resources, a mount
\* with its storage or runtime.
Cleared(t, e) ==
  LET gone == IDs(Owned(t, t.resources, e))
      over == IDs(Owned(t, t.runtimes, e))
      lost == IDs(Owned(t, t.storages, e))
  IN [t EXCEPT !.snapshots   = WithoutSnapshots(@, gone),
               !.profiles    = @ \ gone,
               !.relations   = {l \in @ : l[3] \notin VersionsOf(t, e)
                                          /\ {l[1], l[2]} \cap gone = {}},
               !.storages    = @ \ Owned(t, @, e),
               !.resources   = @ \ Owned(t, @, e),
               !.runtimes    = @ \ Owned(t, @, e),
               !.bindings    = {b \in @ : b[1] \notin gone /\ b[2] \notin over},
               !.mounts      = {m \in @ : m[1] \notin lost /\ m[2] \notin over},
               !.connections = {c \in @ : c.env # e},
               !.versions    = {v \in @ : v.env # e}]

\* The inserts of a definition.
insertConnections(t, d) ==
  [t EXCEPT !.connections = @ \cup {[id |-> c, env |-> d.env] : c \in d.connections}]
insertEnvironmentVersion(t, d) ==
  [t EXCEPT !.versions = @ \cup {[id |-> d.version, env |-> d.env]}]
insertRuntimes(t, d) ==
  [t EXCEPT !.runtimes = @ \cup {[u EXCEPT !.version = d.version] : u \in d.runtimes}]
insertResources(t, d) ==
  [t EXCEPT !.resources = @ \cup {[r EXCEPT !.version = d.version] : r \in d.resources}]
insertRuntimeBindings(t, d) == [t EXCEPT !.bindings = @ \cup d.bindings]
insertResourceRelations(t, d) ==
  [t EXCEPT !.relations = @ \cup {<<l[1], l[2], d.version>> : l \in d.relations}]
insertStorages(t, d) ==
  [t EXCEPT !.storages = @ \cup {[id |-> m[1], version |-> d.version] : m \in d.mounts},
            !.mounts   = @ \cup {<<m[1], m[2], d.version>> : m \in d.mounts}]
insertProfiles(t, d) == [t EXCEPT !.profiles = @ \cup d.profiles]

Inserted(t, d) ==
  LET named == insertEnvironmentVersion(insertConnections(t, d), d)
      held  == insertRuntimeBindings(insertResources(insertRuntimes(named, d), d), d)
  IN insertProfiles(insertStorages(insertResourceRelations(held, d), d), d)

\* A row that is already stored makes a plain INSERT fail.
Fresh(t, d) ==
  /\ d.version \notin IDs(t.versions)
  /\ d.connections \cap IDs(t.connections) = {}
  /\ IDs(d.runtimes) \cap IDs(t.runtimes) = {}
  /\ IDs(d.resources) \cap IDs(t.resources) = {}
  /\ {m[1] : m \in d.mounts} \cap IDs(t.storages) = {}

Replaced(t, d) == Inserted(Cleared(t, d.env), d)
\* The keys are checked at each statement: after the deletions, and at the end.
CanReplace(t, d) ==
  LET cleared == Cleared(t, d.env)
  IN Fresh(cleared, d) /\ Consistent(cleared) /\ Consistent(Inserted(cleared, d))

UsedByConsole(t, mine) == t.sessions \cap mine # {}

\* The uses that Delete looks for before it deletes anything.
Dependency(t, e) ==
  LET mine == IDs(Owned(t, t.resources, e))
  IN \/ \E s \in t.scopes : s.versions \cap VersionsOf(t, e) # {}
     \/ \E n \in t.topologies : n.ends \cap mine # {}
     \/ \E p \in t.plans : p.resources \cap mine # {}
     \/ UsedByConsole(t, mine)

Removed(t, e) == [Cleared(t, e) EXCEPT !.environments = @ \ {e}]

\* Find, through its queries.
ListConnections(t, e) == {c.id : c \in {x \in t.connections : x.env = e}}
listRuntimes(t, v)  == {u \in t.runtimes : u.version = v}
listResources(t, v) == {r \in t.resources : r.version = v}
listRuntimeBindings(t, v) == {b \in t.bindings : b[1] \in IDs(listResources(t, v))}

----------------------------------------------------------------------------
\* The resource repository: what one statement of a discovery does to the tables.

Row(id, v, type, provider, parent) ==
  [id |-> id, version |-> v, type |-> type, provider |-> provider, parent |-> parent]

\* ON CONFLICT(id) updates every column except the version.
Upsert(t, r) ==
  LET old == {x \in t.resources : x.id = r.id}
      new == {Row(x.id, x.version, r.type, r.provider, r.parent) : x \in old}
  IN [t EXCEPT !.resources = (@ \ old) \cup (IF old = {} THEN {r} ELSE new)]

UpsertRuntimeBinding(t, r, u) == [t EXCEPT !.bindings = @ \cup {<<r, u>>}]
UpsertRelation(t, a, b, v) ==
  [t EXCEPT !.relations = {l \in @ : <<l[1], l[2]>> # <<a, b>>} \cup {<<a, b, v>>}]
CreateSnapshot(t, r) == [t EXCEPT !.snapshots = @ \cup {r}]
UpsertDiscoveredStorage(t, s, v, runtimes) ==
  LET new == {u \in runtimes : ~ \E m \in t.mounts : m[1] = s /\ m[2] = u}
  IN [t EXCEPT !.storages = @ \cup (IF s \in IDs(@) THEN {} ELSE {[id |-> s, version |-> v]}),
               !.mounts   = @ \cup {<<s, u, v>> : u \in new}]

Applied(t, s) ==
  CASE s.kind = "resource" -> Upsert(t, s.row)
    [] s.kind = "binding"  -> UpsertRuntimeBinding(t, s.row, s.to)
    [] s.kind = "relation" -> UpsertRelation(t, s.row, s.to, s.version)
    [] s.kind = "snapshot" -> CreateSnapshot(t, s.row)
    [] s.kind = "storage"  -> UpsertDiscoveredStorage(t, s.row, s.version, s.to)
    [] OTHER -> t    \* no bound resource: there is no statement

----------------------------------------------------------------------------
\* The statements of a discovery, computed from the definition that was read
\* and the observation of the cluster.

Stmt(kind, row, to, v) == [kind |-> kind, row |-> row, to |-> to, version |-> v]
\* The sequences in parts, one after the other
Concat(parts) ==
  LET joined[i \in 0..Len(parts)] == IF i = 0 THEN <<>> ELSE joined[i - 1] \o parts[i]
  IN joined[Len(parts)]
InSomeOrder(S) == CHOOSE s \in Injection(1..Cardinality(S), S) : TRUE

runtimeIDsForConnection(f) == InSomeOrder({u.id : u \in {x \in f.runtimes : x.connection = f.connection}})
Bind(f, r) ==
  LET us == runtimeIDsForConnection(f) IN [i \in DOMAIN us |-> Stmt("binding", r, us[i], f.version)]

Declared(f, type) == {r \in f.resources : r.type = type}
clusterID(f) ==
  IF Declared(f, "cluster") = {} THEN <<f.connection, "cluster">>
  ELSE (CHOOSE r \in Declared(f, "cluster") : TRUE).id

discoveredPartitions(f, o) ==
  LET configured == {r.provider : r \in Declared(f, "partition")}
      found(n) == Row(<<f.connection, "partition", Ident[n]>>, f.version, "partition", n, NoParent)
  IN Concat([i \in DOMAIN o.partitions |->
               IF o.partitions[i] \in configured THEN <<>> ELSE <<found(o.partitions[i])>>])

Partitions(f, o) == InSomeOrder(Declared(f, "partition")) \o discoveredPartitions(f, o)

materializeLoginNode(f, o) ==
  LET id == <<f.connection, "login">>
  IN IF ~o.login THEN <<>>
     ELSE <<Stmt("resource", Row(id, f.version, "machine", <<f.connection, "endpoint">>, clusterID(f)), id, f.version)>>
          \o Bind(f, id) \o <<Stmt("snapshot", id, id, f.version)>>

OnNode(n, qs) == Concat([i \in DOMAIN qs |-> IF qs[i].provider \in n.partitions THEN <<qs[i]>> ELSE <<>>])

\* Only the partitions of the definition that was read.
PartitionsOf_Declared(f, o, n) == OnNode(n, InSomeOrder(Declared(f, "partition")))

PartitionsOf(f, o, n) == OnNode(n, Partitions(f, o))

materializeNode(f, o, n) ==
  LET id == <<f.connection, "node", n.name>>
      qs == PartitionsOf(f, o, n)
  IN <<Stmt("resource", Row(id, f.version, "machine", n.name, clusterID(f)), id, f.version)>>
     \o Bind(f, id)
     \o [i \in DOMAIN qs |-> Stmt("relation", qs[i].id, id, f.version)]
     \o <<Stmt("snapshot", id, id, f.version)>>

attachPartition(f, q) ==
  <<Stmt("resource", [q EXCEPT !.parent = clusterID(f)], q.id, f.version)>> \o Bind(f, q.id)

materializeHPCStructure(f, o) ==
  LET qs == Partitions(f, o)
  IN
  IF ~o.login /\ o.nodes = <<>> THEN <<>>
  ELSE <<Stmt("resource", Row(clusterID(f), f.version, "cluster", clusterID(f), NoParent), clusterID(f), f.version)>>
       \o Bind(f, clusterID(f))
       \o Concat([i \in DOMAIN qs |-> attachPartition(f, qs[i])])
       \o materializeLoginNode(f, o)
       \o Concat([i \in DOMAIN o.nodes |-> materializeNode(f, o, o.nodes[i])])

materializeDiscoveredStorages(f, o) ==
  [i \in DOMAIN o.paths |-> Stmt("storage", <<f.connection, "storage", o.paths[i]>>,
                                 Range(runtimeIDsForConnection(f)), f.version)]

boundResourceIDs(f) ==
  {b[1] : b \in {x \in f.bindings : x[2] \in Range(runtimeIDsForConnection(f))}} \cap IDs(f.resources)

\* The writes of DiscoverConnection in order; with no bound resource in the
\* definition that was read it fails after the structure has been stored.
Writes(f, o) ==
  LET structure == materializeHPCStructure(f, o)
      seen == {structure[i].row : i \in {j \in DOMAIN structure : structure[j].kind = "snapshot"}}
      rest == InSomeOrder(boundResourceIDs(f) \ seen)
  IN structure \o materializeDiscoveredStorages(f, o)
     \o (IF boundResourceIDs(f) = {} THEN <<Stmt("unbound", NoParent, NoParent, f.version)>>
         ELSE [i \in DOMAIN rest |-> Stmt("snapshot", rest[i], rest[i], f.version)])

----------------------------------------------------------------------------
\* DiscoverConnection, one query or statement at a time.

Discovering(x, field, next) ==
  /\ finding' = [finding EXCEPT ![x] = [field EXCEPT !.pc = next]]
  /\ UNCHANGED <<draft, current, changes>>

DiscoverConnection(x, c) ==
  /\ finding[x].pc \in {"idle", "done", "failed"}
  /\ changes < MaxChanges
  /\ changes' = changes + 1
  /\ finding' = [finding EXCEPT ![x] = [Idle EXCEPT !.pc = "environment", !.connection = c,
                                                    !.since = changes + 1]]
  /\ UNCHANGED <<db, draft, current>>

\* List reads the environments and then, for each, Find's queries one after the
\* other; only the environments that a definition gives the connection matter.
FindVersion(x) ==
  /\ finding[x].pc = "environment"
  /\ \E e \in {d.env : d \in {y \in Definitions : finding[x].connection \in y.connections}} :
       LET v == VersionsOf(db, e)
       IN IF e \in db.environments
          THEN Discovering(x, [finding[x] EXCEPT !.env = e,
                               !.version = IF v = {} THEN NoParent ELSE CHOOSE w \in v : TRUE], "connections")
          ELSE Discovering(x, Idle, "failed")
  /\ UNCHANGED db

FindConnections(x) ==
  /\ finding[x].pc = "connections"
  /\ LET here == finding[x].connection \in ListConnections(db, finding[x].env)
     IN Discovering(x, finding[x], IF here THEN "runtimes" ELSE "failed")
  /\ UNCHANGED db

FindRuntimes(x) ==
  /\ finding[x].pc = "runtimes"
  /\ Discovering(x, [finding[x] EXCEPT !.runtimes = listRuntimes(db, finding[x].version)], "resources")
  /\ UNCHANGED db

FindResources(x) ==
  /\ finding[x].pc = "resources"
  /\ Discovering(x, [finding[x] EXCEPT !.resources = listResources(db, finding[x].version)], "bindings")
  /\ UNCHANGED db

FindBindings(x) ==
  /\ finding[x].pc = "bindings"
  /\ Discovering(x, [finding[x] EXCEPT !.bindings = listRuntimeBindings(db, finding[x].version)], "observe")
  /\ UNCHANGED db

\* The connection's driver answers, or fails and the discovery with it.
Query(x) ==
  /\ finding[x].pc = "observe"
  /\ \/ Discovering(x, [finding[x] EXCEPT !.todo = Writes(finding[x], Reported[finding[x].connection])], "write")
     \/ Discovering(x, Idle, "failed")
  /\ UNCHANGED db

\* One statement; a violated constraint ends the discovery, and what was
\* written before it stays.
Execute(x) ==
  /\ finding[x].pc = "write"
  /\ finding[x].todo # <<>>
  /\ LET s == Head(finding[x].todo)
     IN IF s.kind # "unbound" /\ Consistent(Applied(db, s))
        THEN /\ db' = Applied(db, s)
             /\ Discovering(x, [finding[x] EXCEPT !.todo = Tail(@)], "write")
        ELSE /\ UNCHANGED db
             /\ Discovering(x, Idle, "failed")

Discovered(x) ==
  /\ finding[x].pc = "write"
  /\ finding[x].todo = <<>>
  /\ Discovering(x, finding[x], "done")
  /\ UNCHANGED db

----------------------------------------------------------------------------
\* The handlers of a client.

Client(t) ==
  /\ changes < MaxChanges
  /\ changes' = changes + 1
  /\ db' = t
  /\ UNCHANGED finding

CreateEnvironment(d) ==
  LET t == Inserted([db EXCEPT !.environments = @ \cup {d.env}], d)
  IN /\ d.env \notin db.environments
     /\ Client(t)
     /\ Fresh(db, d) /\ Consistent(t)
     /\ UNCHANGED <<draft, current>>

ReplaceEnvironment(d) ==
  /\ d.env \in db.environments
  /\ Client(Replaced(db, d))
  /\ CanReplace(db, d)
  /\ UNCHANGED <<draft, current>>

DeleteEnvironment(e) ==
  /\ e \in db.environments
  /\ ~Dependency(db, e)
  /\ Client(Removed(db, e))
  /\ Consistent(Removed(db, e))
  /\ UNCHANGED <<draft, current>>

\* The primary key keeps an identifier from being used twice at a time; when its
\* scope is deleted it can be given to another.
CreateScope(s, versions) ==
  LET t == [db EXCEPT !.scopes = @ \cup {[id |-> s, versions |-> versions]}]
  IN /\ s \notin IDs(db.scopes)
     /\ versions # {}
     /\ Client(t)
     /\ Consistent(t)
     /\ UNCHANGED <<draft, current>>

\* The check for plans and the DELETE are two statements; the foreign keys of
\* plans and topologies decide the second whatever the first saw.
DeleteScope(s) ==
  LET t == [db EXCEPT !.scopes = {x \in @ : x.id # s}]
  IN /\ s \in IDs(db.scopes)
     /\ \A p \in db.plans : p.scope # s
     /\ Client(t)
     /\ Consistent(t)
     /\ current' = (current /\ draft.scope # s)
     /\ UNCHANGED draft

CreateTopology(s, ends) ==
  LET t == [db EXCEPT !.topologies = @ \cup {[scope |-> s, ends |-> ends]}]
  IN /\ Cardinality(ends) = 2
     /\ Client(t)
     /\ Consistent(t) /\ t # db
     /\ UNCHANGED <<draft, current>>

OpenConsoleSession(r) ==
  LET t == [db EXCEPT !.sessions = @ \cup {r}]
  IN /\ r \in IDs(db.resources) \ db.sessions
     /\ Client(t)
     /\ UNCHANGED <<draft, current>>

\* A plan request carries the client's own copies of the scope and of the
\* resources; they were true when the client read them.
CopyPlanInputs(s) ==
  /\ s \in db.scopes
  /\ draft' = [scope |-> s.id, versions |-> s.versions,
               resources |-> {r \in db.resources : r.id \in Endpoints}]
  /\ current' = TRUE
  /\ UNCHANGED <<db, finding, changes>>

\* A validator that trusts the client's choice of resources.
InsideScope_Any(request, chosen) == chosen \subseteq request.resources

\* The version check of Validate, on the copies of the request.
InsideScope(request, chosen) == \A r \in chosen : r.version \in request.versions

\* A plan row keeps, as a history, whether its scope is the one that was copied.
CreatePlan(chosen) ==
  LET t == [db EXCEPT !.plans = @ \cup
              {[scope |-> draft.scope, resources |-> IDs(chosen), current |-> current]}]
  IN /\ draft # NoDraft /\ chosen # {}
     /\ InsideScope(draft, chosen)
     /\ Client(t)
     /\ Consistent(t)
     /\ draft' = NoDraft /\ current' = FALSE

----------------------------------------------------------------------------
InventoryInit ==
  /\ db = EmptyDatabase
  /\ finding = [x \in Discoverers |-> Idle]
  /\ draft = NoDraft
  /\ current = FALSE
  /\ changes = 0

DiscoveryStep ==
  \E x \in Discoverers :
    \/ FindVersion(x) \/ FindConnections(x) \/ FindRuntimes(x)
    \/ FindResources(x) \/ FindBindings(x) \/ Query(x) \/ Execute(x) \/ Discovered(x)

InventoryNext ==
  \/ DiscoveryStep
  \/ \E x \in Discoverers : \E c \in DOMAIN Reported : DiscoverConnection(x, c)
  \/ \E d \in Definitions : CreateEnvironment(d) \/ ReplaceEnvironment(d)
  \/ \E e \in db.environments : DeleteEnvironment(e)
  \/ \E s \in ScopeIDs : \E vs \in SUBSET IDs(db.versions) : CreateScope(s, vs)
  \/ \E s \in IDs(db.scopes) : DeleteScope(s)
  \/ \E s \in IDs(db.scopes) : \E ends \in SUBSET Endpoints : CreateTopology(s, ends)
  \/ \E r \in Endpoints : OpenConsoleSession(r)
  \/ \E s \in db.scopes : CopyPlanInputs(s)
  \/ \E chosen \in SUBSET draft.resources : CreatePlan(chosen)

InventorySpec == InventoryInit /\ [][InventoryNext]_inventoryVars

----------------------------------------------------------------------------
\* Properties.

\* The identifiers in the definitions of an environment, and those that a
\* discovery makes of its connections
EnvironmentIDs == {d.env : d \in Definitions}
Of(e) == {d \in Definitions : d.env = e}
VersionIDs(e) == {d.version : d \in Of(e)}
ConnectionIDs(e) == UNION {d.connections : d \in Of(e)}
RuntimeIDs(e) == UNION {IDs(d.runtimes) : d \in Of(e)}
DiscoveredIDs(c) ==
  {<<c, "cluster">>, <<c, "login">>}
    \cup {<<c, "node", n.name>> : n \in Range(Reported[c].nodes)}
    \cup {<<c, "partition", Ident[n]>> : n \in Range(Reported[c].partitions)}
ResourceIDs(e) ==
  (UNION {IDs(d.resources) : d \in Of(e)}) \cup UNION {DiscoveredIDs(c) : c \in ConnectionIDs(e) \cap DOMAIN Reported}
StorageIDs(e) ==
  (UNION {{m[1] : m \in d.mounts} : d \in Of(e)})
    \cup UNION {{<<c, "storage", q>> : q \in Range(Reported[c].paths)} : c \in ConnectionIDs(e) \cap DOMAIN Reported}

\* Environments have no identifier in common.
Separate ==
  \A e, g \in EnvironmentIDs : e # g =>
    /\ VersionIDs(e) \cap VersionIDs(g) = {} /\ ConnectionIDs(e) \cap ConnectionIDs(g) = {}
    /\ RuntimeIDs(e) \cap RuntimeIDs(g) = {} /\ ResourceIDs(e) \cap ResourceIDs(g) = {}
    /\ StorageIDs(e) \cap StorageIDs(g) = {}

\* A definition can be stored in an empty database.
Storable(d) == Consistent(Inserted([EmptyDatabase EXCEPT !.environments = {d.env}], d))

\* repository.go Replace and Delete: whatever discoveries added or left half
\* done, an environment that no scope, topology, plan or session uses can be
\* replaced by any of its definitions and removed; no row is out of reach of the
\* delete list, and no foreign key is in the way that Delete did not look at.
UnusedStaysEditable ==
  /\ \A d \in Definitions :
       (d.env \in db.environments /\ ~Dependency(db, d.env)) => CanReplace(db, d)
  /\ \A e \in db.environments : ~Dependency(db, e) => Consistent(Removed(db, e))

\* validator.go with repository.go: although the validator sees the client's
\* copies, the resources of a stored plan are stored, under an environment
\* version of the plan's stored scope, and no replacement, deletion or discovery
\* that started before the plan existed removes or moves one. The plan's scope
\* must be the one that was copied: when a client deletes it and gives its
\* identifier to a scope of other versions before the plan is submitted, nothing
\* compares the two.
PlansStayInScope ==
  \A p \in db.plans : \A s \in db.scopes : p.current /\ p.scope = s.id =>
    \A i \in p.resources : \E r \in db.resources : r.id = i /\ r.version \in s.versions

\* What a discovery is to leave behind
Stored(f, o) ==
  LET mine == {u.id : u \in {x \in db.runtimes : x.connection = f.connection}}
      bound(r) == \A u \in mine : <<r, u>> \in db.bindings
  IN /\ \A n \in Range(o.partitions) :
          \E r \in db.resources : r.type = "partition" /\ r.provider = n /\ bound(r.id)
     /\ \A n \in Range(o.nodes) :
          /\ bound(<<f.connection, "node", n.name>>)
          /\ \A r \in db.resources : (r.type = "partition" /\ r.provider \in n.partitions)
               => \E l \in db.relations : <<l[1], l[2]>> = <<r.id, <<f.connection, "node", n.name>> >>
     /\ o.login => bound(<<f.connection, "login">>)
     /\ \A q \in Range(o.paths) : <<f.connection, "storage", q>> \in IDs(db.storages)

\* discovery_service.go: a discovery that reports success, with no client
\* operation since it started, has left every observed partition, node, path
\* and login node stored, bound to each runtime of the connection, and every
\* node related to its partitions, other discoveries running or not.
DiscoveryIsComplete ==
  \A x \in Discoverers :
    (finding[x].pc = "done" /\ finding[x].since = changes)
      => Stored(finding[x], Reported[finding[x].connection])
=============================================================================
