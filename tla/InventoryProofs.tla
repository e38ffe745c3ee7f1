-------------------------- MODULE InventoryProofs --------------------------
(***************************************************************************)
(* Proofs about the inventory of environments (Inventory), for every set   *)
(* of definitions and observations.                                        *)
(*                                                                         *)
(* - The foreign key from a scope to its versions protects the resources   *)
(*   of a plan.                                                            *)
(* - An environment that nothing refers to can be replaced and deleted,    *)
(*   whatever was discovered before.  Every row carries identifiers of one *)
(*   environment, the rows that Replace clears are all rows of its         *)
(*   environment, and what a discovery writes, however long ago it read,   *)
(*   is named after the environment it read.                               *)
(***************************************************************************)
EXTENDS Inventory, FiniteSetTheorems, WellFoundedInduction, TLAPS

-----------------------------------------------------------------------------
(* The inventory: plans stay within their scopes *)

Tables == {"environments", "versions", "connections", "runtimes", "resources", "bindings", "relations", "snapshots",
           "profiles", "storages", "mounts", "scopes", "topologies", "plans", "sessions"}

\* A resource is stored under one of the versions.
Inside(t, i, versions) == \E r \in t.resources : r.id = i /\ r.version \in versions

\* What the constraints of schema.sql say of versions, scopes and plans.
Keyed(t) ==
  /\ DOMAIN t = Tables
  /\ \A v, w \in t.versions : v.id = w.id => v = w
  /\ \A s, r \in t.scopes : s.id = r.id => s = r
  /\ \A s \in t.scopes : s.versions \subseteq IDs(t.versions)
  /\ \A p \in t.plans : p.scope \in IDs(t.scopes)

\* A step of a client or a discovery that no scope or plan objects to.
Harmless(t, u) ==
  /\ DOMAIN u = Tables /\ u.scopes = t.scopes /\ u.plans = t.plans
  /\ \A s \in t.scopes : \A i : Inside(t, i, s.versions) => Inside(u, i, s.versions)

(* The constraints hold in every table that a transaction leaves.            *)
LEMMA ConsistentIsKeyed ==
    ASSUME NEW t, DOMAIN t = Tables, Consistent(t)
    PROVE  Keyed(t)
  BY DEF Consistent, References, Unique, Keyed

\* Rows are added, none of a scope or plan.
Adds(t, u) ==
  /\ DOMAIN u = DOMAIN t /\ u.scopes = t.scopes /\ u.plans = t.plans
  /\ t.resources \subseteq u.resources

(* Each insert of a definition adds rows.                                    *)
LEMMA InsertsAdd ==
    ASSUME NEW t, DOMAIN t = Tables, NEW d
    PROVE  /\ Adds(t, insertConnections(t, d)) /\ Adds(t, insertEnvironmentVersion(t, d))
           /\ Adds(t, insertRuntimes(t, d)) /\ Adds(t, insertResources(t, d))
           /\ Adds(t, insertRuntimeBindings(t, d)) /\ Adds(t, insertResourceRelations(t, d))
           /\ Adds(t, insertStorages(t, d)) /\ Adds(t, insertProfiles(t, d))
<1> USE DEF Adds, Tables
<1>1. Adds(t, insertConnections(t, d))
  BY DEF insertConnections
<1>2. Adds(t, insertEnvironmentVersion(t, d))
  BY DEF insertEnvironmentVersion
<1>3. Adds(t, insertRuntimes(t, d))
  BY DEF insertRuntimes
<1>4. Adds(t, insertResources(t, d))
  BY DEF insertResources
<1>5. Adds(t, insertRuntimeBindings(t, d))
  BY DEF insertRuntimeBindings
<1>6. Adds(t, insertResourceRelations(t, d))
  BY DEF insertResourceRelations
<1>7. Adds(t, insertStorages(t, d))
  BY DEF insertStorages
<1>8. Adds(t, insertProfiles(t, d))
  BY DEF insertProfiles
<1> HIDE DEF Adds
<1> QED BY Zenon, <1>1, <1>2, <1>3, <1>4, <1>5, <1>6, <1>7, <1>8

(* One insert after another.                                                 *)
LEMMA AddsTwice ==
    ASSUME NEW t, NEW u, NEW w, Adds(t, u), Adds(u, w)
    PROVE  Adds(t, w)
  BY Zenon DEF Adds

(* Create and Replace insert a whole definition.                             *)
LEMMA InsertedAdds ==
    ASSUME NEW t, DOMAIN t = Tables, NEW d
    PROVE  Adds(t, Inserted(t, d))
<1> DEFINE t1 == insertConnections(t, d)
           t2 == insertEnvironmentVersion(t1, d)
           t3 == insertRuntimes(t2, d)
           t4 == insertResources(t3, d)
           t5 == insertRuntimeBindings(t4, d)
           t6 == insertResourceRelations(t5, d)
           t7 == insertStorages(t6, d)
           t8 == insertProfiles(t7, d)
<1>0. Inserted(t, d) = t8
  BY Zenon DEF Inserted
<1> HIDE DEF t1, t2, t3, t4, t5, t6, t7, t8
<1>d. \A u, w : Adds(u, w) /\ DOMAIN u = Tables => DOMAIN w = Tables
  BY Zenon DEF Adds
<1>1. Adds(t, t1) /\ DOMAIN t1 = Tables
  BY Zenon, <1>d, InsertsAdd DEF t1
<1>2. Adds(t, t2) /\ DOMAIN t2 = Tables
  BY Zenon, <1>d, <1>1, InsertsAdd, AddsTwice DEF t2
<1>3. Adds(t, t3) /\ DOMAIN t3 = Tables
  BY Zenon, <1>d, <1>2, InsertsAdd, AddsTwice DEF t3
<1>4. Adds(t, t4) /\ DOMAIN t4 = Tables
  BY Zenon, <1>d, <1>3, InsertsAdd, AddsTwice DEF t4
<1>5. Adds(t, t5) /\ DOMAIN t5 = Tables
  BY Zenon, <1>d, <1>4, InsertsAdd, AddsTwice DEF t5
<1>6. Adds(t, t6) /\ DOMAIN t6 = Tables
  BY Zenon, <1>d, <1>5, InsertsAdd, AddsTwice DEF t6
<1>7. Adds(t, t7) /\ DOMAIN t7 = Tables
  BY Zenon, <1>d, <1>6, InsertsAdd, AddsTwice DEF t7
<1>8. Adds(t, t8)
  BY Zenon, <1>7, InsertsAdd, AddsTwice DEF t8
<1> QED BY Zenon, <1>0, <1>8

(* The deletions of Replace and Delete.                                      *)
LEMMA ClearedFields ==
    ASSUME NEW t, DOMAIN t = Tables, NEW e
    PROVE  LET u == Cleared(t, e)
           IN  /\ DOMAIN u = Tables /\ u.scopes = t.scopes /\ u.plans = t.plans
               /\ u.versions = {v \in t.versions : v.env # e}
               /\ u.resources = t.resources \ Owned(t, t.resources, e)
  BY DEF Cleared, Tables

(* They spare the resources of every version that a scope has: the foreign   *)
(* key of the scope keeps the version, and with it the environment.          *)
LEMMA ClearedIsHarmless ==
    ASSUME NEW t, NEW e, Keyed(t), \A s \in Cleared(t, e).scopes : s.versions \subseteq IDs(Cleared(t, e).versions)
    PROVE  Harmless(t, Cleared(t, e))
<1> DEFINE u == Cleared(t, e)
<1>1. /\ DOMAIN u = Tables /\ u.scopes = t.scopes /\ u.plans = t.plans
      /\ u.versions = {v \in t.versions : v.env # e}
      /\ u.resources = t.resources \ Owned(t, t.resources, e)
  BY Zenon, ClearedFields DEF Keyed
<1>2. \A s \in u.scopes : s.versions \subseteq IDs(u.versions)
  BY Zenon
<1> HIDE DEF u
<1>3. ASSUME NEW s \in t.scopes, NEW i, Inside(t, i, s.versions)
      PROVE  Inside(u, i, s.versions)
  <2>1. PICK r \in t.resources : r.id = i /\ r.version \in s.versions
    BY Zenon, <1>3 DEF Inside
  <2>2. PICK v \in t.versions : v.env # e /\ v.id = r.version
    BY Zenon, <1>1, <1>2, <2>1 DEF IDs
  <2>3. r \notin Owned(t, t.resources, e)
    <3> SUFFICES ASSUME r.version \in VersionsOf(t, e) PROVE FALSE
      BY Zenon DEF Owned
    <3>1. PICK w \in t.versions : w.env = e /\ w.id = r.version
      BY Zenon DEF VersionsOf
    <3> QED BY Zenon, <2>2, <3>1 DEF Keyed
  <2> QED BY Zenon, <1>1, <2>1, <2>3 DEF Inside
<1> QED BY Zenon, <1>1, <1>3 DEF Harmless, u

(* A statement of a discovery moves no resource to another version.          *)
LEMMA AppliedIsHarmless ==
    ASSUME NEW t, DOMAIN t = Tables, NEW s
    PROVE  Harmless(t, Applied(t, s))
<1>1. ASSUME NEW u, Adds(t, u) PROVE Harmless(t, u)
  BY Zenon, <1>1 DEF Adds, Harmless, Inside
<1>2. ASSUME NEW r PROVE Harmless(t, Upsert(t, r))
  <2> DEFINE u == Upsert(t, r)
             old == {x \in t.resources : x.id = r.id}
             new == {Row(x.id, x.version, r.type, r.provider, r.parent) : x \in old}
  <2>1. /\ DOMAIN u = Tables /\ u.scopes = t.scopes /\ u.plans = t.plans
        /\ u.resources = (t.resources \ old) \cup (IF old = {} THEN {r} ELSE new)
    BY DEF Upsert, Tables
  <2>2. ASSUME NEW i, NEW vs, Inside(t, i, vs) PROVE Inside(u, i, vs)
    <3>1. PICK x \in t.resources : x.id = i /\ x.version \in vs
      BY Zenon, <2>2 DEF Inside
    <3> DEFINE y == Row(x.id, x.version, r.type, r.provider, r.parent)
    <3>2. y.id = i /\ y.version \in vs
      BY <3>1 DEF Row
    <3> HIDE DEF u
    <3>3. CASE x \in old
      <4>1. y \in u.resources
        BY Zenon, <2>1, <3>3
      <4> QED BY Zenon, <3>2, <4>1 DEF Inside
    <3>4. CASE x \notin old
      BY Zenon, <2>1, <3>1, <3>4 DEF Inside
    <3> QED BY Zenon, <3>3, <3>4
  <2> HIDE DEF u
  <2> QED BY Zenon, <2>1, <2>2 DEF Harmless, u
<1> USE DEF Adds, Tables
<1>3. Adds(t, UpsertRuntimeBinding(t, s.row, s.to))
  BY DEF UpsertRuntimeBinding
<1>4. Adds(t, UpsertRelation(t, s.row, s.to, s.version))
  BY DEF UpsertRelation
<1>5. Adds(t, CreateSnapshot(t, s.row))
  BY DEF CreateSnapshot
<1>6. Adds(t, UpsertDiscoveredStorage(t, s.row, s.version, s.to))
  BY DEF UpsertDiscoveredStorage
<1>7. Adds(t, t)
  BY Zenon
<1> HIDE DEF Adds, Tables
<1>8. \/ Applied(t, s) = Upsert(t, s.row) \/ Applied(t, s) = UpsertRuntimeBinding(t, s.row, s.to)
      \/ Applied(t, s) = UpsertRelation(t, s.row, s.to, s.version) \/ Applied(t, s) = CreateSnapshot(t, s.row)
      \/ Applied(t, s) = UpsertDiscoveredStorage(t, s.row, s.version, s.to) \/ Applied(t, s) = t
  BY DEF Applied
<1> QED BY Zenon, <1>1, <1>2, <1>3, <1>4, <1>5, <1>6, <1>7, <1>8

(* A plan that is being submitted carries what the scope and the resources   *)
(* were; PlansStayInScope is not inductive without what this is still worth. *)
DraftInv ==
  current =>
    /\ draft.scope \in IDs(db.scopes)
    /\ \A s \in db.scopes : s.id = draft.scope =>
         /\ s.versions = draft.versions
         /\ \A r \in draft.resources : r.version \in draft.versions => Inside(db, r.id, s.versions)

PlanInv ==
  \A p \in db.plans : \A s \in db.scopes : p.current /\ p.scope = s.id => \A i \in p.resources : Inside(db, i, s.versions)

InventoryIInv == Keyed(db) /\ DraftInv /\ PlanInv

(* What a harmless step keeps.                                               *)
LEMMA HarmlessStep ==
    ASSUME InventoryIInv, Harmless(db, db'), Keyed(db'), UNCHANGED <<draft, current>>
    PROVE  InventoryIInv'
<1>1. db'.scopes = db.scopes /\ db'.plans = db.plans
  BY Zenon DEF Harmless
<1>2. current => draft.scope \in IDs(db'.scopes)
  BY Zenon, <1>1 DEF InventoryIInv, DraftInv
<1>3. DraftInv'
  <2>1. ASSUME current, NEW s \in db.scopes, s.id = draft.scope
        PROVE  /\ s.versions = draft.versions
               /\ \A r \in draft.resources : r.version \in draft.versions => Inside(db', r.id, s.versions)
    BY Zenon, <2>1 DEF InventoryIInv, DraftInv, Harmless
  <2>2. current' => draft'.scope \in IDs(db.scopes)'
    BY Zenon, <1>2 DEF IDs
  <2>3. \A i, vs : Inside(db', i, vs) => Inside(db, i, vs)'
    BY Zenon DEF Inside
  <2> QED BY Zenon, <1>1, <2>1, <2>2, <2>3 DEF DraftInv
<1>4. PlanInv'
  <2>1. ASSUME NEW p \in db.plans, NEW s \in db.scopes, p.current, p.scope = s.id, NEW i \in p.resources
        PROVE  Inside(db', i, s.versions)
    BY Zenon, <2>1 DEF InventoryIInv, PlanInv, Harmless
  <2> QED BY Zenon, <1>1, <2>1 DEF PlanInv, Inside
<1> QED BY Zenon, <1>3, <1>4 DEF InventoryIInv

(* A step that leaves the tables alone.                                      *)
LEMMA SameTables ==
    ASSUME InventoryIInv, UNCHANGED <<db, draft, current>>
    PROVE  InventoryIInv'
<1>1. Keyed(db) /\ DOMAIN db = Tables
  BY Zenon DEF InventoryIInv, Keyed
<1>2. Harmless(db, db)
  BY Zenon, <1>1 DEF Harmless
<1>3. Keyed(db') /\ Harmless(db, db')
  BY Zenon, <1>1, <1>2
<1> QED BY Zenon, <1>3, HarmlessStep

(* Create, Replace and Delete of the environment repository.                 *)
LEMMA EnvironmentSteps ==
    ASSUME InventoryIInv,
           \/ \E d \in Definitions : CreateEnvironment(d) \/ ReplaceEnvironment(d)
           \/ \E e \in db.environments : DeleteEnvironment(e)
    PROVE  InventoryIInv'
<1>0. UNCHANGED <<draft, current>> /\ Keyed(db) /\ DOMAIN db = Tables
  BY Zenon DEF InventoryIInv, Keyed, CreateEnvironment, ReplaceEnvironment, DeleteEnvironment
<1>1. ASSUME NEW d \in Definitions, CreateEnvironment(d) PROVE InventoryIInv'
  <2> DEFINE t == [db EXCEPT !.environments = @ \cup {d.env}]
             u == Inserted(t, d)
  <2>1. db' = u /\ Consistent(u)
    BY Zenon, <1>1 DEF CreateEnvironment, Client
  <2>2. DOMAIN t = Tables /\ Adds(db, t)
    BY <1>0 DEF Tables, Adds
  <2> HIDE DEF t
  <2>3. Adds(db, u)
    BY Zenon, <2>2, InsertedAdds, AddsTwice
  <2> HIDE DEF u
  <2>4. Harmless(db, u) /\ DOMAIN u = Tables
    BY Zenon, <1>0, <2>3 DEF Adds, Harmless, Inside
  <2>5. Keyed(u)
    BY Zenon, <2>1, <2>4, ConsistentIsKeyed
  <2>6. Harmless(db, db') /\ Keyed(db')
    BY Zenon, <2>1, <2>4, <2>5
  <2> QED BY Zenon, <1>0, <2>6, HarmlessStep
<1>2. ASSUME NEW d \in Definitions, ReplaceEnvironment(d) PROVE InventoryIInv'
  <2> DEFINE t == Cleared(db, d.env)
             u == Inserted(t, d)
  <2>1. db' = u /\ Consistent(u) /\ Consistent(t)
    BY Zenon, <1>2 DEF ReplaceEnvironment, Client, CanReplace, Replaced
  <2>2. Harmless(db, t)
    <3>1. \A s \in t.scopes : s.versions \subseteq IDs(t.versions)
      BY Zenon, <2>1 DEF Consistent, References
    <3> QED BY Zenon, <1>0, <3>1, ClearedIsHarmless
  <2> HIDE DEF t
  <2>3. DOMAIN t = Tables
    BY Zenon, <2>2 DEF Harmless
  <2>4. Adds(t, u)
    BY Zenon, <2>3, InsertedAdds
  <2> HIDE DEF u
  <2>5. Harmless(db, u) /\ DOMAIN u = Tables
    BY Zenon, <2>2, <2>3, <2>4 DEF Adds, Harmless, Inside
  <2>6. Keyed(u)
    BY Zenon, <2>1, <2>5, ConsistentIsKeyed
  <2>7. Harmless(db, db') /\ Keyed(db')
    BY Zenon, <2>1, <2>5, <2>6
  <2> QED BY Zenon, <1>0, <2>7, HarmlessStep
<1>3. ASSUME NEW e \in db.environments, DeleteEnvironment(e) PROVE InventoryIInv'
  <2> DEFINE t == Cleared(db, e)
             u == [t EXCEPT !.environments = @ \ {e}]
  <2>1. db' = u /\ Consistent(u)
    BY Zenon, <1>3 DEF DeleteEnvironment, Client, Removed
  <2>2. DOMAIN t = Tables
    BY Zenon, <1>0, ClearedFields
  <2>3. DOMAIN u = Tables /\ u.scopes = t.scopes /\ u.plans = t.plans /\ u.resources = t.resources
        /\ u.versions = t.versions
    BY <2>2 DEF Tables
  <2>4. \A s \in t.scopes : s.versions \subseteq IDs(t.versions)
    <3> HIDE DEF t, u
    <3> QED BY Zenon, <2>1, <2>3 DEF Consistent, References
  <2>5. Harmless(db, t)
    BY Zenon, <1>0, <2>4, ClearedIsHarmless
  <2> HIDE DEF t, u
  <2>6. Harmless(db, u)
    BY Zenon, <2>3, <2>5 DEF Harmless, Inside
  <2>7. Keyed(u)
    BY Zenon, <2>1, <2>3, ConsistentIsKeyed
  <2>8. Harmless(db, db') /\ Keyed(db')
    BY Zenon, <2>1, <2>6, <2>7
  <2> QED BY Zenon, <1>0, <2>8, HarmlessStep
<1> QED BY Zenon, <1>1, <1>2, <1>3

(* A discovery reads, asks the cluster, and executes its statements.         *)
LEMMA DiscoverySteps ==
    ASSUME InventoryIInv,
           DiscoveryStep \/ \E x \in Discoverers : \E c \in DOMAIN Reported : DiscoverConnection(x, c)
    PROVE  InventoryIInv'
<1>1. UNCHANGED <<draft, current>>
  BY Zenon DEF DiscoveryStep, DiscoverConnection, FindVersion, FindConnections, FindRuntimes, FindResources,
     FindBindings, Query, Execute, Discovered, Discovering
<1>2. UNCHANGED db \/ \E s : db' = Applied(db, s) /\ Consistent(Applied(db, s))
  BY Zenon DEF DiscoveryStep, DiscoverConnection, FindVersion, FindConnections, FindRuntimes, FindResources,
     FindBindings, Query, Execute, Discovered
<1>3. ASSUME NEW s, db' = Applied(db, s), Consistent(Applied(db, s)) PROVE InventoryIInv'
  <2>1. Harmless(db, Applied(db, s))
    BY Zenon, AppliedIsHarmless DEF InventoryIInv, Keyed
  <2>2. Keyed(Applied(db, s))
    BY Zenon, <1>3, <2>1, ConsistentIsKeyed DEF Harmless
  <2>3. Harmless(db, db') /\ Keyed(db')
    BY Zenon, <1>3, <2>1, <2>2
  <2> QED BY Zenon, <1>1, <2>3, HarmlessStep
<1> QED BY Zenon, <1>1, <1>2, <1>3, SameTables

(* A topology and a console session leave resources where they are.          *)
LEMMA UseSteps ==
    ASSUME InventoryIInv,
           \/ \E s \in IDs(db.scopes) : \E ends \in SUBSET Endpoints : CreateTopology(s, ends)
           \/ \E r \in Endpoints : OpenConsoleSession(r)
    PROVE  InventoryIInv'
<1>1. UNCHANGED <<draft, current>> /\ Keyed(db) /\ DOMAIN db = Tables
  BY Zenon DEF CreateTopology, OpenConsoleSession, InventoryIInv, Keyed
<1>2. \/ \E n : db' = [db EXCEPT !.topologies = @ \cup {n}]
      \/ \E r : db' = [db EXCEPT !.sessions = @ \cup {r}]
  BY Zenon DEF CreateTopology, OpenConsoleSession, Client
<1>3. /\ DOMAIN db' = Tables /\ db'.scopes = db.scopes /\ db'.plans = db.plans
      /\ db'.resources = db.resources /\ db'.versions = db.versions
  BY <1>1, <1>2 DEF Tables
<1>4. Keyed(db')
  BY Zenon, <1>1, <1>3 DEF Keyed
<1>5. Harmless(db, db')
  BY Zenon, <1>3 DEF Harmless, Inside
<1> QED BY Zenon, <1>1, <1>4, <1>5, HarmlessStep

(* The draft is current while the scope it was copied from stands, and a     *)
(* scope that a plan names cannot be deleted: neither comes to name another. *)
LEMMA ScopeSteps ==
    ASSUME InventoryIInv,
           \/ \E s \in ScopeIDs : \E vs \in SUBSET IDs(db.versions) : CreateScope(s, vs)
           \/ \E s \in IDs(db.scopes) : DeleteScope(s)
    PROVE  InventoryIInv'
<1>0. Keyed(db) /\ DOMAIN db = Tables /\ DraftInv /\ PlanInv
  BY Zenon DEF InventoryIInv, Keyed
<1>1. ASSUME NEW s, NEW vs, CreateScope(s, vs) PROVE InventoryIInv'
  <2> DEFINE n == [id |-> s, versions |-> vs]
  <2>1. /\ db' = [db EXCEPT !.scopes = @ \cup {n}] /\ Consistent(db') /\ s \notin IDs(db.scopes)
        /\ UNCHANGED <<draft, current>>
    BY Zenon, <1>1 DEF CreateScope, Client
  <2>2. n.id = s
    OBVIOUS
  <2> HIDE DEF n
  <2>3. /\ DOMAIN db' = Tables /\ db'.scopes = db.scopes \cup {n} /\ db'.plans = db.plans
        /\ db'.resources = db.resources
    BY <1>0, <2>1 DEF Tables
  <2>4. Keyed(db')
    BY Zenon, <2>1, <2>3, ConsistentIsKeyed
  <2>5. \A i, vv : Inside(db, i, vv) => Inside(db, i, vv)'
    BY Zenon, <2>3 DEF Inside
  <2>6. DraftInv'
    <3>1. current => draft.scope # n.id
      BY Zenon, <1>0, <2>1, <2>2 DEF DraftInv
    <3>2. current => draft.scope \in IDs(db'.scopes)
      BY Zenon, <1>0, <2>3 DEF DraftInv, IDs
    <3>3. current' => draft'.scope \in IDs(db.scopes)'
      BY Zenon, <2>1, <3>2 DEF IDs
    <3>4. ASSUME current, NEW x \in db'.scopes, x.id = draft.scope
          PROVE  /\ x.versions = draft.versions
                 /\ \A r \in draft.resources : r.version \in draft.versions => Inside(db, r.id, x.versions)'
      BY Zenon, <1>0, <2>3, <2>5, <3>1, <3>4 DEF DraftInv
    <3> QED BY Zenon, <2>1, <3>3, <3>4 DEF DraftInv
  <2>7. PlanInv'
    <3>1. \A p \in db.plans : p.scope # n.id
      BY Zenon, <1>0, <2>1, <2>2 DEF Keyed
    <3> QED BY Zenon, <1>0, <2>3, <2>5, <3>1 DEF PlanInv
  <2> QED BY Zenon, <2>4, <2>6, <2>7 DEF InventoryIInv
<1>2. ASSUME NEW s, DeleteScope(s) PROVE InventoryIInv'
  <2>1. /\ db' = [db EXCEPT !.scopes = {x \in @ : x.id # s}] /\ Consistent(db')
        /\ current' = (current /\ draft.scope # s) /\ UNCHANGED draft
    BY Zenon, <1>2 DEF DeleteScope, Client
  <2>2. /\ DOMAIN db' = Tables /\ db'.scopes = {x \in db.scopes : x.id # s} /\ db'.plans = db.plans
        /\ db'.resources = db.resources
    BY <1>0, <2>1 DEF Tables
  <2>3. Keyed(db')
    BY Zenon, <2>1, <2>2, ConsistentIsKeyed
  <2>4. current' => current /\ draft.scope # s
    BY Zenon, <2>1
  <2>5. \A i, vv : Inside(db, i, vv) => Inside(db, i, vv)'
    BY Zenon, <2>2 DEF Inside
  <2>6. DraftInv'
    <3>1. current' => draft'.scope \in IDs(db.scopes)'
      BY Zenon, <1>0, <2>1, <2>2, <2>4 DEF DraftInv, IDs
    <3> QED BY Zenon, <1>0, <2>1, <2>2, <2>4, <2>5, <3>1 DEF DraftInv
  <2>7. PlanInv'
    BY Zenon, <1>0, <2>2, <2>5 DEF PlanInv
  <2> QED BY Zenon, <2>3, <2>6, <2>7 DEF InventoryIInv
<1> QED BY Zenon, <1>1, <1>2

(* A client copies what it plans with, and submits the plan.                 *)
LEMMA PlanSteps ==
    ASSUME InventoryIInv,
           \/ \E s \in db.scopes : CopyPlanInputs(s)
           \/ \E chosen \in SUBSET draft.resources : CreatePlan(chosen)
    PROVE  InventoryIInv'
<1>0. Keyed(db) /\ DOMAIN db = Tables /\ DraftInv /\ PlanInv
  BY Zenon DEF InventoryIInv, Keyed
<1>1. ASSUME NEW s \in db.scopes, CopyPlanInputs(s) PROVE InventoryIInv'
  <2>1. /\ UNCHANGED db
        /\ draft' = [scope |-> s.id, versions |-> s.versions, resources |-> {r \in db.resources : r.id \in Endpoints}]
    BY Zenon, <1>1 DEF CopyPlanInputs
  <2>2. draft'.scope = s.id /\ draft'.versions = s.versions /\ draft'.resources \subseteq db.resources
    BY <2>1
  <2>3. Keyed(db')
    BY Zenon, <1>0, <2>1
  <2>4. PlanInv'
    <3>1. db'.plans = db.plans /\ db'.scopes = db.scopes /\ \A i, vs : Inside(db, i, vs) => Inside(db, i, vs)'
      BY Zenon, <2>1 DEF Inside
    <3> QED BY Zenon, <1>0, <3>1 DEF PlanInv
  <2>5. DraftInv'
    <3>1. draft'.scope \in IDs(db.scopes)'
      BY Zenon, <2>1, <2>2 DEF IDs
    <3>2. ASSUME NEW x \in db.scopes, x.id = draft'.scope PROVE x.versions = draft'.versions
      BY Zenon, <1>0, <2>2, <3>2 DEF Keyed
    <3>3. ASSUME NEW x \in db.scopes, x.versions = draft'.versions, NEW r \in draft'.resources,
                 r.version \in draft'.versions
          PROVE  Inside(db', r.id, x.versions)
      BY Zenon, <2>1, <2>2, <3>3 DEF Inside
    <3> QED BY Zenon, <2>1, <3>1, <3>2, <3>3 DEF DraftInv, Inside
  <2> QED BY Zenon, <2>3, <2>4, <2>5 DEF InventoryIInv
<1>2. ASSUME NEW chosen \in SUBSET draft.resources, CreatePlan(chosen) PROVE InventoryIInv'
  <2> DEFINE n == [scope |-> draft.scope, resources |-> IDs(chosen), current |-> current]
  <2>1. /\ db' = [db EXCEPT !.plans = @ \cup {n}] /\ Consistent(db') /\ ~current'
        /\ \A r \in chosen : r.version \in draft.versions
    BY Zenon, <1>2 DEF CreatePlan, Client, InsideScope
  <2>2. n.scope = draft.scope /\ n.resources = IDs(chosen) /\ (n.current => current)
    OBVIOUS
  <2> HIDE DEF n
  <2>3. /\ DOMAIN db' = Tables /\ db'.scopes = db.scopes /\ db'.plans = db.plans \cup {n}
        /\ db'.resources = db.resources
    BY <1>0, <2>1 DEF Tables
  <2>4. Keyed(db')
    BY Zenon, <2>1, <2>3, ConsistentIsKeyed
  <2>5. DraftInv'
    BY Zenon, <2>1 DEF DraftInv
  <2>6. ASSUME n.current, NEW s \in db.scopes, n.scope = s.id, NEW i \in n.resources
        PROVE  Inside(db, i, s.versions)
    <3>1. PICK r \in chosen : i = r.id
      BY Zenon, <2>2 DEF IDs
    <3>2. r \in draft.resources /\ r.version \in draft.versions
      BY Zenon, <2>1
    <3> QED BY Zenon, <1>0, <2>2, <2>6, <3>1, <3>2 DEF DraftInv
  <2>7. PlanInv'
    <3>1. \A i, vv : Inside(db, i, vv) => Inside(db, i, vv)'
      BY Zenon, <2>3 DEF Inside
    <3> QED BY Zenon, <1>0, <2>3, <2>6, <3>1 DEF PlanInv
  <2> QED BY Zenon, <2>4, <2>5, <2>7 DEF InventoryIInv
<1> QED BY Zenon, <1>1, <1>2

(* For any definitions, discoveries, scopes and plans, and for identifiers   *)
(* of scopes that are used again: the resources of a plan whose scope is the *)
(* one its client copied stay under a version of that scope (validator.go,   *)
(* repository.go).                                                           *)
THEOREM PlansAlwaysStayInScope == InventorySpec => []PlansStayInScope
<1>1. InventoryInit => InventoryIInv
  <2> SUFFICES ASSUME InventoryInit PROVE InventoryIInv
    BY Zenon
  <2>1. /\ DOMAIN db = Tables /\ db.versions = {} /\ db.scopes = {} /\ db.plans = {} /\ ~current
    BY DEF InventoryInit, EmptyDatabase, Tables
  <2> QED BY Zenon, <2>1 DEF InventoryIInv, Keyed, IDs, DraftInv, PlanInv
<1>2. InventoryIInv /\ [InventoryNext]_inventoryVars => InventoryIInv'
  <2>1. ASSUME InventoryIInv, UNCHANGED inventoryVars PROVE InventoryIInv'
    BY Zenon, <2>1, SameTables DEF inventoryVars
  <2> QED BY Zenon, <2>1, DiscoverySteps, EnvironmentSteps, UseSteps, ScopeSteps, PlanSteps DEF InventoryNext
<1>3. InventoryIInv => PlansStayInScope
  BY Zenon DEF InventoryIInv, PlanInv, Inside, PlansStayInScope
<1> QED BY <1>1, <1>2, <1>3, PTL DEF InventorySpec

-----------------------------------------------------------------------------
(* The inventory: unused environments stay editable *)

(* A set of natural numbers that is not empty has a least element.           *)
LEMMA LeastNatural ==
    ASSUME NEW S, S \subseteq Nat, S # {}
    PROVE  \E m \in S : \A n \in S : m <= n
<1> DEFINE R == {ss \in Nat \X Nat : ss[1] < ss[2]}
<1>1. IsWellFoundedOn(R, Nat)
  BY Zenon, NatLessThanWellFounded DEF OpToRel
<1> HIDE DEF R
<1>2. PICK m \in S : \A n \in S : ~(<<n, m>> \in R)
  BY Zenon, <1>1, WFMin
<1>3. \A n \in S : <<n, m>> \in Nat \X Nat
  BY <1>2
<1>4. \A n \in S : ~(n < m)
  BY <1>2, <1>3 DEF R
<1> QED BY <1>2, <1>4

\* What joined is to be in Concat(parts), and what it is up to the n-th part.
Joining(joined, parts) ==
  joined = [i \in 0..Len(parts) |-> IF i = 0 THEN <<>> ELSE joined[i - 1] \o parts[i]]
Joined(joined, parts, n) ==
  /\ DOMAIN joined = 0..n
  /\ joined[0] = <<>>
  /\ \A i \in 1..n : joined[i] = joined[i - 1] \o parts[i]

(* The concatenation of parts exists, one part after the other.              *)
LEMMA ConcatExists ==
  ASSUME NEW parts, Len(parts) \in Nat
  PROVE  \A n \in 0..Len(parts) : \E joined : Joined(joined, parts, n)
<1> DEFINE N == Len(parts)
           bad == {n \in 0..N : ~ \E joined : Joined(joined, parts, n)}
<1> HIDE DEF N
<1> SUFFICES ASSUME bad # {} PROVE FALSE
  BY Zenon DEF N
<1>1. bad \subseteq Nat /\ N \in Nat
  BY DEF N
<1>2. PICK n \in bad : \A m \in bad : n <= m
  <2> HIDE DEF bad
  <2> QED BY Zenon, <1>1, LeastNatural
<1>3. n \in 0..N /\ ~ \E joined : Joined(joined, parts, n)
  BY Zenon
<1>4. CASE n = 0
  <2>1. Joined([i \in 0..0 |-> <<>>], parts, 0)
    BY DEF Joined
  <2> QED BY Zenon, <1>3, <1>4, <2>1
<1>5. CASE n # 0
  <2>1. n - 1 \in 0..N /\ ~(n <= n - 1) /\ n \in Nat /\ n - 1 \in Nat
    BY <1>1, <1>3, <1>5
  <2>2. PICK before : Joined(before, parts, n - 1)
    <3>1. n - 1 \notin bad
      <4> HIDE DEF bad
      <4> QED BY Zenon, <1>2, <2>1
    <3> QED BY Zenon, <2>1, <3>1
  <2> DEFINE joined == [i \in 0..n |-> IF i = n THEN before[n - 1] \o parts[n] ELSE before[i]]
  <2>3. before[0] = <<>> /\ \A i \in 1..(n - 1) : before[i] = before[i - 1] \o parts[i]
    BY Zenon, <2>2 DEF Joined
  <2>4. 0 \in 0..n /\ 0 # n
    BY <1>5, <2>1
  <2>5. DOMAIN joined = 0..n /\ joined[0] = <<>>
    BY Zenon, <2>3, <2>4
  <2>6. ASSUME NEW i \in 1..n PROVE joined[i] = joined[i - 1] \o parts[i]
    <3>1. i \in 0..n /\ i - 1 \in 0..n /\ i - 1 # n
      BY <2>1
    <3>2. joined[i - 1] = before[i - 1]
      BY Zenon, <3>1
    <3>3. CASE i = n
      BY Zenon, <3>1, <3>2, <3>3
    <3>4. CASE i # n
      <4>1. i \in 1..(n - 1)
        BY <2>1, <3>4
      <4>2. joined[i] = before[i]
        BY Zenon, <3>1, <3>4
      <4> QED BY Zenon, <2>3, <3>2, <4>1, <4>2
    <3> QED BY Zenon, <3>3, <3>4
  <2>7. Joined(joined, parts, n)
    <3> HIDE DEF joined
    <3> QED BY Zenon, <2>5, <2>6 DEF Joined
  <2> QED BY Zenon, <1>3, <2>7
<1> QED BY Zenon, <1>4, <1>5

(* Parts over one set are concatenated to a sequence over that set.          *)
LEMMA ConcatIsSequence ==
  ASSUME NEW S, NEW n \in Nat, NEW parts, DOMAIN parts = 1..n, Len(parts) = n,
         \A i \in 1..n : parts[i] \in Seq(S)
  PROVE  Concat(parts) \in Seq(S)
<1>1. n \in 0..n
  OBVIOUS
<1>2. PICK joined : Joined(joined, parts, n)
  BY Zenon, <1>1, ConcatExists
<1>3. Joining(CHOOSE f : Joining(f, parts), parts)
  <2> SUFFICES \E f : Joining(f, parts)
    BY Zenon
  <2> DEFINE g == [i \in 0..n |-> joined[i]]
  <2>1. ASSUME NEW i \in 0..n PROVE g[i] = IF i = 0 THEN <<>> ELSE g[i - 1] \o parts[i]
    <3>1. CASE i = 0
      BY Zenon, <1>2, <3>1 DEF Joined
    <3>2. CASE i # 0
      <4>1. i \in 1..n /\ i - 1 \in 0..n
        BY <3>2
      <4> QED BY Zenon, <1>2, <3>2, <4>1 DEF Joined
    <3> QED BY Zenon, <3>1, <3>2
  <2>2. Joining(g, parts)
    <3>1. g = [i \in 0..n |-> g[i]]
      BY Zenon
    <3> HIDE DEF g
    <3> QED BY Zenon, <2>1, <3>1 DEF Joining
  <2> QED BY Zenon, <2>2
<1> DEFINE j == CHOOSE f : Joining(f, parts)
<1>4. Concat(parts) = j[n]
  BY Zenon DEF Concat, Joining
<1> HIDE DEF j
<1>5. j[0] = <<>> /\ \A i \in 1..n : j[i] = j[i - 1] \o parts[i]
  <2>1. j = [i \in 0..n |-> IF i = 0 THEN <<>> ELSE j[i - 1] \o parts[i]]
    BY Zenon, <1>3 DEF Joining, j
  <2>2. 0 \in 0..n /\ \A i \in 1..n : i \in 0..n /\ i # 0
    OBVIOUS
  <2> QED BY Zenon, <2>1, <2>2
<1>6. \A i \in 0..n : j[i] \in Seq(S)
  <2> DEFINE bad == {i \in 0..n : j[i] \notin Seq(S)}
  <2> SUFFICES ASSUME bad # {} PROVE FALSE
    BY Zenon
  <2>1. bad \subseteq Nat
    OBVIOUS
  <2>2. PICK i \in bad : \A k \in bad : i <= k
    <3> HIDE DEF bad
    <3> QED BY Zenon, <2>1, LeastNatural
  <2>3. <<>> \in Seq(S)
    OBVIOUS
  <2>4. i # 0
    BY Zenon, <1>5, <2>3
  <2>5. i \in 1..n /\ i - 1 \in 0..n /\ ~(i <= i - 1)
    BY <2>4
  <2>6. j[i - 1] \in Seq(S) /\ parts[i] \in Seq(S) /\ j[i] = j[i - 1] \o parts[i]
    BY Zenon, <1>5, <2>2, <2>5
  <2>7. j[i] \in Seq(S)
    BY <2>6
  <2> QED BY Zenon, <2>7
<1> QED BY Zenon, <1>1, <1>4, <1>6

(* The elements of a finite set, in some order.                              *)
LEMMA OrderIsSequence ==
  ASSUME NEW S, IsFiniteSet(S)
  PROVE  InSomeOrder(S) \in Seq(S)
<1> DEFINE n == Cardinality(S)
<1>1. n \in Nat /\ ExistsBijection(1..n, S)
  BY Zenon, FS_CardinalityType
<1>2. \E s : s \in Injection(1..n, S)
  BY Zenon, <1>1 DEF ExistsBijection, Bijection
<1>3. InSomeOrder(S) \in Injection(1..n, S)
  BY Zenon, <1>2 DEF InSomeOrder
<1>4. InSomeOrder(S) \in [1..n -> S]
  BY Zenon, <1>3 DEF Injection
<1> HIDE DEF n
<1> QED BY <1>1, <1>4

(* What is read off each row of a finite table is finite.                    *)
LEMMA FiniteRange ==
  ASSUME NEW g, IsFiniteSet(DOMAIN g)
  PROVE  IsFiniteSet(Range(g))
<1> DEFINE S == DOMAIN g
           h == [x \in S |-> g[x]]
<1>1. h \in Surjection(S, Range(g))
  BY DEF Surjection, Range
<1> QED BY Zenon, <1>1, FS_Surjection

\* A stored resource with what an environment may call it and its parent.
OwnRow(r, e) ==
  /\ {"id", "version", "parent"} \subseteq DOMAIN r
  /\ r.version \in VersionIDs(e) /\ r.id \in ResourceIDs(e)
  /\ r.parent = NoParent \/ r.parent \in ResourceIDs(e)

\* Every row carries identifiers of one environment.
RowsNamed(t) ==
  /\ \A v \in t.versions : v.env \in EnvironmentIDs /\ v.id \in VersionIDs(v.env)
  /\ \A c \in t.connections : c.env \in EnvironmentIDs /\ c.id \in ConnectionIDs(c.env)
  /\ \A u \in t.runtimes : \E e \in EnvironmentIDs : u.version \in VersionIDs(e) /\ u.id \in RuntimeIDs(e)
  /\ \A r \in t.resources : \E e \in EnvironmentIDs : OwnRow(r, e)
  /\ \A s \in t.storages : \E e \in EnvironmentIDs : s.version \in VersionIDs(e) /\ s.id \in StorageIDs(e)

FiniteRows(t) == IsFiniteSet(t.runtimes) /\ IsFiniteSet(t.resources)
Versioned(t) == \A e \in t.environments : VersionsOf(t, e) # {}
Sound(t) == DOMAIN t = Tables /\ Consistent(t) /\ RowsNamed(t) /\ FiniteRows(t) /\ Versioned(t)

\* The rows of a definition.
NewConnections(d) == {[id |-> c, env |-> d.env] : c \in d.connections}
NewVersions(d) == {[id |-> d.version, env |-> d.env]}
NewRuntimes(d) == {[u EXCEPT !.version = d.version] : u \in d.runtimes}
NewResources(d) == {[r EXCEPT !.version = d.version] : r \in d.resources}
NewRelations(d) == {<<l[1], l[2], d.version>> : l \in d.relations}
NewStorages(d) == {[id |-> m[1], version |-> d.version] : m \in d.mounts}
NewMounts(d) == {<<m[1], m[2], d.version>> : m \in d.mounts}

\* Only the tables in K differ.
Only(t, u, K) == DOMAIN u = Tables /\ \A k \in Tables \ K : u[k] = t[k]

\* u is t with the rows of a definition.
WithRows(t, d, u) ==
  /\ DOMAIN u = Tables /\ u.environments = t.environments
  /\ u.connections = t.connections \cup NewConnections(d) /\ u.versions = t.versions \cup NewVersions(d)
  /\ u.runtimes = t.runtimes \cup NewRuntimes(d) /\ u.resources = t.resources \cup NewResources(d)
  /\ u.bindings = t.bindings \cup d.bindings /\ u.relations = t.relations \cup NewRelations(d)
  /\ u.storages = t.storages \cup NewStorages(d) /\ u.mounts = t.mounts \cup NewMounts(d)
  /\ u.profiles = t.profiles \cup d.profiles
  /\ u.snapshots = t.snapshots /\ u.scopes = t.scopes /\ u.topologies = t.topologies
  /\ u.plans = t.plans /\ u.sessions = t.sessions

(* The inserts of Create and Replace add the rows of the definition.         *)
LEMMA InsertedRows ==
  ASSUME NEW t, DOMAIN t = Tables, NEW d
  PROVE  WithRows(t, d, Inserted(t, d))
<1> DEFINE t1 == insertConnections(t, d)
           t2 == insertEnvironmentVersion(t1, d)
           t3 == insertRuntimes(t2, d)
           t4 == insertResources(t3, d)
           t5 == insertRuntimeBindings(t4, d)
           t6 == insertResourceRelations(t5, d)
           t7 == insertStorages(t6, d)
           t8 == insertProfiles(t7, d)
<1>0. Inserted(t, d) = t8
  BY Zenon DEF Inserted
<1> HIDE DEF t1, t2, t3, t4, t5, t6, t7, t8
<1>1. Only(t, t1, {"connections"}) /\ t1.connections = t.connections \cup NewConnections(d)
  BY DEF t1, insertConnections, NewConnections, Only, Tables
<1>2. Only(t1, t2, {"versions"}) /\ t2.versions = t1.versions \cup NewVersions(d)
  BY <1>1 DEF t2, insertEnvironmentVersion, NewVersions, Only, Tables
<1>3. Only(t2, t3, {"runtimes"}) /\ t3.runtimes = t2.runtimes \cup NewRuntimes(d)
  BY <1>2 DEF t3, insertRuntimes, NewRuntimes, Only, Tables
<1>4. Only(t3, t4, {"resources"}) /\ t4.resources = t3.resources \cup NewResources(d)
  BY <1>3 DEF t4, insertResources, NewResources, Only, Tables
<1>5. Only(t4, t5, {"bindings"}) /\ t5.bindings = t4.bindings \cup d.bindings
  BY <1>4 DEF t5, insertRuntimeBindings, Only, Tables
<1>6. Only(t5, t6, {"relations"}) /\ t6.relations = t5.relations \cup NewRelations(d)
  BY <1>5 DEF t6, insertResourceRelations, NewRelations, Only, Tables
<1>7. /\ Only(t6, t7, {"storages", "mounts"}) /\ t7.storages = t6.storages \cup NewStorages(d)
      /\ t7.mounts = t6.mounts \cup NewMounts(d)
  BY Zenon, <1>6 DEF t7, insertStorages, NewStorages, NewMounts, Only, Tables
<1>8. Only(t7, t8, {"profiles"}) /\ t8.profiles = t7.profiles \cup d.profiles
  BY <1>7 DEF t8, insertProfiles, Only, Tables
<1>9. DOMAIN t8 = Tables
  BY Zenon, <1>8 DEF Only
<1>a. /\ t8.environments = t.environments /\ t8.snapshots = t.snapshots /\ t8.scopes = t.scopes
      /\ t8.topologies = t.topologies /\ t8.plans = t.plans /\ t8.sessions = t.sessions
  BY <1>1, <1>2, <1>3, <1>4, <1>5, <1>6, <1>7, <1>8 DEF Only, Tables
<1>b. /\ t8.connections = t.connections \cup NewConnections(d) /\ t8.versions = t.versions \cup NewVersions(d)
      /\ t8.runtimes = t.runtimes \cup NewRuntimes(d) /\ t8.resources = t.resources \cup NewResources(d)
  BY <1>1, <1>2, <1>3, <1>4, <1>5, <1>6, <1>7, <1>8 DEF Only, Tables
<1>c. /\ t8.bindings = t.bindings \cup d.bindings /\ t8.relations = t.relations \cup NewRelations(d)
      /\ t8.storages = t.storages \cup NewStorages(d) /\ t8.mounts = t.mounts \cup NewMounts(d)
      /\ t8.profiles = t.profiles \cup d.profiles
  BY <1>1, <1>2, <1>3, <1>4, <1>5, <1>6, <1>7, <1>8 DEF Only, Tables
<1> QED BY Zenon, <1>0, <1>9, <1>a, <1>b, <1>c DEF WithRows

\* u is t without the rows of an environment.
WithoutRows(t, e, u) ==
  LET gone == IDs(Owned(t, t.resources, e))
      over == IDs(Owned(t, t.runtimes, e))
      lost == IDs(Owned(t, t.storages, e))
  IN  /\ DOMAIN u = Tables /\ u.environments = t.environments
      /\ u.snapshots = t.snapshots \ gone /\ u.profiles = t.profiles \ gone
      /\ u.relations = {l \in t.relations : l[3] \notin VersionsOf(t, e) /\ {l[1], l[2]} \cap gone = {}}
      /\ u.storages = t.storages \ Owned(t, t.storages, e)
      /\ u.resources = t.resources \ Owned(t, t.resources, e)
      /\ u.runtimes = t.runtimes \ Owned(t, t.runtimes, e)
      /\ u.bindings = {b \in t.bindings : b[1] \notin gone /\ b[2] \notin over}
      /\ u.mounts = {m \in t.mounts : m[1] \notin lost /\ m[2] \notin over}
      /\ u.connections = {c \in t.connections : c.env # e}
      /\ u.versions = {v \in t.versions : v.env # e}
      /\ u.scopes = t.scopes /\ u.topologies = t.topologies
      /\ u.plans = t.plans /\ u.sessions = t.sessions

(* The deletions of Replace and Delete take the rows of the environment.     *)
LEMMA ClearedRows ==
  ASSUME NEW t, DOMAIN t = Tables, NEW e
  PROVE  WithoutRows(t, e, Cleared(t, e))
  BY Zenon DEF Cleared, Tables, WithoutSnapshots, WithoutRows

Keys(rows) == \A x, y \in rows : x.id = y.id => x = y
NoCommonKey(A, B) == IDs(A) \cap IDs(B) = {}

(* The constraints of uniqueness, table by table.                            *)
LEMMA UniqueTables ==
  ASSUME NEW t
  PROVE  Unique(t) <=>
           /\ Keys(t.versions) /\ Keys(t.connections) /\ Keys(t.runtimes)
           /\ Keys(t.resources) /\ Keys(t.storages) /\ Keys(t.scopes)
           /\ \A x, y \in t.resources : x.provider = y.provider /\ x.version = y.version => x = y
           /\ \A x, y \in t.relations : x[1] = y[1] /\ x[2] = y[2] => x = y
<1> DEFINE T == {t.versions, t.connections, t.runtimes, t.resources, t.storages, t.scopes}
<1>1. (\A rows \in T : Keys(rows)) <=>
        /\ Keys(t.versions) /\ Keys(t.connections) /\ Keys(t.runtimes)
        /\ Keys(t.resources) /\ Keys(t.storages) /\ Keys(t.scopes)
  BY Zenon
<1>2. Unique(t) <=>
        /\ \A rows \in T : Keys(rows)
        /\ \A x, y \in t.resources : x.provider = y.provider /\ x.version = y.version => x = y
        /\ \A x, y \in t.relations : x[1] = y[1] /\ x[2] = y[2] => x = y
  BY DEF Unique, Keys
<1> HIDE DEF T
<1> QED BY Zenon, <1>1, <1>2

(* Two tables with no key in common.                                         *)
LEMMA KeysUnion ==
  ASSUME NEW A, NEW B, Keys(A), Keys(B), NoCommonKey(A, B)
  PROVE  Keys(A \cup B)
<1>1. \A x \in A : \A y \in B : x.id # y.id
  <2> SUFFICES ASSUME NEW x \in A, NEW y \in B, x.id = y.id PROVE FALSE
    BY Zenon
  <2>1. x.id \in IDs(A) /\ y.id \in IDs(B)
    BY Zenon DEF IDs
  <2> QED BY Zenon, <2>1 DEF NoCommonKey
<1> QED BY Zenon, <1>1 DEF Keys

\* u holds the rows of a and those of b.
Together(a, b, u) ==
  /\ u.environments = a.environments /\ b.environments \subseteq a.environments
  /\ u.versions = a.versions \cup b.versions /\ u.connections = a.connections \cup b.connections
  /\ u.runtimes = a.runtimes \cup b.runtimes /\ u.resources = a.resources \cup b.resources
  /\ u.bindings = a.bindings \cup b.bindings /\ u.relations = a.relations \cup b.relations
  /\ u.snapshots = a.snapshots \cup b.snapshots /\ u.profiles = a.profiles \cup b.profiles
  /\ u.storages = a.storages \cup b.storages /\ u.mounts = a.mounts \cup b.mounts
  /\ u.scopes = a.scopes \cup b.scopes /\ u.topologies = a.topologies \cup b.topologies
  /\ u.plans = a.plans \cup b.plans /\ u.sessions = a.sessions \cup b.sessions

Apart(a, b) ==
  /\ NoCommonKey(a.versions, b.versions) /\ NoCommonKey(a.connections, b.connections)
  /\ NoCommonKey(a.runtimes, b.runtimes) /\ NoCommonKey(a.resources, b.resources)
  /\ NoCommonKey(a.storages, b.storages) /\ NoCommonKey(a.scopes, b.scopes)

(* The foreign keys of two databases hold in their union.                    *)
LEMMA ReferencesTogether ==
  ASSUME NEW a, NEW b, NEW u, Together(a, b, u), References(a), References(b)
  PROVE  References(u)
<1>1. /\ IDs(a.versions) \subseteq IDs(u.versions) /\ IDs(b.versions) \subseteq IDs(u.versions)
      /\ IDs(a.resources) \subseteq IDs(u.resources) /\ IDs(b.resources) \subseteq IDs(u.resources)
      /\ IDs(a.runtimes) \subseteq IDs(u.runtimes) /\ IDs(b.runtimes) \subseteq IDs(u.runtimes)
      /\ IDs(a.scopes) \subseteq IDs(u.scopes) /\ IDs(b.scopes) \subseteq IDs(u.scopes)
  <2>1. \A A, B : A \subseteq B => IDs(A) \subseteq IDs(B)
    BY Zenon DEF IDs
  <2>2. /\ a.versions \subseteq u.versions /\ b.versions \subseteq u.versions
        /\ a.resources \subseteq u.resources /\ b.resources \subseteq u.resources
        /\ a.runtimes \subseteq u.runtimes /\ b.runtimes \subseteq u.runtimes
        /\ a.scopes \subseteq u.scopes /\ b.scopes \subseteq u.scopes
    BY Zenon DEF Together
  <2> QED BY Zenon, <2>1, <2>2
<1>2. \A v \in u.versions : v.env \in u.environments
  BY Zenon DEF Together, References
<1>3. \A c \in u.connections : c.env \in u.environments
  BY Zenon DEF Together, References
<1>4. \A x \in u.runtimes \cup u.resources \cup u.storages : x.version \in IDs(u.versions)
  BY Zenon, <1>1 DEF Together, References
<1>5. \A r \in u.resources : r.parent = NoParent \/ r.parent \in IDs(u.resources)
  BY Zenon, <1>1 DEF Together, References
<1>6. \A x \in u.bindings : x[1] \in IDs(u.resources) /\ x[2] \in IDs(u.runtimes)
  BY Zenon, <1>1 DEF Together, References
<1>7. \A l \in u.relations : l[1] \in IDs(u.resources) /\ l[2] \in IDs(u.resources) /\ l[3] \in IDs(u.versions)
  BY Zenon, <1>1 DEF Together, References
<1>8. u.snapshots \cup u.profiles \cup u.sessions \subseteq IDs(u.resources)
  BY Zenon, <1>1 DEF Together, References
<1>9. ASSUME NEW m \in u.mounts
      PROVE  /\ \E s \in u.storages : s.id = m[1] /\ s.version = m[3]
             /\ \E x \in u.runtimes : x.id = m[2] /\ x.version = m[3]
  <2>1. CASE m \in a.mounts
    BY Zenon, <2>1 DEF Together, References
  <2>2. CASE m \in b.mounts
    BY Zenon, <2>2 DEF Together, References
  <2> QED BY Zenon, <2>1, <2>2 DEF Together
<1>a. \A s \in u.scopes : s.versions \subseteq IDs(u.versions)
  BY Zenon, <1>1 DEF Together, References
<1>b. \A n \in u.topologies : n.scope \in IDs(u.scopes) /\ n.ends \subseteq IDs(u.resources)
  BY Zenon, <1>1 DEF Together, References
<1>c. \A p \in u.plans : p.scope \in IDs(u.scopes) /\ p.resources \subseteq IDs(u.resources)
  BY Zenon, <1>1 DEF Together, References
<1> QED BY Zenon, <1>2, <1>3, <1>4, <1>5, <1>6, <1>7, <1>8, <1>9, <1>a, <1>b, <1>c DEF References

(* Two databases that are consistent and share no key are consistent         *)
(* together: the other UNIQUE constraints name a version or a resource.      *)
LEMMA ConsistentTogether ==
  ASSUME NEW a, NEW b, NEW u, Together(a, b, u), Apart(a, b), Consistent(a), Consistent(b)
  PROVE  Consistent(u)
<1>0. References(a) /\ References(b) /\ Unique(a) /\ Unique(b)
  BY Zenon DEF Consistent
<1>1. References(u)
  BY Zenon, <1>0, ReferencesTogether
<1>2. /\ Keys(u.versions) /\ Keys(u.connections) /\ Keys(u.runtimes)
      /\ Keys(u.resources) /\ Keys(u.storages) /\ Keys(u.scopes)
  <2>1. /\ Keys(a.versions) /\ Keys(a.connections) /\ Keys(a.runtimes)
        /\ Keys(a.resources) /\ Keys(a.storages) /\ Keys(a.scopes)
        /\ Keys(b.versions) /\ Keys(b.connections) /\ Keys(b.runtimes)
        /\ Keys(b.resources) /\ Keys(b.storages) /\ Keys(b.scopes)
    BY Zenon, <1>0, UniqueTables
  <2>2. Keys(u.versions)
    <3>1. Keys(a.versions \cup b.versions)
      BY Zenon, <2>1, KeysUnion DEF Apart
    <3> QED BY Zenon, <3>1 DEF Together
  <2>3. Keys(u.connections)
    <3>1. Keys(a.connections \cup b.connections)
      BY Zenon, <2>1, KeysUnion DEF Apart
    <3> QED BY Zenon, <3>1 DEF Together
  <2>4. Keys(u.runtimes)
    <3>1. Keys(a.runtimes \cup b.runtimes)
      BY Zenon, <2>1, KeysUnion DEF Apart
    <3> QED BY Zenon, <3>1 DEF Together
  <2>5. Keys(u.resources)
    <3>1. Keys(a.resources \cup b.resources)
      BY Zenon, <2>1, KeysUnion DEF Apart
    <3> QED BY Zenon, <3>1 DEF Together
  <2>6. Keys(u.storages)
    <3>1. Keys(a.storages \cup b.storages)
      BY Zenon, <2>1, KeysUnion DEF Apart
    <3> QED BY Zenon, <3>1 DEF Together
  <2>7. Keys(u.scopes)
    <3>1. Keys(a.scopes \cup b.scopes)
      BY Zenon, <2>1, KeysUnion DEF Apart
    <3> QED BY Zenon, <3>1 DEF Together
  <2> QED BY Zenon, <2>2, <2>3, <2>4, <2>5, <2>6, <2>7
<1>3. ASSUME NEW x \in u.resources, NEW y \in u.resources, x.provider = y.provider, x.version = y.version
      PROVE  x = y
  <2>0. /\ \A z \in a.resources : z.version \in IDs(a.versions)
        /\ \A z \in b.resources : z.version \in IDs(b.versions)
        /\ IDs(a.versions) \cap IDs(b.versions) = {} /\ u.resources = a.resources \cup b.resources
    BY Zenon, <1>0 DEF Together, Apart, NoCommonKey, References
  <2>1. x.version \in IDs(a.versions) <=> x \in a.resources
    BY Zenon, <2>0
  <2>2. y.version \in IDs(a.versions) <=> y \in a.resources
    BY Zenon, <2>0
  <2>3. CASE x \in a.resources
    <3>1. y \in a.resources
      BY Zenon, <1>3, <2>1, <2>2, <2>3
    <3> QED BY Zenon, <1>0, <1>3, <2>3, <3>1, UniqueTables
  <2>4. CASE x \notin a.resources
    <3>1. x \in b.resources /\ y \in b.resources
      BY Zenon, <1>3, <2>1, <2>2, <2>4 DEF Together
    <3> QED BY Zenon, <1>0, <1>3, <3>1, UniqueTables
  <2> QED BY Zenon, <2>3, <2>4
<1>4. ASSUME NEW x \in u.relations, NEW y \in u.relations, x[1] = y[1], x[2] = y[2]
      PROVE  x = y
  <2>0. /\ \A z \in a.relations : z[1] \in IDs(a.resources)
        /\ \A z \in b.relations : z[1] \in IDs(b.resources)
        /\ IDs(a.resources) \cap IDs(b.resources) = {} /\ u.relations = a.relations \cup b.relations
    BY Zenon, <1>0 DEF Together, Apart, NoCommonKey, References
  <2>1. x[1] \in IDs(a.resources) <=> x \in a.relations
    BY Zenon, <2>0
  <2>2. y[1] \in IDs(a.resources) <=> y \in a.relations
    BY Zenon, <2>0
  <2>3. CASE x \in a.relations
    <3>1. y \in a.relations
      BY Zenon, <1>4, <2>1, <2>2, <2>3
    <3> QED BY Zenon, <1>0, <1>4, <2>3, <3>1, UniqueTables
  <2>4. CASE x \notin a.relations
    <3>1. x \in b.relations /\ y \in b.relations
      BY Zenon, <1>4, <2>1, <2>2, <2>4 DEF Together
    <3> QED BY Zenon, <1>0, <1>4, <3>1, UniqueTables
  <2> QED BY Zenon, <2>3, <2>4
<1>5. Unique(u)
  BY Zenon, <1>2, <1>3, <1>4, UniqueTables
<1> QED BY Zenon, <1>1, <1>5 DEF Consistent

(* An identifier tells the environment.                                      *)
LEMMA OneEnvironment ==
  ASSUME Separate, NEW e \in EnvironmentIDs, NEW g \in EnvironmentIDs, NEW i,
         \/ i \in VersionIDs(e) \cap VersionIDs(g) \/ i \in ConnectionIDs(e) \cap ConnectionIDs(g)
         \/ i \in RuntimeIDs(e) \cap RuntimeIDs(g) \/ i \in ResourceIDs(e) \cap ResourceIDs(g)
         \/ i \in StorageIDs(e) \cap StorageIDs(g)
  PROVE  e = g
<1> SUFFICES ASSUME e # g PROVE FALSE
  BY Zenon
<1>1. /\ VersionIDs(e) \cap VersionIDs(g) = {} /\ ConnectionIDs(e) \cap ConnectionIDs(g) = {}
      /\ RuntimeIDs(e) \cap RuntimeIDs(g) = {} /\ ResourceIDs(e) \cap ResourceIDs(g) = {}
      /\ StorageIDs(e) \cap StorageIDs(g) = {}
  BY Zenon DEF Separate
<1> QED BY Zenon, <1>1

(* A stored version of an environment is found by its environment.           *)
LEMMA StoredVersion ==
  ASSUME Separate, NEW t, RowsNamed(t), NEW e \in EnvironmentIDs, NEW i \in IDs(t.versions)
  PROVE  i \in VersionsOf(t, e) <=> i \in VersionIDs(e)
<1>1. ASSUME i \in VersionsOf(t, e) PROVE i \in VersionIDs(e)
  BY Zenon, <1>1 DEF VersionsOf, RowsNamed
<1>2. ASSUME i \in VersionIDs(e) PROVE i \in VersionsOf(t, e)
  <2>1. PICK v \in t.versions : v.id = i
    BY Zenon DEF IDs
  <2>2. v.env \in EnvironmentIDs /\ i \in VersionIDs(v.env)
    BY Zenon, <2>1 DEF RowsNamed
  <2>3. v.env = e
    BY Zenon, <1>2, <2>2, OneEnvironment
  <2> QED BY Zenon, <2>1, <2>3 DEF VersionsOf
<1> QED BY Zenon, <1>1, <1>2

(* A stored environment is one of a definition.                              *)
LEMMA StoredEnvironment ==
  ASSUME NEW t, Sound(t), NEW e \in t.environments
  PROVE  e \in EnvironmentIDs
  BY Zenon DEF Sound, Versioned, VersionsOf, RowsNamed

(* No foreign key is left without its row when an environment that nothing   *)
(* uses is cleared: parents lie within an environment, and the scopes,       *)
(* topologies, plans and sessions are those that Delete looks for.           *)
LEMMA ClearedConsistent ==
  ASSUME Separate, NEW t, Sound(t), NEW e \in t.environments, ~Dependency(t, e)
  PROVE  Consistent(Cleared(t, e))
<1> DEFINE u == Cleared(t, e)
           gone == IDs(Owned(t, t.resources, e))
           over == IDs(Owned(t, t.runtimes, e))
           lost == IDs(Owned(t, t.storages, e))
<1>0. DOMAIN t = Tables /\ References(t) /\ Unique(t) /\ RowsNamed(t) /\ e \in EnvironmentIDs
  BY Zenon, StoredEnvironment DEF Sound, Consistent
<1>r. WithoutRows(t, e, u)
  BY Zenon, <1>0, ClearedRows
<1> HIDE DEF u
<1>1. /\ u.environments = t.environments
      /\ u.snapshots = t.snapshots \ gone /\ u.profiles = t.profiles \ gone
      /\ u.relations = {l \in t.relations : l[3] \notin VersionsOf(t, e) /\ {l[1], l[2]} \cap gone = {}}
      /\ u.storages = t.storages \ Owned(t, t.storages, e)
      /\ u.resources = t.resources \ Owned(t, t.resources, e)
      /\ u.runtimes = t.runtimes \ Owned(t, t.runtimes, e)
      /\ u.bindings = {b \in t.bindings : b[1] \notin gone /\ b[2] \notin over}
      /\ u.mounts = {m \in t.mounts : m[1] \notin lost /\ m[2] \notin over}
      /\ u.connections = {c \in t.connections : c.env # e}
      /\ u.versions = {v \in t.versions : v.env # e}
      /\ u.scopes = t.scopes /\ u.topologies = t.topologies
      /\ u.plans = t.plans /\ u.sessions = t.sessions
  BY Zenon, <1>r DEF WithoutRows
<1>2. /\ \A s \in t.scopes : s.versions \cap VersionsOf(t, e) = {}
      /\ \A n \in t.topologies : n.ends \cap gone = {}
      /\ \A p \in t.plans : p.resources \cap gone = {}
      /\ t.sessions \cap gone = {}
  BY Zenon DEF Dependency, UsedByConsole
<1>3. \A i \in IDs(t.versions) : i \notin VersionsOf(t, e) => i \in IDs(u.versions)
  BY Zenon, <1>1 DEF IDs, VersionsOf
<1>4. \A i \in IDs(t.resources) : i \notin gone => i \in IDs(u.resources)
  BY Zenon, <1>1 DEF IDs
<1>5. \A i \in IDs(t.runtimes) : i \notin over => i \in IDs(u.runtimes)
  BY Zenon, <1>1 DEF IDs
<1>6. \A x \in u.runtimes \cup u.resources \cup u.storages : x.version \notin VersionsOf(t, e)
  BY Zenon, <1>1 DEF Owned
<1>7. /\ \A x \in Owned(t, t.storages, e) : x.id \in lost
      /\ \A x \in Owned(t, t.runtimes, e) : x.id \in over
  BY Zenon DEF IDs
<1> HIDE DEF gone, over, lost
<1>a. \A v \in u.versions : v.env \in u.environments
  BY Zenon, <1>0, <1>1 DEF References
<1>b. \A c \in u.connections : c.env \in u.environments
  BY Zenon, <1>0, <1>1 DEF References
<1>c. ASSUME NEW x \in u.runtimes \cup u.resources \cup u.storages PROVE x.version \in IDs(u.versions)
  <2>1. x \in t.runtimes \cup t.resources \cup t.storages
    BY Zenon, <1>1
  <2> QED BY Zenon, <1>0, <1>3, <1>6, <2>1 DEF References
<1>d. ASSUME NEW r \in u.resources, r.parent # NoParent PROVE r.parent \in IDs(u.resources)
  <2>1. r \in t.resources /\ r.version \notin VersionsOf(t, e)
    BY Zenon, <1>1, <1>6
  <2>2. r.parent \in IDs(t.resources) /\ r.version \in IDs(t.versions)
    BY Zenon, <1>0, <1>d, <2>1 DEF References
  <2>3. PICK y \in t.resources : y.id = r.parent
    BY Zenon, <2>2 DEF IDs
  <2>4. PICK g \in EnvironmentIDs : OwnRow(r, g)
    BY Zenon, <1>0, <2>1 DEF RowsNamed
  <2>5. PICK h \in EnvironmentIDs : OwnRow(y, h)
    BY Zenon, <1>0, <2>3 DEF RowsNamed
  <2>6. g = h
    BY Zenon, <1>d, <2>3, <2>4, <2>5, OneEnvironment DEF OwnRow
  <2>7. g # e
    BY Zenon, <1>0, <2>1, <2>2, <2>4, StoredVersion DEF OwnRow
  <2>8. y.version \in IDs(t.versions)
    BY Zenon, <1>0, <2>3 DEF References
  <2>9. y.version \notin VersionsOf(t, e)
    <3> SUFFICES ASSUME y.version \in VersionsOf(t, e) PROVE FALSE
      BY Zenon
    <3>1. y.version \in VersionIDs(e) /\ y.version \in VersionIDs(h)
      BY Zenon, <1>0, <2>5, <2>8, StoredVersion DEF OwnRow
    <3> QED BY Zenon, <1>0, <2>5, <2>6, <2>7, <3>1, OneEnvironment
  <2>a. y \in u.resources
    BY Zenon, <1>1, <2>3, <2>9 DEF Owned
  <2> QED BY Zenon, <2>3, <2>a DEF IDs
<1>e. \A b \in u.bindings : b[1] \in IDs(u.resources) /\ b[2] \in IDs(u.runtimes)
  BY Zenon, <1>0, <1>1, <1>4, <1>5 DEF References
<1>f. \A l \in u.relations : l[1] \in IDs(u.resources) /\ l[2] \in IDs(u.resources) /\ l[3] \in IDs(u.versions)
  BY Zenon, <1>0, <1>1, <1>3, <1>4 DEF References
<1>g. u.snapshots \cup u.profiles \cup u.sessions \subseteq IDs(u.resources)
  BY Zenon, <1>0, <1>1, <1>2, <1>4 DEF References
<1>h. ASSUME NEW m \in u.mounts
      PROVE  /\ \E s \in u.storages : s.id = m[1] /\ s.version = m[3]
             /\ \E x \in u.runtimes : x.id = m[2] /\ x.version = m[3]
  <2>1. m \in t.mounts /\ m[1] \notin lost /\ m[2] \notin over
    BY Zenon, <1>1
  <2>2. PICK s \in t.storages : s.id = m[1] /\ s.version = m[3]
    BY Zenon, <1>0, <2>1 DEF References
  <2>3. PICK x \in t.runtimes : x.id = m[2] /\ x.version = m[3]
    BY Zenon, <1>0, <2>1 DEF References
  <2>4. s \in u.storages /\ x \in u.runtimes
    BY Zenon, <1>1, <1>7, <2>1, <2>2, <2>3
  <2> QED BY Zenon, <2>2, <2>3, <2>4
<1>i. \A s \in u.scopes : s.versions \subseteq IDs(u.versions)
  BY Zenon, <1>0, <1>1, <1>2, <1>3 DEF References
<1>j. \A n \in u.topologies : n.scope \in IDs(u.scopes) /\ n.ends \subseteq IDs(u.resources)
  BY Zenon, <1>0, <1>1, <1>2, <1>4 DEF References
<1>k. \A p \in u.plans : p.scope \in IDs(u.scopes) /\ p.resources \subseteq IDs(u.resources)
  BY Zenon, <1>0, <1>1, <1>2, <1>4 DEF References
<1>l. References(u)
  BY Zenon, <1>a, <1>b, <1>c, <1>d, <1>e, <1>f, <1>g, <1>h, <1>i, <1>j, <1>k DEF References
<1>m. Unique(u)
  <2>1. /\ u.versions \subseteq t.versions /\ u.connections \subseteq t.connections /\ u.runtimes \subseteq t.runtimes
        /\ u.resources \subseteq t.resources /\ u.storages \subseteq t.storages /\ u.scopes = t.scopes
        /\ u.relations \subseteq t.relations
    BY Zenon, <1>1
  <2>2. /\ Keys(u.versions) /\ Keys(u.connections) /\ Keys(u.runtimes)
        /\ Keys(u.resources) /\ Keys(u.storages) /\ Keys(u.scopes)
    BY Zenon, <1>0, <2>1, UniqueTables DEF Keys
  <2>3. /\ \A x, y \in u.resources : x.provider = y.provider /\ x.version = y.version => x = y
        /\ \A x, y \in u.relations : x[1] = y[1] /\ x[2] = y[2] => x = y
    BY Zenon, <1>0, <2>1, UniqueTables
  <2> QED BY Zenon, <2>2, <2>3, UniqueTables
<1> QED BY Zenon, <1>l, <1>m DEF Consistent, u

(* A row that was not cleared has no identifier of the environment.          *)
LEMMA ClearedIsFresh ==
  ASSUME Separate, NEW t, Sound(t), NEW d \in Definitions, d.env \in t.environments
  PROVE  Fresh(Cleared(t, d.env), d)
<1> DEFINE e == d.env
           u == Cleared(t, e)
<1>0. DOMAIN t = Tables /\ References(t) /\ RowsNamed(t) /\ e \in EnvironmentIDs /\ d \in Of(e)
  BY Zenon DEF Sound, Consistent, EnvironmentIDs, Of
<1>1. /\ u.storages = t.storages \ Owned(t, t.storages, e)
      /\ u.resources = t.resources \ Owned(t, t.resources, e)
      /\ u.runtimes = t.runtimes \ Owned(t, t.runtimes, e)
      /\ u.connections = {c \in t.connections : c.env # e}
      /\ u.versions = {v \in t.versions : v.env # e}
  <2>1. WithoutRows(t, e, u)
    BY Zenon, <1>0, ClearedRows
  <2> HIDE DEF u
  <2> QED BY Zenon, <2>1 DEF WithoutRows
<1>2. /\ d.version \in VersionIDs(e) /\ d.connections \subseteq ConnectionIDs(e)
      /\ IDs(d.runtimes) \subseteq RuntimeIDs(e) /\ IDs(d.resources) \subseteq ResourceIDs(e)
      /\ {m[1] : m \in d.mounts} \subseteq StorageIDs(e)
  BY Zenon, <1>0 DEF VersionIDs, ConnectionIDs, RuntimeIDs, ResourceIDs, StorageIDs
<1> HIDE DEF u, e
<1>3. ASSUME NEW x \in u.runtimes \cup u.resources \cup u.storages PROVE x.version \notin VersionIDs(e)
  <2>1. x \in t.runtimes \cup t.resources \cup t.storages /\ x.version \notin VersionsOf(t, e)
    BY Zenon, <1>1 DEF Owned
  <2>2. x.version \in IDs(t.versions)
    BY Zenon, <1>0, <2>1 DEF References
  <2> QED BY Zenon, <1>0, <2>1, <2>2, StoredVersion
<1>4. d.version \notin IDs(u.versions)
  <2> SUFFICES ASSUME NEW v \in u.versions, v.id = d.version PROVE FALSE
    BY Zenon DEF IDs
  <2>1. v.env # e /\ v.env \in EnvironmentIDs /\ v.id \in VersionIDs(v.env)
    BY Zenon, <1>0, <1>1 DEF RowsNamed
  <2> QED BY Zenon, <1>0, <1>2, <2>1, OneEnvironment
<1>5. d.connections \cap IDs(u.connections) = {}
  <2> SUFFICES ASSUME NEW c \in u.connections, c.id \in d.connections PROVE FALSE
    BY Zenon DEF IDs
  <2>1. c.env # e /\ c.env \in EnvironmentIDs /\ c.id \in ConnectionIDs(c.env)
    BY Zenon, <1>0, <1>1 DEF RowsNamed
  <2>2. c.id \in ConnectionIDs(e)
    BY Zenon, <1>2
  <2> QED BY Zenon, <1>0, <2>1, <2>2, OneEnvironment
<1>6. IDs(d.runtimes) \cap IDs(u.runtimes) = {}
  <2> SUFFICES ASSUME NEW x \in u.runtimes, x.id \in IDs(d.runtimes) PROVE FALSE
    BY Zenon DEF IDs
  <2>1. PICK g \in EnvironmentIDs : x.version \in VersionIDs(g) /\ x.id \in RuntimeIDs(g)
    BY Zenon, <1>0, <1>1 DEF RowsNamed
  <2>2. x.id \in RuntimeIDs(e)
    BY Zenon, <1>2
  <2>3. g = e
    BY Zenon, <1>0, <2>1, <2>2, OneEnvironment
  <2> QED BY Zenon, <1>3, <2>1, <2>3
<1>7. IDs(d.resources) \cap IDs(u.resources) = {}
  <2> SUFFICES ASSUME NEW x \in u.resources, x.id \in IDs(d.resources) PROVE FALSE
    BY Zenon DEF IDs
  <2>1. PICK g \in EnvironmentIDs : OwnRow(x, g)
    BY Zenon, <1>0, <1>1 DEF RowsNamed
  <2>2. x.id \in ResourceIDs(e)
    BY Zenon, <1>2
  <2>3. g = e
    BY Zenon, <1>0, <2>1, <2>2, OneEnvironment DEF OwnRow
  <2> QED BY Zenon, <1>3, <2>1, <2>3 DEF OwnRow
<1>8. {m[1] : m \in d.mounts} \cap IDs(u.storages) = {}
  <2> SUFFICES ASSUME NEW x \in u.storages, x.id \in {m[1] : m \in d.mounts} PROVE FALSE
    BY Zenon DEF IDs
  <2>1. PICK g \in EnvironmentIDs : x.version \in VersionIDs(g) /\ x.id \in StorageIDs(g)
    BY Zenon, <1>0, <1>1 DEF RowsNamed
  <2>2. x.id \in StorageIDs(e)
    BY Zenon, <1>2
  <2>3. g = e
    BY Zenon, <1>0, <2>1, <2>2, OneEnvironment
  <2> QED BY Zenon, <1>3, <2>1, <2>3
<1> QED BY Zenon, <1>4, <1>5, <1>6, <1>7, <1>8 DEF Fresh, u, e

(* The identifiers of the rows of a definition are those it gives.           *)
LEMMA NewIDs ==
  ASSUME NEW d \in Definitions
  PROVE  /\ IDs(NewVersions(d)) = {d.version} /\ IDs(NewConnections(d)) = d.connections
         /\ IDs(NewRuntimes(d)) = IDs(d.runtimes) /\ IDs(NewResources(d)) = IDs(d.resources)
         /\ IDs(NewStorages(d)) = {m[1] : m \in d.mounts}
<1>1. IDs(NewVersions(d)) = {d.version}
  BY DEF IDs, NewVersions
<1>2. IDs(NewConnections(d)) = d.connections
  <2>1. \A c : [id |-> c, env |-> d.env].id = c
    OBVIOUS
  <2> DEFINE conn(c) == [id |-> c, env |-> d.env]
  <2>2. NewConnections(d) = {conn(c) : c \in d.connections} /\ \A c : conn(c).id = c
    BY Zenon, <2>1 DEF NewConnections
  <2> HIDE DEF conn
  <2>3. ASSUME NEW i \in IDs(NewConnections(d)) PROVE i \in d.connections
    BY Zenon, <2>2 DEF IDs
  <2>4. ASSUME NEW i \in d.connections PROVE i \in IDs(NewConnections(d))
    <3>1. conn(i) \in NewConnections(d) /\ conn(i).id = i
      BY Zenon, <2>2
    <3> QED BY Zenon, <3>1 DEF IDs
  <2> QED BY Zenon, <2>3, <2>4
<1>3. \A x \in d.resources \cup d.runtimes : [x EXCEPT !.version = d.version].id = x.id
  <2> SUFFICES ASSUME NEW x \in d.resources \cup d.runtimes
               PROVE  [x EXCEPT !.version = d.version].id = x.id
    BY Zenon
  <2>1. "id" \in DOMAIN x
    BY Zenon, InventoryAssumption
  <2> QED BY <2>1
<1> DEFINE with(x) == [x EXCEPT !.version = d.version]
<1>4. IDs(NewRuntimes(d)) = IDs(d.runtimes)
  <2>1. \A x \in d.runtimes : with(x).id = x.id
    BY Zenon, <1>3
  <2>2. NewRuntimes(d) = {with(x) : x \in d.runtimes}
    BY Zenon DEF NewRuntimes
  <2> HIDE DEF with
  <2>3. ASSUME NEW i \in IDs(NewRuntimes(d)) PROVE i \in IDs(d.runtimes)
    BY Zenon, <2>1, <2>2 DEF IDs
  <2>4. ASSUME NEW x \in d.runtimes PROVE x.id \in IDs(NewRuntimes(d))
    <3>1. with(x) \in NewRuntimes(d) /\ with(x).id = x.id
      BY Zenon, <2>1, <2>2
    <3> QED BY Zenon, <3>1 DEF IDs
  <2>5. \A i \in IDs(d.runtimes) : i \in IDs(NewRuntimes(d))
    BY Zenon, <2>4 DEF IDs
  <2> QED BY Zenon, <2>3, <2>5
<1>5. IDs(NewResources(d)) = IDs(d.resources)
  <2>1. \A x \in d.resources : with(x).id = x.id
    BY Zenon, <1>3
  <2>2. NewResources(d) = {with(x) : x \in d.resources}
    BY Zenon DEF NewResources
  <2> HIDE DEF with
  <2>3. ASSUME NEW i \in IDs(NewResources(d)) PROVE i \in IDs(d.resources)
    BY Zenon, <2>1, <2>2 DEF IDs
  <2>4. ASSUME NEW x \in d.resources PROVE x.id \in IDs(NewResources(d))
    <3>1. with(x) \in NewResources(d) /\ with(x).id = x.id
      BY Zenon, <2>1, <2>2
    <3> QED BY Zenon, <3>1 DEF IDs
  <2>5. \A i \in IDs(d.resources) : i \in IDs(NewResources(d))
    BY Zenon, <2>4 DEF IDs
  <2> QED BY Zenon, <2>3, <2>5
<1>6. IDs(NewStorages(d)) = {m[1] : m \in d.mounts}
  <2>1. \A s : [id |-> s, version |-> d.version].id = s
    OBVIOUS
  <2> QED BY Zenon, <2>1 DEF IDs, NewStorages
<1> QED BY Zenon, <1>1, <1>2, <1>4, <1>5, <1>6

\* The database that holds an environment and nothing else.
Lone(e) == [EmptyDatabase EXCEPT !.environments = {e}]

(* It is empty.                                                              *)
LEMMA LoneFields ==
  ASSUME NEW e
  PROVE  LET t == Lone(e)
         IN  /\ DOMAIN t = Tables /\ t.environments = {e}
             /\ t.versions = {} /\ t.connections = {} /\ t.runtimes = {} /\ t.resources = {} /\ t.bindings = {}
             /\ t.relations = {} /\ t.snapshots = {} /\ t.profiles = {} /\ t.storages = {} /\ t.mounts = {}
             /\ t.scopes = {} /\ t.topologies = {} /\ t.plans = {} /\ t.sessions = {}
  BY DEF Lone, EmptyDatabase, Tables

(* The rows of a definition are consistent with rows they share no key with. *)
LEMMA InsertedConsistent ==
  ASSUME NEW a, DOMAIN a = Tables, Consistent(a), NEW d \in Definitions, Storable(d), Fresh(a, d),
         d.env \in a.environments
  PROVE  Consistent(Inserted(a, d))
<1> DEFINE l == Lone(d.env)
           b == Inserted(l, d)
           u == Inserted(a, d)
<1>1. /\ DOMAIN l = Tables /\ l.environments = {d.env}
      /\ l.versions = {} /\ l.connections = {} /\ l.runtimes = {} /\ l.resources = {} /\ l.bindings = {}
      /\ l.relations = {} /\ l.snapshots = {} /\ l.profiles = {} /\ l.storages = {} /\ l.mounts = {}
      /\ l.scopes = {} /\ l.topologies = {} /\ l.plans = {} /\ l.sessions = {}
  BY Zenon, LoneFields
<1>2. Consistent(b)
  BY Zenon DEF Storable, Lone
<1> HIDE DEF l
<1>3. /\ b.environments = {d.env} /\ b.connections = NewConnections(d) /\ b.versions = NewVersions(d)
      /\ b.runtimes = NewRuntimes(d) /\ b.resources = NewResources(d) /\ b.bindings = d.bindings
      /\ b.relations = NewRelations(d) /\ b.storages = NewStorages(d) /\ b.mounts = NewMounts(d)
      /\ b.profiles = d.profiles /\ b.snapshots = {} /\ b.scopes = {} /\ b.topologies = {}
      /\ b.plans = {} /\ b.sessions = {}
  <2>1. \A S : {} \cup S = S
    BY Zenon
  <2>2. WithRows(l, d, b)
    BY Zenon, <1>1, InsertedRows
  <2> HIDE DEF b
  <2> QED BY Zenon, <1>1, <2>1, <2>2 DEF WithRows
<1>4. WithRows(a, d, u)
  BY Zenon, InsertedRows
<1> HIDE DEF b, u
<1>5. Together(a, b, u)
  <2>1. \A S : S \cup {} = S
    BY Zenon
  <2>2. {d.env} \subseteq a.environments
    BY Zenon
  <2> QED BY Zenon, <1>3, <1>4, <2>1, <2>2 DEF Together, WithRows
<1>6. Apart(a, b)
  <2>1. IDs({}) = {}
    BY Zenon DEF IDs
  <2> QED BY Zenon, <1>3, <2>1, NewIDs DEF Apart, NoCommonKey, Fresh
<1> QED BY Zenon, <1>2, <1>5, <1>6, ConsistentTogether DEF u

(* Replace and Delete of an environment that nothing uses find what they     *)
(* need.                                                                     *)
LEMMA SoundIsEditable ==
  ASSUME Separate, \A d \in Definitions : Storable(d), NEW t, Sound(t)
  PROVE  /\ \A d \in Definitions : (d.env \in t.environments /\ ~Dependency(t, d.env)) => CanReplace(t, d)
         /\ \A e \in t.environments : ~Dependency(t, e) => Consistent(Removed(t, e))
<1>1. ASSUME NEW d \in Definitions, d.env \in t.environments, ~Dependency(t, d.env) PROVE CanReplace(t, d)
  <2> DEFINE a == Cleared(t, d.env)
  <2>0. Consistent(a)
    BY Zenon, <1>1, ClearedConsistent
  <2>1. Consistent(a) /\ Fresh(a, d)
    <3>1. Fresh(Cleared(t, d.env), d)
      BY Zenon, <1>1, ClearedIsFresh
    <3> QED BY Zenon, <2>0, <3>1
  <2>2. DOMAIN a = Tables /\ a.environments = t.environments
    <3>1. DOMAIN t = Tables
      BY Zenon DEF Sound
    <3>2. WithoutRows(t, d.env, a)
      BY Zenon, <3>1, ClearedRows
    <3> HIDE DEF a
    <3> QED BY Zenon, <3>2 DEF WithoutRows
  <2>3. d.env \in a.environments /\ Storable(d)
    BY Zenon, <1>1, <2>2
  <2> HIDE DEF a
  <2>4. Consistent(Inserted(a, d))
    BY Zenon, <2>1, <2>2, <2>3, InsertedConsistent
  <2> QED BY Zenon, <2>1, <2>4 DEF CanReplace, a
<1>2. ASSUME NEW e \in t.environments, ~Dependency(t, e) PROVE Consistent(Removed(t, e))
  <2> DEFINE u == Cleared(t, e)
             w == Removed(t, e)
  <2>1. Consistent(u)
    BY Zenon, <1>2, ClearedConsistent
  <2>2. DOMAIN u = Tables /\ (\A v \in u.versions : v.env # e) /\ (\A c \in u.connections : c.env # e)
    <3>1. WithoutRows(t, e, u)
      BY Zenon, ClearedRows DEF Sound
    <3> HIDE DEF u
    <3> QED BY Zenon, <3>1 DEF WithoutRows
  <2>3. w = [u EXCEPT !.environments = @ \ {e}]
    BY Zenon DEF Removed
  <2> HIDE DEF u, w
  <2>4. w.environments = u.environments \ {e} /\ Only(u, w, {"environments"})
    BY <2>2, <2>3 DEF Only, Tables
  <2>5. /\ w.versions = u.versions /\ w.connections = u.connections /\ w.runtimes = u.runtimes
        /\ w.resources = u.resources /\ w.bindings = u.bindings /\ w.relations = u.relations
        /\ w.snapshots = u.snapshots /\ w.profiles = u.profiles /\ w.storages = u.storages
        /\ w.mounts = u.mounts /\ w.scopes = u.scopes /\ w.topologies = u.topologies
        /\ w.plans = u.plans /\ w.sessions = u.sessions
    BY <2>4 DEF Only, Tables
  <2>6. (\A v \in w.versions : v.env \in w.environments) /\ (\A c \in w.connections : c.env \in w.environments)
    BY Zenon, <2>1, <2>2, <2>4, <2>5 DEF Consistent, References
  <2>7. References(w)
    BY Zenon, <2>1, <2>5, <2>6 DEF Consistent, References
  <2>8. Unique(w)
    BY Zenon, <2>1, <2>5, UniqueTables DEF Consistent
  <2> QED BY Zenon, <2>7, <2>8 DEF Consistent, w
<1> QED BY Zenon, <1>1, <1>2

(* Create and Replace store rows of the definition's environment.            *)
LEMMA InsertedNames ==
  ASSUME NEW t, DOMAIN t = Tables, RowsNamed(t), FiniteRows(t), NEW d \in Definitions, Storable(d)
  PROVE  LET u == Inserted(t, d)
         IN  /\ DOMAIN u = Tables /\ RowsNamed(u) /\ FiniteRows(u) /\ u.environments = t.environments
             /\ t.versions \subseteq u.versions /\ VersionsOf(u, d.env) # {}
<1> DEFINE u == Inserted(t, d)
           e == d.env
           l == Lone(e)
<1>1. /\ DOMAIN u = Tables /\ u.environments = t.environments
      /\ u.connections = t.connections \cup NewConnections(d)
      /\ u.versions = t.versions \cup NewVersions(d)
      /\ u.runtimes = t.runtimes \cup NewRuntimes(d)
      /\ u.resources = t.resources \cup NewResources(d)
      /\ u.storages = t.storages \cup NewStorages(d)
  <2>1. WithRows(t, d, u)
    BY Zenon, InsertedRows
  <2> HIDE DEF u
  <2> QED BY Zenon, <2>1 DEF WithRows
<1>2. /\ \A v \in NewVersions(d) : v.id = d.version /\ v.env = e
      /\ \A c \in NewConnections(d) : c.id \in d.connections /\ c.env = e
      /\ \A s \in NewStorages(d) : s.id \in {m[1] : m \in d.mounts} /\ s.version = d.version
  BY DEF NewVersions, NewConnections, NewStorages
<1>3. \A x \in d.resources \cup d.runtimes :
        LET y == [x EXCEPT !.version = d.version] IN DOMAIN y = DOMAIN x /\ y.id = x.id /\ y.version = d.version
  <2> SUFFICES ASSUME NEW x \in d.resources \cup d.runtimes
               PROVE  LET y == [x EXCEPT !.version = d.version]
                      IN DOMAIN y = DOMAIN x /\ y.id = x.id /\ y.version = d.version
    BY Zenon
  <2>1. {"id", "version"} \subseteq DOMAIN x
    BY Zenon, InventoryAssumption
  <2> QED BY <2>1
<1>4. Consistent(Inserted(l, d)) /\ Inserted(l, d).resources = NewResources(d)
  <2>1. DOMAIN l = Tables /\ l.resources = {}
    BY Zenon, LoneFields
  <2>2. Inserted(l, d).resources = l.resources \cup NewResources(d)
    BY Zenon, <2>1, InsertedRows DEF WithRows
  <2>3. Consistent(Inserted(l, d))
    BY Zenon DEF Storable, Lone
  <2> QED BY Zenon, <2>1, <2>2, <2>3
<1>5. /\ e \in EnvironmentIDs /\ d.version \in VersionIDs(e) /\ d.connections \subseteq ConnectionIDs(e)
      /\ IDs(d.runtimes) \subseteq RuntimeIDs(e) /\ IDs(d.resources) \subseteq ResourceIDs(e)
      /\ {m[1] : m \in d.mounts} \subseteq StorageIDs(e)
  BY Zenon DEF EnvironmentIDs, Of, VersionIDs, ConnectionIDs, RuntimeIDs, ResourceIDs, StorageIDs
<1> HIDE DEF u, l, e
<1>6. ASSUME NEW y \in NewRuntimes(d) PROVE y.version \in VersionIDs(e) /\ y.id \in RuntimeIDs(e)
  <2>1. PICK x \in d.runtimes : y = [x EXCEPT !.version = d.version]
    BY Zenon DEF NewRuntimes
  <2> QED BY Zenon, <1>3, <1>5, <2>1 DEF IDs
<1>7. ASSUME NEW y \in NewResources(d) PROVE OwnRow(y, e)
  <2>1. PICK x \in d.resources : y = [x EXCEPT !.version = d.version]
    BY Zenon DEF NewResources
  <2>2. {"id", "version", "parent"} \subseteq DOMAIN y
    <3>1. {"id", "version"} \subseteq DOMAIN x /\ {"type", "provider", "parent"} \subseteq DOMAIN x
      BY Zenon, InventoryAssumption
    <3> QED BY Zenon, <1>3, <2>1, <3>1
  <2>3. y.version \in VersionIDs(e) /\ y.id \in ResourceIDs(e)
    BY Zenon, <1>3, <1>5, <2>1 DEF IDs
  <2>4. y.parent = NoParent \/ y.parent \in IDs(NewResources(d))
    BY Zenon, <1>4 DEF Consistent, References
  <2>5. IDs(NewResources(d)) \subseteq ResourceIDs(e)
    BY Zenon, <1>5, NewIDs
  <2> QED BY Zenon, <2>2, <2>3, <2>4, <2>5 DEF OwnRow
<1>8. RowsNamed(u)
  <2>1. \A v \in u.versions : v.env \in EnvironmentIDs /\ v.id \in VersionIDs(v.env)
    BY Zenon, <1>1, <1>2, <1>5 DEF RowsNamed
  <2>2. \A c \in u.connections : c.env \in EnvironmentIDs /\ c.id \in ConnectionIDs(c.env)
    BY Zenon, <1>1, <1>2, <1>5 DEF RowsNamed
  <2>3. \A x \in u.runtimes : \E g \in EnvironmentIDs : x.version \in VersionIDs(g) /\ x.id \in RuntimeIDs(g)
    BY Zenon, <1>1, <1>5, <1>6 DEF RowsNamed
  <2>4. \A r \in u.resources : \E g \in EnvironmentIDs : OwnRow(r, g)
    BY Zenon, <1>1, <1>5, <1>7 DEF RowsNamed
  <2>5. \A s \in u.storages : \E g \in EnvironmentIDs : s.version \in VersionIDs(g) /\ s.id \in StorageIDs(g)
    BY Zenon, <1>1, <1>2, <1>5 DEF RowsNamed
  <2> QED BY Zenon, <2>1, <2>2, <2>3, <2>4, <2>5 DEF RowsNamed
<1>9. FiniteRows(u)
  <2>1. IsFiniteSet(d.resources) /\ IsFiniteSet(d.runtimes)
    BY Zenon, InventoryAssumption
  <2>2. IsFiniteSet(NewResources(d))
    <3> DEFINE g == [r \in d.resources |-> [r EXCEPT !.version = d.version]]
    <3>1. NewResources(d) = Range(g) /\ IsFiniteSet(DOMAIN g)
      BY Zenon, <2>1 DEF NewResources, Range
    <3> HIDE DEF g
    <3> QED BY Zenon, <3>1, FiniteRange
  <2>3. IsFiniteSet(NewRuntimes(d))
    <3> DEFINE g == [r \in d.runtimes |-> [r EXCEPT !.version = d.version]]
    <3>1. NewRuntimes(d) = Range(g) /\ IsFiniteSet(DOMAIN g)
      BY Zenon, <2>1 DEF NewRuntimes, Range
    <3> HIDE DEF g
    <3> QED BY Zenon, <3>1, FiniteRange
  <2>4. IsFiniteSet(t.resources) /\ IsFiniteSet(t.runtimes)
    BY Zenon DEF FiniteRows
  <2>5. IsFiniteSet(u.resources)
    <3> DEFINE A == t.resources
               B == NewResources(d)
    <3> HIDE DEF A, B
    <3>1. IsFiniteSet(A) /\ IsFiniteSet(B)
      BY Zenon, <2>2, <2>4 DEF A, B
    <3>2. IsFiniteSet(A \cup B)
      BY Zenon, <3>1, FS_Union
    <3> QED BY Zenon, <1>1, <3>2 DEF A, B
  <2>6. IsFiniteSet(u.runtimes)
    <3> DEFINE A == t.runtimes
               B == NewRuntimes(d)
    <3> HIDE DEF A, B
    <3>1. IsFiniteSet(A) /\ IsFiniteSet(B)
      BY Zenon, <2>3, <2>4 DEF A, B
    <3>2. IsFiniteSet(A \cup B)
      BY Zenon, <3>1, FS_Union
    <3> QED BY Zenon, <1>1, <3>2 DEF A, B
  <2> QED BY Zenon, <2>5, <2>6 DEF FiniteRows
<1>a. VersionsOf(u, e) # {}
  <2>1. PICK v : v \in NewVersions(d)
    BY Zenon DEF NewVersions
  <2> QED BY Zenon, <1>1, <1>2, <2>1 DEF VersionsOf
<1> QED BY Zenon, <1>1, <1>8, <1>9, <1>a DEF u, e

(* Fewer rows are named as before.                                           *)
LEMMA FewerNames ==
  ASSUME NEW t, NEW u, RowsNamed(t), FiniteRows(t), u.versions \subseteq t.versions,
         u.connections \subseteq t.connections, u.runtimes \subseteq t.runtimes,
         u.resources \subseteq t.resources, u.storages \subseteq t.storages
  PROVE  RowsNamed(u) /\ FiniteRows(u)
<1>1. RowsNamed(u)
  BY Zenon DEF RowsNamed
<1>2. u.runtimes \in SUBSET t.runtimes /\ u.resources \in SUBSET t.resources
  BY Zenon
<1>3. FiniteRows(u)
  BY Zenon, <1>2, FS_Subset DEF FiniteRows
<1> QED BY Zenon, <1>1, <1>3

(* The tables after Cleared.                                                 *)
LEMMA ClearedNames ==
  ASSUME NEW t, Sound(t), NEW e
  PROVE  LET u == Cleared(t, e)
         IN  /\ DOMAIN u = Tables /\ RowsNamed(u) /\ FiniteRows(u) /\ u.environments = t.environments
             /\ \A g : g # e => VersionsOf(u, g) = VersionsOf(t, g)
<1> DEFINE u == Cleared(t, e)
<1>1. /\ DOMAIN u = Tables /\ u.environments = t.environments
      /\ u.storages \subseteq t.storages /\ u.resources \subseteq t.resources /\ u.runtimes \subseteq t.runtimes
      /\ u.connections \subseteq t.connections /\ u.versions = {v \in t.versions : v.env # e}
  <2>1. WithoutRows(t, e, u)
    BY Zenon, ClearedRows DEF Sound
  <2> HIDE DEF u
  <2> QED BY Zenon, <2>1 DEF WithoutRows
<1> HIDE DEF u
<1>2. RowsNamed(u) /\ FiniteRows(u)
  <2>1. u.versions \subseteq t.versions
    BY Zenon, <1>1
  <2> QED BY Zenon, <1>1, <2>1, FewerNames DEF Sound
<1>3. ASSUME NEW g, g # e PROVE VersionsOf(u, g) = VersionsOf(t, g)
  BY Zenon, <1>1, <1>3 DEF VersionsOf
<1> QED BY Zenon, <1>1, <1>2, <1>3 DEF u

(* Create, Replace and Delete keep the tables sound.                         *)
LEMMA EnvironmentsStaySound ==
  ASSUME \A d \in Definitions : Storable(d), Sound(db),
         \/ \E d \in Definitions : CreateEnvironment(d) \/ ReplaceEnvironment(d)
         \/ \E e \in db.environments : DeleteEnvironment(e)
  PROVE  Sound(db')
<1>0. DOMAIN db = Tables /\ RowsNamed(db) /\ FiniteRows(db) /\ Versioned(db)
  BY Zenon DEF Sound
<1>1. ASSUME NEW d \in Definitions, CreateEnvironment(d) PROVE Sound(db')
  <2> DEFINE t == [db EXCEPT !.environments = @ \cup {d.env}]
             u == Inserted(t, d)
  <2>1. db' = u /\ Consistent(u)
    BY Zenon, <1>1 DEF CreateEnvironment, Client
  <2>2. /\ DOMAIN t = Tables /\ t.environments = db.environments \cup {d.env} /\ t.versions = db.versions
        /\ t.connections = db.connections /\ t.runtimes = db.runtimes /\ t.resources = db.resources
        /\ t.storages = db.storages
    BY <1>0 DEF Tables
  <2> HIDE DEF t
  <2>3. RowsNamed(t) /\ FiniteRows(t)
    BY Zenon, <1>0, <2>2 DEF RowsNamed, FiniteRows
  <2>4. /\ DOMAIN u = Tables /\ RowsNamed(u) /\ FiniteRows(u) /\ u.environments = t.environments
        /\ t.versions \subseteq u.versions /\ VersionsOf(u, d.env) # {}
    BY Zenon, <2>2, <2>3, InsertedNames
  <2> HIDE DEF u
  <2>5. ASSUME NEW g \in u.environments PROVE VersionsOf(u, g) # {}
    <3>1. CASE g = d.env
      BY Zenon, <2>4, <3>1
    <3>2. CASE g # d.env
      <4>1. g \in db.environments
        BY Zenon, <2>2, <2>4, <3>2
      <4>2. PICK v \in db.versions : v.env = g
        BY Zenon, <1>0, <4>1 DEF Versioned, VersionsOf
      <4>3. v \in u.versions
        BY Zenon, <2>2, <2>4
      <4> QED BY Zenon, <4>2, <4>3 DEF VersionsOf
    <3> QED BY Zenon, <3>1, <3>2
  <2>6. Sound(u)
    BY Zenon, <2>1, <2>4, <2>5 DEF Sound, Versioned
  <2> QED BY Zenon, <2>1, <2>6
<1>2. ASSUME NEW d \in Definitions, ReplaceEnvironment(d) PROVE Sound(db')
  <2> DEFINE t == Cleared(db, d.env)
             u == Inserted(t, d)
  <2>1. db' = u /\ Consistent(u)
    BY Zenon, <1>2 DEF ReplaceEnvironment, Client, CanReplace, Replaced
  <2>2. /\ DOMAIN t = Tables /\ RowsNamed(t) /\ FiniteRows(t) /\ t.environments = db.environments
        /\ \A g : g # d.env => VersionsOf(t, g) = VersionsOf(db, g)
    BY Zenon, ClearedNames
  <2> HIDE DEF t
  <2>3. /\ DOMAIN u = Tables /\ RowsNamed(u) /\ FiniteRows(u) /\ u.environments = t.environments
        /\ t.versions \subseteq u.versions /\ VersionsOf(u, d.env) # {}
    BY Zenon, <2>2, InsertedNames
  <2> HIDE DEF u
  <2>4. ASSUME NEW g \in u.environments PROVE VersionsOf(u, g) # {}
    <3>1. CASE g = d.env
      BY Zenon, <2>3, <3>1
    <3>2. CASE g # d.env
      <4>1. VersionsOf(t, g) # {}
        BY Zenon, <1>0, <2>2, <2>3, <3>2 DEF Versioned
      <4> QED BY Zenon, <2>3, <4>1 DEF VersionsOf
    <3> QED BY Zenon, <3>1, <3>2
  <2>5. Sound(u)
    BY Zenon, <2>1, <2>3, <2>4 DEF Sound, Versioned
  <2> QED BY Zenon, <2>1, <2>5
<1>3. ASSUME NEW e \in db.environments, DeleteEnvironment(e) PROVE Sound(db')
  <2> DEFINE t == Cleared(db, e)
             u == [t EXCEPT !.environments = @ \ {e}]
  <2>1. db' = u /\ Consistent(u)
    BY Zenon, <1>3 DEF DeleteEnvironment, Client, Removed
  <2>2. /\ DOMAIN t = Tables /\ RowsNamed(t) /\ FiniteRows(t) /\ t.environments = db.environments
        /\ \A g : g # e => VersionsOf(t, g) = VersionsOf(db, g)
    BY Zenon, ClearedNames
  <2> HIDE DEF t
  <2>3. /\ DOMAIN u = Tables /\ u.environments = t.environments \ {e} /\ u.versions = t.versions
        /\ u.connections = t.connections /\ u.runtimes = t.runtimes /\ u.resources = t.resources
        /\ u.storages = t.storages
    BY <2>2 DEF Tables
  <2> HIDE DEF u
  <2>4. RowsNamed(u) /\ FiniteRows(u)
    BY Zenon, <2>2, <2>3 DEF RowsNamed, FiniteRows
  <2>5. ASSUME NEW g \in u.environments PROVE VersionsOf(u, g) # {}
    <3>1. g \in db.environments /\ g # e /\ VersionsOf(u, g) = VersionsOf(t, g)
      BY Zenon, <2>2, <2>3 DEF VersionsOf
    <3> QED BY Zenon, <1>0, <2>2, <3>1 DEF Versioned
  <2>6. Sound(u)
    BY Zenon, <2>1, <2>3, <2>4, <2>5 DEF Sound, Versioned
  <2> QED BY Zenon, <2>1, <2>6
<1> QED BY Zenon, <1>1, <1>2, <1>3

(* A step that leaves the rows of environments alone.                        *)
LEMMA SameRows ==
  ASSUME NEW t, NEW u, Sound(t), Consistent(u), DOMAIN u = Tables, u.environments = t.environments,
         u.versions = t.versions, u.connections = t.connections, u.runtimes = t.runtimes,
         u.resources = t.resources, u.storages = t.storages
  PROVE  Sound(u)
  BY Zenon DEF Sound, RowsNamed, FiniteRows, Versioned, VersionsOf

(* The other handlers of a client keep the tables sound.                     *)
LEMMA ClientsStaySound ==
  ASSUME Sound(db),
         \/ \E s \in ScopeIDs : \E vs \in SUBSET IDs(db.versions) : CreateScope(s, vs)
         \/ \E s \in IDs(db.scopes) : DeleteScope(s)
         \/ \E s \in IDs(db.scopes) : \E ends \in SUBSET Endpoints : CreateTopology(s, ends)
         \/ \E r \in Endpoints : OpenConsoleSession(r)
         \/ \E s \in db.scopes : CopyPlanInputs(s)
         \/ \E chosen \in SUBSET draft.resources : CreatePlan(chosen)
  PROVE  Sound(db')
<1>0. DOMAIN db = Tables /\ Consistent(db)
  BY Zenon DEF Sound
<1>1. \/ UNCHANGED db
      \/ Consistent(db') /\ \/ \E S : db' = [db EXCEPT !.scopes = S]
                            \/ \E S : db' = [db EXCEPT !.topologies = S]
                            \/ \E S : db' = [db EXCEPT !.plans = S]
      \/ \E r \in IDs(db.resources) : db' = [db EXCEPT !.sessions = @ \cup {r}]
  BY Zenon DEF CreateScope, DeleteScope, CreateTopology, OpenConsoleSession, CopyPlanInputs, CreatePlan, Client
<1>2. CASE UNCHANGED db
  BY Zenon, <1>2
<1>3. ASSUME Consistent(db'), \/ \E S : db' = [db EXCEPT !.scopes = S]
                              \/ \E S : db' = [db EXCEPT !.topologies = S]
                              \/ \E S : db' = [db EXCEPT !.plans = S]
      PROVE  Sound(db')
  <2>1. /\ DOMAIN db' = Tables /\ db'.environments = db.environments /\ db'.versions = db.versions
        /\ db'.connections = db.connections /\ db'.runtimes = db.runtimes /\ db'.resources = db.resources
        /\ db'.storages = db.storages
    BY <1>0, <1>3 DEF Tables
  <2> QED BY Zenon, <1>3, <2>1, SameRows
<1>4. ASSUME NEW r \in IDs(db.resources), db' = [db EXCEPT !.sessions = @ \cup {r}] PROVE Sound(db')
  <2> DEFINE u == [db EXCEPT !.sessions = @ \cup {r}]
  <2>1. u.sessions = db.sessions \cup {r} /\ Only(db, u, {"sessions"})
    BY <1>0 DEF Only, Tables
  <2> HIDE DEF u
  <2>2. /\ u.versions = db.versions /\ u.connections = db.connections /\ u.runtimes = db.runtimes
        /\ u.resources = db.resources /\ u.bindings = db.bindings /\ u.relations = db.relations
        /\ u.snapshots = db.snapshots /\ u.profiles = db.profiles /\ u.storages = db.storages
        /\ u.mounts = db.mounts /\ u.scopes = db.scopes /\ u.topologies = db.topologies
        /\ u.plans = db.plans /\ u.environments = db.environments /\ DOMAIN u = Tables
    BY <2>1 DEF Only, Tables
  <2>3. u.snapshots \cup u.profiles \cup u.sessions \subseteq IDs(u.resources)
    BY Zenon, <1>0, <2>1, <2>2 DEF Consistent, References
  <2>4. References(u)
    BY Zenon, <1>0, <2>2, <2>3 DEF Consistent, References
  <2>5. Unique(u)
    BY Zenon, <1>0, <2>2, UniqueTables DEF Consistent
  <2>6. Sound(u)
    BY Zenon, <2>2, <2>4, <2>5, SameRows DEF Consistent
  <2> QED BY Zenon, <1>4, <2>6 DEF u
<1> QED BY Zenon, <1>1, <1>2, <1>3, <1>4

\* A statement of a discovery of environment e, and a sequence of them.
About(s, e) ==
  /\ s.kind = "resource" => OwnRow(s.row, e)
  /\ s.kind = "storage" => s.row \in StorageIDs(e) /\ s.version \in VersionIDs(e)
Fit(q, e) == q \in Seq(Range(q)) /\ \A s \in Range(q) : About(s, e)

(* An upsert changes a row of the environment, or adds one to it.            *)
LEMMA UpsertStaysSound ==
  ASSUME Separate, NEW t, Sound(t), NEW e \in EnvironmentIDs, NEW r, OwnRow(r, e), Consistent(Upsert(t, r))
  PROVE  Sound(Upsert(t, r))
<1> DEFINE u == Upsert(t, r)
           old == {x \in t.resources : x.id = r.id}
           new == {Row(x.id, x.version, r.type, r.provider, r.parent) : x \in old}
           added == IF old = {} THEN {r} ELSE new
<1>0. DOMAIN t = Tables /\ RowsNamed(t) /\ FiniteRows(t) /\ Versioned(t)
  BY Zenon DEF Sound
<1>1. /\ DOMAIN u = Tables /\ u.environments = t.environments /\ u.versions = t.versions
      /\ u.connections = t.connections /\ u.runtimes = t.runtimes /\ u.storages = t.storages
      /\ u.resources = (t.resources \ old) \cup added
  BY <1>0 DEF Upsert, Tables
<1> HIDE DEF u
<1>2. ASSUME NEW y \in added PROVE \E g \in EnvironmentIDs : OwnRow(y, g)
  <2>1. CASE y = r
    BY Zenon, <2>1
  <2>2. CASE y # r
    <3>1. PICK x \in t.resources : x.id = r.id /\ y = Row(x.id, x.version, r.type, r.provider, r.parent)
      BY Zenon, <2>2
    <3>2. PICK g \in EnvironmentIDs : OwnRow(x, g)
      BY Zenon, <1>0 DEF RowsNamed
    <3>3. g = e
      BY Zenon, <3>1, <3>2, OneEnvironment DEF OwnRow
    <3>4. {"id", "version", "parent"} \subseteq DOMAIN y /\ y.id = x.id /\ y.version = x.version /\ y.parent = r.parent
      BY <3>1 DEF Row
    <3>5. OwnRow(y, e)
      BY Zenon, <3>2, <3>3, <3>4 DEF OwnRow
    <3> QED BY Zenon, <3>5
  <2> QED BY Zenon, <2>1, <2>2
<1>3. IsFiniteSet(added)
  <2>1. old \in SUBSET t.resources
    BY Zenon
  <2>2. IsFiniteSet(old)
    BY Zenon, <1>0, <2>1, FS_Subset DEF FiniteRows
  <2> DEFINE g == [x \in old |-> Row(x.id, x.version, r.type, r.provider, r.parent)]
  <2>3. new = Range(g) /\ DOMAIN g = old
    BY Zenon DEF Range
  <2> HIDE DEF g, new
  <2>4. IsFiniteSet(new)
    <3> HIDE DEF old
    <3> QED BY Zenon, <2>2, <2>3, FiniteRange
  <2>5. IsFiniteSet({r})
    BY Zenon, FS_Singleton
  <2> QED BY Zenon, <2>4, <2>5
<1> HIDE DEF added, old
<1>4. FiniteRows(u)
  <2>1. IsFiniteSet(t.resources \ old)
    BY Zenon, <1>0, FS_Difference DEF FiniteRows
  <2> QED BY Zenon, <1>0, <1>1, <1>3, <2>1, FS_Union DEF FiniteRows
<1>5. RowsNamed(u)
  <2>1. \A y \in u.resources : \E g \in EnvironmentIDs : OwnRow(y, g)
    BY Zenon, <1>0, <1>1, <1>2 DEF RowsNamed
  <2> QED BY Zenon, <1>0, <1>1, <2>1 DEF RowsNamed
<1>6. Versioned(u)
  BY Zenon, <1>0, <1>1 DEF Versioned, VersionsOf
<1> QED BY Zenon, <1>1, <1>4, <1>5, <1>6 DEF Sound, u

(* What one statement of a discovery leaves is sound.                        *)
LEMMA AppliedStaysSound ==
  ASSUME Separate, NEW t, Sound(t), NEW e \in EnvironmentIDs, NEW s, About(s, e), Consistent(Applied(t, s))
  PROVE  Sound(Applied(t, s))
<1> DEFINE u == Applied(t, s)
<1>0. DOMAIN t = Tables /\ RowsNamed(t) /\ FiniteRows(t) /\ Versioned(t)
  BY Zenon DEF Sound
<1>1. \/ s.kind = "resource" /\ u = Upsert(t, s.row)
      \/ s.kind = "storage" /\ u = UpsertDiscoveredStorage(t, s.row, s.version, s.to)
      \/ u = UpsertRuntimeBinding(t, s.row, s.to)
      \/ u = UpsertRelation(t, s.row, s.to, s.version) \/ u = CreateSnapshot(t, s.row) \/ u = t
  BY DEF Applied
<1> HIDE DEF u
<1>2. CASE s.kind = "resource" /\ u = Upsert(t, s.row)
  BY Zenon, <1>2, UpsertStaysSound DEF About, u
<1>3. CASE s.kind = "storage" /\ u = UpsertDiscoveredStorage(t, s.row, s.version, s.to)
  <2> DEFINE n == [id |-> s.row, version |-> s.version]
  <2>1. /\ DOMAIN u = Tables /\ u.environments = t.environments /\ u.versions = t.versions
        /\ u.connections = t.connections /\ u.runtimes = t.runtimes /\ u.resources = t.resources
        /\ u.storages \subseteq t.storages \cup {n}
    BY <1>0, <1>3 DEF UpsertDiscoveredStorage, Tables
  <2>2. n.id \in StorageIDs(e) /\ n.version \in VersionIDs(e)
    BY <1>3 DEF About
  <2> HIDE DEF n
  <2>3. \A x \in u.storages : \E g \in EnvironmentIDs : x.version \in VersionIDs(g) /\ x.id \in StorageIDs(g)
    BY Zenon, <1>0, <2>1, <2>2 DEF RowsNamed
  <2>4. RowsNamed(u)
    BY Zenon, <1>0, <2>1, <2>3 DEF RowsNamed
  <2>5. FiniteRows(u) /\ Versioned(u)
    BY Zenon, <1>0, <2>1 DEF FiniteRows, Versioned, VersionsOf
  <2> QED BY Zenon, <2>1, <2>4, <2>5 DEF Sound, u
<1>4. ASSUME \/ u = UpsertRuntimeBinding(t, s.row, s.to) \/ u = UpsertRelation(t, s.row, s.to, s.version)
             \/ u = CreateSnapshot(t, s.row) \/ u = t
      PROVE  Sound(u)
  <2>1. /\ DOMAIN u = Tables /\ u.environments = t.environments /\ u.versions = t.versions
        /\ u.connections = t.connections /\ u.runtimes = t.runtimes /\ u.resources = t.resources
        /\ u.storages = t.storages
    BY <1>0, <1>4 DEF UpsertRuntimeBinding, UpsertRelation, CreateSnapshot, Tables
  <2> QED BY Zenon, <2>1, SameRows DEF u
<1> QED BY Zenon, <1>1, <1>2, <1>3, <1>4 DEF u

(* Sequences of statements about an environment.                             *)
LEMMA FitInto ==
  ASSUME NEW e, NEW S, NEW q \in Seq(S), \A s \in S : About(s, e)
  PROVE  Fit(q, e)
<1>1. Range(q) \subseteq S /\ q \in Seq(Range(q))
  BY DEF Range
<1> QED BY Zenon, <1>1 DEF Fit

(* One statement.                                                            *)
LEMMA FitOne ==
  ASSUME NEW e, NEW s, About(s, e)
  PROVE  Fit(<<s>>, e)
<1> DEFINE S == {s}
           q == <<s>>
<1>1. q \in Seq(S)
  OBVIOUS
<1>2. \A x \in S : About(x, e)
  BY Zenon
<1> HIDE DEF S, q
<1>3. Fit(q, e)
  BY Zenon, <1>1, <1>2, FitInto
<1> QED BY Zenon, <1>3 DEF q

(* None.                                                                     *)
LEMMA FitNone ==
  ASSUME NEW e
  PROVE  Fit(<<>>, e)
<1> DEFINE S == {}
           q == <<>>
<1>1. q \in Seq(S)
  OBVIOUS
<1>2. \A x \in S : About(x, e)
  BY Zenon
<1> HIDE DEF S, q
<1>3. Fit(q, e)
  BY Zenon, <1>1, <1>2, FitInto
<1> QED BY Zenon, <1>3 DEF q

(* Two sequences.                                                            *)
LEMMA FitJoin ==
  ASSUME NEW e, NEW p, NEW q, Fit(p, e), Fit(q, e)
  PROVE  Fit(p \o q, e)
<1> DEFINE S == Range(p) \cup Range(q)
<1>1. p \in Seq(Range(p)) /\ q \in Seq(Range(q)) /\ \A s \in S : About(s, e)
  BY Zenon DEF Fit
<1>2. p \in Seq(S) /\ q \in Seq(S)
  BY <1>1
<1> HIDE DEF S
<1>3. p \o q \in Seq(S)
  BY <1>2
<1> QED BY Zenon, <1>1, <1>3, FitInto

(* A sequence given element by element.                                      *)
LEMMA FitEach ==
  ASSUME NEW e, NEW n \in Nat, NEW q, DOMAIN q = 1..n, q = [i \in 1..n |-> q[i]], \A i \in 1..n : About(q[i], e)
  PROVE  Fit(q, e)
<1>1. \A s \in Range(q) : About(s, e)
  BY Zenon DEF Range
<1>2. \A i \in 1..n : q[i] \in Range(q)
  BY Zenon DEF Range
<1> DEFINE R == Range(q)
<1> HIDE DEF R
<1>3. q \in [1..n -> R]
  BY Zenon, <1>2 DEF R
<1>4. q \in Seq(R)
  BY <1>3
<1> QED BY Zenon, <1>1, <1>4 DEF Fit, R

(* The statements of several parts.                                          *)
LEMMA FitConcat ==
  ASSUME NEW e, NEW n \in Nat, NEW parts, DOMAIN parts = 1..n, parts = [i \in 1..n |-> parts[i]],
         \A i \in 1..n : Fit(parts[i], e)
  PROVE  Fit(Concat(parts), e)
<1> DEFINE S == UNION {Range(parts[i]) : i \in 1..n}
<1>1. ASSUME NEW i \in 1..n PROVE parts[i] \in Seq(S)
  <2>1. parts[i] \in Seq(Range(parts[i])) /\ Range(parts[i]) \subseteq S
    BY Zenon DEF Fit
  <2> HIDE DEF S
  <2> QED BY <2>1
<1>2. \A s \in S : About(s, e)
  BY Zenon DEF Fit
<1> HIDE DEF S
<1>3. Len(parts) = n
  <2>1. parts \in [1..n -> Seq(S)]
    BY Zenon, <1>1
  <2> QED BY <2>1
<1>4. Concat(parts) \in Seq(S)
  BY Zenon, <1>1, <1>3, ConcatIsSequence
<1> QED BY Zenon, <1>2, <1>4, FitInto

\* A discovery that has found its environment.
Found(f) ==
  /\ f.env \in EnvironmentIDs /\ f.version \in VersionIDs(f.env)
  /\ f.connection \in ConnectionIDs(f.env) /\ f.connection \in DOMAIN Reported
\* One that has read it.
WasRead(f) ==
  /\ Found(f)
  /\ IsFiniteSet(f.runtimes) /\ IsFiniteSet(f.resources)
  /\ \A r \in f.resources : OwnRow(r, f.env)

(* A statement that is not about a resource or a storage is about anything.  *)
LEMMA OtherStatements ==
  ASSUME NEW e, NEW kind \in {"binding", "relation", "snapshot", "unbound"}, NEW r, NEW to, NEW v
  PROVE  About(Stmt(kind, r, to, v), e)
  BY DEF About, Stmt

(* A statement about a resource.                                             *)
LEMMA ResourceStatement ==
  ASSUME NEW e, NEW r, OwnRow(r, e), NEW to, NEW v
  PROVE  Fit(<<Stmt("resource", r, to, v)>>, e)
<1>1. About(Stmt("resource", r, to, v), e)
  BY DEF About, Stmt
<1> QED BY Zenon, <1>1, FitOne

(* The rows that a discovery makes up are of its environment.                *)
LEMMA MadeRow ==
  ASSUME NEW f, Found(f), NEW i \in ResourceIDs(f.env), NEW type, NEW provider,
         NEW parent, parent = NoParent \/ parent \in ResourceIDs(f.env)
  PROVE  OwnRow(Row(i, f.version, type, provider, parent), f.env)
<1> DEFINE r == Row(i, f.version, type, provider, parent)
<1>1. {"id", "version", "parent"} \subseteq DOMAIN r /\ r.id = i /\ r.version = f.version /\ r.parent = parent
  BY DEF Row
<1> HIDE DEF r
<1> QED BY Zenon, <1>1 DEF OwnRow, Found, r

(* The identifiers it makes up.                                              *)
LEMMA MadeIDs ==
  ASSUME NEW f, WasRead(f)
  PROVE  LET c == f.connection
         IN  /\ clusterID(f) \in ResourceIDs(f.env) /\ <<c, "login">> \in ResourceIDs(f.env)
             /\ \A n \in Range(Reported[c].nodes) : <<c, "node", n.name>> \in ResourceIDs(f.env)
             /\ \A n \in Range(Reported[c].partitions) : <<c, "partition", Ident[n]>> \in ResourceIDs(f.env)
             /\ \A q \in Range(Reported[c].paths) : <<c, "storage", q>> \in StorageIDs(f.env)
<1> DEFINE c == f.connection
<1>1. c \in ConnectionIDs(f.env) \cap DOMAIN Reported
  BY Zenon DEF WasRead, Found
<1>2. DiscoveredIDs(c) \subseteq ResourceIDs(f.env)
  <2> DEFINE all == {DiscoveredIDs(k) : k \in ConnectionIDs(f.env) \cap DOMAIN Reported}
             others == UNION {IDs(d.resources) : d \in Of(f.env)}
  <2>1. DiscoveredIDs(c) \in all
    BY Zenon, <1>1
  <2>2. ResourceIDs(f.env) = others \cup UNION all
    BY Zenon DEF ResourceIDs
  <2> HIDE DEF c, all, others
  <2> QED BY Zenon, <2>1, <2>2
<1>3. \A q \in Range(Reported[c].paths) : <<c, "storage", q>> \in StorageIDs(f.env)
  <2> DEFINE stores(k) == {<<k, "storage", q>> : q \in Range(Reported[k].paths)}
  <2>1. stores(c) \in {stores(k) : k \in ConnectionIDs(f.env) \cap DOMAIN Reported}
    BY Zenon, <1>1
  <2> DEFINE all == {stores(k) : k \in ConnectionIDs(f.env) \cap DOMAIN Reported}
             others == UNION {{m[1] : m \in d.mounts} : d \in Of(f.env)}
  <2>2. StorageIDs(f.env) = others \cup UNION all
    BY Zenon DEF StorageIDs
  <2>3. \A q \in Range(Reported[c].paths) : <<c, "storage", q>> \in stores(c)
    BY Zenon
  <2>4. stores(c) \in all
    BY Zenon, <2>1
  <2> HIDE DEF c, stores, all, others
  <2> QED BY Zenon, <2>2, <2>3, <2>4
<1>4. /\ <<c, "cluster">> \in DiscoveredIDs(c) /\ <<c, "login">> \in DiscoveredIDs(c)
      /\ \A n \in Range(Reported[c].nodes) : <<c, "node", n.name>> \in DiscoveredIDs(c)
      /\ \A n \in Range(Reported[c].partitions) : <<c, "partition", Ident[n]>> \in DiscoveredIDs(c)
  BY Zenon DEF DiscoveredIDs
<1>5. clusterID(f) \in ResourceIDs(f.env)
  <2>1. CASE Declared(f, "cluster") = {}
    BY Zenon, <1>2, <1>4, <2>1 DEF clusterID
  <2>2. CASE Declared(f, "cluster") # {}
    <3> DEFINE r == CHOOSE x \in Declared(f, "cluster") : TRUE
    <3>1. r \in Declared(f, "cluster")
      BY Zenon, <2>2
    <3>2. clusterID(f) = r.id
      BY Zenon, <2>2 DEF clusterID
    <3> HIDE DEF r
    <3> QED BY Zenon, <3>1, <3>2 DEF Declared, WasRead, OwnRow
  <2> QED BY Zenon, <2>1, <2>2
<1> QED BY Zenon, <1>2, <1>3, <1>4, <1>5

(* Bindings to the runtimes of the connection.                               *)
LEMMA BindFits ==
  ASSUME NEW f, WasRead(f), NEW r
  PROVE  Fit(Bind(f, r), f.env)
<1> DEFINE R == {x \in f.runtimes : x.connection = f.connection}
           S == {u.id : u \in R}
           us == runtimeIDsForConnection(f)
<1>1. IsFiniteSet(R)
  <2>1. R \in SUBSET f.runtimes
    BY Zenon
  <2> HIDE DEF R
  <2> QED BY Zenon, <2>1, FS_Subset DEF WasRead
<1>2. IsFiniteSet(S)
  <2> HIDE DEF R
  <2> DEFINE g == [u \in R |-> u.id]
  <2>1. S = Range(g) /\ DOMAIN g = R
    BY Zenon DEF Range
  <2> HIDE DEF g, S
  <2> QED BY Zenon, <1>1, <2>1, FiniteRange
<1>3. us = InSomeOrder(S)
  BY Zenon DEF runtimeIDsForConnection
<1> HIDE DEF R, S, us
<1>4. us \in Seq(S)
  BY Zenon, <1>2, <1>3, OrderIsSequence
<1> DEFINE n == Len(us)
           q == [i \in 1..n |-> Stmt("binding", r, us[i], f.version)]
<1>5. n \in Nat /\ DOMAIN us = 1..n
  BY <1>4
<1>6. Bind(f, r) = q
  BY Zenon, <1>5 DEF Bind, us
<1>7. \A i \in 1..n : About(q[i], f.env)
  BY Zenon, OtherStatements
<1>8. DOMAIN q = 1..n /\ q = [i \in 1..n |-> q[i]]
  BY Zenon
<1> HIDE DEF q, n
<1> QED BY Zenon, <1>5, <1>6, <1>7, <1>8, FitEach

\* A row of a partition that attachPartition may be given.
PartitionRows(f) == f.resources \cup
  {Row(<<f.connection, "partition", Ident[n]>>, f.version, "partition", n, NoParent) :
     n \in Range(Reported[f.connection].partitions)}

(* The partitions of a discovery are rows of its environment.                *)
LEMMA PartitionsFit ==
  ASSUME NEW f, WasRead(f)
  PROVE  /\ Partitions(f, Reported[f.connection]) \in Seq(PartitionRows(f))
         /\ \A q \in PartitionRows(f) : OwnRow(q, f.env)
<1> DEFINE o == Reported[f.connection]
           P == PartitionRows(f)
           D == Declared(f, "partition")
           ps == o.partitions
<1>1. InSomeOrder(D) \in Seq(P)
  <2>1. D \in SUBSET f.resources /\ D \subseteq P
    BY Zenon DEF Declared, PartitionRows
  <2> HIDE DEF D, P
  <2>2. IsFiniteSet(D)
    BY Zenon, <2>1, FS_Subset DEF WasRead
  <2>3. InSomeOrder(D) \in Seq(D)
    BY Zenon, <2>2, OrderIsSequence
  <2> QED BY <2>1, <2>3
<1>2. ps \in Seq(Range(ps))
  BY Zenon, InventoryAssumption DEF WasRead, Found
<1>3. discoveredPartitions(f, o) \in Seq(P)
  <2> DEFINE n == Len(ps)
             configured == {r.provider : r \in D}
             found(m) == Row(<<f.connection, "partition", Ident[m]>>, f.version, "partition", m, NoParent)
             parts == [i \in 1..n |-> IF ps[i] \in configured THEN <<>> ELSE <<found(ps[i])>>]
  <2>1. n \in Nat /\ DOMAIN ps = 1..n /\ \A i \in 1..n : ps[i] \in Range(ps)
    <3> HIDE DEF ps
    <3> QED BY <1>2 DEF Range
  <2>2. discoveredPartitions(f, o) = Concat(parts)
    BY Zenon, <2>1 DEF discoveredPartitions
  <2>3. ASSUME NEW i \in 1..n PROVE parts[i] \in Seq(P)
    <3> DEFINE r == found(ps[i])
               part == parts[i]
    <3>1. r \in P
      BY Zenon, <2>1 DEF PartitionRows
    <3>2. part = <<>> \/ part = <<r>>
      BY Zenon
    <3> HIDE DEF part, P, r
    <3>4. <<>> \in Seq(P) /\ <<r>> \in Seq(P)
      BY <3>1
    <3>3. part \in Seq(P)
      BY Zenon, <3>2, <3>4
    <3> QED BY Zenon, <3>3 DEF part
  <2>4. DOMAIN parts = 1..n
    BY Zenon
  <2>5. Len(parts) = n
    <3>1. parts = [i \in 1..n |-> parts[i]]
      BY Zenon
    <3> HIDE DEF parts, n, P
    <3>2. parts \in [1..n -> Seq(P)]
      BY Zenon, <2>3, <3>1
    <3> QED BY <2>1, <3>2
  <2> HIDE DEF parts, n, P
  <2> QED BY Zenon, <2>1, <2>2, <2>3, <2>4, <2>5, ConcatIsSequence
<1>4. Partitions(f, o) \in Seq(P)
  <2>1. Partitions(f, o) = InSomeOrder(D) \o discoveredPartitions(f, o)
    BY Zenon DEF Partitions
  <2> HIDE DEF P, D
  <2> QED BY <1>1, <1>3, <2>1
<1>5. ASSUME NEW q \in PartitionRows(f) PROVE OwnRow(q, f.env)
  <2>1. CASE q \in f.resources
    BY Zenon, <2>1 DEF WasRead
  <2>2. CASE q \notin f.resources
    <3>1. PICK n \in Range(ps) :
            q = Row(<<f.connection, "partition", Ident[n]>>, f.version, "partition", n, NoParent)
      BY Zenon, <2>2 DEF PartitionRows
    <3>2. <<f.connection, "partition", Ident[n]>> \in ResourceIDs(f.env)
      BY Zenon, MadeIDs
    <3> QED BY Zenon, <3>1, <3>2, MadeRow DEF WasRead
  <2> QED BY Zenon, <2>1, <2>2
<1> QED BY Zenon, <1>4, <1>5

(* A partition, bound to its cluster.                                        *)
LEMMA AttachFits ==
  ASSUME NEW f, WasRead(f), NEW q, OwnRow(q, f.env)
  PROVE  Fit(attachPartition(f, q), f.env)
<1> DEFINE r == [q EXCEPT !.parent = clusterID(f)]
           c == clusterID(f)
<1>1. {"id", "version", "parent"} \subseteq DOMAIN q
  BY Zenon DEF OwnRow
<1>2. c \in ResourceIDs(f.env)
  BY Zenon, MadeIDs
<1> HIDE DEF c
<1>3. {"id", "version", "parent"} \subseteq DOMAIN r /\ r.id = q.id /\ r.version = q.version /\ r.parent = c
  BY <1>1 DEF c
<1> HIDE DEF r
<1>4. OwnRow(r, f.env)
  BY Zenon, <1>2, <1>3 DEF OwnRow
<1>5. Fit(<<Stmt("resource", r, q.id, f.version)>>, f.env)
  BY Zenon, <1>4, ResourceStatement
<1>6. Fit(Bind(f, q.id), f.env)
  BY Zenon, BindFits
<1> QED BY Zenon, <1>5, <1>6, FitJoin DEF attachPartition, r

(* A compute node, and its relations to partitions.                          *)
LEMMA NodeFits ==
  ASSUME NEW f, WasRead(f), NEW n \in Range(Reported[f.connection].nodes)
  PROVE  Fit(materializeNode(f, Reported[f.connection], n), f.env)
<1> DEFINE o == Reported[f.connection]
           id == <<f.connection, "node", n.name>>
           qs == PartitionsOf(f, o, n)
           P == PartitionRows(f)
           rel == [i \in DOMAIN qs |-> Stmt("relation", qs[i].id, id, f.version)]
           ps == Partitions(f, o)
<1>1. id \in ResourceIDs(f.env) /\ clusterID(f) \in ResourceIDs(f.env)
  BY Zenon, MadeIDs
<1>2. qs \in Seq(P)
  <2>1. ps \in Seq(P)
    BY Zenon, PartitionsFit
  <2> DEFINE k == Len(ps)
             parts == [i \in 1..k |-> IF ps[i].provider \in n.partitions THEN <<ps[i]>> ELSE <<>>]
  <2> HIDE DEF P
  <2>2. k \in Nat /\ DOMAIN ps = 1..k /\ \A i \in 1..k : ps[i] \in P
    <3> HIDE DEF ps
    <3> QED BY <2>1
  <2>3. qs = Concat(parts)
    BY Zenon, <2>2 DEF PartitionsOf, OnNode
  <2>4. ASSUME NEW i \in 1..k PROVE parts[i] \in Seq(P)
    <3> DEFINE r == ps[i]
               part == parts[i]
    <3>1. part = <<>> \/ part = <<r>>
      BY Zenon
    <3>2. r \in P
      BY Zenon, <2>2
    <3> HIDE DEF part, r
    <3>4. <<>> \in Seq(P) /\ <<r>> \in Seq(P)
      BY <3>2
    <3>3. part \in Seq(P)
      BY Zenon, <3>1, <3>4
    <3> QED BY Zenon, <3>3 DEF part
  <2>5. DOMAIN parts = 1..k
    BY Zenon
  <2>6. Len(parts) = k
    <3>1. parts = [i \in 1..k |-> parts[i]]
      BY Zenon
    <3> HIDE DEF parts, k
    <3>2. parts \in [1..k -> Seq(P)]
      BY Zenon, <2>4, <3>1
    <3> QED BY <2>2, <3>2
  <2> HIDE DEF parts, k
  <2> QED BY Zenon, <2>2, <2>3, <2>4, <2>5, <2>6, ConcatIsSequence
<1>3. Fit(rel, f.env)
  <2> HIDE DEF qs
  <2>1. Len(qs) \in Nat /\ DOMAIN qs = 1..Len(qs)
    BY <1>2
  <2>2. \A i \in 1..Len(qs) : About(rel[i], f.env)
    BY Zenon, <2>1, OtherStatements
  <2>3. DOMAIN rel = 1..Len(qs) /\ rel = [i \in 1..Len(qs) |-> rel[i]]
    BY Zenon, <2>1
  <2> HIDE DEF rel
  <2> QED BY Zenon, <2>1, <2>2, <2>3, FitEach
<1> DEFINE s1 == <<Stmt("resource", Row(id, f.version, "machine", n.name, clusterID(f)), id, f.version)>>
           s2 == Bind(f, id)
           s4 == <<Stmt("snapshot", id, id, f.version)>>
<1>4. materializeNode(f, o, n) = s1 \o s2 \o rel \o s4
  BY Zenon DEF materializeNode
<1>5. Fit(s1, f.env)
  <2>1. OwnRow(Row(id, f.version, "machine", n.name, clusterID(f)), f.env)
    BY Zenon, <1>1, MadeRow DEF WasRead
  <2> QED BY Zenon, <2>1, ResourceStatement
<1>6. Fit(s2, f.env)
  BY Zenon, BindFits
<1>7. Fit(s4, f.env)
  BY Zenon, OtherStatements, FitOne
<1> HIDE DEF s1, s2, rel, s4
<1> QED BY Zenon, <1>3, <1>4, <1>5, <1>6, <1>7, FitJoin

(* The structure of a cluster.                                               *)
LEMMA StructureFits ==
  ASSUME NEW f, WasRead(f)
  PROVE  Fit(materializeHPCStructure(f, Reported[f.connection]), f.env)
<1> DEFINE o == Reported[f.connection]
           e == f.env
           c == clusterID(f)
           qs == Partitions(f, o)
           ns == o.nodes
           attached == [i \in DOMAIN qs |-> attachPartition(f, qs[i])]
           nodes == [i \in DOMAIN ns |-> materializeNode(f, o, ns[i])]
           first == <<Stmt("resource", Row(c, f.version, "cluster", c, NoParent), c, f.version)>>
           login == materializeLoginNode(f, o)
<1>1. c \in ResourceIDs(e) /\ <<f.connection, "login">> \in ResourceIDs(e)
  BY Zenon, MadeIDs
<1>2. Fit(first, e)
  <2>1. OwnRow(Row(c, f.version, "cluster", c, NoParent), e)
    BY Zenon, <1>1, MadeRow DEF WasRead
  <2> QED BY Zenon, <2>1, ResourceStatement
<1>3. Fit(Concat(attached), e)
  <2>1. qs \in Seq(PartitionRows(f)) /\ \A q \in PartitionRows(f) : OwnRow(q, e)
    BY Zenon, PartitionsFit
  <2> DEFINE P == PartitionRows(f)
  <2> HIDE DEF P, qs
  <2>2. Len(qs) \in Nat /\ DOMAIN qs = 1..Len(qs) /\ \A i \in 1..Len(qs) : qs[i] \in P
    BY <2>1 DEF P
  <2>3. \A i \in 1..Len(qs) : Fit(attachPartition(f, qs[i]), e)
    BY Zenon, <2>1, <2>2, AttachFits DEF P
  <2>4. /\ DOMAIN attached = 1..Len(qs) /\ attached = [i \in 1..Len(qs) |-> attached[i]]
        /\ \A i \in 1..Len(qs) : Fit(attached[i], e)
    BY Zenon, <2>2, <2>3
  <2> HIDE DEF attached
  <2> QED BY Zenon, <2>2, <2>4, FitConcat
<1>4. Fit(Concat(nodes), e)
  <2>1. ns \in Seq(Range(ns))
    BY Zenon, InventoryAssumption DEF WasRead, Found
  <2>2. Len(ns) \in Nat /\ DOMAIN ns = 1..Len(ns) /\ \A i \in 1..Len(ns) : ns[i] \in Range(ns)
    <3> HIDE DEF ns
    <3> QED BY <2>1 DEF Range
  <2>3. \A i \in 1..Len(ns) : Fit(materializeNode(f, o, ns[i]), e)
    BY Zenon, <2>2, NodeFits
  <2>4. /\ DOMAIN nodes = 1..Len(ns) /\ nodes = [i \in 1..Len(ns) |-> nodes[i]]
        /\ \A i \in 1..Len(ns) : Fit(nodes[i], e)
    BY Zenon, <2>2, <2>3
  <2> HIDE DEF nodes, ns
  <2> QED BY Zenon, <2>2, <2>4, FitConcat
<1>5. Fit(login, e)
  <2> DEFINE id == <<f.connection, "login">>
             row == Row(id, f.version, "machine", <<f.connection, "endpoint">>, c)
             s1 == <<Stmt("resource", row, id, f.version)>>
             s2 == Bind(f, id)
             s3 == <<Stmt("snapshot", id, id, f.version)>>
  <2>1. login = <<>> \/ login = s1 \o s2 \o s3
    BY Zenon DEF materializeLoginNode
  <2>2. Fit(s1, e)
    <3>1. OwnRow(row, e)
      BY Zenon, <1>1, MadeRow DEF WasRead
    <3> HIDE DEF row
    <3> QED BY Zenon, <3>1, ResourceStatement
  <2>3. Fit(s2, e)
    BY Zenon, BindFits
  <2>4. Fit(s3, e)
    BY Zenon, OtherStatements, FitOne
  <2> HIDE DEF s1, s2, s3, login
  <2>5. Fit(s1 \o s2, e)
    BY Zenon, <2>2, <2>3, FitJoin
  <2>6. Fit((s1 \o s2) \o s3, e)
    BY Zenon, <2>4, <2>5, FitJoin
  <2> QED BY Zenon, <2>1, <2>6, FitNone
<1>6. Fit(Bind(f, c), e)
  BY Zenon, BindFits
<1> DEFINE second == Bind(f, c)
           third == Concat(attached)
           fifth == Concat(nodes)
<1>7. \/ materializeHPCStructure(f, o) = <<>>
      \/ materializeHPCStructure(f, o) = first \o second \o third \o login \o fifth
  BY Zenon DEF materializeHPCStructure
<1>8. Fit(first, e) /\ Fit(second, e) /\ Fit(third, e) /\ Fit(login, e) /\ Fit(fifth, e)
  BY Zenon, <1>2, <1>3, <1>4, <1>5, <1>6
<1> HIDE DEF first, second, third, login, fifth
<1>9. Fit(first \o second \o third, e)
  <2>1. Fit(first \o second, e)
    BY Zenon, <1>8, FitJoin
  <2> QED BY Zenon, <1>8, <2>1, FitJoin
<1>a. Fit(first \o second \o third \o login, e)
  BY Zenon, <1>8, <1>9, FitJoin
<1>b. Fit(first \o second \o third \o login \o fifth, e)
  BY Zenon, <1>8, <1>a, FitJoin
<1> QED BY Zenon, <1>7, <1>b, FitNone

(* Every statement of a discovery is about its environment.                  *)
LEMMA WritesFit ==
  ASSUME NEW f, WasRead(f)
  PROVE  Fit(Writes(f, Reported[f.connection]), f.env)
<1> DEFINE o == Reported[f.connection]
           e == f.env
           structure == materializeHPCStructure(f, o)
           stores == materializeDiscoveredStorages(f, o)
           seen == {structure[i].row : i \in {j \in DOMAIN structure : structure[j].kind = "snapshot"}}
           bound == boundResourceIDs(f)
           rest == InSomeOrder(bound \ seen)
           unbound == <<Stmt("unbound", NoParent, NoParent, f.version)>>
           snaps == [i \in DOMAIN rest |-> Stmt("snapshot", rest[i], rest[i], f.version)]
           last == IF bound = {} THEN unbound ELSE snaps
<1>1. Fit(structure, e)
  BY Zenon, StructureFits
<1>2. Writes(f, o) = structure \o stores \o last
  BY Zenon DEF Writes
<1>3. Fit(stores, e)
  <2> DEFINE ps == o.paths
  <2>1. ps \in Seq(Range(ps))
    BY Zenon, InventoryAssumption DEF WasRead, Found
  <2>2. Len(ps) \in Nat /\ DOMAIN ps = 1..Len(ps) /\ \A i \in 1..Len(ps) : ps[i] \in Range(ps)
    <3> HIDE DEF ps
    <3> QED BY <2>1 DEF Range
  <2>3. /\ DOMAIN stores = 1..Len(ps) /\ stores = [i \in 1..Len(ps) |-> stores[i]]
        /\ \A i \in 1..Len(ps) : stores[i] = Stmt("storage", <<f.connection, "storage", ps[i]>>,
                                                  Range(runtimeIDsForConnection(f)), f.version)
    BY Zenon, <2>2 DEF materializeDiscoveredStorages
  <2>4. ASSUME NEW s \in StorageIDs(e), NEW to PROVE About(Stmt("storage", s, to, f.version), e)
    <3>1. f.version \in VersionIDs(e)
      BY Zenon DEF WasRead, Found
    <3> QED BY <3>1 DEF About, Stmt
  <2>5. \A i \in 1..Len(ps) : <<f.connection, "storage", ps[i]>> \in StorageIDs(e)
    BY Zenon, <2>2, MadeIDs
  <2> HIDE DEF ps, stores, e
  <2>6. \A i \in 1..Len(ps) : About(stores[i], e)
    BY Zenon, <2>3, <2>4, <2>5
  <2> QED BY Zenon, <2>2, <2>3, <2>6, FitEach
<1>4. Fit(unbound, e)
  BY Zenon, OtherStatements, FitOne
<1>5. Fit(snaps, e)
  <2>1. IsFiniteSet(IDs(f.resources))
    <3> DEFINE g == [r \in f.resources |-> r.id]
    <3>1. IDs(f.resources) = Range(g) /\ IsFiniteSet(DOMAIN g)
      BY Zenon DEF IDs, Range, WasRead
    <3> HIDE DEF g
    <3> QED BY Zenon, <3>1, FiniteRange
  <2>2. bound \ seen \in SUBSET IDs(f.resources)
    <3> HIDE DEF seen
    <3> QED BY Zenon DEF boundResourceIDs
  <2> DEFINE T == bound \ seen
  <2>3. IsFiniteSet(T)
    <3> HIDE DEF bound, seen
    <3> QED BY Zenon, <2>1, <2>2, FS_Subset
  <2>4. rest = InSomeOrder(T)
    BY Zenon
  <2> HIDE DEF T, rest
  <2>5. rest \in Seq(T)
    BY Zenon, <2>3, <2>4, OrderIsSequence
  <2>6. Len(rest) \in Nat /\ DOMAIN rest = 1..Len(rest)
    BY <2>5
  <2>7. \A i \in 1..Len(rest) : About(snaps[i], e)
    BY Zenon, <2>6, OtherStatements
  <2>8. DOMAIN snaps = 1..Len(rest) /\ snaps = [i \in 1..Len(rest) |-> snaps[i]]
    BY Zenon, <2>6
  <2> HIDE DEF snaps
  <2> QED BY Zenon, <2>6, <2>7, <2>8, FitEach
<1>6. last = unbound \/ last = snaps
  BY Zenon
<1> HIDE DEF last, unbound, snaps, structure, stores
<1>7. Fit(last, e)
  BY Zenon, <1>4, <1>5, <1>6
<1> QED BY Zenon, <1>1, <1>2, <1>3, <1>7, FitJoin

FindFields == {"pc", "connection", "env", "version", "runtimes", "resources", "bindings", "todo", "since"}

\* What one call of DiscoverConnection knows of its environment.
FindingInv(f) ==
  /\ DOMAIN f = FindFields
  /\ IsFiniteSet(f.runtimes) /\ IsFiniteSet(f.resources)
  /\ f.pc = "environment" => f.connection \in DOMAIN Reported
  /\ f.pc \in {"connections", "runtimes", "resources", "bindings", "observe", "write"} => Found(f)
  /\ f.pc \in {"bindings", "observe", "write"} => \A r \in f.resources : OwnRow(r, f.env)
  /\ f.pc = "write" => Fit(f.todo, f.env)

(* The tables are sound, and every discovery under way, however long ago it  *)
(* read them, has in hand only statements about one environment.             *)
EditInv == Sound(db) /\ DOMAIN finding = Discoverers /\ \A x \in Discoverers : FindingInv(finding[x])

(* A discovery that has not found its environment.                           *)
LEMMA IdleFinding ==
  /\ FindingInv(Idle)
  /\ FindingInv([Idle EXCEPT !.pc = "failed"])
  /\ \A c \in DOMAIN Reported : \A n : FindingInv([Idle EXCEPT !.pc = "environment", !.connection = c, !.since = n])
<1>0. IsFiniteSet({})
  BY Zenon, FS_EmptySet
<1>1. DOMAIN Idle = FindFields /\ Idle.pc = "idle" /\ Idle.runtimes = {} /\ Idle.resources = {}
  BY DEF Idle, FindFields
<1>2. FindingInv(Idle)
  <2>1. Idle.pc \notin {"environment", "connections", "runtimes", "resources", "bindings", "observe", "write"}
    BY <1>1
  <2> QED BY Zenon, <1>0, <1>1, <2>1 DEF FindingInv
<1>3. FindingInv([Idle EXCEPT !.pc = "failed"])
  <2> DEFINE g == [Idle EXCEPT !.pc = "failed"]
  <2>1. DOMAIN g = FindFields /\ g.pc = "failed" /\ g.runtimes = {} /\ g.resources = {}
    BY DEF Idle, FindFields
  <2> HIDE DEF g
  <2>2. g.pc \notin {"environment", "connections", "runtimes", "resources", "bindings", "observe", "write"}
    BY <2>1
  <2>3. FindingInv(g)
    BY Zenon, <1>0, <2>1, <2>2 DEF FindingInv
  <2> QED BY Zenon, <2>3 DEF g
<1>4. ASSUME NEW c \in DOMAIN Reported, NEW n
      PROVE  FindingInv([Idle EXCEPT !.pc = "environment", !.connection = c, !.since = n])
  <2> DEFINE g == [Idle EXCEPT !.pc = "environment", !.connection = c, !.since = n]
  <2>1. DOMAIN g = FindFields /\ g.pc = "environment" /\ g.runtimes = {} /\ g.resources = {} /\ g.connection = c
    BY DEF Idle, FindFields
  <2> HIDE DEF g
  <2>2. g.pc \notin {"connections", "runtimes", "resources", "bindings", "observe", "write"}
    BY <2>1
  <2>3. FindingInv(g)
    BY Zenon, <1>0, <2>1, <2>2 DEF FindingInv
  <2> QED BY Zenon, <2>3 DEF g
<1> QED BY Zenon, <1>2, <1>3, <1>4

(* A step of one discovery.                                                  *)
LEMMA OneFinding ==
  ASSUME EditInv, NEW x \in Discoverers, NEW g, finding' = [finding EXCEPT ![x] = g], FindingInv(g), Sound(db')
  PROVE  EditInv'
<1>1. DOMAIN finding' = Discoverers /\ finding'[x] = g /\ \A y \in Discoverers \ {x} : finding'[y] = finding[y]
  BY Zenon DEF EditInv
<1>2. \A y \in Discoverers : FindingInv(finding'[y])
  BY Zenon, <1>1 DEF EditInv
<1>3. \A y : FindingInv(finding'[y]) => FindingInv(finding[y])'
  BY Zenon DEF FindingInv, Found
<1>4. Sound(db)'
  BY Zenon
<1> QED BY Zenon, <1>1, <1>2, <1>3, <1>4 DEF EditInv

(* The reads of a discovery.                                                 *)
LEMMA ReadsKeepEdit ==
  ASSUME Separate, EditInv, NEW x \in Discoverers,
         FindVersion(x) \/ FindConnections(x) \/ FindRuntimes(x) \/ FindResources(x) \/ FindBindings(x)
  PROVE  EditInv'
<1> DEFINE f == finding[x]
<1>0. Sound(db) /\ FindingInv(f) /\ DOMAIN f = FindFields
  BY Zenon DEF EditInv, FindingInv
<1>1. UNCHANGED db /\ Sound(db')
  BY Zenon, <1>0 DEF FindVersion, FindConnections, FindRuntimes, FindResources, FindBindings
<1>2. ASSUME FindVersion(x) PROVE EditInv'
  <2>1. PICK y \in Definitions :
          /\ f.connection \in y.connections
          /\ LET v == VersionsOf(db, y.env)
             IN IF y.env \in db.environments
                THEN Discovering(x, [f EXCEPT !.env = y.env,
                                     !.version = IF v = {} THEN NoParent ELSE CHOOSE w \in v : TRUE], "connections")
                ELSE Discovering(x, Idle, "failed")
    BY Zenon, <1>2 DEF FindVersion
  <2> DEFINE e == y.env
             v == VersionsOf(db, e)
             w == CHOOSE w \in v : TRUE
  <2>2. CASE e \notin db.environments
    <3>1. finding' = [finding EXCEPT ![x] = [Idle EXCEPT !.pc = "failed"]]
      BY Zenon, <2>1, <2>2 DEF Discovering
    <3> QED BY Zenon, <1>1, <3>1, IdleFinding, OneFinding
  <2>3. CASE e \in db.environments
    <3>1. v # {}
      BY Zenon, <1>0, <2>3 DEF Sound, Versioned
    <3> DEFINE h == [f EXCEPT !.env = e, !.version = w]
               g == [h EXCEPT !.pc = "connections"]
    <3>2. finding' = [finding EXCEPT ![x] = g]
      BY Zenon, <2>1, <2>3, <3>1 DEF Discovering
    <3>3. w \in VersionIDs(e)
      <4>1. w \in v
        BY Zenon, <3>1
      <4> HIDE DEF w
      <4> QED BY Zenon, <1>0, <4>1 DEF VersionsOf, Sound, RowsNamed
    <3>4. e \in EnvironmentIDs /\ f.connection \in ConnectionIDs(e)
      BY Zenon, <2>1 DEF EnvironmentIDs, ConnectionIDs, Of
    <3>5. f.connection \in DOMAIN Reported
      BY Zenon, <1>0, <1>2 DEF FindVersion, FindingInv
    <3> HIDE DEF e, w, f
    <3>6. /\ DOMAIN g = FindFields /\ g.pc = "connections" /\ g.env = e /\ g.version = w
          /\ g.connection = f.connection /\ g.runtimes = f.runtimes /\ g.resources = f.resources
      BY <1>0 DEF FindFields
    <3> HIDE DEF g
    <3>7. g.pc \notin {"environment", "bindings", "observe", "write"}
      BY <3>6
    <3>8. FindingInv(g)
      BY Zenon, <1>0, <3>3, <3>4, <3>5, <3>6, <3>7 DEF FindingInv, Found
    <3> QED BY Zenon, <1>1, <3>2, <3>8, OneFinding
  <2> QED BY Zenon, <2>2, <2>3
<1>3. ASSUME FindConnections(x) PROVE EditInv'
  <2>1. PICK next \in {"runtimes", "failed"} : finding' = [finding EXCEPT ![x] = [f EXCEPT !.pc = next]]
    BY Zenon, <1>3 DEF FindConnections, Discovering
  <2>2. f.pc \in {"connections", "runtimes", "resources", "bindings", "observe", "write"}
    BY Zenon, <1>3 DEF FindConnections
  <2>3. Found(f)
    BY Zenon, <1>0, <2>2 DEF FindingInv
  <2> DEFINE g == [f EXCEPT !.pc = next]
  <2> HIDE DEF f
  <2>4. /\ DOMAIN g = FindFields /\ g.pc = next /\ g.env = f.env /\ g.version = f.version
        /\ g.connection = f.connection /\ g.runtimes = f.runtimes /\ g.resources = f.resources
    BY <1>0 DEF FindFields
  <2> HIDE DEF g
  <2>5. g.pc \notin {"environment", "bindings", "observe", "write"}
    BY <2>4
  <2>6. FindingInv(g)
    BY Zenon, <1>0, <2>3, <2>4, <2>5 DEF FindingInv, Found
  <2> QED BY Zenon, <1>1, <2>1, <2>6, OneFinding DEF g, f
<1>4. ASSUME FindRuntimes(x) PROVE EditInv'
  <2> DEFINE R == listRuntimes(db, f.version)
             h == [f EXCEPT !.runtimes = R]
             g == [h EXCEPT !.pc = "resources"]
  <2>1. finding' = [finding EXCEPT ![x] = g] /\ f.pc = "runtimes"
    BY Zenon, <1>4 DEF FindRuntimes, Discovering
  <2>2. Found(f)
    BY Zenon, <1>0, <2>1 DEF FindingInv
  <2>3. IsFiniteSet(R)
    <3>1. R \in SUBSET db.runtimes
      BY Zenon DEF listRuntimes
    <3> HIDE DEF R
    <3> QED BY Zenon, <1>0, <3>1, FS_Subset DEF Sound, FiniteRows
  <2> HIDE DEF f, R
  <2>4. /\ DOMAIN g = FindFields /\ g.pc = "resources" /\ g.env = f.env /\ g.version = f.version
        /\ g.connection = f.connection /\ g.runtimes = R /\ g.resources = f.resources
    BY <1>0 DEF FindFields
  <2> HIDE DEF g
  <2>5. g.pc \notin {"environment", "bindings", "observe", "write"}
    BY <2>4
  <2>6. FindingInv(g)
    BY Zenon, <1>0, <2>2, <2>3, <2>4, <2>5 DEF FindingInv, Found
  <2> QED BY Zenon, <1>1, <2>1, <2>6, OneFinding
<1>5. ASSUME FindResources(x) PROVE EditInv'
  <2> DEFINE R == listResources(db, f.version)
             h == [f EXCEPT !.resources = R]
             g == [h EXCEPT !.pc = "bindings"]
  <2>1. finding' = [finding EXCEPT ![x] = g] /\ f.pc = "resources"
    BY Zenon, <1>5 DEF FindResources, Discovering
  <2>2. Found(f)
    BY Zenon, <1>0, <2>1 DEF FindingInv
  <2>3. IsFiniteSet(R)
    <3>1. R \in SUBSET db.resources
      BY Zenon DEF listResources
    <3> HIDE DEF R
    <3> QED BY Zenon, <1>0, <3>1, FS_Subset DEF Sound, FiniteRows
  <2>4. ASSUME NEW r \in R PROVE OwnRow(r, f.env)
    <3>1. r \in db.resources /\ r.version = f.version
      BY Zenon DEF listResources
    <3>2. PICK e \in EnvironmentIDs : OwnRow(r, e)
      BY Zenon, <1>0, <3>1 DEF Sound, RowsNamed
    <3>3. f.env \in EnvironmentIDs /\ r.version \in VersionIDs(f.env) /\ r.version \in VersionIDs(e)
      BY Zenon, <2>2, <3>1, <3>2 DEF Found, OwnRow
    <3>4. e = f.env
      BY Zenon, <3>3, OneEnvironment
    <3> QED BY Zenon, <3>2, <3>4
  <2> HIDE DEF f, R
  <2>5. /\ DOMAIN g = FindFields /\ g.pc = "bindings" /\ g.env = f.env /\ g.version = f.version
        /\ g.connection = f.connection /\ g.runtimes = f.runtimes /\ g.resources = R
    BY <1>0 DEF FindFields
  <2> HIDE DEF g
  <2>6. g.pc \notin {"environment", "write"}
    BY <2>5
  <2>7. FindingInv(g)
    BY Zenon, <1>0, <2>2, <2>3, <2>4, <2>5, <2>6 DEF FindingInv, Found
  <2> QED BY Zenon, <1>1, <2>1, <2>7, OneFinding
<1>6. ASSUME FindBindings(x) PROVE EditInv'
  <2> DEFINE R == listRuntimeBindings(db, f.version)
             h == [f EXCEPT !.bindings = R]
             g == [h EXCEPT !.pc = "observe"]
  <2>1. finding' = [finding EXCEPT ![x] = g] /\ f.pc = "bindings"
    BY Zenon, <1>6 DEF FindBindings, Discovering
  <2>2. Found(f) /\ \A r \in f.resources : OwnRow(r, f.env)
    BY Zenon, <1>0, <2>1 DEF FindingInv
  <2> HIDE DEF f, R
  <2>3. /\ DOMAIN g = FindFields /\ g.pc = "observe" /\ g.env = f.env /\ g.version = f.version
        /\ g.connection = f.connection /\ g.runtimes = f.runtimes /\ g.resources = f.resources
    BY <1>0 DEF FindFields
  <2> HIDE DEF g
  <2>4. g.pc \notin {"environment", "write"}
    BY <2>3
  <2>5. FindingInv(g)
    BY Zenon, <1>0, <2>2, <2>3, <2>4 DEF FindingInv, Found
  <2> QED BY Zenon, <1>1, <2>1, <2>5, OneFinding
<1> QED BY Zenon, <1>2, <1>3, <1>4, <1>5, <1>6

(* The observation and the statements of a discovery.                        *)
LEMMA WritesKeepEdit ==
  ASSUME Separate, EditInv, NEW x \in Discoverers, Query(x) \/ Execute(x) \/ Discovered(x)
  PROVE  EditInv'
<1> DEFINE f == finding[x]
<1>0. Sound(db) /\ FindingInv(f) /\ DOMAIN f = FindFields
  BY Zenon DEF EditInv, FindingInv
<1>f. ASSUME finding' = [finding EXCEPT ![x] = [Idle EXCEPT !.pc = "failed"]], UNCHANGED db PROVE EditInv'
  <2>1. Sound(db')
    BY Zenon, <1>0, <1>f
  <2> QED BY Zenon, <1>f, <2>1, IdleFinding, OneFinding
<1>1. ASSUME Query(x) PROVE EditInv'
  <2> DEFINE W == Writes(f, Reported[f.connection])
             h == [f EXCEPT !.todo = W]
             g == [h EXCEPT !.pc = "write"]
  <2>1. UNCHANGED db /\ f.pc = "observe" /\ Sound(db')
    BY Zenon, <1>0, <1>1 DEF Query
  <2>2. \/ finding' = [finding EXCEPT ![x] = g]
        \/ finding' = [finding EXCEPT ![x] = [Idle EXCEPT !.pc = "failed"]]
    BY Zenon, <1>1 DEF Query, Discovering
  <2>3. Found(f) /\ \A r \in f.resources : OwnRow(r, f.env)
    BY Zenon, <1>0, <2>1 DEF FindingInv
  <2>4. Fit(W, f.env)
    <3>1. WasRead(f)
      BY Zenon, <1>0, <2>3 DEF FindingInv, WasRead
    <3> HIDE DEF f
    <3> QED BY Zenon, <3>1, WritesFit
  <2> HIDE DEF f, W
  <2>5. /\ DOMAIN g = FindFields /\ g.pc = "write" /\ g.env = f.env /\ g.version = f.version
        /\ g.connection = f.connection /\ g.runtimes = f.runtimes /\ g.resources = f.resources /\ g.todo = W
    BY <1>0 DEF FindFields
  <2> HIDE DEF g
  <2>6. g.pc # "environment"
    BY <2>5
  <2>7. FindingInv(g)
    BY Zenon, <1>0, <2>3, <2>4, <2>5, <2>6 DEF FindingInv, Found
  <2> QED BY Zenon, <1>f, <2>1, <2>2, <2>7, OneFinding
<1>2. ASSUME Execute(x) PROVE EditInv'
  <2> DEFINE s == Head(f.todo)
             h == [f EXCEPT !.todo = Tail(@)]
             g == [h EXCEPT !.pc = "write"]
  <2>1. f.pc = "write" /\ f.todo # <<>>
    BY Zenon, <1>2 DEF Execute
  <2>2. \/ /\ db' = Applied(db, s) /\ Consistent(Applied(db, s)) /\ finding' = [finding EXCEPT ![x] = g]
        \/ /\ UNCHANGED db /\ finding' = [finding EXCEPT ![x] = [Idle EXCEPT !.pc = "failed"]]
    BY Zenon, <1>2 DEF Execute, Discovering
  <2>3. Found(f) /\ (\A r \in f.resources : OwnRow(r, f.env)) /\ Fit(f.todo, f.env)
    BY Zenon, <1>0, <2>1 DEF FindingInv
  <2> DEFINE q == f.todo
  <2>4. s \in Range(q) /\ Tail(q) \in Seq(Range(q))
    <3>1. q \in Seq(Range(q)) /\ q # <<>>
      BY Zenon, <2>1, <2>3 DEF Fit
    <3> DEFINE S == Range(q)
    <3> HIDE DEF q, S
    <3>2. Head(q) \in S /\ Tail(q) \in Seq(S)
      BY <3>1 DEF S
    <3> QED BY Zenon, <3>2 DEF q, S
  <2>5. About(s, f.env) /\ Fit(Tail(q), f.env)
    BY Zenon, <2>3, <2>4, FitInto DEF Fit
  <2>6. ASSUME db' = Applied(db, s), Consistent(Applied(db, s)), finding' = [finding EXCEPT ![x] = g]
        PROVE  EditInv'
    <3>1. f.env \in EnvironmentIDs
      BY Zenon, <2>3 DEF Found
    <3>2. Sound(Applied(db, s))
      <4> HIDE DEF s, f
      <4> QED BY Zenon, <1>0, <2>5, <2>6, <3>1, AppliedStaysSound
    <3>3. Sound(db')
      BY Zenon, <2>6, <3>2
    <3> HIDE DEF f, s
    <3>4. /\ DOMAIN g = FindFields /\ g.pc = "write" /\ g.env = f.env /\ g.version = f.version
          /\ g.connection = f.connection /\ g.runtimes = f.runtimes /\ g.resources = f.resources
          /\ g.todo = Tail(q)
      BY <1>0 DEF FindFields
    <3> HIDE DEF g, q
    <3>5. g.pc # "environment"
      BY <3>4
    <3>6. FindingInv(g)
      BY Zenon, <1>0, <2>3, <2>5, <3>4, <3>5 DEF FindingInv, Found
    <3> QED BY Zenon, <2>6, <3>3, <3>6, OneFinding
  <2> QED BY Zenon, <1>f, <2>2, <2>6
<1>3. ASSUME Discovered(x) PROVE EditInv'
  <2> DEFINE g == [f EXCEPT !.pc = "done"]
  <2>1. finding' = [finding EXCEPT ![x] = g] /\ UNCHANGED db
    BY Zenon, <1>3 DEF Discovered, Discovering
  <2>2. Sound(db')
    BY Zenon, <1>0, <2>1
  <2> HIDE DEF f
  <2>3. DOMAIN g = FindFields /\ g.pc = "done" /\ g.runtimes = f.runtimes /\ g.resources = f.resources
    BY <1>0 DEF FindFields
  <2> HIDE DEF g
  <2>4. g.pc \notin {"environment", "connections", "runtimes", "resources", "bindings", "observe", "write"}
    BY <2>3
  <2>5. FindingInv(g)
    BY Zenon, <1>0, <2>3, <2>4 DEF FindingInv
  <2> QED BY Zenon, <2>1, <2>2, <2>5, OneFinding
<1> QED BY Zenon, <1>1, <1>2, <1>3

(* A step that touches no discovery.                                         *)
LEMMA SameFindings ==
  ASSUME EditInv, UNCHANGED finding, Sound(db')
  PROVE  EditInv'
<1>1. Sound(db)'
  BY Zenon
<1>2. \A y : FindingInv(finding[y]) => FindingInv(finding[y])'
  BY Zenon DEF FindingInv, Found
<1> QED BY Zenon, <1>1, <1>2 DEF EditInv

(* When environments share no identifier and each definition can be stored,  *)
(* an environment that nothing uses can be replaced and deleted              *)
(* (repository.go), whatever discoveries, however old what they read, have   *)
(* added to it or left half done.                                            *)
THEOREM UnusedAlwaysStaysEditable ==
  ASSUME Separate, \A d \in Definitions : Storable(d)
  PROVE  InventorySpec => []UnusedStaysEditable
<1>1. InventoryInit => EditInv
  <2> SUFFICES ASSUME InventoryInit PROVE EditInv
    BY Zenon
  <2>1. /\ DOMAIN db = Tables /\ db.environments = {}
        /\ db.versions = {} /\ db.connections = {} /\ db.runtimes = {} /\ db.resources = {} /\ db.bindings = {}
        /\ db.relations = {} /\ db.snapshots = {} /\ db.profiles = {} /\ db.storages = {} /\ db.mounts = {}
        /\ db.scopes = {} /\ db.topologies = {} /\ db.plans = {} /\ db.sessions = {}
    BY DEF InventoryInit, EmptyDatabase, Tables
  <2>2. References(db)
    BY Zenon, <2>1 DEF References
  <2>3. Unique(db)
    BY Zenon, <2>1, UniqueTables DEF Keys
  <2>4. RowsNamed(db) /\ FiniteRows(db) /\ Versioned(db)
    BY Zenon, <2>1, FS_EmptySet DEF RowsNamed, FiniteRows, Versioned
  <2>5. DOMAIN finding = Discoverers /\ \A x \in Discoverers : finding[x] = Idle
    BY Zenon DEF InventoryInit
  <2> QED BY Zenon, <2>1, <2>2, <2>3, <2>4, <2>5, IdleFinding DEF EditInv, Sound, Consistent
<1>2. EditInv /\ [InventoryNext]_inventoryVars => EditInv'
  <2> SUFFICES ASSUME EditInv, [InventoryNext]_inventoryVars PROVE EditInv'
    BY Zenon
  <2>0. Sound(db)
    BY Zenon DEF EditInv
  <2>1. CASE UNCHANGED inventoryVars
    <3>1. UNCHANGED <<db, finding>>
      BY Zenon, <2>1 DEF inventoryVars
    <3>2. Sound(db')
      BY Zenon, <2>0, <3>1
    <3> QED BY Zenon, <3>1, <3>2, SameFindings
  <2>2. CASE DiscoveryStep
    BY Zenon, <2>2, ReadsKeepEdit, WritesKeepEdit DEF DiscoveryStep
  <2>3. ASSUME NEW x \in Discoverers, NEW c \in DOMAIN Reported, DiscoverConnection(x, c) PROVE EditInv'
    <3> DEFINE g == [Idle EXCEPT !.pc = "environment", !.connection = c, !.since = changes + 1]
    <3>1. finding' = [finding EXCEPT ![x] = g] /\ UNCHANGED db
      BY Zenon, <2>3 DEF DiscoverConnection
    <3>2. Sound(db')
      BY Zenon, <2>0, <3>1
    <3>3. FindingInv(g)
      BY Zenon, IdleFinding
    <3> HIDE DEF g
    <3> QED BY Zenon, <3>1, <3>2, <3>3, OneFinding
  <2>4. ASSUME \/ \E d \in Definitions : CreateEnvironment(d) \/ ReplaceEnvironment(d)
               \/ \E e \in db.environments : DeleteEnvironment(e)
        PROVE  EditInv'
    <3>1. UNCHANGED finding
      BY Zenon, <2>4 DEF CreateEnvironment, ReplaceEnvironment, DeleteEnvironment, Client
    <3>2. Sound(db')
      BY Zenon, <2>0, <2>4, EnvironmentsStaySound
    <3> QED BY Zenon, <3>1, <3>2, SameFindings
  <2>5. ASSUME \/ \E s \in ScopeIDs : \E vs \in SUBSET IDs(db.versions) : CreateScope(s, vs)
               \/ \E s \in IDs(db.scopes) : DeleteScope(s)
               \/ \E s \in IDs(db.scopes) : \E ends \in SUBSET Endpoints : CreateTopology(s, ends)
               \/ \E r \in Endpoints : OpenConsoleSession(r)
               \/ \E s \in db.scopes : CopyPlanInputs(s)
               \/ \E chosen \in SUBSET draft.resources : CreatePlan(chosen)
        PROVE  EditInv'
    <3>1. UNCHANGED finding
      BY Zenon, <2>5 DEF CreateScope, DeleteScope, CreateTopology, OpenConsoleSession, CopyPlanInputs, CreatePlan,
         Client
    <3>2. Sound(db')
      BY Zenon, <2>0, <2>5, ClientsStaySound
    <3> QED BY Zenon, <3>1, <3>2, SameFindings
  <2> QED BY Zenon, <2>1, <2>2, <2>3, <2>4, <2>5 DEF InventoryNext
<1>3. EditInv => UnusedStaysEditable
  <2> SUFFICES ASSUME EditInv PROVE UnusedStaysEditable
    BY Zenon
  <2>1. Sound(db)
    BY Zenon DEF EditInv
  <2> QED BY Zenon, <2>1, SoundIsEditable DEF UnusedStaysEditable
<1> QED BY <1>1, <1>2, <1>3, PTL DEF InventorySpec
=============================================================================
