----------------------------- MODULE Workflows -----------------------------
(***************************************************************************)
(* Workflow definitions: a document in the authoring format is converted   *)
(* (Workflow.Domain), validated and stored in one transaction; a stored    *)
(* definition is exported (FromDomain) and duplicated under a new name.    *)
(* Identifiers come from names through identifier(), which lower-cases a   *)
(* name and replaces what is not a letter, a digit or a dash: Slug.        *)
(***************************************************************************)
EXTENDS Naturals, Sequences, FiniteSets

CONSTANTS
  Documents,        \* the documents clients submit: [name, namespace, activities]
  CopyNames,        \* the names clients give to duplicates
  CopyNamespaces,   \* and the namespaces, "" for that of the source
  Slug,             \* [name -> identifier]; the empty name's is NoSlug
  NoSlug,
  Copiers           \* requests that may be duplicating at one time

VARIABLES
  definitions,      \* the rows of workflow_definitions and workflow_versions
  activities,       \* activity_definitions: [id, workflow, name]
  edges,            \* activity_dependencies: <<activity, predecessor>>
  types,            \* activity_types
  copies            \* [Copiers -> a call of DuplicateWorkflow]

workflowVars == <<definitions, activities, edges, types, copies>>

NoCopy == [pc |-> "idle", name |-> "", document |-> [name |-> "", namespace |-> "", activities |-> {}]]

ASSUME WorkflowsAssumption ==
  /\ \A d \in Documents : d.name \in DOMAIN Slug /\ \A a \in d.activities : a.name \in DOMAIN Slug
  /\ CopyNames \subseteq DOMAIN Slug

----------------------------------------------------------------------------
\* Workflow.Domain: what is refused, and the rows of what is not.

ActivityNames(doc) == {a.name : a \in doc.activities}

\* Two activities with one name cannot be told apart and are refused; a is good
\* when its limits parse and its command, image or executable is complete.
Valid(doc) ==
  /\ Slug[doc.name] # NoSlug /\ doc.namespace # ""
  /\ \A a \in doc.activities : Slug[a.name] # NoSlug /\ a.good
  /\ \A a, b \in doc.activities : a.name = b.name => a = b
  /\ \A a \in doc.activities : a.dependsOn \subseteq ActivityNames(doc)

DefinitionRow(doc) == [id |-> Slug[doc.name], namespace |-> doc.namespace]
\* Activity identifiers are those of their names, whatever the workflow.
ActivityRows(id, doc) == {[id |-> Slug[a.name], workflow |-> id, name |-> a.name] : a \in doc.activities}
EdgeRows(doc) == UNION {{<<Slug[a.name], Slug[p]>> : p \in a.dependsOn} : a \in doc.activities}

----------------------------------------------------------------------------
\* Repository.Create.

\* The primary keys and the CHECK that the transaction runs into.
Clash(doc) ==
  \/ Slug[doc.name] \in {d.id : d \in definitions}
  \/ \E a \in doc.activities : Slug[a.name] \in {x.id : x \in activities}
  \/ \E a, b \in doc.activities : a # b /\ Slug[a.name] = Slug[b.name]
  \/ \E e \in EdgeRows(doc) : e[1] = e[2]

Committed(doc) ==
  /\ definitions' = definitions \cup {DefinitionRow(doc)}
  /\ types' = types \cup {Slug[doc.name]}
  /\ activities' = activities \cup {x \in ActivityRows(Slug[doc.name], doc) : x.id \notin {y.id : y \in activities}}
  /\ edges' = edges \cup EdgeRows(doc)

\* Without a transaction the rows before the failing one stay.
RolledBack_Partly(doc) ==
  /\ definitions' = definitions \cup
       (IF Slug[doc.name] \in {d.id : d \in definitions} THEN {} ELSE {DefinitionRow(doc)})
  /\ UNCHANGED <<types, activities, edges>>

\* The deferred Rollback.
RolledBack(doc) == UNCHANGED <<definitions, types, activities, edges>>

CreateWorkflow(doc) ==
  /\ Valid(doc)
  /\ IF Clash(doc) THEN RolledBack(doc) ELSE Committed(doc)
  /\ UNCHANGED copies

----------------------------------------------------------------------------
\* Find and FromDomain: the latest version of a definition as a document again.

\* Dependencies written with identifiers instead of names.
Predecessors_Identifiers(x) == {e[2] : e \in {d \in edges : d[1] = x.id}}

\* Dependencies are stored by identifier and exported by name.
Predecessors(x) ==
  {y.name : y \in {z \in activities : z.workflow = x.workflow /\ <<x.id, z.id>> \in edges}}

FromDomain(def, name, namespace) ==
  [name |-> name, namespace |-> IF namespace = "" THEN def.namespace ELSE namespace,
   activities |-> {[name |-> x.name, dependsOn |-> Predecessors(x), good |-> TRUE] :
                   x \in {y \in activities : y.workflow = def.id}}]

\* DuplicateWorkflow: the source is read, then the copy is stored.
DuplicateWorkflow(c, def, name, namespace) ==
  /\ copies[c].pc = "idle"
  /\ name # ""
  /\ copies' = [copies EXCEPT ![c] = [pc |-> "read", name |-> name, document |-> FromDomain(def, name, namespace)]]
  /\ UNCHANGED <<definitions, types, activities, edges>>

StoreCopy(c) ==
  /\ copies[c].pc = "read"
  /\ LET doc == copies[c].document
         fine == Valid(doc) /\ ~Clash(doc)
     IN /\ IF fine THEN Committed(doc) ELSE RolledBack(doc)
        /\ copies' = [copies EXCEPT ![c].pc = IF fine THEN "stored" ELSE "refused"]

AnswerCopy(c) ==
  /\ copies[c].pc \in {"stored", "refused"}
  /\ copies' = [copies EXCEPT ![c] = NoCopy]
  /\ UNCHANGED <<definitions, types, activities, edges>>

WorkflowsInit ==
  /\ definitions = {} /\ activities = {} /\ edges = {} /\ types = {}
  /\ copies = [c \in Copiers |-> NoCopy]

WorkflowsNext ==
  \/ \E doc \in Documents : CreateWorkflow(doc)
  \/ \E c \in Copiers :
       \/ \E def \in definitions, name \in CopyNames, namespace \in CopyNamespaces :
            DuplicateWorkflow(c, def, name, namespace)
       \/ StoreCopy(c) \/ AnswerCopy(c)

WorkflowsSpec == WorkflowsInit /\ [][WorkflowsNext]_workflowVars

----------------------------------------------------------------------------
\* Properties.

\* repository.go Create: a definition is stored with all the activities and
\* dependencies of some submitted or duplicated document, or not at all; and
\* although identifiers of activities carry no workflow, no dependency leads from
\* one workflow into another.
DefinitionsAreWhole ==
  /\ \A d \in definitions : \E doc \in Documents :
       /\ \/ d = DefinitionRow(doc)
          \/ /\ d.id # Slug[doc.name] /\ d.id \in {Slug[n] : n \in CopyNames}
             /\ d.namespace \in {doc.namespace} \cup CopyNamespaces
       /\ {x \in activities : x.workflow = d.id} = ActivityRows(d.id, doc)
       /\ EdgeRows(doc) \subseteq edges
  /\ \A e \in edges : \A x, y \in activities :
       (x.id = e[1] /\ y.id = e[2]) => x.workflow = y.workflow

\* workflow.go FromDomain: "an exported file can be imported as a new
\* definition": exporting a stored workflow and converting it back gives the
\* same activities and dependencies.
ExportIsFaithful ==
  \A d \in definitions :
    LET x == FromDomain(d, CHOOSE n \in DOMAIN Slug : Slug[n] = d.id, "")
    IN /\ Valid(x)
       /\ ActivityRows(d.id, x) = {y \in activities : y.workflow = d.id}
       /\ EdgeRows(x) = {e \in edges : e[1] \in {y.id : y \in {z \in activities : z.workflow = d.id}}}

\* workflow_engine_api_handler.go:1271-1273: a new name "produces a new stable
\* workflow and activity ID namespace": a duplicate under a name that no
\* workflow has is stored.
DuplicatesAreStored ==
  \A c \in Copiers :
    copies[c].pc = "refused" =>
      Slug[copies[c].name] = NoSlug \/ Slug[copies[c].name] \in {d.id : d \in definitions}
=============================================================================
