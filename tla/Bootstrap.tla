------------------------------ MODULE Bootstrap ------------------------------
(* infrastructure/database/bootstrap.go and validation.go: what a server     *)
(* does with its database before it serves.  An empty database gets the      *)
(* schema, two older schemas are upgraded step by step, any other one is     *)
(* refused.  Every step is a transaction of SQLite; servers may die between  *)
(* any two statements, and two of them may start on one file.                *)
EXTENDS Integers, FiniteSets

CONSTANTS
    Servers,      \* processes that may be started
    Databases,    \* the states the file may be found in
    MaxDeaths     \* bound: processes that die, or statements that fail

VARIABLES
    parts,      \* what the file has: "base", "preferences", "metrics"
    checksum,   \* the row of schema_metadata, or none
    boot,       \* where each server is
    fleet,      \* the servers that are started at all
    deaths

bootVars == <<parts, checksum, boot, fleet, deaths>>

\* legacySchemaBeforeUserPreferences, schemaBeforeExecutionMetrics and the
\* checksum of the embedded schema, with what each of them stands for
PartsOf(sum) ==
    CASE sum = "legacy"  -> {"base"}
      [] sum = "before metrics" -> {"base", "preferences"}
      [] sum = "current" -> {"base", "preferences", "metrics"}
      [] OTHER -> {}

\* The engine made the file: it has what its checksum stands for.
ASSUME BootstrapAssumption ==
    /\ \A d \in Databases :
          d.parts \subseteq PartsOf("current") /\ PartsOf(d.checksum) \subseteq d.parts
    /\ MaxDeaths \in Nat

Misstep == deaths < MaxDeaths /\ deaths' = deaths + 1

BootstrapInit ==
    /\ \E d \in Databases : parts = d.parts /\ checksum = d.checksum
    /\ boot = [s \in Servers |-> "down"]
    /\ fleet \in {f \in SUBSET Servers : f # {}}
    /\ deaths = 0

Booting(s, at) == boot[s] = at
Proceed(s, at) == boot' = [boot EXCEPT ![s] = at]

-----------------------------------------------------------------------------
StartServer(s) ==
    /\ s \in fleet /\ Booting(s, "down")
    /\ Proceed(s, "inspecting")
    /\ UNCHANGED <<parts, checksum, fleet, deaths>>

\* isEmpty
InspectTables(s) ==
    /\ Booting(s, "inspecting")
    /\ Proceed(s, IF parts = {} THEN "installing" ELSE "preferences?")
    /\ UNCHANGED <<parts, checksum, fleet, deaths>>

\* Tables and checksum in one transaction; tables that are there are an error.
installSchema(s) ==
    /\ Booting(s, "installing")
    /\ IF parts = {}
       THEN parts' = PartsOf("current") /\ checksum' = "current" /\ Proceed(s, "validating")
       ELSE Proceed(s, "refused") /\ UNCHANGED <<parts, checksum>>
    /\ UNCHANGED <<fleet, deaths>>

\* The first statement reads the checksum outside of the transaction.
ReadForPreferences(s) ==
    /\ Booting(s, "preferences?")
    /\ Proceed(s, IF checksum = "legacy" THEN "preferences" ELSE "metrics?")
    /\ UNCHANGED <<parts, checksum, fleet, deaths>>

\* CREATE TABLE IF NOT EXISTS, and the checksum that follows the legacy one,
\* whatever it has become since it was read.
migrateUserPreferences(s) ==
    /\ Booting(s, "preferences")
    /\ parts' = parts \cup {"preferences"} /\ checksum' = "before metrics"
    /\ Proceed(s, "metrics?")
    /\ UNCHANGED <<fleet, deaths>>

ReadForMetrics(s) ==
    /\ Booting(s, "metrics?")
    /\ Proceed(s, IF checksum = "before metrics" THEN "metrics" ELSE "validating")
    /\ UNCHANGED <<parts, checksum, fleet, deaths>>

\* ALTER TABLE ADD COLUMN; a column that is there is an error.
migrateExecutionMetrics(s) ==
    /\ Booting(s, "metrics")
    /\ IF "metrics" \in parts
       THEN Proceed(s, "refused") /\ UNCHANGED <<parts, checksum>>
       ELSE parts' = parts \cup {"metrics"} /\ checksum' = "current" /\ Proceed(s, "validating")
    /\ UNCHANGED <<fleet, deaths>>

\* The checksum, and every table of the schema
Validate_Checksum(s) ==
    /\ Booting(s, "validating")
    /\ Proceed(s, IF checksum # "none" THEN "serving" ELSE "refused")
    /\ UNCHANGED <<parts, checksum, fleet, deaths>>
Validate(s) ==
    /\ Booting(s, "validating")
    /\ Proceed(s, IF checksum = "current" /\ {"base", "preferences"} \subseteq parts
                  THEN "serving" ELSE "refused")
    /\ UNCHANGED <<parts, checksum, fleet, deaths>>

\* A process dies, or a statement fails and the process ends: the transaction
\* it was in is rolled back.  It is started again.
Die(s) ==
    /\ ~Booting(s, "down") /\ Misstep
    /\ Proceed(s, "down")
    /\ UNCHANGED <<parts, checksum, fleet>>

BootStep(s) ==
    \/ StartServer(s) \/ InspectTables(s) \/ installSchema(s) \/ ReadForPreferences(s)
    \/ migrateUserPreferences(s) \/ ReadForMetrics(s) \/ migrateExecutionMetrics(s) \/ Validate(s)

BootstrapNext == \E s \in Servers : BootStep(s) \/ Die(s)

BootstrapSpec == BootstrapInit /\ [][BootstrapNext]_bootVars

\* Whoever runs a server starts it again when it died.
BootstrapFairness == \A s \in Servers : WF_bootVars(BootStep(s))

FairBootstrapSpec == BootstrapSpec /\ BootstrapFairness

-----------------------------------------------------------------------------
(* Properties *)

(* Every schema transaction writes its checksum with its tables: whoever     *)
(* dies where, the checksum never stands for more than the file has.         *)
ChecksumIsCovered == PartsOf(checksum) \subseteq parts

(* openPersistence: a server that serves has the whole schema, also columns  *)
(* that Validate does not look at, if the file was one the engine made.      *)
ServedIsWhole == \A s \in Servers : boot[s] = "serving" => parts = PartsOf("current")

\* The file is one the engine can use or upgrade.
Known == parts = {} \/ checksum \in {"legacy", "before metrics", "current"}

\* A server that is alone on such a file serves.
IsUp == (Known /\ Cardinality(fleet) = 1) => \E s \in Servers : boot[s] = "serving"

(* bootstrap.go:41-43: the legacy schema "can be upgraded in place".  A      *)
(* server that is alone on its file serves in the end, through crashes in    *)
(* any of the steps.  (Two that upgrade one file at once may leave it with   *)
(* an older checksum and the newer columns, which no server accepts again.)  *)
UpgradeGetsThrough == []<>IsUp
=============================================================================
