------------------------------- MODULE Build --------------------------------
(***************************************************************************)
(* Builds of executables (internal/application/build): contexts are        *)
(* uploaded, extracted into a workspace and handed to a builder, whose     *)
(* output is published in the catalog (internal/infrastructure/database/   *)
(* data).  A build run is a goroutine of the server; the row of its run is *)
(* all that survives a restart.                                            *)
(*                                                                         *)
(* Every call of the file system, of a builder or of the catalog is a      *)
(* step, so that other runs, uploads or a crash may come in between.  The  *)
(* copy of one file of a context is one step after its creation.           *)
(***************************************************************************)
EXTENDS Integers

CONSTANTS
    Contexts,       \* digests of build contexts
    Builds,         \* artifact_builds: immutable specifications
    Runs,           \* build run ids
    Uploads,        \* clients that upload contexts
    BuildOf,        \* the build of a run
    UploadOf,       \* the context a client uploads
    Specification,  \* what a build is made from, and into
    Reproducible,   \* builds whose builder writes the same bytes again
    Entries,        \* files of a context
    Nothing,        \* no directory, file, variant or output
    MaxFaults       \* bound: crashes and failing calls

Specifications ==
    [sourceType : {"context", "docker-image"}, context : Contexts,
     version : STRING, format : {"oci", "sif"}, cacheKey : STRING]

(* What a builder writes.                                                    *)
Outputs ==
    [build : Builds, input : SUBSET (1..Entries), stamp : Runs \cup {Nothing}, whole : BOOLEAN]

Directories == [1..Entries -> {"absent", "partial", "whole"}]

ASSUME BuildAssumption ==
    /\ BuildOf \in [Runs -> Builds]
    /\ UploadOf \in [Uploads -> Contexts]
    /\ DOMAIN Specification = Builds
    /\ \A b \in Builds : Specification[b] \in Specifications
    /\ Reproducible \subseteq Builds
    /\ Entries \in Nat \ {0}
    /\ MaxFaults \in Nat
    /\ Nothing \notin Runs /\ Nothing \notin Outputs /\ Nothing \notin Directories

VARIABLES
    archive,    \* contexts whose bytes are in the store
    registered, \* build_contexts
    created,    \* artifact_builds
    workspace,  \* the directory a context is extracted into
    file,       \* files under outputs/
    row,        \* build_runs
    variant,    \* artifact_variants and artifact_locations, by run
    pc,         \* the call a run is about to make
    entry,      \* the file of the context a run is at
    linked,     \* the file it has open is still in the workspace
    input,      \* files of the context the builder was given whole
    digest,     \* of the output a run has read
    upload,     \* the call an upload is about to make
    faults

store == <<archive, workspace, file>>
tables == <<registered, created, row, variant>>
locals == <<entry, linked, input, digest>>
buildVars == <<store, tables, pc, locals, upload, faults>>

Spec(r) == Specification[BuildOf[r]]
Context(r) == Spec(r).context

(* The states a column may hold; the executor also tries to save "running".  *)
Statuses == {"queued", "preparing", "building", "verifying", "publishing",
             "completed", "failed", "cancelled"}

(* Outputs are named after their run.                                        *)
OutputFile_PerBuild(r, format) == <<BuildOf[r], format>>

OutputFile(r, format) == <<r, format>>
FileNames == {OutputFile(r, format) : r \in Runs, format \in {"oci", "sif"}}

Empty == [i \in 1..Entries |-> "absent"]
WholeFiles(directory) == {i \in 1..Entries : directory[i] = "whole"}

Rows == [status : Statuses \cup {"none"}, output : Runs \cup {Nothing}]

PCs == {"none", "resolve", "mkdir", "open", "copy", "run", "build", "convert", "read",
        "publishing", "publish", "complete", "failing", "returned", "unrecorded", "gone"}

(* Every variable has the type the code gives it.                            *)
BuildTypeOK ==
    /\ archive \subseteq Contexts
    /\ registered \subseteq Contexts
    /\ created \subseteq Builds
    /\ workspace \in [Contexts -> Directories \cup {Nothing}]
    /\ file \in [FileNames -> Outputs \cup {Nothing}]
    /\ row \in [Runs -> Rows]
    /\ variant \in [Runs -> Outputs \cup {Nothing}]
    /\ pc \in [Runs -> PCs]
    /\ entry \in [Runs -> 1..Entries + 1]
    /\ linked \in [Runs -> BOOLEAN]
    /\ input \in [Runs -> SUBSET (1..Entries)]
    /\ digest \in [Runs -> Outputs \cup {Nothing}]
    /\ upload \in [Uploads -> {"idle", "find", "save", "stored"}]
    /\ faults \in 0..MaxFaults

BuildInit ==
    /\ archive = {}
    /\ registered = {}
    /\ created = {}
    /\ workspace = [c \in Contexts |-> Nothing]
    /\ file = [n \in FileNames |-> Nothing]
    /\ row = [r \in Runs |-> [status |-> "none", output |-> Nothing]]
    /\ variant = [r \in Runs |-> Nothing]
    /\ pc = [r \in Runs |-> "none"]
    /\ entry = [r \in Runs |-> 1]
    /\ linked = [r \in Runs |-> FALSE]
    /\ input = [r \in Runs |-> {}]
    /\ digest = [r \in Runs |-> Nothing]
    /\ upload = [u \in Uploads |-> "idle"]
    /\ faults = 0

Works == faults' = faults
Breaks == faults < MaxFaults /\ faults' = faults + 1

At(r, l) == pc[r] = l
Goto(r, l) == pc' = [pc EXCEPT ![r] = l]

-----------------------------------------------------------------------------
(* Uploads, and the specifications of builds *)

UploadAt(u, l) == upload[u] = l
UploadGoto(u, l) == upload' = [upload EXCEPT ![u] = l]

(* The bytes of a valid context are renamed into the store; an upload that   *)
(* is refused or breaks before that leaves nothing.                          *)
Upload(u) ==
    /\ upload[u] \in {"idle", "stored"}
    /\ archive' = archive \cup {UploadOf[u]}
    /\ UploadGoto(u, "find")
    /\ UNCHANGED <<workspace, file, tables, pc, locals, faults>>

FindUploadedContext(u) ==
    /\ UploadAt(u, "find")
    /\ \/ Works /\ UploadGoto(u, IF UploadOf[u] \in registered THEN "stored" ELSE "save")
       \/ Breaks /\ UploadGoto(u, "idle")
    /\ UNCHANGED <<store, tables, pc, locals>>

(* A context that was registered since is refused by its primary key.        *)
SaveUploadedContext(u) ==
    /\ UploadAt(u, "save")
    /\ \/ /\ UploadOf[u] \notin registered /\ Works
          /\ registered' = registered \cup {UploadOf[u]}
          /\ UploadGoto(u, "stored")
       \/ /\ UploadOf[u] \in registered /\ Works
          /\ UploadGoto(u, "idle") /\ UNCHANGED registered
       \/ /\ Breaks /\ UploadGoto(u, "idle") /\ UNCHANGED registered
    /\ UNCHANGED <<store, created, row, variant, pc, locals>>

(* The handler may also register a context by its description alone.         *)
SaveBuildContext(c) ==
    /\ c \notin registered
    /\ registered' = registered \cup {c}
    /\ UNCHANGED <<store, created, row, variant, pc, locals, upload, faults>>

(* A build with the cache key of another is answered with that one.          *)
CreateArtifactBuild(b) ==
    /\ \A d \in created : Specification[d].cacheKey # Specification[b].cacheKey
    /\ Specification[b].sourceType = "context" => Specification[b].context \in registered
    /\ created' = created \cup {b}
    /\ UNCHANGED <<store, registered, row, variant, pc, locals, upload, faults>>

-----------------------------------------------------------------------------
(* Manager.Start and Manager.ResolveBuildContext *)

(* SaveBuildRun: the table refuses a status it does not know.                *)
SaveBuildRun(r, status, output) ==
    row' = IF status \in Statuses
           THEN [row EXCEPT ![r] = [status |-> status, output |-> output]]
           ELSE row

Start(r) ==
    /\ At(r, "none") /\ BuildOf[r] \in created
    /\ SaveBuildRun(r, "queued", Nothing)
    /\ Goto(r, IF Spec(r).sourceType = "context" THEN "resolve" ELSE "run")
    /\ UNCHANGED <<store, registered, created, variant, locals, upload, faults>>

(* A directory that exists is taken for the whole context.                   *)
ResolveBuildContext(r) ==
    /\ At(r, "resolve")
    /\ Goto(r, IF Context(r) \notin archive THEN "failing"
               ELSE IF workspace[Context(r)] # Nothing THEN "run"
               ELSE "mkdir")
    /\ UNCHANGED <<store, tables, locals, upload, faults>>

MakeDirectory(r) ==
    /\ At(r, "mkdir")
    /\ \/ /\ Works
          /\ workspace' = [workspace EXCEPT ![Context(r)] = IF @ = Nothing THEN Empty ELSE @]
          /\ Goto(r, "open")
       \/ Breaks /\ Goto(r, "failing") /\ UNCHANGED workspace
    /\ UNCHANGED <<archive, file, tables, locals, upload>>

(* The next file of the archive is created or emptied; when the archive      *)
(* cannot be read the directory is removed, when a file cannot be written it *)
(* is left as it is.                                                         *)
OpenEntry(r) ==
    /\ At(r, "open")
    /\ \/ /\ Works
          /\ workspace' = [workspace EXCEPT ![Context(r)] =
                              [(IF @ = Nothing THEN Empty ELSE @) EXCEPT ![entry[r]] = "partial"]]
          /\ linked' = [linked EXCEPT ![r] = TRUE]
          /\ Goto(r, "copy")
       \/ /\ Breaks
          /\ workspace' = [workspace EXCEPT ![Context(r)] = Nothing]
          /\ linked' = [s \in Runs |-> linked[s] /\ Context(s) # Context(r)]
          /\ Goto(r, "failing")
       \/ Breaks /\ Goto(r, "failing") /\ UNCHANGED <<workspace, linked>>
    /\ UNCHANGED <<archive, file, tables, entry, input, digest, upload>>

CopyEntry_Early(r) ==
    /\ At(r, "copy")
    /\ \/ /\ Works
          /\ workspace' = IF linked[r]
                          THEN [workspace EXCEPT ![Context(r)][entry[r]] = "whole"]
                          ELSE workspace
          /\ entry' = [entry EXCEPT ![r] = @ + 1]
          /\ Goto(r, IF entry[r] >= Entries - 1 THEN "run" ELSE "open")
       \/ Breaks /\ Goto(r, "failing") /\ UNCHANGED <<workspace, entry>>
    /\ UNCHANGED <<archive, file, tables, linked, input, digest, upload>>

(* Its bytes are copied; the last file is followed by the end of the archive. *)
CopyEntry(r) ==
    /\ At(r, "copy")
    /\ \/ /\ Works
          /\ workspace' = IF linked[r]
                          THEN [workspace EXCEPT ![Context(r)][entry[r]] = "whole"]
                          ELSE workspace
          /\ entry' = [entry EXCEPT ![r] = @ + 1]
          /\ Goto(r, IF entry[r] = Entries THEN "run" ELSE "open")
       \/ Breaks /\ Goto(r, "failing") /\ UNCHANGED <<workspace, entry>>
    /\ UNCHANGED <<archive, file, tables, linked, input, digest, upload>>

-----------------------------------------------------------------------------
(* Executor.Execute *)

FromImage(r) == Spec(r).sourceType = "docker-image"
FirstFormat(r) == IF FromImage(r) THEN "sif" ELSE "oci"
Partial(r) == [build |-> BuildOf[r], input |-> {}, stamp |-> Nothing, whole |-> FALSE]

(* The status is saved, which the table refuses, and the builder is started. *)
RunBuilder(r) ==
    /\ At(r, "run")
    /\ SaveBuildRun(r, "running", Nothing)
    /\ IF IF FromImage(r) THEN Spec(r).format = "sif" ELSE workspace[Context(r)] # Nothing
       THEN /\ input' = [input EXCEPT ![r] =
                            IF FromImage(r) THEN {} ELSE WholeFiles(workspace[Context(r)])]
            /\ file' = [file EXCEPT ![OutputFile(r, FirstFormat(r))] = Partial(r)]
            /\ Goto(r, "build")
       ELSE Goto(r, "failing") /\ UNCHANGED <<input, file>>
    /\ UNCHANGED <<archive, workspace, registered, created, variant, entry, linked, digest,
                   upload, faults>>

EndBuilder(r) ==
    /\ At(r, "build")
    /\ \/ /\ file' = [file EXCEPT ![OutputFile(r, FirstFormat(r))] =
                          [build |-> BuildOf[r], input |-> input[r],
                           stamp |-> IF BuildOf[r] \in Reproducible THEN Nothing ELSE r,
                           whole |-> TRUE]]
          /\ Goto(r, IF Spec(r).format = FirstFormat(r) THEN "read" ELSE "convert")
       \/ Goto(r, "failing") /\ UNCHANGED file
    /\ UNCHANGED <<archive, workspace, tables, locals, upload, faults>>

(* An OCI archive is made into a SIF file.                                   *)
Convert(r) ==
    /\ At(r, "convert")
    /\ \/ /\ file' = [file EXCEPT ![OutputFile(r, "sif")] = file[OutputFile(r, "oci")]]
          /\ Goto(r, "read")
       \/ /\ file' = [file EXCEPT ![OutputFile(r, "sif")] = Partial(r)]
          /\ Goto(r, "failing")
    /\ UNCHANGED <<archive, workspace, tables, locals, upload, faults>>

ReadOutput(r) ==
    /\ At(r, "read")
    /\ \/ /\ Works
          /\ digest' = [digest EXCEPT ![r] = file[OutputFile(r, Spec(r).format)]]
          /\ Goto(r, "publishing")
       \/ Breaks /\ Goto(r, "failing") /\ UNCHANGED digest
    /\ UNCHANGED <<store, tables, entry, linked, input, upload>>

SavePublishing(r) ==
    /\ At(r, "publishing")
    /\ \/ Works /\ SaveBuildRun(r, "publishing", Nothing)
       \/ Breaks /\ UNCHANGED row
    /\ Goto(r, "publish")
    /\ UNCHANGED <<store, registered, created, variant, locals, upload>>

Taken(r) ==
    \E s \in Runs : Spec(s).version = Spec(r).version /\ variant[s] = digest[r]

PublishBuildOutput_WithoutRow(r) ==
    /\ At(r, "publish")
    /\ \/ /\ ~Taken(r) /\ Works
          /\ variant' = [variant EXCEPT ![r] = digest[r]]
          /\ Goto(r, "complete")
       \/ Taken(r) /\ Works /\ Goto(r, "failing") /\ UNCHANGED variant
       \/ Breaks /\ Goto(r, "failing") /\ UNCHANGED variant
    /\ UNCHANGED <<store, registered, created, row, locals, upload>>

(* Variant, location and row in one transaction.  A digest the version has   *)
(* already is refused.                                                       *)
PublishBuildOutput(r) ==
    /\ At(r, "publish")
    /\ \/ /\ ~Taken(r) /\ Works
          /\ variant' = [variant EXCEPT ![r] = digest[r]]
          /\ SaveBuildRun(r, "completed", r)
          /\ Goto(r, "complete")
       \/ Taken(r) /\ Works /\ Goto(r, "failing") /\ UNCHANGED <<row, variant>>
       \/ Breaks /\ Goto(r, "failing") /\ UNCHANGED <<row, variant>>
    /\ UNCHANGED <<store, registered, created, locals, upload>>

SaveCompleted(r) ==
    /\ At(r, "complete")
    /\ \/ Works /\ SaveBuildRun(r, "completed", r)
       \/ Breaks /\ UNCHANGED row
    /\ Goto(r, "returned")
    /\ UNCHANGED <<store, registered, created, variant, locals, upload>>

Fail_Unsaved(r) ==
    /\ At(r, "failing")
    /\ Goto(r, "returned")
    /\ UNCHANGED <<store, tables, locals, upload, faults>>

(* The failure is saved once; nothing saves it again when that breaks.       *)
Fail(r) ==
    /\ At(r, "failing")
    /\ \/ Works /\ SaveBuildRun(r, "failed", Nothing) /\ Goto(r, "returned")
       \/ Breaks /\ UNCHANGED row /\ Goto(r, "unrecorded")
    /\ UNCHANGED <<store, registered, created, variant, locals, upload>>

(* The server dies with the goroutines of its runs and requests.             *)
Crash ==
    /\ Breaks
    /\ pc' = [r \in Runs |-> IF pc[r] \in {"none", "returned", "unrecorded"} THEN pc[r] ELSE "gone"]
    /\ upload' = [u \in Uploads |-> IF upload[u] = "stored" THEN "stored" ELSE "idle"]
    /\ UNCHANGED <<store, tables, locals>>

-----------------------------------------------------------------------------
RunStep(r) ==
    \/ ResolveBuildContext(r) \/ MakeDirectory(r) \/ OpenEntry(r) \/ CopyEntry(r)
    \/ RunBuilder(r) \/ EndBuilder(r) \/ Convert(r) \/ ReadOutput(r)
    \/ SavePublishing(r) \/ PublishBuildOutput(r) \/ SaveCompleted(r) \/ Fail(r)

UploadStep(u) == Upload(u) \/ FindUploadedContext(u) \/ SaveUploadedContext(u)

BuildNext ==
    \/ \E u \in Uploads : UploadStep(u)
    \/ \E c \in Contexts : SaveBuildContext(c)
    \/ \E b \in Builds : CreateArtifactBuild(b)
    \/ \E r \in Runs : Start(r) \/ RunStep(r)
    \/ Crash

BuildSpec == BuildInit /\ [][BuildNext]_buildVars

(* Goroutines go on and builders end.                                        *)
FairBuildSpec == BuildSpec /\ WF_buildVars(\E r \in Runs : RunStep(r))

-----------------------------------------------------------------------------
(* Properties *)

(* A run is completed exactly when its variant is in the catalog, and points *)
(* to it: PublishBuildOutput makes a variant visible only together with its  *)
(* run, and the saves around it neither undo nor anticipate this.            *)
CompletedIsPublished ==
    \A r \in Runs :
        /\ row[r].status = "completed" <=> variant[r] # Nothing
        /\ row[r].output # Nothing <=> variant[r] # Nothing
        /\ row[r].output \in {r, Nothing}

(* The file a location names has the digest it was published with, whatever  *)
(* later runs of the same build write.                                       *)
PublishedIsStored ==
    \A r \in Runs :
        variant[r] # Nothing =>
            variant[r].whole /\ file[OutputFile(r, Spec(r).format)] = variant[r]

(* No other run of the context was started.                                  *)
Alone(r) ==
    \A s \in Runs \ {r} : At(s, "none") \/ FromImage(s) \/ Context(s) # Context(r)

(* What is published was built from every file of the immutable context, if  *)
(* no other run was started that shares its workspace, whichever call breaks *)
(* or whenever the server dies.                                              *)
BuiltFromWholeContext ==
    \A r \in Runs :
        variant[r] # Nothing /\ ~FromImage(r) /\ Alone(r) =>
            variant[r].input = 1..Entries /\ Context(r) \in archive

(* A client that was told its context is stored can build from it.           *)
StoredIsUsable ==
    \A u \in Uploads : UploadAt(u, "stored") => UploadOf[u] \in archive \cap registered

(* An output that activities may resolve stays: neither a later run of the   *)
(* build nor a failure or a restart takes it back.                           *)
OutputsStay ==
    [][\A r \in Runs :
          row[r].status = "completed" => row'[r] = row[r] /\ variant'[r] = variant[r]]_buildVars

Settled(r) ==
    row[r].status \in {"none", "completed", "failed"} \/ pc[r] \in {"unrecorded", "gone"}

(* The rows of the runs that were started are settled in the end, except     *)
(* where the server died or the one save of the failure broke.               *)
RunsSettle == []<>(\A r \in Runs : Settled(r))
=============================================================================
