--------------------------- MODULE RuntimeProofs ----------------------------
(***************************************************************************)
(* Proofs about what a run finds at its runtimes, for any number of calls, *)
(* builds, files and faults: the registry that resolves a runtime          *)
(* (RuntimeRegistry), the images that are built for it (Build) and the     *)
(* observer of what activities leave in their workspaces (Observer).       *)
(***************************************************************************)
EXTENDS RuntimeRegistry, Build, Observer, FiniteSetTheorems, TLAPS

-----------------------------------------------------------------------------
(* The registry of runtimes *)

Adapters == [maker : Resolvers \cup {"none", "registry"}, endpoint : Addresses \cup {"none"}]
Calls == [pc : {"idle", "list", "load", "built", "resolved", "failed"}, mode : {"real", "simulation"},
          seen : Addresses \cup {"none"}, answer : Adapters]

RegistryTypeOK == resolver \in [Resolvers -> Calls] /\ configured \in Adapters

\* An adapter that was built and is not yet in the cache is its builder's, and
\* the cache holds nothing but what a call has built.
BuiltInv ==
  /\ \A r \in Resolvers : resolver[r].pc = "built" => resolver[r].answer.maker = r
  /\ configured # NoAdapter => configured.maker \in Resolvers

RegistryIInv == RegistryTypeOK /\ BuiltInv /\ OneAdapter

(* A call of Resolve changes only its own record; the cache changes only     *)
(* while it is empty.                                                        *)
LEMMA RegistryStep == RegistryIInv /\ [RegistryNext]_registryVars => RegistryIInv'
<1> SUFFICES ASSUME RegistryIInv, [RegistryNext]_registryVars PROVE RegistryIInv'
  BY Zenon
<1>n. /\ NoAdapter \in Adapters /\ [maker |-> "registry", endpoint |-> "none"] \in Adapters
      /\ NoAdapter.maker \notin Resolvers
      /\ [maker |-> "registry", endpoint |-> "none"].maker \notin Resolvers
  BY RegistryAssumption DEF NoAdapter, Adapters
\* What is to be shown of one call
<1> DEFINE Fits(c, r) == /\ c \in Calls
                         /\ c.pc = "built" => c.answer.maker = r
                         /\ c.pc = "resolved" /\ c.answer.maker \in Resolvers => c.answer = configured
<1>f. \A r \in Resolvers : Fits(resolver[r], r)
  BY DEF RegistryIInv, RegistryTypeOK, BuiltInv, OneAdapter
<1>1. ASSUME NEW r \in Resolvers, NEW c, Fits(c, r), resolver' = [resolver EXCEPT ![r] = c],
             configured' = configured
      PROVE  RegistryIInv'
  <2>1. ASSUME NEW q \in Resolvers PROVE Fits(resolver'[q], q)
    BY Zenon, <1>1, <1>f, <2>1 DEF RegistryIInv, RegistryTypeOK
  <2>2. resolver' \in [Resolvers -> Calls]
    BY Zenon, <1>1 DEF RegistryIInv, RegistryTypeOK
  <2> HIDE DEF Fits
  <2> QED BY Zenon, <1>1, <2>1, <2>2 DEF RegistryIInv, RegistryTypeOK, BuiltInv, OneAdapter, Fits
<1>2. ASSUME NEW r \in Resolvers, NEW mode \in {"real", "simulation"}, Resolve(r, mode)
      PROVE  RegistryIInv'
  <2> DEFINE c == IF RegistryHas(mode, "runtime")
                  THEN [NoCall EXCEPT !.pc = "resolved", !.mode = mode,
                                      !.answer = [maker |-> "registry", endpoint |-> "none"]]
                  ELSE [NoCall EXCEPT !.pc = "list", !.mode = mode]
  <2>1. Fits(c, r)
    BY Zenon, <1>n DEF NoCall, Calls
  <2>2. resolver' = [resolver EXCEPT ![r] = c] /\ configured' = configured
    BY Zenon, <1>2 DEF Resolve
  <2> HIDE DEF Fits, c
  <2> QED BY Zenon, <1>1, <2>1, <2>2
\* An answer that is not a configured adapter, or the one in the cache
<1>3. ASSUME NEW r \in Resolvers, NEW pc1 \in {"failed", "resolved", "built"}, NEW answer \in Adapters,
             Answer(r, pc1, answer), configured' = configured,
             pc1 = "built" => answer.maker = r,
             pc1 = "resolved" /\ answer.maker \in Resolvers => answer = configured
      PROVE  RegistryIInv'
  <2> DEFINE c == [resolver[r] EXCEPT !.pc = pc1, !.answer = answer]
  <2>1. resolver' = [resolver EXCEPT ![r] = c]
    BY Zenon, <1>3 DEF Answer
  <2>2. resolver[r] \in Calls
    BY Zenon DEF RegistryIInv, RegistryTypeOK
  <2>3. c \in Calls /\ c.pc = pc1 /\ c.answer = answer
    BY Zenon, <2>2 DEF Calls
  <2> HIDE DEF c
  <2>4. Fits(c, r)
    BY Zenon, <1>3, <2>3
  <2> QED BY Zenon, <1>1, <1>3, <2>1, <2>4
<1>4. ASSUME NEW r \in Resolvers, ListCatalog(r)
      PROVE  RegistryIInv'
  <2>1. CASE \/ Answer(r, "failed", NoAdapter)
             \/ Answer(r, "resolved", [maker |-> "registry", endpoint |-> "none"])
    BY Zenon, <1>3, <1>4, <1>n, <2>1 DEF ListCatalog
  <2>2. CASE /\ catalog.connection \in Addresses
             /\ resolver' = [resolver EXCEPT ![r].pc = "load", ![r].seen = catalog.connection]
    <3> DEFINE c == [resolver[r] EXCEPT !.pc = "load", !.seen = catalog.connection]
    <3>1. resolver' = [resolver EXCEPT ![r] = c] /\ configured' = configured
      BY Zenon, <1>4, <2>2 DEF ListCatalog
    <3>2. resolver[r] \in Calls
      BY Zenon DEF RegistryIInv, RegistryTypeOK
    <3>3. Fits(c, r)
      BY Zenon, <2>2, <3>2 DEF Calls
    <3> HIDE DEF c, Fits
    <3> QED BY Zenon, <1>1, <3>1, <3>3
  <2> QED BY Zenon, <1>4, <2>1, <2>2 DEF ListCatalog
<1>5. ASSUME NEW r \in Resolvers, BuildAdapter(r)
      PROVE  RegistryIInv'
  <2>1. CASE Answer(r, "resolved", configured) \/ Answer(r, "failed", NoAdapter)
    BY Zenon, <1>3, <1>5, <1>n, <2>1 DEF BuildAdapter, RegistryIInv, RegistryTypeOK
  <2>2. CASE Answer(r, "built", [maker |-> r, endpoint |-> resolver[r].seen])
    <3>1. resolver[r].seen \in Addresses \cup {"none"}
      BY DEF RegistryIInv, RegistryTypeOK, Calls
    <3>2. /\ [maker |-> r, endpoint |-> resolver[r].seen] \in Adapters
          /\ [maker |-> r, endpoint |-> resolver[r].seen].maker = r
      BY <3>1 DEF Adapters
    <3> QED BY Zenon, <1>3, <1>5, <2>2, <3>2 DEF BuildAdapter
  <2> QED BY Zenon, <1>5, <2>1, <2>2 DEF BuildAdapter
<1>6. ASSUME NEW r \in Resolvers, KeepAdapter(r)
      PROVE  RegistryIInv'
  <2>1. resolver[r] \in Calls /\ resolver[r].pc = "built" /\ resolver[r].answer.maker = r
    BY Zenon, <1>6 DEF KeepAdapter, RegistryIInv, RegistryTypeOK, BuiltInv
  <2>2. resolver[r].answer \in Adapters
    BY <2>1 DEF Calls
  <2>3. CASE configured # NoAdapter
    BY Zenon, <1>3, <1>6, <2>3 DEF KeepAdapter, RegistryIInv, RegistryTypeOK
  <2>4. CASE configured = NoAdapter
    <3>1. configured' = resolver[r].answer /\ configured' \in Adapters /\ configured'.maker \in Resolvers
      BY Zenon, <1>6, <2>1, <2>2, <2>4 DEF KeepAdapter
    <3> DEFINE c == [resolver[r] EXCEPT !.pc = "resolved", !.answer = configured']
    <3>2. resolver' = [resolver EXCEPT ![r] = c]
      BY Zenon, <1>6 DEF KeepAdapter, Answer
    <3>3. c \in Calls /\ c.pc = "resolved" /\ c.answer = configured'
      BY Zenon, <2>1, <3>1 DEF Calls
    <3> HIDE DEF c
    <3>4. resolver' \in [Resolvers -> Calls]
      BY Zenon, <3>2, <3>3 DEF RegistryIInv, RegistryTypeOK
    <3>5. ASSUME NEW q \in Resolvers
          PROVE  /\ resolver'[q].pc = "built" => resolver'[q].answer.maker = q
                 /\ resolver'[q].pc = "resolved" /\ resolver'[q].answer.maker \in Resolvers
                       => resolver'[q].answer = configured'
      <4>1. CASE q = r
        <5>1. resolver'[q] = c
          BY Zenon, <3>2, <4>1 DEF RegistryIInv, RegistryTypeOK
        <5> QED BY Zenon, <3>3, <5>1
      <4>2. CASE q # r
        <5>1. resolver'[q] = resolver[q]
          BY Zenon, <3>2, <4>2 DEF RegistryIInv, RegistryTypeOK
        <5> QED BY Zenon, <1>f, <1>n, <2>4, <5>1
      <4> QED BY Zenon, <4>1, <4>2
    <3> QED BY Zenon, <3>1, <3>4, <3>5 DEF RegistryIInv, RegistryTypeOK, BuiltInv, OneAdapter
  <2> QED BY Zenon, <2>3, <2>4
<1>7. CASE (\E to \in Catalogs : EditCatalog(to)) \/ UNCHANGED registryVars
  <2>1. UNCHANGED <<configured, resolver>>
    BY Zenon, <1>7 DEF EditCatalog, registryVars
  <2> QED BY Zenon, <2>1 DEF RegistryIInv, RegistryTypeOK, BuiltInv, OneAdapter
<1> QED BY Zenon, <1>2, <1>4, <1>5, <1>6, <1>7 DEF RegistryNext

(* However many executions resolve a runtime at the same time, whatever      *)
(* clients edit meanwhile, all that are given a configured adapter are given *)
(* the one in the cache (CatalogResolver.Resolve).                           *)
THEOREM OneAdapterForAll == RegistrySpec => []OneAdapter
<1>1. RegistryInit => RegistryIInv
  <2> SUFFICES ASSUME RegistryInit PROVE RegistryIInv
    BY Zenon
  <2>1. NoCall \in Calls /\ NoCall.pc = "idle" /\ NoAdapter \in Adapters
    BY DEF NoCall, NoAdapter, Calls, Adapters
  <2> QED BY Zenon, <2>1 DEF RegistryInit, RegistryIInv, RegistryTypeOK, BuiltInv, OneAdapter
<1>2. RegistryIInv => OneAdapter
  BY Zenon DEF RegistryIInv
<1> QED BY <1>1, <1>2, RegistryStep, PTL DEF RegistrySpec

-----------------------------------------------------------------------------
(* Image builds.  The invariant says what each program counter knows: of the *)
(* workspace while the context is extracted (ContextInv), of the output      *)
(* while it is made and read (FileInv), and of the row and the variant       *)
(* (RowInv).                                                                 *)


Final(r) == OutputFile(r, Spec(r).format)

Made(r, output) == output # Nothing /\ output.whole /\ output.input = input[r]

(* The file a run has open in the workspace, and how far it got.             *)
StepInv(r) ==
    /\ pc[r] \in {"none", "resolve", "mkdir"} => entry[r] = 1
    /\ pc[r] \in {"open", "copy"} => entry[r] <= Entries /\ ~FromImage(r)
    /\ pc[r] \in {"resolve", "mkdir"} => ~FromImage(r)
    /\ At(r, "copy") /\ linked[r] => workspace[Context(r)] # Nothing
    /\ At(r, "build") /\ FromImage(r) => Spec(r).format = "sif"
    /\ At(r, "convert") => Spec(r).format = "sif"

RowInv(r) ==
    /\ row[r].status = "completed" <=> variant[r] # Nothing
    /\ row[r].output = IF variant[r] # Nothing THEN r ELSE Nothing
    /\ At(r, "complete") => variant[r] # Nothing
    /\ variant[r] # Nothing => pc[r] \in {"complete", "returned", "gone"}

FileInv(r) ==
    /\ At(r, "convert") => Made(r, file[OutputFile(r, "oci")])
    /\ At(r, "read") => Made(r, file[Final(r)])
    /\ pc[r] \in {"publishing", "publish"} => digest[r] = file[Final(r)] /\ Made(r, digest[r])
    /\ variant[r] # Nothing => variant[r] = file[Final(r)] /\ Made(r, variant[r])

Extracting == {"open", "copy"}
Extracted == {"build", "convert", "read", "publishing", "publish"}

ContextInv(r) ==
    ~FromImage(r) /\ Alone(r) =>
        /\ pc[r] \in {"none", "resolve", "mkdir"} => workspace[Context(r)] = Nothing
        /\ pc[r] \in Extracting =>
              /\ workspace[Context(r)] # Nothing
              /\ \A i \in 1..(entry[r] - 1) : workspace[Context(r)][i] = "whole"
        /\ At(r, "copy") => linked[r]
        /\ At(r, "run") =>
              /\ workspace[Context(r)] # Nothing
              /\ \A i \in 1..Entries : workspace[Context(r)][i] = "whole"
        /\ pc[r] \in Extracted \/ variant[r] # Nothing => input[r] = 1..Entries
        /\ pc[r] \in {"mkdir", "run"} \cup Extracting \cup Extracted \/ variant[r] # Nothing =>
              Context(r) \in archive

UploadInv ==
    /\ \A u \in Uploads : upload[u] # "idle" => UploadOf[u] \in archive
    /\ \A u \in Uploads : UploadAt(u, "stored") => UploadOf[u] \in registered

BuildIInv ==
    /\ BuildTypeOK
    /\ UploadInv
    /\ \A r \in Runs : StepInv(r) /\ RowInv(r) /\ FileInv(r) /\ ContextInv(r)

-----------------------------------------------------------------------------
(* Facts about the constants and the names of files *)

(* Every run has a specification, and its two output files are its own.      *)
LEMMA SpecFacts ==
    ASSUME NEW r \in Runs
    PROVE /\ BuildOf[r] \in Builds
          /\ Spec(r).sourceType \in {"context", "docker-image"}
          /\ Context(r) \in Contexts
          /\ Spec(r).format \in {"oci", "sif"}
          /\ FirstFormat(r) \in {"oci", "sif"}
          /\ OutputFile(r, "oci") \in FileNames
          /\ OutputFile(r, "sif") \in FileNames
          /\ Final(r) \in FileNames
          /\ OutputFile(r, FirstFormat(r)) \in FileNames
<1>1. BuildOf[r] \in Builds /\ Spec(r) \in Specifications
  BY Zenon, BuildAssumption DEF Spec
<1>2. /\ Spec(r).sourceType \in {"context", "docker-image"}
      /\ Context(r) \in Contexts
      /\ Spec(r).format \in {"oci", "sif"}
  BY Zenon, <1>1 DEF Specifications, Context
<1>3. FirstFormat(r) \in {"oci", "sif"}
  BY Zenon DEF FirstFormat
<1>4. \A format \in {"oci", "sif"} : OutputFile(r, format) \in FileNames
  BY DEF FileNames
<1> QED BY Zenon, <1>1, <1>2, <1>3, <1>4 DEF Final

(* Outputs of different runs are different files.                            *)
LEMMA OwnFiles ==
    ASSUME NEW r \in Runs, NEW s \in Runs, r # s, NEW f, NEW g
    PROVE OutputFile(r, f) # OutputFile(s, g)
BY Zenon DEF OutputFile

(* A step of one run leaves the row, the variant, the outputs and the local  *)
(* variables of the others alone, except for the file they have open.        *)
LEMMA Others ==
    ASSUME BuildTypeOK, NEW r \in Runs, Start(r) \/ RunStep(r), NEW s \in Runs, s # r
    PROVE /\ pc'[s] = pc[s] /\ row'[s] = row[s] /\ variant'[s] = variant[s]
          /\ input'[s] = input[s] /\ digest'[s] = digest[s] /\ entry'[s] = entry[s]
          /\ \A f \in {"oci", "sif"} : file'[OutputFile(s, f)] = file[OutputFile(s, f)]
          /\ linked'[s] => linked[s]
<1> USE DEF BuildTypeOK
<1>1. \A f, g : OutputFile(s, f) # OutputFile(r, g)
  BY Zenon, OwnFiles
<1>2. \A f \in {"oci", "sif"} : OutputFile(s, f) \in FileNames
  BY DEF FileNames
<1>3. CASE Start(r)
  BY Zenon, <1>3 DEF Start, Goto, SaveBuildRun, store, locals
<1>4. CASE ResolveBuildContext(r) \/ MakeDirectory(r) \/ OpenEntry(r) \/ CopyEntry(r)
  BY Zenon, <1>4 DEF ResolveBuildContext, MakeDirectory, OpenEntry, CopyEntry, Goto, store, tables, locals
<1>5. CASE RunBuilder(r) \/ EndBuilder(r) \/ Convert(r)
  BY <1>1, <1>2, <1>5 DEF RunBuilder, EndBuilder, Convert, Goto, SaveBuildRun, tables, locals
<1>6. CASE ReadOutput(r) \/ SavePublishing(r) \/ PublishBuildOutput(r) \/ SaveCompleted(r) \/ Fail(r)
  BY Zenon, <1>6 DEF ReadOutput, SavePublishing, PublishBuildOutput, SaveCompleted, Fail, Goto, SaveBuildRun,
              store, tables, locals
<1> QED BY Zenon, <1>3, <1>4, <1>5, <1>6 DEF RunStep

-----------------------------------------------------------------------------
(* The parts of the invariant, one lemma each *)

(* Requests of clients and a crash: none of them touches a workspace, an     *)
(* output, a row or a variant, and a crash only ends runs.                   *)
LEMMA Requests ==
    ASSUME BuildTypeOK,
           \/ \E u \in Uploads : UploadStep(u)
           \/ \E c \in Contexts : SaveBuildContext(c)
           \/ \E b \in Builds : CreateArtifactBuild(b)
           \/ Crash
    PROVE /\ workspace' = workspace /\ file' = file /\ row' = row /\ variant' = variant
          /\ UNCHANGED locals /\ archive \subseteq archive'
          /\ \A r \in Runs : pc'[r] = pc[r] \/ (pc'[r] = "gone" /\ pc[r] # "none")
<1> USE DEF BuildTypeOK
<1>1. ASSUME NEW u \in Uploads, UploadStep(u)
      PROVE /\ workspace' = workspace /\ file' = file /\ row' = row /\ variant' = variant
            /\ UNCHANGED locals /\ archive \subseteq archive' /\ pc' = pc
  BY Zenon, <1>1 DEF UploadStep, Upload, FindUploadedContext, SaveUploadedContext, store, tables
<1>2. ASSUME NEW c \in Contexts, SaveBuildContext(c)
      PROVE UNCHANGED <<store, row, variant, pc, locals>>
  BY Zenon, <1>2 DEF SaveBuildContext
<1>3. ASSUME NEW b \in Builds, CreateArtifactBuild(b)
      PROVE UNCHANGED <<store, row, variant, pc, locals>>
  BY Zenon, <1>3 DEF CreateArtifactBuild
<1>4. ASSUME Crash
      PROVE /\ UNCHANGED <<store, row, variant, locals>>
            /\ \A r \in Runs : pc'[r] = pc[r] \/ (pc'[r] = "gone" /\ pc[r] # "none")
  BY Zenon, <1>4 DEF Crash, tables
<1> QED BY Zenon, <1>1, <1>2, <1>3, <1>4 DEF store

(* The kinds of steps: requests, or one run.                                 *)
LEMMA StepKinds ==
    ASSUME BuildNext
    PROVE \/ \E u \in Uploads : UploadStep(u)
          \/ \E c \in Contexts : SaveBuildContext(c)
          \/ \E b \in Builds : CreateArtifactBuild(b)
          \/ Crash
          \/ \E r \in Runs : Start(r) \/ RunStep(r)
BY Zenon DEF BuildNext

(* A row is completed by the transaction that inserts the variant and by no  *)
(* other save, and no save of the same run follows but the last one.         *)
LEMMA RowStep ==
    ASSUME BuildIInv, BuildNext, NEW s \in Runs PROVE RowInv(s)'
<1> USE DEF RowInv, At
<1>1. BuildTypeOK /\ RowInv(s) /\ FileInv(s)
  BY Zenon DEF BuildIInv
<1>2. CASE \/ \E u \in Uploads : UploadStep(u)
           \/ \E c \in Contexts : SaveBuildContext(c)
           \/ \E b \in Builds : CreateArtifactBuild(b)
           \/ Crash
  BY Zenon, <1>1, <1>2, Requests
<1>3. ASSUME NEW r \in Runs, Start(r) \/ RunStep(r), r # s PROVE RowInv(s)'
  BY Zenon, <1>1, <1>3, Others
<1>4. ASSUME Start(s) PROVE RowInv(s)'
  BY Zenon, <1>1, <1>4 DEF Start, SaveBuildRun, Goto, Statuses, BuildTypeOK
<1>5. ASSUME RunStep(s), ~PublishBuildOutput(s) PROVE RowInv(s)'
  <2>1. CASE ResolveBuildContext(s) \/ MakeDirectory(s) \/ OpenEntry(s) \/ CopyEntry(s)
    BY Zenon, <1>1, <2>1
    DEF ResolveBuildContext, MakeDirectory, OpenEntry, CopyEntry, Goto, tables, BuildTypeOK
  <2>2. CASE RunBuilder(s) \/ EndBuilder(s) \/ Convert(s) \/ ReadOutput(s)
    BY Zenon, <1>1, <2>2
    DEF RunBuilder, EndBuilder, Convert, ReadOutput, SaveBuildRun, Statuses, Goto, tables, BuildTypeOK
  <2>3. CASE SavePublishing(s) \/ SaveCompleted(s) \/ Fail(s)
    BY <1>1, <2>3
    DEF SavePublishing, SaveCompleted, Fail, SaveBuildRun, Statuses, Goto, BuildTypeOK
  <2> QED BY Zenon, <1>5, <2>1, <2>2, <2>3 DEF RunStep
<1>6. ASSUME PublishBuildOutput(s) PROVE RowInv(s)'
  <2>1. digest[s] # Nothing
    BY Zenon, <1>1, <1>6 DEF PublishBuildOutput, FileInv, Made
  <2> QED BY <1>1, <1>6, <2>1 DEF PublishBuildOutput, SaveBuildRun, Statuses, Goto, BuildTypeOK
<1> QED BY Zenon, <1>2, <1>3, <1>4, <1>5, <1>6, StepKinds

(* What a builder wrote stays in the file until it is published and after.   *)
LEMMA FileStep ==
    ASSUME BuildIInv, BuildNext, NEW s \in Runs PROVE FileInv(s)'
<1> USE DEF FileInv, At, Made
<1>1. BuildTypeOK /\ FileInv(s) /\ RowInv(s) /\ StepInv(s)
  BY Zenon DEF BuildIInv
<1>2. /\ Final(s) \in FileNames /\ OutputFile(s, "oci") \in FileNames
      /\ OutputFile(s, "sif") \in FileNames /\ OutputFile(s, FirstFormat(s)) \in FileNames
      /\ Spec(s).format \in {"oci", "sif"} /\ OutputFile(s, "oci") # OutputFile(s, "sif")
  BY Zenon, SpecFacts DEF OutputFile
<1>3. CASE \/ \E u \in Uploads : UploadStep(u)
           \/ \E c \in Contexts : SaveBuildContext(c)
           \/ \E b \in Builds : CreateArtifactBuild(b)
           \/ Crash
  BY Zenon, <1>1, <1>3, Requests DEF locals
<1>4. ASSUME NEW r \in Runs, Start(r) \/ RunStep(r), r # s PROVE FileInv(s)'
  BY <1>1, <1>2, <1>4, Others DEF Final
<1>5. ASSUME Start(s) \/ ResolveBuildContext(s) \/ MakeDirectory(s) \/ OpenEntry(s) \/ CopyEntry(s)
      PROVE FileInv(s)'
  <2>1. variant[s] = Nothing
    BY Zenon, <1>1, <1>5
    DEF Start, ResolveBuildContext, MakeDirectory, OpenEntry, CopyEntry, RowInv
  <2>2. variant' = variant
    BY Zenon, <1>5 DEF Start, ResolveBuildContext, MakeDirectory, OpenEntry, CopyEntry, tables
  <2>3. pc'[s] \in {"resolve", "run", "failing", "mkdir", "open", "copy"}
    BY Zenon, <1>1, <1>5 DEF Start, ResolveBuildContext, MakeDirectory, OpenEntry, CopyEntry, Goto, BuildTypeOK
  <2> QED BY Zenon, <2>1, <2>2, <2>3
<1>6. ASSUME RunBuilder(s) PROVE FileInv(s)'
  BY Zenon, <1>1, <1>6 DEF RunBuilder, Goto, RowInv, BuildTypeOK
<1>7. ASSUME EndBuilder(s) PROVE FileInv(s)'
  <2>1. variant[s] = Nothing /\ variant' = variant /\ input' = input
    BY Zenon, <1>1, <1>7 DEF EndBuilder, RowInv, tables, locals
  <2>2. CASE pc'[s] = "failing"
    BY Zenon, <2>1, <2>2
  <2>3. CASE pc'[s] # "failing"
    <3>1. /\ file'[OutputFile(s, FirstFormat(s))] =
                [build |-> BuildOf[s], input |-> input[s],
                 stamp |-> IF BuildOf[s] \in Reproducible THEN Nothing ELSE s, whole |-> TRUE]
          /\ pc'[s] = IF Spec(s).format = FirstFormat(s) THEN "read" ELSE "convert"
      BY Zenon, <1>1, <1>2, <1>7, <2>3 DEF EndBuilder, Goto, BuildTypeOK
    <3>2. Made(s, file[OutputFile(s, FirstFormat(s))])'
      <4>1. file'[OutputFile(s, FirstFormat(s))] \in Outputs
        BY <1>1, <3>1, SpecFacts DEF BuildTypeOK, Outputs
      <4>2. file'[OutputFile(s, FirstFormat(s))] # Nothing
        BY Zenon, <4>1, BuildAssumption
      <4> QED BY SMTT(20), <2>1, <3>1, <4>2
    <3>3. Spec(s).format # FirstFormat(s) => FirstFormat(s) = "oci"
      BY Zenon, <1>1, <1>7 DEF EndBuilder, FirstFormat, StepInv
    <3> QED BY Zenon, <2>1, <3>1, <3>2, <3>3 DEF Final
  <2> QED BY Zenon, <2>2, <2>3
<1>8. ASSUME Convert(s) PROVE FileInv(s)'
  <2>1. variant[s] = Nothing /\ variant' = variant /\ input' = input
    BY Zenon, <1>1, <1>8 DEF Convert, RowInv, tables, locals
  <2>2. CASE pc'[s] = "failing"
    BY Zenon, <2>1, <2>2
  <2>3. CASE pc'[s] # "failing"
    <3>1. file'[OutputFile(s, "sif")] = file[OutputFile(s, "oci")] /\ pc'[s] = "read"
      BY Zenon, <1>1, <1>2, <1>8, <2>3 DEF Convert, Goto, BuildTypeOK
    <3>2. Final(s) = OutputFile(s, "sif")
      BY Zenon, <1>1, <1>8 DEF Convert, StepInv, Final
    <3> QED BY Zenon, <1>1, <1>8, <2>1, <3>1, <3>2 DEF Convert
  <2> QED BY Zenon, <2>2, <2>3
<1>9. ASSUME ReadOutput(s) PROVE FileInv(s)'
  BY Zenon, <1>1, <1>9 DEF ReadOutput, Goto, RowInv, BuildTypeOK, Final, store, tables
<1>10. ASSUME PublishBuildOutput(s) PROVE FileInv(s)'
  BY Zenon, <1>1, <1>10 DEF PublishBuildOutput, Goto, RowInv, BuildTypeOK, store, locals
<1>11. ASSUME SavePublishing(s) \/ SaveCompleted(s) \/ Fail(s) PROVE FileInv(s)'
  BY Zenon, <1>1, <1>11 DEF SavePublishing, SaveCompleted, Fail, Goto, BuildTypeOK, store, locals
<1> QED BY Zenon, <1>3, <1>4, <1>5, <1>6, <1>7, <1>8, <1>9, <1>10, <1>11, StepKinds DEF RunStep

(* Every step keeps the types: statuses the table knows, whole records in    *)
(* the files, directories of the context's entries.                          *)
LEMMA TypeStep ==
    ASSUME BuildIInv, BuildNext PROVE BuildTypeOK'
<1>0. BuildTypeOK /\ \A r \in Runs : StepInv(r)
  BY Zenon DEF BuildIInv
<1> USE <1>0, BuildAssumption DEF BuildTypeOK, PCs, At
<1>1. ASSUME NEW u \in Uploads, UploadStep(u) PROVE BuildTypeOK'
  BY <1>1 DEF UploadStep, Upload, FindUploadedContext, SaveUploadedContext, UploadGoto, Works, Breaks,
              store, tables, locals
<1>2. ASSUME NEW c \in Contexts, SaveBuildContext(c) PROVE BuildTypeOK'
  BY Zenon, <1>2 DEF SaveBuildContext, store, locals
<1>3. ASSUME NEW b \in Builds, CreateArtifactBuild(b) PROVE BuildTypeOK'
  BY Zenon, <1>3 DEF CreateArtifactBuild, store, locals
<1>4. CASE Crash
  BY <1>4 DEF Crash, Breaks, store, tables, locals
<1>5. ASSUME NEW r \in Runs, Start(r) \/ RunStep(r) PROVE BuildTypeOK'
  <2>1. Context(r) \in Contexts /\ BuildOf[r] \in Builds
    BY Zenon, SpecFacts
  <2>2. \A status, output :
            SaveBuildRun(r, status, output) /\ output \in {r, Nothing} => row' \in [Runs -> Rows]
    BY DEF SaveBuildRun, Rows
  <2>3. Empty \in Directories
    BY Zenon DEF Empty, Directories
  <2>4. CASE Start(r)
    BY Zenon, <2>2, <2>4 DEF Start, Goto, store, locals
  <2>5. CASE ResolveBuildContext(r)
    BY Zenon, <2>5 DEF ResolveBuildContext, Goto, store, tables, locals
  <2>6. CASE MakeDirectory(r)
    BY <2>1, <2>3, <2>6 DEF MakeDirectory, Works, Breaks, Goto, tables, locals
  <2>7. CASE OpenEntry(r)
    <3>1. workspace' \in [Contexts -> Directories \cup {Nothing}]
      <4> DEFINE d == IF workspace[Context(r)] = Nothing THEN Empty ELSE workspace[Context(r)]
      <4>1. d \in Directories
        BY Zenon, <2>1, <2>3
      <4>2. [d EXCEPT ![entry[r]] = "partial"] \in Directories
        BY Zenon, <4>1 DEF Directories
      <4>3. \/ workspace' = [workspace EXCEPT ![Context(r)] = [d EXCEPT ![entry[r]] = "partial"]]
            \/ workspace' = [workspace EXCEPT ![Context(r)] = Nothing]
            \/ workspace' = workspace
        BY Zenon, <2>7 DEF OpenEntry
      <4> HIDE DEF d
      <4> QED BY Zenon, <2>1, <4>2, <4>3
    <3>2. linked' \in [Runs -> BOOLEAN]
      BY ZenonT(30), <2>7 DEF OpenEntry
    <3>3. pc' \in [Runs -> PCs] /\ faults' \in 0..MaxFaults
      BY <2>7 DEF OpenEntry, Works, Breaks, Goto
    <3> QED BY Zenon, <2>7, <3>1, <3>2, <3>3 DEF OpenEntry, tables
  <2>8. CASE CopyEntry(r)
    <3>1. entry[r] \in 1..Entries /\ (linked[r] => workspace[Context(r)] \in Directories)
      BY <2>1, <2>8 DEF CopyEntry, StepInv
    <3>2. workspace' \in [Contexts -> Directories \cup {Nothing}]
      <4>1. linked[r] => [workspace[Context(r)] EXCEPT ![entry[r]] = "whole"] \in Directories
        BY Zenon, <3>1 DEF Directories
      <4>2. \/ /\ linked[r]
               /\ workspace' = [workspace EXCEPT ![Context(r)] =
                                    [workspace[Context(r)] EXCEPT ![entry[r]] = "whole"]]
            \/ workspace' = workspace
        BY Zenon, <2>8 DEF CopyEntry
      <4> QED BY Zenon, <2>1, <4>1, <4>2
    <3>3. entry' \in [Runs -> 1..Entries + 1]
      BY <2>8, <3>1 DEF CopyEntry
    <3>4. pc' \in [Runs -> PCs] /\ faults' \in 0..MaxFaults
      BY <2>8 DEF CopyEntry, Works, Breaks, Goto
    <3> QED BY Zenon, <2>8, <3>2, <3>3, <3>4 DEF CopyEntry, tables
  <2>9. CASE RunBuilder(r)
    <3>1. file' \in [FileNames -> Outputs \cup {Nothing}]
      <4>1. Partial(r) \in Outputs
        BY Zenon, <2>1 DEF Partial, Outputs
      <4> QED BY Zenon, <2>9, <4>1 DEF RunBuilder
    <3>2. input' \in [Runs -> SUBSET (1..Entries)]
      BY <2>9 DEF RunBuilder, WholeFiles
    <3> QED BY Zenon, <2>2, <2>9, <3>1, <3>2 DEF RunBuilder, Goto
  <2>10. CASE EndBuilder(r)
    <3>1. file' \in [FileNames -> Outputs \cup {Nothing}]
      <4> DEFINE output == [build |-> BuildOf[r], input |-> input[r],
                            stamp |-> IF BuildOf[r] \in Reproducible THEN Nothing ELSE r,
                            whole |-> TRUE]
      <4>1. output \in Outputs
        BY Zenon, <2>1 DEF Outputs
      <4>2. \/ file' = [file EXCEPT ![OutputFile(r, FirstFormat(r))] = output]
            \/ file' = file
        BY Zenon, <2>10 DEF EndBuilder
      <4> HIDE DEF output
      <4> QED BY Zenon, <4>1, <4>2
    <3> QED BY Zenon, <2>10, <3>1 DEF EndBuilder, Goto, tables, locals
  <2>11. CASE Convert(r)
    <3>1. file' \in [FileNames -> Outputs \cup {Nothing}]
      <4>1. Partial(r) \in Outputs /\ file[OutputFile(r, "oci")] \in Outputs \cup {Nothing}
        BY Zenon, <2>1, SpecFacts DEF Partial, Outputs
      <4> QED BY Zenon, <2>11, <4>1 DEF Convert
    <3> QED BY Zenon, <2>11, <3>1 DEF Convert, Goto, tables, locals
  <2>12. CASE ReadOutput(r)
    <3>1. file[OutputFile(r, Spec(r).format)] \in Outputs \cup {Nothing}
      BY Zenon, SpecFacts DEF Final
    <3>2. digest' \in [Runs -> Outputs \cup {Nothing}] /\ pc' \in [Runs -> PCs]
      BY Zenon, <2>12, <3>1 DEF ReadOutput, Goto
    <3>3. faults' \in 0..MaxFaults
      BY SMTT(20), <2>12 DEF ReadOutput, Works, Breaks
    <3> QED BY Zenon, <2>12, <3>2, <3>3 DEF ReadOutput, store, tables
  <2>13. CASE SavePublishing(r) \/ SaveCompleted(r) \/ Fail(r)
    BY <2>2, <2>13 DEF SavePublishing, SaveCompleted, Fail, Works, Breaks, Goto, store, locals
  <2>14. CASE PublishBuildOutput(r)
    BY <2>2, <2>14 DEF PublishBuildOutput, Works, Breaks, Goto, store, locals
  <2> QED BY Zenon, <1>5, <2>4, <2>5, <2>6, <2>7, <2>8, <2>9, <2>10, <2>11, <2>12, <2>13, <2>14 DEF RunStep
<1> QED BY Zenon, <1>1, <1>2, <1>3, <1>4, <1>5, StepKinds

(* A directory disappears only together with the open files in it: a step of *)
(* another run leaves the directory of an open file in place.                *)
LEMMA StepStep ==
    ASSUME BuildIInv, BuildNext, NEW s \in Runs PROVE StepInv(s)'
<1> USE DEF StepInv, At
<1>1. BuildTypeOK /\ StepInv(s) /\ Context(s) \in Contexts
  BY Zenon, SpecFacts DEF BuildIInv
<1>2. CASE \/ \E u \in Uploads : UploadStep(u)
           \/ \E c \in Contexts : SaveBuildContext(c)
           \/ \E b \in Builds : CreateArtifactBuild(b)
           \/ Crash
  BY Zenon, <1>1, <1>2, Requests DEF locals
<1>3. Empty # Nothing
  BY Zenon, BuildAssumption DEF Empty, Directories
<1>4. ASSUME NEW r \in Runs, Start(r) \/ RunStep(r), linked'[s], workspace[Context(s)] # Nothing
      PROVE workspace'[Context(s)] # Nothing
  <2>1. Context(r) \in Contexts
    BY Zenon, SpecFacts
  <2>2. CASE MakeDirectory(r)
    BY Zenon, <1>1, <1>3, <1>4, <2>1, <2>2 DEF MakeDirectory, BuildTypeOK
  <2>3. CASE OpenEntry(r)
    <3> DEFINE d == IF workspace[Context(r)] = Nothing THEN Empty ELSE workspace[Context(r)]
    <3>1. d \in Directories
      BY Zenon, <1>1, <2>1 DEF BuildTypeOK, Empty, Directories
    <3>2. [d EXCEPT ![entry[r]] = "partial"] \in Directories
      BY Zenon, <3>1 DEF Directories
    <3>3. \/ workspace' = [workspace EXCEPT ![Context(r)] = [d EXCEPT ![entry[r]] = "partial"]]
          \/ /\ workspace' = [workspace EXCEPT ![Context(r)] = Nothing]
             /\ linked' = [t \in Runs |-> linked[t] /\ Context(t) # Context(r)]
          \/ workspace' = workspace
      BY Zenon, <2>3 DEF OpenEntry
    <3> HIDE DEF d
    <3>4. [d EXCEPT ![entry[r]] = "partial"] # Nothing
      BY Zenon, <3>2, BuildAssumption
    <3> QED BY Zenon, <1>1, <1>4, <2>1, <3>3, <3>4 DEF BuildTypeOK
  <2>4. CASE CopyEntry(r)
    <3>0. StepInv(r)
      BY Zenon DEF BuildIInv
    <3>1. linked[r] => workspace[Context(r)] \in Directories
      BY Zenon, <1>1, <2>1, <2>4, <3>0 DEF CopyEntry, BuildTypeOK
    <3>2. linked[r] => [workspace[Context(r)] EXCEPT ![entry[r]] = "whole"] \in Directories
      BY Zenon, <3>1 DEF Directories
    <3>3. \/ /\ linked[r]
             /\ workspace' = [workspace EXCEPT ![Context(r)] =
                                  [workspace[Context(r)] EXCEPT ![entry[r]] = "whole"]]
          \/ workspace' = workspace
      BY Zenon, <2>4 DEF CopyEntry
    <3> QED BY Zenon, <1>1, <1>4, <2>1, <3>2, <3>3, BuildAssumption DEF BuildTypeOK
  <2>5. CASE ~(MakeDirectory(r) \/ OpenEntry(r) \/ CopyEntry(r))
    <3>1. workspace' = workspace
      BY Zenon, <1>4, <2>5
      DEF RunStep, Start, ResolveBuildContext, RunBuilder, EndBuilder, Convert, ReadOutput,
          SavePublishing, PublishBuildOutput, SaveCompleted, Fail, store
    <3> QED BY Zenon, <1>4, <3>1
  <2> QED BY Zenon, <2>2, <2>3, <2>4, <2>5
<1>5. ASSUME NEW r \in Runs, Start(r) \/ RunStep(r), r # s PROVE StepInv(s)'
  BY SMTT(20), <1>1, <1>4, <1>5, Others
<1>6. ASSUME Start(s) \/ ResolveBuildContext(s) \/ MakeDirectory(s) PROVE StepInv(s)'
  BY SMTT(20), <1>1, <1>6, SpecFacts, BuildAssumption
  DEF Start, ResolveBuildContext, MakeDirectory, Goto, FromImage, BuildTypeOK, store, locals
<1>7. ASSUME OpenEntry(s) PROVE StepInv(s)'
  <2>1. entry'[s] = entry[s] /\ pc'[s] \in {"copy", "failing"}
    BY Zenon, <1>1, <1>7 DEF OpenEntry, Goto, BuildTypeOK
  <2>2. pc'[s] = "copy" => workspace'[Context(s)] # Nothing
    <3> DEFINE d == IF workspace[Context(s)] = Nothing THEN Empty ELSE workspace[Context(s)]
    <3>1. d \in Directories
      BY Zenon, <1>1 DEF BuildTypeOK, Empty, Directories
    <3>2. [d EXCEPT ![entry[s]] = "partial"] \in Directories
      BY Zenon, <3>1 DEF Directories
    <3>3. pc'[s] = "copy" =>
              workspace' = [workspace EXCEPT ![Context(s)] = [d EXCEPT ![entry[s]] = "partial"]]
      BY Zenon, <1>1, <1>7 DEF OpenEntry, Goto, BuildTypeOK
    <3> HIDE DEF d
    <3> QED BY Zenon, <1>1, <3>2, <3>3, BuildAssumption DEF BuildTypeOK
  <2> QED BY Zenon, <1>1, <1>7, <2>1, <2>2 DEF OpenEntry
<1>8. ASSUME CopyEntry(s) PROVE StepInv(s)'
  BY <1>1, <1>8, BuildAssumption DEF CopyEntry, Goto, BuildTypeOK
<1>9. ASSUME RunBuilder(s) \/ EndBuilder(s) PROVE StepInv(s)'
  BY Zenon, <1>1, <1>9, SpecFacts DEF RunBuilder, EndBuilder, Goto, FirstFormat, FromImage, BuildTypeOK
<1>10. ASSUME \/ Convert(s) \/ ReadOutput(s) \/ SavePublishing(s) \/ PublishBuildOutput(s)
              \/ SaveCompleted(s) \/ Fail(s)
       PROVE StepInv(s)'
  <2>1. pc'[s] \in {"read", "failing", "publishing", "publish", "complete", "returned", "unrecorded"}
    BY Zenon, <1>1, <1>10
    DEF Convert, ReadOutput, SavePublishing, PublishBuildOutput, SaveCompleted, Fail, Goto, BuildTypeOK
  <2> QED BY Zenon, <2>1
<1> QED BY Zenon, <1>2, <1>5, <1>6, <1>7, <1>8, <1>9, <1>10, StepKinds DEF RunStep

(* A run that is alone with its context stays so only while no other run of  *)
(* that context starts, and nobody else touches its workspace.               *)
LEMMA AloneStep ==
    ASSUME BuildIInv, NEW r \in Runs, Start(r) \/ RunStep(r), NEW s \in Runs, r # s,
           ~FromImage(s), Alone(s)'
    PROVE /\ Alone(s)
          /\ workspace'[Context(s)] = workspace[Context(s)]
          /\ archive' = archive
          /\ linked'[s] = linked[s]
<1> USE DEF At
<1>1. BuildTypeOK /\ StepInv(r) /\ Context(s) \in Contexts /\ Context(r) \in Contexts
  BY Zenon, SpecFacts DEF BuildIInv
<1>2. pc'[r] # "none"
  BY Zenon, <1>1
  DEF RunStep, Start, ResolveBuildContext, MakeDirectory, OpenEntry, CopyEntry, RunBuilder, EndBuilder,
      Convert, ReadOutput, SavePublishing, PublishBuildOutput, SaveCompleted, Fail, Goto, BuildTypeOK
<1>3. FromImage(r) \/ Context(r) # Context(s)
  BY Zenon, <1>2 DEF Alone
<1>4. Alone(s)
  <2> SUFFICES ASSUME NEW t \in Runs \ {s}
               PROVE pc[t] = "none" \/ FromImage(t) \/ Context(t) # Context(s)
    BY Zenon DEF Alone
  <2>1. CASE t = r
    BY Zenon, <1>3, <2>1
  <2>2. CASE t # r
    <3>1. pc'[t] = pc[t]
      BY Zenon, <1>1, <2>2, Others
    <3> QED BY Zenon, <3>1 DEF Alone
  <2> QED BY Zenon, <2>1, <2>2
<1>5. archive' = archive
  BY Zenon DEF RunStep, Start, ResolveBuildContext, MakeDirectory, OpenEntry, CopyEntry, RunBuilder, EndBuilder,
      Convert, ReadOutput, SavePublishing, PublishBuildOutput, SaveCompleted, Fail, store
<1>6. workspace'[Context(s)] = workspace[Context(s)] /\ linked'[s] = linked[s]
  <2>1. CASE MakeDirectory(r) \/ CopyEntry(r)
    <3>1. Context(r) # Context(s)
      BY Zenon, <1>1, <1>3, <2>1 DEF MakeDirectory, CopyEntry, StepInv
    <3> QED BY Zenon, <1>1, <2>1, <3>1 DEF MakeDirectory, CopyEntry, BuildTypeOK, locals
  <2>2. CASE OpenEntry(r)
    <3>1. Context(r) # Context(s)
      BY Zenon, <1>1, <1>3, <2>2 DEF OpenEntry, StepInv
    <3>2. workspace'[Context(s)] = workspace[Context(s)]
      BY Zenon, <1>1, <2>2, <3>1 DEF OpenEntry, BuildTypeOK
    <3>3. linked'[s] = linked[s]
      BY ZenonT(30), <1>1, <2>2, <3>1 DEF OpenEntry, BuildTypeOK
    <3> QED BY Zenon, <3>2, <3>3
  <2>3. CASE ~(MakeDirectory(r) \/ OpenEntry(r) \/ CopyEntry(r))
    BY Zenon, <2>3
    DEF RunStep, Start, ResolveBuildContext, RunBuilder, EndBuilder, Convert, ReadOutput,
        SavePublishing, PublishBuildOutput, SaveCompleted, Fail, store, locals
  <2> QED BY Zenon, <2>1, <2>2, <2>3
<1> QED BY Zenon, <1>4, <1>5, <1>6

(* A run that is alone extracts every file before it builds.                 *)
LEMMA ContextStep ==
    ASSUME BuildIInv, BuildNext, NEW s \in Runs PROVE ContextInv(s)'
<1> SUFFICES ASSUME ~FromImage(s), Alone(s)' PROVE ContextInv(s)'
  BY Zenon DEF ContextInv
<1> USE DEF At, Extracting, Extracted
<1>1. /\ BuildTypeOK /\ StepInv(s) /\ RowInv(s) /\ ContextInv(s) /\ Context(s) \in Contexts
      /\ ~FromImage(s)'
  BY Zenon, SpecFacts DEF BuildIInv, FromImage, Spec
<1>2. CASE \/ \E u \in Uploads : UploadStep(u)
           \/ \E c \in Contexts : SaveBuildContext(c)
           \/ \E b \in Builds : CreateArtifactBuild(b)
           \/ Crash
  <2>1. /\ workspace' = workspace /\ variant' = variant /\ UNCHANGED locals
        /\ archive \subseteq archive'
        /\ \A r \in Runs : pc'[r] = pc[r] \/ (pc'[r] = "gone" /\ pc[r] # "none")
    BY Zenon, <1>1, <1>2, Requests
  <2>2. Alone(s)
    BY ZenonT(30), <2>1 DEF Alone
  <2> QED BY Zenon, <1>1, <2>1, <2>2 DEF ContextInv, locals
<1>3. ASSUME NEW r \in Runs, Start(r) \/ RunStep(r), r # s PROVE ContextInv(s)'
  BY <1>1, <1>3, AloneStep, Others DEF ContextInv
<1>4. ASSUME Start(s) \/ RunStep(s) PROVE Alone(s)
  <2> SUFFICES ASSUME NEW t \in Runs \ {s}
               PROVE pc[t] = "none" \/ FromImage(t) \/ Context(t) # Context(s)
    BY Zenon DEF Alone
  <2>1. pc'[t] = pc[t]
    BY Zenon, <1>1, <1>4, Others
  <2> QED BY Zenon, <2>1 DEF Alone
<1> DEFINE ws == workspace[Context(s)]
<1>5. ASSUME Start(s) \/ ResolveBuildContext(s) PROVE ContextInv(s)'
  <2>1. Alone(s)
    BY Zenon, <1>4, <1>5 DEF RunStep
  <2>2. variant[s] = Nothing /\ variant' = variant /\ workspace' = workspace /\ archive' = archive
    BY Zenon, <1>1, <1>5 DEF Start, ResolveBuildContext, RowInv, store, tables
  <2>3. ws = Nothing
    BY Zenon, <1>1, <1>5, <2>1 DEF Start, ResolveBuildContext, ContextInv
  <2>4. pc'[s] \in {"resolve", "failing", "mkdir"} /\ (pc'[s] = "mkdir" => Context(s) \in archive)
    BY Zenon, <1>1, <1>5, <2>3, SpecFacts DEF Start, ResolveBuildContext, Goto, BuildTypeOK, FromImage
  <2> QED BY Zenon, <2>2, <2>3, <2>4 DEF ContextInv
<1>6. ASSUME MakeDirectory(s) PROVE ContextInv(s)'
  <2>1. Alone(s)
    BY Zenon, <1>4, <1>6 DEF RunStep
  <2>2. variant[s] = Nothing /\ variant' = variant /\ archive' = archive /\ entry'[s] = 1
    BY Zenon, <1>1, <1>6 DEF MakeDirectory, RowInv, StepInv, tables, locals
  <2>3. Context(s) \in archive
    BY Zenon, <1>1, <1>6, <2>1 DEF MakeDirectory, ContextInv
  <2>4. Empty # Nothing
    BY Zenon, BuildAssumption DEF Empty, Directories
  <2>5. \/ pc'[s] = "open" /\ workspace'[Context(s)] # Nothing
        \/ pc'[s] = "failing"
    BY Zenon, <1>1, <1>6, <2>4 DEF MakeDirectory, Goto, BuildTypeOK
  <2> QED BY <2>2, <2>3, <2>5 DEF ContextInv
<1>7. ASSUME OpenEntry(s) PROVE ContextInv(s)'
  <2>1. Alone(s)
    BY Zenon, <1>4, <1>7 DEF RunStep
  <2>2. variant[s] = Nothing /\ variant' = variant /\ archive' = archive /\ entry' = entry
    BY Zenon, <1>1, <1>7 DEF OpenEntry, RowInv, tables
  <2>3. /\ Context(s) \in archive /\ ws \in Directories
        /\ \A i \in 1..(entry[s] - 1) : ws[i] = "whole"
    BY Zenon, <1>1, <1>7, <2>1 DEF OpenEntry, ContextInv, BuildTypeOK
  <2>4. CASE pc'[s] = "failing"
    BY Zenon, <2>2, <2>4 DEF ContextInv
  <2>5. CASE pc'[s] # "failing"
    <3>1. /\ pc'[s] = "copy" /\ linked'[s]
          /\ workspace'[Context(s)] = [ws EXCEPT ![entry[s]] = "partial"]
      BY ZenonT(30), <1>1, <1>7, <2>3, <2>5, BuildAssumption DEF OpenEntry, Goto, BuildTypeOK
    <3>2. [ws EXCEPT ![entry[s]] = "partial"] \in Directories
      BY Zenon, <2>3 DEF Directories
    <3>3. \A i \in 1..(entry[s] - 1) : [ws EXCEPT ![entry[s]] = "partial"][i] = "whole"
      BY <1>1, <1>7, <2>3 DEF OpenEntry, StepInv, BuildTypeOK, Directories
    <3> QED BY Zenon, <2>2, <2>3, <3>1, <3>2, <3>3, BuildAssumption DEF ContextInv
  <2> QED BY Zenon, <2>4, <2>5
<1>8. ASSUME CopyEntry(s) PROVE ContextInv(s)'
  <2>1. Alone(s)
    BY Zenon, <1>4, <1>8 DEF RunStep
  <2>2. variant[s] = Nothing /\ variant' = variant /\ archive' = archive
    BY Zenon, <1>1, <1>8 DEF CopyEntry, RowInv, tables
  <2>3. /\ Context(s) \in archive /\ ws \in Directories /\ linked[s] /\ entry[s] \in 1..Entries
        /\ \A i \in 1..(entry[s] - 1) : ws[i] = "whole"
    <3>1. pc[s] = "copy"
      BY Zenon, <1>8 DEF CopyEntry
    <3>2. entry[s] \in 1..Entries
      BY <1>1, <3>1, BuildAssumption DEF StepInv, BuildTypeOK
    <3>3. ws \in Directories \cup {Nothing}
      BY Zenon, <1>1 DEF BuildTypeOK
    <3> QED BY Zenon, <1>1, <2>1, <3>1, <3>2, <3>3 DEF ContextInv
  <2>4. CASE pc'[s] = "failing"
    BY Zenon, <2>2, <2>4 DEF ContextInv
  <2>5. CASE pc'[s] # "failing"
    <3>1. /\ workspace'[Context(s)] = [ws EXCEPT ![entry[s]] = "whole"]
          /\ entry'[s] = entry[s] + 1
          /\ pc'[s] = IF entry[s] = Entries THEN "run" ELSE "open"
      BY Zenon, <1>1, <1>8, <2>3, <2>5 DEF CopyEntry, Goto, BuildTypeOK
    <3>2. [ws EXCEPT ![entry[s]] = "whole"] \in Directories
      BY Zenon, <2>3 DEF Directories
    <3>3. \A i \in 1..entry[s] : [ws EXCEPT ![entry[s]] = "whole"][i] = "whole"
      BY <2>3, BuildAssumption DEF Directories
    <3>4. (entry[s] + 1) - 1 = entry[s]
      BY <2>3, BuildAssumption
    <3> HIDE DEF ws
    <3> QED BY Zenon, <2>2, <2>3, <3>1, <3>2, <3>3, <3>4, BuildAssumption DEF ContextInv
  <2> QED BY Zenon, <2>4, <2>5
<1>9. ASSUME RunBuilder(s) PROVE ContextInv(s)'
  <2>1. Alone(s)
    BY Zenon, <1>4, <1>9 DEF RunStep
  <2>2. variant[s] = Nothing /\ variant' = variant /\ archive' = archive /\ pc'[s] \in {"build", "failing"}
    <3>1. variant' = variant /\ archive' = archive /\ pc[s] = "run"
      BY Zenon, <1>9 DEF RunBuilder
    <3>2. variant[s] = Nothing
      BY Zenon, <1>1, <3>1 DEF RowInv
    <3>3. Goto(s, "build") \/ Goto(s, "failing")
      BY Zenon, <1>9 DEF RunBuilder
    <3>4. pc'[s] \in {"build", "failing"}
      BY Zenon, <1>1, <3>3 DEF Goto, BuildTypeOK
    <3> QED BY Zenon, <3>1, <3>2, <3>4
  <2>3. Context(s) \in archive /\ ws # Nothing /\ WholeFiles(ws) = 1..Entries
    BY Zenon, <1>1, <1>9, <2>1 DEF RunBuilder, ContextInv, WholeFiles
  <2>4. pc'[s] = "build" => input'[s] = 1..Entries
    BY Zenon, <1>1, <1>9, <2>3 DEF RunBuilder, BuildTypeOK
  <2> QED BY Zenon, <2>2, <2>3, <2>4 DEF ContextInv
<1>10. ASSUME \/ EndBuilder(s) \/ Convert(s) \/ ReadOutput(s) \/ SavePublishing(s)
              \/ PublishBuildOutput(s) \/ SaveCompleted(s) \/ Fail(s)
       PROVE ContextInv(s)'
  <2>1. Alone(s)
    BY Zenon, <1>4, <1>10 DEF RunStep
  <2>2. input' = input /\ archive' = archive
    BY Zenon, <1>10
    DEF EndBuilder, Convert, ReadOutput, SavePublishing, PublishBuildOutput, SaveCompleted, Fail, store, locals
  <2>3. /\ pc'[s] \in Extracted \/ variant'[s] # Nothing => pc[s] \in Extracted \/ variant[s] # Nothing
        /\ pc'[s] \in Extracted \cup {"failing", "complete", "returned", "unrecorded"}
    BY Zenon, <1>1, <1>10
    DEF EndBuilder, Convert, ReadOutput, SavePublishing, PublishBuildOutput, SaveCompleted, Fail, Goto,
        BuildTypeOK, tables
  <2> QED BY <1>1, <2>1, <2>2, <2>3 DEF ContextInv
<1> QED BY Zenon, <1>2, <1>3, <1>5, <1>6, <1>7, <1>8, <1>9, <1>10, StepKinds DEF RunStep

(* A context is registered by an upload only once its bytes are stored.      *)
LEMMA UploadInvStep ==
    ASSUME BuildIInv, BuildNext PROVE UploadInv'
<1> USE DEF UploadInv, UploadAt
<1>1. BuildTypeOK /\ UploadInv
  BY Zenon DEF BuildIInv
<1>2. ASSUME NEW u \in Uploads, UploadStep(u) PROVE UploadInv'
  BY Zenon, <1>1, <1>2
  DEF UploadStep, Upload, FindUploadedContext, SaveUploadedContext, UploadGoto, BuildTypeOK, store, tables
<1>3. CASE \/ \E c \in Contexts : SaveBuildContext(c)
           \/ \E b \in Builds : CreateArtifactBuild(b)
           \/ Crash
  <2>1. archive' = archive /\ registered \subseteq registered'
    BY Zenon, <1>3 DEF SaveBuildContext, CreateArtifactBuild, Crash, store, tables
  <2>2. \A u \in Uploads : upload'[u] \in {upload[u], "idle"}
    BY Zenon, <1>1, <1>3 DEF SaveBuildContext, CreateArtifactBuild, Crash
  <2> QED BY Zenon, <1>1, <2>1, <2>2
<1>4. ASSUME NEW r \in Runs, Start(r) \/ RunStep(r) PROVE UploadInv'
  <2>1. upload' = upload /\ archive' = archive /\ registered' = registered
    BY Zenon, <1>4
    DEF RunStep, Start, ResolveBuildContext, MakeDirectory, OpenEntry, CopyEntry, RunBuilder, EndBuilder,
        Convert, ReadOutput, SavePublishing, PublishBuildOutput, SaveCompleted, Fail, store, tables
  <2> QED BY Zenon, <1>1, <2>1
<1> QED BY Zenon, <1>2, <1>3, <1>4, StepKinds

-----------------------------------------------------------------------------
(* The invariant and what follows from it *)

(* The empty store and catalog satisfy the invariant.                        *)
LEMMA BuildInitIInv == BuildInit => BuildIInv
<1> SUFFICES ASSUME BuildInit PROVE BuildIInv
  BY Zenon
<1> USE BuildAssumption DEF BuildInit
<1>1. BuildTypeOK
  BY DEF BuildTypeOK, PCs, Rows
<1>2. UploadInv
  BY Zenon DEF UploadInv, UploadAt
<1>3. ASSUME NEW r \in Runs PROVE StepInv(r) /\ RowInv(r) /\ FileInv(r) /\ ContextInv(r)
  BY Zenon, <1>3, SpecFacts DEF StepInv, RowInv, FileInv, ContextInv, Extracting, Extracted, At
<1> QED BY Zenon, <1>1, <1>2, <1>3 DEF BuildIInv

(* Every step of a build, an upload or a crash keeps the invariant.          *)
LEMMA BuildNextIInv == BuildIInv /\ [BuildNext]_buildVars => BuildIInv'
<1>1. ASSUME BuildIInv, BuildNext PROVE BuildIInv'
  BY ZenonT(60), <1>1, TypeStep, UploadInvStep, StepStep, RowStep, FileStep, ContextStep DEF BuildIInv
<1>2. ASSUME BuildIInv, UNCHANGED buildVars PROVE BuildIInv'
  <2> USE <1>2 DEF buildVars, store, tables, locals
  <2>1. BuildTypeOK' /\ UploadInv'
    BY Zenon DEF BuildIInv, BuildTypeOK, UploadInv, UploadAt
  <2>2. ASSUME NEW r \in Runs PROVE StepInv(r)' /\ RowInv(r)' /\ FileInv(r)' /\ ContextInv(r)'
    <3>1. StepInv(r) /\ RowInv(r) /\ FileInv(r) /\ ContextInv(r)
      BY Zenon DEF BuildIInv
    <3>2. StepInv(r)' /\ RowInv(r)'
      BY Zenon, <3>1 DEF StepInv, RowInv, Alone, At, Made
    <3>3. FileInv(r)' /\ ContextInv(r)'
      BY ZenonT(30), <3>1 DEF FileInv, ContextInv, Alone, At, Made
    <3> QED BY Zenon, <3>2, <3>3
  <2> QED BY Zenon, <2>1, <2>2 DEF BuildIInv
<1> QED BY Zenon, <1>1, <1>2

(* The invariant holds in every state of every number of builds, uploads and *)
(* runs.                                                                     *)
THEOREM BuildInvariant == BuildSpec => []BuildIInv
BY BuildInitIInv, BuildNextIInv, PTL DEF BuildSpec

(* A run is completed exactly when PublishBuildOutput put its variant into   *)
(* the catalog, and then points to it.                                       *)
THEOREM CompletedRunsArePublished == BuildSpec => []CompletedIsPublished
<1>1. BuildIInv => CompletedIsPublished
  <2> SUFFICES ASSUME BuildIInv, NEW r \in Runs
               PROVE  /\ row[r].status = "completed" <=> variant[r] # Nothing
                      /\ row[r].output # Nothing <=> variant[r] # Nothing
                      /\ row[r].output \in {r, Nothing}
    BY Zenon DEF CompletedIsPublished
  <2>1. RowInv(r)
    BY Zenon DEF BuildIInv
  <2>2. r # Nothing
    BY Zenon, BuildAssumption
  <2> QED BY Zenon, <2>1, <2>2 DEF RowInv
<1> QED BY <1>1, BuildInvariant, PTL

(* Nothing overwrites the file that a location in the catalog names.         *)
THEOREM PublishedOutputsAreStored == BuildSpec => []PublishedIsStored
<1>1. BuildIInv => PublishedIsStored
  BY Zenon DEF BuildIInv, FileInv, Final, Made, PublishedIsStored
<1> QED BY <1>1, BuildInvariant, PTL

(* A run that shares its workspace with no other publishes what was built    *)
(* from the whole context.                                                   *)
THEOREM AloneBuildsTheWholeContext == BuildSpec => []BuiltFromWholeContext
<1>1. BuildIInv => BuiltFromWholeContext
  <2> SUFFICES ASSUME BuildIInv, NEW r \in Runs, variant[r] # Nothing, ~FromImage(r), Alone(r)
               PROVE variant[r].input = 1..Entries /\ Context(r) \in archive
    BY Zenon DEF BuiltFromWholeContext
  <2>1. variant[r].input = input[r]
    BY Zenon DEF BuildIInv, FileInv, Made
  <2> QED BY Zenon, <2>1 DEF BuildIInv, ContextInv
<1> QED BY <1>1, BuildInvariant, PTL

(* A client that was told its context is stored can build from it.           *)
THEOREM StoredContextsAreUsable == BuildSpec => []StoredIsUsable
<1>1. BuildIInv => StoredIsUsable
  BY Zenon DEF BuildIInv, UploadInv, UploadAt, StoredIsUsable
<1> QED BY <1>1, BuildInvariant, PTL

(* No step takes back an output that was published.                          *)
THEOREM PublishedOutputsStay == BuildSpec => OutputsStay
<1> DEFINE Stays(r) == row[r].status = "completed" => row'[r] = row[r] /\ variant'[r] = variant[r]
<1>1. BuildIInv /\ [BuildNext]_buildVars => [\A r \in Runs : Stays(r)]_buildVars
  <2> SUFFICES ASSUME BuildIInv, BuildNext, NEW r \in Runs, row[r].status = "completed"
               PROVE row'[r] = row[r] /\ variant'[r] = variant[r]
    BY Zenon
  <2>1. /\ BuildTypeOK /\ row[r].output = r
        /\ pc[r] \in {"complete", "returned", "gone"}
    BY Zenon DEF BuildIInv, RowInv
  <2>2. row[r] = [status |-> "completed", output |-> r]
    BY Zenon, <2>1 DEF BuildTypeOK, Rows
  <2>3. CASE \/ \E u \in Uploads : UploadStep(u)
             \/ \E c \in Contexts : SaveBuildContext(c)
             \/ \E b \in Builds : CreateArtifactBuild(b)
             \/ Crash
    BY Zenon, <2>1, <2>3, Requests
  <2>4. ASSUME NEW s \in Runs, Start(s) \/ RunStep(s), s # r
        PROVE row'[r] = row[r] /\ variant'[r] = variant[r]
    BY Zenon, <2>1, <2>4, Others
  <2>5. ASSUME Start(r) \/ RunStep(r) PROVE SaveCompleted(r)
    BY Zenon, <2>1, <2>5
    DEF RunStep, Start, ResolveBuildContext, MakeDirectory, OpenEntry, CopyEntry, RunBuilder, EndBuilder,
        Convert, ReadOutput, SavePublishing, PublishBuildOutput, Fail, At
  <2>6. CASE SaveCompleted(r)
    BY Zenon, <2>1, <2>2, <2>6 DEF SaveCompleted, SaveBuildRun, Statuses, BuildTypeOK
  <2> QED BY Zenon, <2>3, <2>4, <2>5, <2>6, StepKinds
<1> QED BY <1>1, BuildInvariant, PTL DEF BuildSpec, OutputsStay

-----------------------------------------------------------------------------
(* The observer of artifacts *)

Active == {"before", "running", "after"}

ObserverTypeOK ==
    /\ disk \in [{Declared[a] : a \in LocalTasks} -> [Files -> Stored]]
    /\ writes \in [LocalTasks -> Nat]
    /\ DOMAIN seat = LocalTasks /\ DOMAIN walked = LocalTasks
    /\ DOMAIN pre = LocalTasks /\ DOMAIN post = LocalTasks /\ DOMAIN manifest = LocalTasks
    /\ DOMAIN began = LocalTasks /\ DOMAIN ended = LocalTasks

\* s is what a walk over the files W of a workspace with contents x has read.
Snapshot(s, x, W) ==
    /\ DOMAIN s = {f \in Files : f \in W /\ x[f] # Absent}
    /\ \A f \in DOMAIN s : s[f] = x[f]

Differs(x, y) == {f \in Files : x[f] # y[f]}

\* How far the two walks of an activity have come, with nobody beside it
Trail(a) ==
    /\ seat[a] = "planned" => walked[a] = {} /\ writes[a] = 0 /\ DOMAIN pre[a] = {} /\ DOMAIN post[a] = {}
    /\ seat[a] = "before" =>
          writes[a] = 0 /\ Snapshot(pre[a], disk[Declared[a]], walked[a]) /\ DOMAIN post[a] = {}
    /\ seat[a] = "running" =>
          /\ walked[a] = {} /\ DOMAIN post[a] = {}
          /\ began[a] \in [Files -> Stored] /\ Snapshot(pre[a], began[a], Files)
          /\ Cardinality(Differs(began[a], disk[Declared[a]])) <= writes[a]
    /\ seat[a] = "after" =>
          /\ began[a] \in [Files -> Stored] /\ Snapshot(pre[a], began[a], Files)
          /\ ended[a] = disk[Declared[a]] /\ Snapshot(post[a], ended[a], walked[a])
          /\ Cardinality(Differs(began[a], ended[a])) <= writes[a]
    /\ seat[a] = "done" =>
          Replay(began[a], manifest[a]) = ended[a] /\ Cardinality(DOMAIN manifest[a]) <= writes[a]

ObservedInv(a) ==
    a \notin company => (seat[a] \in Active => Neighbours(a) = {}) /\ Trail(a)

ObserverIInv == ObserverTypeOK /\ \A a \in LocalTasks : ObservedInv(a)

\* What a step of activity b leaves to the others
KeepsOthers(b) ==
    /\ company \subseteq company'
    /\ \A a \in LocalTasks \ {b} :
          /\ seat'[a] = seat[a] /\ walked'[a] = walked[a] /\ pre'[a] = pre[a] /\ post'[a] = post[a]
          /\ manifest'[a] = manifest[a] /\ writes'[a] = writes[a]
          /\ began'[a] = began[a] /\ ended'[a] = ended[a]
          /\ seat[b] # "running" \/ Declared[a] # Declared[b] => disk'[Declared[a]] = disk[Declared[a]]

(* ArtifactManifestFor compares sizes and digests, which is all there is to  *)
(* a content.                                                                *)
LEMMA UnchangedIsEqual == \A x, y \in Stored : Unchanged(x, y) <=> x = y
<1> SUFFICES ASSUME NEW x \in Stored, NEW y \in Stored, Unchanged(x, y) PROVE x = y
  BY Zenon DEF Unchanged
<1>1. \A c \in Stored : c = [size |-> c.size, digest |-> c.digest]
  BY ObserverAssumption DEF Stored, Absent
<1> QED BY Zenon, <1>1 DEF Unchanged

(* A manifest of two whole walks replays one content into the other and      *)
(* names the files that differ (ArtifactManifestFor).                        *)
LEMMA ManifestsReplay ==
    ASSUME NEW x \in [Files -> Stored], NEW y \in [Files -> Stored], NEW s, NEW u,
           Snapshot(s, x, Files), Snapshot(u, y, Files)
    PROVE  /\ Replay(x, ArtifactManifestFor(s, u)) = y
           /\ DOMAIN ArtifactManifestFor(s, u) = Differs(x, y)
<1> DEFINE at(v, f) == IF f \in DOMAIN v THEN v[f] ELSE Absent
           m == ArtifactManifestFor(s, u)
<1>1. /\ DOMAIN s = {f \in Files : x[f] # Absent} /\ \A f \in DOMAIN s : s[f] = x[f]
      /\ DOMAIN u = {f \in Files : y[f] # Absent} /\ \A f \in DOMAIN u : u[f] = y[f]
  BY Zenon DEF Snapshot
<1>2. \A f \in Files : at(s, f) = x[f] /\ at(u, f) = y[f]
  BY Zenon, <1>1
<1>3. m = [f \in {g \in DOMAIN s \cup DOMAIN u : ~Unchanged(at(s, g), at(u, g))} |->
            [change |-> Change(at(s, f), at(u, f)),
             file   |-> IF f \in DOMAIN u THEN u[f] ELSE s[f]]]
  BY Zenon DEF ArtifactManifestFor
<1>4. DOMAIN m = {g \in DOMAIN s \cup DOMAIN u : ~Unchanged(at(s, g), at(u, g))}
  BY Zenon, <1>3
<1> HIDE DEF at, m
<1>5. DOMAIN m = Differs(x, y)
  <2>1. ASSUME NEW f \in Files PROVE f \in DOMAIN m <=> x[f] # y[f]
    <3>1. x[f] \in Stored /\ y[f] \in Stored
      BY Zenon
    <3>2. f \in DOMAIN s \cup DOMAIN u <=> x[f] # Absent \/ y[f] # Absent
      BY Zenon, <1>1
    <3>3. Unchanged(at(s, f), at(u, f)) <=> x[f] = y[f]
      <4>1. at(s, f) = x[f] /\ at(u, f) = y[f]
        BY Zenon, <1>2
      <4> QED BY Zenon, <3>1, <4>1, UnchangedIsEqual
    <3> QED BY Zenon, <1>4, <3>2, <3>3
  <2>2. DOMAIN m \subseteq Files
    BY Zenon, <1>1, <1>4
  <2> QED BY Zenon, <2>1, <2>2 DEF Differs
<1>6. ASSUME NEW f \in Files
      PROVE  (IF f \notin DOMAIN m THEN x[f] ELSE IF m[f].change = "deleted" THEN Absent ELSE m[f].file) = y[f]
  <2>1. CASE f \notin DOMAIN m
    BY Zenon, <1>5, <2>1 DEF Differs
  <2>2. CASE f \in DOMAIN m
    <3>1. m[f] = [change |-> Change(x[f], y[f]), file |-> IF f \in DOMAIN u THEN u[f] ELSE s[f]]
      BY Zenon, <1>2, <1>3, <1>4, <2>2
    <3>2. m[f].change = Change(x[f], y[f]) /\ m[f].file = IF f \in DOMAIN u THEN u[f] ELSE s[f]
      BY <3>1
    <3>3. x[f] # y[f]
      BY Zenon, <1>5, <2>2 DEF Differs
    <3>4. CASE y[f] = Absent
      <4>1. Change(x[f], y[f]) = "deleted"
        BY <3>3, <3>4 DEF Change
      <4> QED BY Zenon, <2>2, <3>2, <3>4, <4>1
    <3>5. CASE y[f] # Absent
      <4>1. Change(x[f], y[f]) # "deleted"
        BY <3>5 DEF Change
      <4>2. f \in DOMAIN u /\ u[f] = y[f]
        BY Zenon, <1>1, <3>5
      <4> QED BY Zenon, <2>2, <3>2, <4>1, <4>2
    <3> QED BY Zenon, <3>4, <3>5
  <2> QED BY Zenon, <2>1, <2>2
<1>7. Replay(x, m) = y
  <2>1. Replay(x, m) = [f \in Files |-> y[f]]
    BY Zenon, <1>6 DEF Replay
  <2>2. y = [f \in Files |-> y[f]]
    BY Zenon
  <2> QED BY Zenon, <2>1, <2>2
<1> QED BY Zenon, <1>5, <1>7 DEF m

(* Contents that differ in few files are stored in a finite set of files, so *)
(* they can be counted.                                                      *)
LEMMA DiffersCounts ==
    /\ \A x, y : Cardinality(Differs(x, y)) \in Nat /\ IsFiniteSet(Differs(x, y))
    /\ \A x : Cardinality(Differs(x, x)) = 0
    /\ \A x, y, z, f : Differs(x, z) \subseteq Differs(x, y) \cup {f} =>
          Cardinality(Differs(x, z)) <= Cardinality(Differs(x, y)) + 1
<1>1. \A x, y : IsFiniteSet(Differs(x, y)) /\ Cardinality(Differs(x, y)) \in Nat
  BY Zenon, ObserverAssumption, FS_Subset, FS_CardinalityType DEF Differs
<1>2. \A x : Differs(x, x) = {}
  BY Zenon DEF Differs
<1>3. ASSUME NEW x, NEW y, NEW z, NEW f, Differs(x, z) \subseteq Differs(x, y) \cup {f}
      PROVE  Cardinality(Differs(x, z)) <= Cardinality(Differs(x, y)) + 1
  <2>1. /\ IsFiniteSet(Differs(x, y) \cup {f})
        /\ \/ Cardinality(Differs(x, y) \cup {f}) = Cardinality(Differs(x, y)) + 1
           \/ Cardinality(Differs(x, y) \cup {f}) = Cardinality(Differs(x, y))
    BY Zenon, <1>1, FS_AddElement
  <2>2. Cardinality(Differs(x, z)) <= Cardinality(Differs(x, y) \cup {f})
    BY Zenon, <1>3, <2>1, FS_Subset
  <2>3. Cardinality(Differs(x, y)) \in Nat /\ Cardinality(Differs(x, z)) \in Nat
    BY Zenon, <1>1
  <2> QED BY <2>1, <2>2, <2>3
<1> QED BY Zenon, <1>1, <1>2, <1>3, FS_EmptySet

(* Where an activity stays alone, a step of another one changes nothing it   *)
(* relies on.                                                                *)
LEMMA OthersUndisturbed ==
    ASSUME NEW b \in LocalTasks, KeepsOthers(b), NEW a \in LocalTasks \ {b}, ObservedInv(a),
           seat'[b] \in Active /\ seat[b] \notin Active /\ seat[a] \in Active =>
              Declared[a] # Declared[b] \/ a \in company'
    PROVE  ObservedInv(a)'
<1> SUFFICES ASSUME a \notin company, a \notin company' PROVE (seat'[a] \in Active => Neighbours(a)' = {}) /\ Trail(a)'
  BY Zenon DEF ObservedInv, KeepsOthers
<1>1. (seat[a] \in Active => Neighbours(a) = {}) /\ Trail(a)
  BY Zenon DEF ObservedInv
<1>2. seat[a] \in Active => Neighbours(a)' \subseteq Neighbours(a)
  BY Zenon DEF Neighbours, PrepareArtifactRoot, KeepsOthers, Active
<1>3. seat'[a] = seat[a]
  BY Zenon DEF KeepsOthers
<1>4. seat[a] \in Active => disk'[Declared[a]] = disk[Declared[a]]
  BY ZenonT(30), <1>1 DEF Neighbours, PrepareArtifactRoot, KeepsOthers, Active
<1>5. Trail(a)'
  <2>1. /\ walked'[a] = walked[a] /\ pre'[a] = pre[a] /\ post'[a] = post[a] /\ manifest'[a] = manifest[a]
        /\ writes'[a] = writes[a] /\ began'[a] = began[a] /\ ended'[a] = ended[a]
    BY Zenon DEF KeepsOthers
  <2>2. CASE seat[a] \in Active
    <3>1. disk'[Declared[a]] = disk[Declared[a]]
      BY ZenonT(30), <1>4, <2>2
    <3> QED BY <1>1, <1>3, <2>1, <3>1 DEF Trail
  <2>3. CASE seat[a] \notin Active
    BY <1>1, <1>3, <2>1, <2>3 DEF Trail, Active
  <2> QED BY Zenon, <2>2, <2>3
<1> QED BY Zenon, <1>1, <1>2, <1>3, <1>5

(* Who is beside an activity is a matter of the others' seats.               *)
LEMMA NeighboursStay ==
    ASSUME NEW b \in LocalTasks, KeepsOthers(b)
    PROVE  Neighbours(b)' = Neighbours(b)
BY Zenon DEF Neighbours, KeepsOthers

(* A step in which only b moves and which keeps b's own trail.               *)
LEMMA OneMoves ==
    ASSUME ObserverIInv, ObserverTypeOK', NEW b \in LocalTasks, KeepsOthers(b),
           seat'[b] \in Active => seat[b] \in Active,
           b \notin company => Trail(b)'
    PROVE  ObserverIInv'
<1>1. ASSUME NEW a \in LocalTasks \ {b} PROVE ObservedInv(a)'
  BY Zenon, OthersUndisturbed DEF ObserverIInv
<1>2. ObservedInv(b)'
  BY Zenon, NeighboursStay DEF ObservedInv, ObserverIInv, KeepsOthers
<1> QED BY Zenon, <1>1, <1>2 DEF ObserverIInv

(* A walk reads one more file of a workspace nobody else writes in           *)
(* (snapshotArtifacts).                                                      *)
LEMMA SnapshotGrows ==
    ASSUME NEW x, NEW s, NEW W, NEW f \in Files \ W, Snapshot(s, x, W)
    PROVE  /\ x[f] = Absent => Snapshot(s, x, W \cup {f})
           /\ x[f] # Absent => Snapshot(With(s, f, x[f]), x, W \cup {f})
<1>1. DOMAIN s = {g \in Files : g \in W /\ x[g] # Absent} /\ \A g \in DOMAIN s : s[g] = x[g]
  BY Zenon DEF Snapshot
<1>2. CASE x[f] = Absent
  BY Zenon, <1>1, <1>2 DEF Snapshot
<1>3. CASE x[f] # Absent
  <2>1. DOMAIN With(s, f, x[f]) = DOMAIN s \cup {f}
    BY Zenon DEF With
  <2>2. \A g \in DOMAIN s \cup {f} : With(s, f, x[f])[g] = x[g]
    BY Zenon, <1>1 DEF With
  <2> QED BY Zenon, <1>1, <1>3, <2>1, <2>2 DEF Snapshot
<1> QED BY Zenon, <1>2, <1>3

(* The walk of SnapshotBefore and of SnapshotAfter reads a file.             *)
LEMMA WalkReads ==
    ASSUME NEW b \in LocalTasks, NEW f \in Files \ walked[b],
           NEW s, NEW t, NEW x, DOMAIN s = LocalTasks, Snapshot(s[b], x, walked[b]),
           t = IF x[f] = Absent THEN s ELSE [s EXCEPT ![b] = With(@, f, x[f])]
    PROVE  /\ Snapshot(t[b], x, walked[b] \cup {f}) /\ DOMAIN t = LocalTasks
           /\ \A a \in LocalTasks \ {b} : t[a] = s[a]
<1>1. CASE x[f] = Absent
  <2>1. t = s
    BY Zenon, <1>1
  <2> QED BY Zenon, <1>1, <2>1, SnapshotGrows
<1>2. CASE x[f] # Absent
  <2>1. t = [s EXCEPT ![b] = With(@, f, x[f])]
    BY Zenon, <1>2
  <2>2. t[b] = With(s[b], f, x[f]) /\ DOMAIN t = LocalTasks /\ \A a \in LocalTasks \ {b} : t[a] = s[a]
    BY Zenon, <2>1
  <2> QED BY Zenon, <1>2, <2>2, SnapshotGrows
<1> QED BY Zenon, <1>1, <1>2

(* Adapter.Start: whoever finds somebody in its workspace has company, and   *)
(* so has the other one.                                                     *)
LEMMA StartActivityStep ==
    ASSUME ObserverIInv, NEW b \in LocalTasks, StartActivity(b)
    PROVE  ObserverIInv'
<1>t. ObserverTypeOK
  BY Zenon DEF ObserverIInv
<1>1. /\ seat[b] = "planned" /\ seat' = [seat EXCEPT ![b] = "before"]
      /\ UNCHANGED <<disk, walked, pre, post, manifest, writes, began, ended>>
      /\ company' = IF Neighbours(b) = {} THEN company ELSE company \cup {b} \cup Neighbours(b)
  BY Zenon DEF StartActivity
<1>2. seat'[b] = "before" /\ DOMAIN seat' = LocalTasks /\ \A a \in LocalTasks \ {b} : seat'[a] = seat[a]
  BY Zenon, <1>1, <1>t DEF ObserverTypeOK
<1>3. ObserverTypeOK'
  BY Zenon, <1>1, <1>2, <1>t DEF ObserverTypeOK
<1>4. KeepsOthers(b)
  BY ZenonT(30), <1>1, <1>2 DEF KeepsOthers
<1>5. ASSUME NEW a \in LocalTasks \ {b} PROVE ObservedInv(a)'
  <2>1. seat[a] \in Active => Declared[a] # Declared[b] \/ a \in company'
    <3> SUFFICES ASSUME seat[a] \in Active, Declared[a] = Declared[b] PROVE a \in company'
      BY Zenon
    <3>1. a \in Neighbours(b)
      BY Zenon DEF Neighbours, PrepareArtifactRoot, Active
    <3> QED BY Zenon, <1>1, <3>1
  <2> QED BY Zenon, <1>4, <2>1, OthersUndisturbed DEF ObserverIInv
<1>6. ObservedInv(b)'
  <2> SUFFICES ASSUME b \notin company' PROVE Neighbours(b)' = {} /\ Trail(b)'
    BY Zenon DEF ObservedInv
  <2>1. Neighbours(b) = {} /\ b \notin company
    BY Zenon, <1>1
  <2>2. Neighbours(b)' = {}
    BY Zenon, <1>4, <2>1, NeighboursStay
  <2>3. Trail(b)
    BY Zenon, <2>1 DEF ObserverIInv, ObservedInv
  <2>4. walked[b] = {} /\ writes[b] = 0 /\ DOMAIN pre[b] = {} /\ DOMAIN post[b] = {}
    BY Zenon, <1>1, <2>3 DEF Trail
  <2>5. Snapshot(pre[b], disk[Declared[b]], {})
    BY ZenonT(30), <2>4 DEF Snapshot
  <2>6. Trail(b)'
    BY <1>1, <1>2, <2>4, <2>5 DEF Trail
  <2> QED BY Zenon, <2>2, <2>6
<1> QED BY Zenon, <1>3, <1>5, <1>6 DEF ObserverIInv

(* The first walk reads a file, or is over and the process starts.           *)
LEMMA SnapshotBeforeStep ==
    ASSUME ObserverIInv, NEW b \in LocalTasks, SnapshotBefore(b)
    PROVE  ObserverIInv'
<1> DEFINE x == disk[Declared[b]]
<1>t. ObserverTypeOK
  BY Zenon DEF ObserverIInv
<1>0. seat[b] = "before" /\ UNCHANGED <<disk, post, writes, ended, manifest, company>>
  BY Zenon DEF SnapshotBefore, WalkStep
<1>b. b \notin company =>
        writes[b] = 0 /\ Snapshot(pre[b], x, walked[b]) /\ DOMAIN post[b] = {}
  BY Zenon, <1>0 DEF ObserverIInv, ObservedInv, Trail
<1>1. CASE /\ Files \ walked[b] = {} /\ pre' = pre /\ walked' = [walked EXCEPT ![b] = {}]
           /\ \E s \in {"running", "unstarted"} : seat' = [seat EXCEPT ![b] = s]
           /\ began' = [began EXCEPT ![b] = x]
  <2>1. PICK s \in {"running", "unstarted"} : seat' = [seat EXCEPT ![b] = s]
    BY Zenon, <1>1
  <2>2. /\ seat'[b] = s /\ DOMAIN seat' = LocalTasks /\ walked'[b] = {} /\ DOMAIN walked' = LocalTasks
        /\ began'[b] = x /\ DOMAIN began' = LocalTasks
        /\ \A a \in LocalTasks \ {b} : seat'[a] = seat[a] /\ walked'[a] = walked[a] /\ began'[a] = began[a]
    BY Zenon, <1>1, <1>t, <2>1 DEF ObserverTypeOK
  <2>3. ObserverTypeOK'
    BY Zenon, <1>0, <1>1, <1>t, <2>2 DEF ObserverTypeOK
  <2>4. KeepsOthers(b)
    BY Zenon, <1>0, <1>1, <2>2 DEF KeepsOthers
  <2>5. ASSUME b \notin company PROVE Trail(b)'
    <3>1. Snapshot(pre[b], x, Files)
      BY Zenon, <1>1, <1>b, <2>5 DEF Snapshot
    <3>2. x \in [Files -> Stored]
      BY Zenon, <1>t DEF ObserverTypeOK
    <3>3. Cardinality(Differs(x, x)) <= writes[b]
      BY <1>b, <2>5, DiffersCounts
    <3>4. CASE s = "running"
      BY Zenon, <1>0, <1>1, <1>b, <2>2, <2>5, <3>1, <3>2, <3>3, <3>4 DEF Trail
    <3>5. CASE s = "unstarted"
      BY Zenon, <2>2, <3>5 DEF Trail
    <3> QED BY Zenon, <3>4, <3>5
  <2> QED BY Zenon, <1>0, <2>3, <2>4, <2>5, OneMoves DEF Active
<1>2. ASSUME NEW f \in Files \ walked[b], walked' = [walked EXCEPT ![b] = @ \cup {f}],
             pre' = IF x[f] = Absent THEN pre ELSE [pre EXCEPT ![b] = With(@, f, x[f])],
             UNCHANGED <<seat, began>>
      PROVE  ObserverIInv'
  <2>1. walked'[b] = walked[b] \cup {f} /\ DOMAIN walked' = LocalTasks /\ \A a \in LocalTasks \ {b} : walked'[a] = walked[a]
    BY Zenon, <1>2, <1>t DEF ObserverTypeOK
  <2>2. DOMAIN pre' = LocalTasks /\ \A a \in LocalTasks \ {b} : pre'[a] = pre[a]
    BY Zenon, <1>2, <1>t DEF ObserverTypeOK
  <2>3. ObserverTypeOK'
    BY Zenon, <1>0, <1>2, <1>t, <2>1, <2>2 DEF ObserverTypeOK
  <2>4. KeepsOthers(b)
    BY ZenonT(30), <1>0, <1>2, <2>1, <2>2 DEF KeepsOthers
  <2>5. ASSUME b \notin company PROVE Trail(b)'
    <3>1. Snapshot(pre'[b], x, walked[b] \cup {f})
      <4>1. DOMAIN pre = LocalTasks /\ Snapshot(pre[b], x, walked[b])
        BY Zenon, <1>b, <1>t, <2>5 DEF ObserverTypeOK
      <4> HIDE DEF x
      <4> QED BY Zenon, <1>2, <4>1, WalkReads
    <3> QED BY Zenon, <1>0, <1>2, <1>b, <2>1, <2>5, <3>1 DEF Trail
  <2> QED BY Zenon, <1>2, <2>3, <2>4, <2>5, OneMoves
<1> QED BY Zenon, <1>1, <1>2 DEF SnapshotBefore, WalkStep, PrepareArtifactRoot

(* The process writes a file: one more may differ.                           *)
LEMMA WriteStep ==
    ASSUME ObserverIInv, NEW b \in LocalTasks, Write(b)
    PROVE  ObserverIInv'
<1>t. ObserverTypeOK
  BY Zenon DEF ObserverIInv
<1>1. PICK f \in Files, c \in Stored : disk' = [disk EXCEPT ![Declared[b]][f] = c]
  BY Zenon DEF Write, PrepareArtifactRoot
<1>2. /\ seat[b] = "running" /\ writes' = [writes EXCEPT ![b] = @ + 1]
      /\ UNCHANGED <<seat, walked, pre, post, manifest, began, ended, company>>
  BY ZenonT(30) DEF Write
<1>3. /\ disk' \in [{Declared[a] : a \in LocalTasks} -> [Files -> Stored]]
      /\ disk'[Declared[b]] = [disk[Declared[b]] EXCEPT ![f] = c]
      /\ \A a \in LocalTasks : Declared[a] # Declared[b] => disk'[Declared[a]] = disk[Declared[a]]
  BY SMTT(20), <1>1, <1>t DEF ObserverTypeOK
<1>4. /\ writes' \in [LocalTasks -> Nat] /\ writes[b] \in Nat /\ writes'[b] = writes[b] + 1
      /\ \A a \in LocalTasks \ {b} : writes'[a] = writes[a]
  BY <1>2, <1>t DEF ObserverTypeOK
<1>5. ObserverTypeOK'
  BY Zenon, <1>2, <1>3, <1>4, <1>t DEF ObserverTypeOK
<1>6. KeepsOthers(b)
  BY ZenonT(30), <1>2, <1>3, <1>4 DEF KeepsOthers
<1>7. ASSUME b \notin company PROVE Trail(b)'
  <2>1. Trail(b)
    BY Zenon, <1>7 DEF ObserverIInv, ObservedInv
  <2>2. /\ walked[b] = {} /\ DOMAIN post[b] = {}
        /\ began[b] \in [Files -> Stored] /\ Snapshot(pre[b], began[b], Files)
        /\ Cardinality(Differs(began[b], disk[Declared[b]])) <= writes[b]
    BY Zenon, <1>2, <2>1 DEF Trail
  <2>3. \A g \in Files \ {f} : disk'[Declared[b]][g] = disk[Declared[b]][g]
    BY <1>3, <1>t DEF ObserverTypeOK
  <2>4. Differs(began[b], disk'[Declared[b]]) \subseteq Differs(began[b], disk[Declared[b]]) \cup {f}
    BY Zenon, <2>3 DEF Differs
  <2>5. /\ Cardinality(Differs(began[b], disk'[Declared[b]])) <= Cardinality(Differs(began[b], disk[Declared[b]])) + 1
        /\ Cardinality(Differs(began[b], disk'[Declared[b]])) \in Nat
        /\ Cardinality(Differs(began[b], disk[Declared[b]])) \in Nat
    BY Zenon, <2>4, DiffersCounts
  <2>6. Cardinality(Differs(began[b], disk'[Declared[b]])) <= writes'[b]
    BY <1>4, <2>2, <2>5
  <2> QED BY <1>2, <2>2, <2>6 DEF Trail
<1> QED BY Zenon, <1>2, <1>5, <1>6, <1>7, OneMoves

(* command.Wait returns.                                                     *)
LEMMA ProcessEndsStep ==
    ASSUME ObserverIInv, NEW b \in LocalTasks, ProcessEnds(b)
    PROVE  ObserverIInv'
<1>t. ObserverTypeOK
  BY Zenon DEF ObserverIInv
<1>1. /\ seat[b] = "running" /\ seat' = [seat EXCEPT ![b] = "after"]
      /\ ended' = [ended EXCEPT ![b] = disk[Declared[b]]]
      /\ UNCHANGED <<disk, walked, pre, post, manifest, writes, began, company>>
  BY Zenon DEF ProcessEnds, PrepareArtifactRoot
<1>2. /\ seat'[b] = "after" /\ DOMAIN seat' = LocalTasks
      /\ ended'[b] = disk[Declared[b]] /\ DOMAIN ended' = LocalTasks
      /\ \A a \in LocalTasks \ {b} : seat'[a] = seat[a] /\ ended'[a] = ended[a]
  BY Zenon, <1>1, <1>t DEF ObserverTypeOK
<1>3. ObserverTypeOK'
  BY Zenon, <1>1, <1>2, <1>t DEF ObserverTypeOK
<1>4. KeepsOthers(b)
  BY ZenonT(30), <1>1, <1>2 DEF KeepsOthers
<1>5. ASSUME b \notin company PROVE Trail(b)'
  <2>1. Trail(b)
    BY Zenon, <1>5 DEF ObserverIInv, ObservedInv
  <2>2. /\ walked[b] = {} /\ DOMAIN post[b] = {}
        /\ began[b] \in [Files -> Stored] /\ Snapshot(pre[b], began[b], Files)
        /\ Cardinality(Differs(began[b], disk[Declared[b]])) <= writes[b]
    BY Zenon, <1>1, <2>1 DEF Trail
  <2>3. Snapshot(post[b], disk[Declared[b]], {})
    BY Zenon, <2>2 DEF Snapshot
  <2> QED BY Zenon, <1>1, <1>2, <2>2, <2>3 DEF Trail
<1> QED BY Zenon, <1>1, <1>3, <1>4, <1>5, OneMoves DEF Active

(* The second walk reads a file, or is over and the manifest is made.        *)
LEMMA SnapshotAfterStep ==
    ASSUME ObserverIInv, NEW b \in LocalTasks, SnapshotAfter(b)
    PROVE  ObserverIInv'
<1> DEFINE x == disk[Declared[b]]
<1>t. ObserverTypeOK
  BY Zenon DEF ObserverIInv
<1>0. seat[b] = "after" /\ UNCHANGED <<disk, pre, writes, ended, began, company>>
  BY Zenon DEF SnapshotAfter, WalkStep
<1>b. b \notin company =>
        /\ began[b] \in [Files -> Stored] /\ Snapshot(pre[b], began[b], Files)
        /\ ended[b] = x /\ Snapshot(post[b], x, walked[b])
        /\ Cardinality(Differs(began[b], x)) <= writes[b]
  BY Zenon, <1>0 DEF ObserverIInv, ObservedInv, Trail
<1>1. CASE /\ Files \ walked[b] = {} /\ post' = post /\ walked' = walked
           /\ manifest' = [manifest EXCEPT ![b] = ArtifactManifestFor(pre[b], post[b])]
           /\ seat' = [seat EXCEPT ![b] = "done"]
  <2>2. /\ seat'[b] = "done" /\ DOMAIN seat' = LocalTasks
        /\ manifest'[b] = ArtifactManifestFor(pre[b], post[b]) /\ DOMAIN manifest' = LocalTasks
        /\ \A a \in LocalTasks \ {b} : seat'[a] = seat[a] /\ manifest'[a] = manifest[a]
    BY Zenon, <1>1, <1>t DEF ObserverTypeOK
  <2>3. ObserverTypeOK'
    BY Zenon, <1>0, <1>1, <1>t, <2>2 DEF ObserverTypeOK
  <2>4. KeepsOthers(b)
    BY ZenonT(30), <1>0, <1>1, <2>2 DEF KeepsOthers
  <2>5. ASSUME b \notin company PROVE Trail(b)'
    <3>1. Snapshot(post[b], x, Files)
      BY Zenon, <1>1, <1>b, <2>5 DEF Snapshot
    <3>2. x \in [Files -> Stored]
      BY Zenon, <1>t DEF ObserverTypeOK
    <3>3. /\ Replay(began[b], ArtifactManifestFor(pre[b], post[b])) = x
          /\ DOMAIN ArtifactManifestFor(pre[b], post[b]) = Differs(began[b], x)
      <4>1. began[b] \in [Files -> Stored] /\ Snapshot(pre[b], began[b], Files)
        BY Zenon, <1>b, <2>5
      <4>2. PICK y \in [Files -> Stored] : y = x
        BY Zenon, <3>2
      <4>3. PICK z \in [Files -> Stored] : z = began[b]
        BY Zenon, <4>1
      <4>4. Snapshot(pre[b], z, Files) /\ Snapshot(post[b], y, Files)
        BY Zenon, <3>1, <4>1, <4>2, <4>3
      <4>5. /\ Replay(z, ArtifactManifestFor(pre[b], post[b])) = y
            /\ DOMAIN ArtifactManifestFor(pre[b], post[b]) = Differs(z, y)
        BY ZenonT(30), <4>4, ManifestsReplay
      <4> QED BY Zenon, <4>2, <4>3, <4>5
    <3> QED BY <1>0, <1>b, <2>2, <2>5, <3>3 DEF Trail
  <2> QED BY Zenon, <1>0, <2>2, <2>3, <2>4, <2>5, OneMoves DEF Active
<1>2. ASSUME NEW f \in Files \ walked[b], walked' = [walked EXCEPT ![b] = @ \cup {f}],
             post' = IF x[f] = Absent THEN post ELSE [post EXCEPT ![b] = With(@, f, x[f])],
             UNCHANGED <<seat, manifest>>
      PROVE  ObserverIInv'
  <2>1. walked'[b] = walked[b] \cup {f} /\ DOMAIN walked' = LocalTasks /\ \A a \in LocalTasks \ {b} : walked'[a] = walked[a]
    BY Zenon, <1>2, <1>t DEF ObserverTypeOK
  <2>2. DOMAIN post' = LocalTasks /\ \A a \in LocalTasks \ {b} : post'[a] = post[a]
    BY Zenon, <1>2, <1>t DEF ObserverTypeOK
  <2>3. ObserverTypeOK'
    BY Zenon, <1>0, <1>2, <1>t, <2>1, <2>2 DEF ObserverTypeOK
  <2>4. KeepsOthers(b)
    BY ZenonT(30), <1>0, <1>2, <2>1, <2>2 DEF KeepsOthers
  <2>5. ASSUME b \notin company PROVE Trail(b)'
    <3>1. Snapshot(post'[b], x, walked[b] \cup {f})
      <4>1. DOMAIN post = LocalTasks /\ Snapshot(post[b], x, walked[b])
        BY Zenon, <1>b, <1>t, <2>5 DEF ObserverTypeOK
      <4> HIDE DEF x
      <4> QED BY Zenon, <1>2, <4>1, WalkReads
    <3> QED BY Zenon, <1>0, <1>2, <1>b, <2>1, <2>5, <3>1 DEF Trail
  <2> QED BY Zenon, <1>2, <2>3, <2>4, <2>5, OneMoves
<1> QED BY Zenon, <1>1, <1>2 DEF SnapshotAfter, WalkStep, PrepareArtifactRoot

(* A walk that fails leaves an activity without a manifest.                  *)
LEMMA WalkFailsStep ==
    ASSUME ObserverIInv, NEW b \in LocalTasks, WalkFails(b)
    PROVE  ObserverIInv'
<1>t. ObserverTypeOK
  BY Zenon DEF ObserverIInv
<1>1. /\ UNCHANGED <<disk, walked, pre, post, manifest, writes, began, ended, company>>
      /\ seat' = [seat EXCEPT ![b] = IF @ = "before" THEN "unstarted" ELSE "unobserved"]
  BY Zenon DEF WalkFails
<1>2. /\ seat'[b] \in {"unstarted", "unobserved"} /\ DOMAIN seat' = LocalTasks
      /\ \A a \in LocalTasks \ {b} : seat'[a] = seat[a]
  BY Zenon, <1>1, <1>t DEF ObserverTypeOK
<1>3. ObserverTypeOK'
  BY Zenon, <1>1, <1>2, <1>t DEF ObserverTypeOK
<1>4. KeepsOthers(b)
  BY ZenonT(30), <1>1, <1>2 DEF KeepsOthers
<1>5. Trail(b)' /\ seat'[b] \notin Active
  BY <1>2 DEF Trail, Active
<1> QED BY Zenon, <1>3, <1>4, <1>5, OneMoves

(* For any number of activities and files: the manifest of an activity that  *)
(* met no other one in its workspace turns what its process found into what  *)
(* it left, and has no more entries than the process wrote (Adapter.Start,   *)
(* ArtifactManifestFor).                                                     *)
THEOREM AloneIsAlwaysExact == ObserverSpec => []AloneIsExact
<1>1. ObserverInit => ObserverIInv
  <2> SUFFICES ASSUME ObserverInit PROVE ObserverIInv
    BY Zenon
  <2>1. PICK old \in SUBSET Files, c \in Contents :
            disk = [r \in {Declared[a] : a \in LocalTasks} |-> [f \in Files |-> IF f \in old THEN c ELSE Absent]]
    BY Zenon DEF ObserverInit
  <2>2. disk \in [{Declared[a] : a \in LocalTasks} -> [Files -> Stored]]
    BY SMTT(20), <2>1 DEF Stored
  <2>3. writes \in [LocalTasks -> Nat]
    BY DEF ObserverInit
  <2>4. ObserverTypeOK
    BY Zenon, <2>2, <2>3 DEF ObserverInit, ObserverTypeOK
  <2>5. ASSUME NEW a \in LocalTasks PROVE ObservedInv(a)
    <3>1. seat[a] = "planned" /\ walked[a] = {} /\ writes[a] = 0 /\ pre[a] = NoFiles /\ post[a] = NoFiles
      BY Zenon DEF ObserverInit
    <3>2. DOMAIN NoFiles = {}
      BY Zenon DEF NoFiles
    <3> QED BY <3>1, <3>2 DEF ObservedInv, Trail, Active
  <2> QED BY Zenon, <2>4, <2>5 DEF ObserverIInv
<1>2. ObserverIInv /\ [ObserverNext]_observerVars => ObserverIInv'
  <2> SUFFICES ASSUME ObserverIInv, [ObserverNext]_observerVars PROVE ObserverIInv'
    BY Zenon
  <2>1. CASE UNCHANGED observerVars
    <3>1. UNCHANGED <<disk, seat, walked, pre, post, manifest, writes, began, ended, company>>
      BY Zenon, <2>1 DEF observerVars
    <3>2. ObserverTypeOK'
      BY Zenon, <3>1 DEF ObserverIInv, ObserverTypeOK
    <3>3. ASSUME NEW a \in LocalTasks PROVE ObservedInv(a)'
      <4>1. Neighbours(a)' = Neighbours(a)
        BY ZenonT(30), <3>1 DEF Neighbours
      <4>2. Trail(a) => Trail(a)'
        BY Zenon, <3>1 DEF Trail
      <4> QED BY Zenon, <3>1, <4>1, <4>2 DEF ObserverIInv, ObservedInv
    <3> QED BY Zenon, <3>2, <3>3 DEF ObserverIInv
  <2> QED BY Zenon, <2>1, StartActivityStep, SnapshotBeforeStep, WriteStep, ProcessEndsStep,
             SnapshotAfterStep, WalkFailsStep DEF ObserverNext
<1>3. ObserverIInv => AloneIsExact
  BY Zenon DEF ObserverIInv, ObservedInv, Trail, AloneIsExact
<1> QED BY <1>1, <1>2, <1>3, PTL DEF ObserverSpec

=============================================================================
