------------------------------ MODULE Transfer ------------------------------
(***************************************************************************)
(* Preparation of activities: the coordinator and the materializer         *)
(* (internal/application/transfer) copy the blobs of an executable and of  *)
(* a workspace to a destination through connectors                         *)
(* (internal/infrastructure/transfer) before a provider may start the      *)
(* activity.                                                               *)
(*                                                                         *)
(* A blob is copied into a partial file, which a later preparation resumes *)
(* after an interruption, is verified there and renamed.  Every call of a  *)
(* connector is a step, so that an interruption or another preparation may *)
(* come in between.  A file is the sequence of its bytes, and a byte of    *)
(* the right blob is known by its position.                                *)
(***************************************************************************)
EXTENDS Integers, Sequences

CONSTANTS
    Blobs,          \* digests, each at the destination it is copied to
    Preparations,   \* calls of Prepare that are repeated until they succeed
    Requirement,    \* what each one has to deliver
    Size,           \* bytes of a blob
    Source,         \* the connector a blob is read with
    Destination,    \* the connector it is written with
    NoFile,
    MaxLength,      \* bound: a partial file longer than this is not resumed
    MaxFaults       \* bound: interruptions and failing calls

(* The plan is that of the artifact, its first r.artifact blobs, followed by *)
(* that of the workspace; a workspace may name the blobs it misses.          *)
Requirements ==
    [plan : Seq(Blobs), artifact : Nat, workspace : BOOLEAN, missing : SUBSET Blobs]

ASSUME TransferAssumption ==
    /\ Requirement \in [Preparations -> Requirements]
    /\ \A w \in Preparations :
          LET r == Requirement[w] IN
          /\ r.artifact <= Len(r.plan)
          /\ r.workspace \/ (r.artifact = Len(r.plan) /\ r.missing = {})
    /\ Size \in Nat \ {0}
    /\ Source \in [Blobs -> {"file", "ssh", "http", "plain http"}]
    /\ Destination \in [Blobs -> {"file", "ssh", "s3"}]
    /\ NoFile \notin Seq(Nat)
    /\ MaxFaults \in Nat
    /\ MaxLength \in Nat

VARIABLES
    partial,    \* the file <digest>.partial at the destination
    final,      \* the file <digest> at the destination
    row,        \* artifact_materializations.status of a preparation
    transfer,   \* transfer_runs.status of its artifact
    pc,         \* the call it is about to make
    at,         \* the blob of its plan it is at
    offset,     \* where it resumed, then where it writes
    input,      \* what it has still to read from the source
    fd,         \* the name of the file it has open
    verified,   \* VerifiedBlobs of the current transfer run
    faults

files == <<partial, final>>
catalog == <<row, transfer>>
copying == <<offset, input, fd>>
transferVars == <<files, catalog, pc, at, copying, verified, faults>>

Content == [i \in 1..Size |-> i]

PCs == {"idle", "check", "size", "open", "put", "write", "verify", "commit", "remove",
        "saveTransfer", "saveRow", "commitWorkspace", "failing", "ready"}

TransferInit ==
    /\ partial = [b \in Blobs |-> NoFile]
    /\ final = [b \in Blobs |-> NoFile]
    /\ row = [w \in Preparations |-> "none"]
    /\ transfer = [w \in Preparations |-> "none"]
    /\ pc = [w \in Preparations |-> "idle"]
    /\ at = [w \in Preparations |-> 1]
    /\ offset = [w \in Preparations |-> 0]
    /\ input = [w \in Preparations |-> <<>>]
    /\ fd = [w \in Preparations |-> "none"]
    /\ verified = [w \in Preparations |-> {}]
    /\ faults = 0

Works == faults' = faults
Breaks == faults < MaxFaults /\ faults' = faults + 1

At(w, l) == pc[w] = l
Goto(w, l) == pc' = [pc EXCEPT ![w] = l]

Plan(w) == Requirement[w].plan
PlanBlobs(w) == {Plan(w)[i] : i \in 1..Len(Plan(w))}
Blob(w) == Plan(w)[at[w]]
InArtifact(w) == at[w] <= Requirement[w].artifact

-----------------------------------------------------------------------------
(* Coordinator.Prepare *)

(* Where a transfer goes on at the i-th blob of the plan, and where it ends. *)
Loop(w, i) ==
    IF i <= Requirement[w].artifact THEN "check"
    ELSE IF ~Requirement[w].workspace THEN "ready"
    ELSE IF i <= Len(Plan(w)) THEN "check"
    ELSE "commitWorkspace"

(* A preparation of an artifact is first recorded as transferring.           *)
Prepare(w) ==
    /\ At(w, "idle")
    /\ \/ /\ Works
          /\ row' = IF Requirement[w].artifact > 0 THEN [row EXCEPT ![w] = "transferring"] ELSE row
          /\ Goto(w, Loop(w, 1))
       \/ /\ Requirement[w].artifact > 0 /\ Breaks
          /\ UNCHANGED <<row, pc>>
    /\ at' = [at EXCEPT ![w] = 1]
    /\ verified' = [verified EXCEPT ![w] = {}]
    /\ UNCHANGED <<files, transfer, copying>>

(* A blob is in place: the materializer turns to the next one of its plan.   *)
Verified(w) ==
    /\ verified' = [verified EXCEPT ![w] = @ \cup {Blob(w)}]
    /\ IF at[w] = Requirement[w].artifact
       THEN Goto(w, "saveTransfer") /\ UNCHANGED at
       ELSE Goto(w, Loop(w, at[w] + 1)) /\ at' = [at EXCEPT ![w] = @ + 1]

(* The artifact's transfer run is saved, then its materialization; when one  *)
(* of these breaks Prepare returns the error and saves nothing more.         *)
SaveTransfer(w) ==
    /\ At(w, "saveTransfer")
    /\ \/ Works /\ transfer' = [transfer EXCEPT ![w] = "completed"] /\ Goto(w, "saveRow")
       \/ Breaks /\ Goto(w, "idle") /\ UNCHANGED transfer
    /\ UNCHANGED <<files, row, at, copying, verified>>

SaveRow(w) ==
    /\ At(w, "saveRow")
    /\ \/ /\ Works
          /\ row' = [row EXCEPT ![w] = "committed"]
          /\ Goto(w, Loop(w, at[w] + 1))
          /\ at' = [at EXCEPT ![w] = @ + 1]
          /\ verified' = [verified EXCEPT ![w] = {}]
       \/ Breaks /\ Goto(w, "idle") /\ UNCHANGED <<row, at, verified>>
    /\ UNCHANGED <<files, transfer, copying>>

(* WorkspaceMaterialization.Commit wants every missing blob verified; when   *)
(* none is named, all of the plan are missing.                               *)
WorkspacePlan(w) == {Plan(w)[i] : i \in (Requirement[w].artifact + 1)..Len(Plan(w))}
Missing(w) ==
    IF Requirement[w].missing = {} THEN WorkspacePlan(w) ELSE Requirement[w].missing

CommitWorkspace_Unchecked(w) ==
    /\ At(w, "commitWorkspace")
    /\ Works
    /\ Goto(w, "ready")
    /\ UNCHANGED <<files, catalog, at, copying, verified>>

CommitWorkspace(w) ==
    /\ At(w, "commitWorkspace")
    /\ Works
    /\ Goto(w, IF Missing(w) \subseteq verified[w] THEN "ready" ELSE "idle")
    /\ UNCHANGED <<files, catalog, at, copying, verified>>

(* A transfer that failed: an artifact's is recorded, a workspace's is not.  *)
SaveFailure(w) ==
    /\ At(w, "failing")
    /\ \/ ~InArtifact(w) /\ Works /\ UNCHANGED catalog
       \/ /\ InArtifact(w) /\ Works
          /\ transfer' = [transfer EXCEPT ![w] = "failed"]
          /\ row' = [row EXCEPT ![w] = "failed"]
       \/ /\ InArtifact(w) /\ Breaks
          /\ transfer' \in {transfer, [transfer EXCEPT ![w] = "failed"]}
          /\ UNCHANGED row
    /\ Goto(w, "idle")
    /\ UNCHANGED <<files, at, copying, verified>>

-----------------------------------------------------------------------------
(* Materializer.Materialize, for one blob *)

(* A call breaks and the transfer has failed.                                *)
BreaksOff(w) == Breaks /\ Goto(w, "failing")

(* A complete file is left alone; one that cannot be checked is copied.      *)
CheckFinal(w) ==
    /\ At(w, "check")
    /\ \/ final[Blob(w)] = Content /\ Works /\ Verified(w)
       \/ /\ \/ final[Blob(w)] # Content /\ Works
             \/ Breaks
          /\ Goto(w, "size")
          /\ UNCHANGED <<at, verified>>
    /\ UNCHANGED <<files, catalog, copying>>

(* The copy resumes at the end of the partial file.                          *)
SizePartial(w) ==
    /\ At(w, "size")
    /\ \/ /\ Works
          /\ offset' = [offset EXCEPT
                ![w] = IF partial[Blob(w)] = NoFile THEN 0 ELSE Len(partial[Blob(w)])]
          /\ Goto(w, "open")
       \/ BreaksOff(w) /\ UNCHANGED offset
    /\ UNCHANGED <<files, catalog, at, input, fd, verified>>

Bytes_OffByOne(w) ==
    IF offset[w] = 0 THEN Content ELSE SubSeq(Content, offset[w], Size)

(* Open of the source: the bytes from the offset on.  A web server refuses a *)
(* range that begins at the end, or sends the whole file if it knows no      *)
(* ranges.                                                                   *)
Refuses(w) == Source[Blob(w)] = "http" /\ offset[w] > 0 /\ offset[w] >= Size
Bytes(w) ==
    IF Source[Blob(w)] = "plain http" THEN Content ELSE SubSeq(Content, offset[w] + 1, Size)

(* The exit status of the ssh command is not looked at: its output may end   *)
(* early and looks complete.                                                 *)
OpenSource(w) ==
    /\ At(w, "open")
    /\ offset[w] <= MaxLength
    /\ \/ ~Refuses(w) /\ Works /\ input' = [input EXCEPT ![w] = Bytes(w)] /\ Goto(w, "put")
       \/ /\ Source[Blob(w)] = "ssh" /\ Breaks
          /\ \E n \in 0..Len(Bytes(w)) : input' = [input EXCEPT ![w] = SubSeq(Bytes(w), 1, n)]
          /\ Goto(w, "put")
       \/ /\ \/ Refuses(w) /\ Works /\ Goto(w, "failing")
             \/ BreaksOff(w)
          /\ UNCHANGED input
    /\ UNCHANGED <<files, catalog, at, offset, fd, verified>>

-----------------------------------------------------------------------------
(* LocalFilesystem *)

(* Opened for writing at the offset: emptied when that is zero, created when *)
(* there is none.                                                            *)
OpenPartial(w) ==
    /\ At(w, "put") /\ Destination[Blob(w)] = "file"
    /\ \/ /\ Works
          /\ partial' = [partial EXCEPT
                ![Blob(w)] = IF offset[w] = 0 \/ @ = NoFile THEN <<>> ELSE @]
          /\ fd' = [fd EXCEPT ![w] = "partial"]
          /\ Goto(w, "write")
       \/ BreaksOff(w) /\ UNCHANGED <<partial, fd>>
    /\ UNCHANGED <<final, catalog, at, offset, input, verified>>

(* A byte written at a position beyond the end leaves a gap of zeros.        *)
WriteAt(file, position, byte) ==
    [i \in 1..(IF position > Len(file) THEN position ELSE Len(file)) |->
        IF i = position THEN byte ELSE IF i <= Len(file) THEN file[i] ELSE 0]

(* One byte goes to the file that is open, whatever its name is by now.      *)
Write(w) ==
    /\ At(w, "write") /\ input[w] # <<>> /\ Works
    /\ LET b == Blob(w)
           Written(file) == WriteAt(file, offset[w] + 1, Head(input[w]))
       IN /\ partial' = IF fd[w] = "partial" THEN [partial EXCEPT ![b] = Written(@)] ELSE partial
          /\ final' = IF fd[w] = "final" THEN [final EXCEPT ![b] = Written(@)] ELSE final
    /\ offset' = [offset EXCEPT ![w] = @ + 1]
    /\ input' = [input EXCEPT ![w] = Tail(@)]
    /\ UNCHANGED <<catalog, pc, at, fd, verified>>

CloseFile(w) ==
    /\ At(w, "write")
    /\ \/ input[w] = <<>> /\ Works /\ Goto(w, "verify")
       \/ BreaksOff(w)
    /\ fd' = [fd EXCEPT ![w] = "none"]
    /\ UNCHANGED <<files, catalog, at, offset, input, verified>>

-----------------------------------------------------------------------------
(* S3Compatible *)

(* The object is replaced as a whole: what was there up to the offset, and   *)
(* the input.                                                                *)
PutObject(w) ==
    /\ At(w, "put") /\ Destination[Blob(w)] = "s3"
    /\ LET b == Blob(w) IN
       \/ /\ offset[w] = 0 \/ partial[b] # NoFile
          /\ Works
          /\ partial' = [partial EXCEPT
                ![b] = IF offset[w] = 0 THEN input[w]
                       ELSE SubSeq(@, 1, IF offset[w] < Len(@) THEN offset[w] ELSE Len(@)) \o input[w]]
          /\ Goto(w, "verify")
       \/ /\ \/ offset[w] > 0 /\ partial[b] = NoFile /\ Works /\ Goto(w, "failing")
             \/ BreaksOff(w)
          /\ UNCHANGED partial
    /\ UNCHANGED <<final, catalog, at, copying, verified>>

-----------------------------------------------------------------------------
(* RsyncSSH *)

(* What rsync makes of a file when it is given the rest of a blob.  Without  *)
(* an offset the file is replaced.  With one, --append-verify compares the   *)
(* file with the beginning of what it is given: a file that is not shorter   *)
(* is skipped, a shorter one is extended in place and, since its beginning   *)
(* differs, sent again.                                                      *)
Skips(file, given, from) == from > 0 /\ file # NoFile /\ Len(given) <= Len(file)
RsyncResult(file, given, from) == IF Skips(file, given, from) THEN file ELSE given

(* What an interrupted rsync --partial may leave.                            *)
RsyncLeavings(file, given, from) ==
    CASE Skips(file, given, from) -> {file}
      [] from = 0 \/ file = NoFile -> {file} \cup {SubSeq(given, 1, n) : n \in 0..Len(given)}
      [] OTHER ->
            LET extended == file \o SubSeq(given, Len(file) + 1, Len(given)) IN
            {SubSeq(extended, 1, n) : n \in Len(file)..Len(given)}
            \cup {SubSeq(given, 1, n) \o SubSeq(extended, n + 1, Len(given)) : n \in 0..Len(given)}

PutRsync(w) ==
    /\ At(w, "put") /\ Destination[Blob(w)] = "ssh"
    /\ \/ /\ Works
          /\ partial' = [partial EXCEPT ![Blob(w)] = RsyncResult(@, input[w], offset[w])]
          /\ Goto(w, "verify")
       \/ /\ BreaksOff(w)
          /\ \E left \in RsyncLeavings(partial[Blob(w)], input[w], offset[w]) :
                partial' = [partial EXCEPT ![Blob(w)] = left]
    /\ UNCHANGED <<final, catalog, at, copying, verified>>

-----------------------------------------------------------------------------
(* The end of a copy *)

(* What was written is read back and compared with the digest.               *)
VerifyPartial(w) ==
    /\ At(w, "verify")
    /\ \/ partial[Blob(w)] = Content /\ Works /\ Goto(w, "commit")
       \/ partial[Blob(w)] # Content /\ Works /\ Goto(w, "failing")
       \/ BreaksOff(w)
    /\ UNCHANGED <<files, catalog, at, copying, verified>>

(* rename(2) and mv: the file that is open elsewhere as partial is open as   *)
(* final from now on, and the one it replaces has no name any more.          *)
Rename(w) ==
    /\ At(w, "commit") /\ Destination[Blob(w)] # "s3"
    /\ LET b == Blob(w) IN
       \/ /\ partial[b] # NoFile /\ Works
          /\ final' = [final EXCEPT ![b] = partial[b]]
          /\ partial' = [partial EXCEPT ![b] = NoFile]
          /\ fd' = [v \in Preparations |->
                IF ~At(v, "write") \/ Blob(v) # b THEN fd[v]
                ELSE IF fd[v] = "partial" THEN "final" ELSE "unlinked"]
          /\ Verified(w)
       \/ /\ \/ partial[b] = NoFile /\ Works /\ Goto(w, "failing")
             \/ BreaksOff(w)
          /\ UNCHANGED <<files, fd, at, verified>>
    /\ UNCHANGED <<catalog, offset, input>>

(* An object store copies, then removes.                                     *)
CopyObject(w) ==
    /\ At(w, "commit") /\ Destination[Blob(w)] = "s3"
    /\ LET b == Blob(w) IN
       \/ /\ partial[b] # NoFile /\ Works
          /\ final' = [final EXCEPT ![b] = partial[b]]
          /\ Goto(w, "remove")
       \/ /\ \/ partial[b] = NoFile /\ Works /\ Goto(w, "failing")
             \/ BreaksOff(w)
          /\ UNCHANGED final
    /\ UNCHANGED <<partial, catalog, at, copying, verified>>

RemoveObject(w) ==
    /\ At(w, "remove")
    /\ \/ Works /\ partial' = [partial EXCEPT ![Blob(w)] = NoFile] /\ Verified(w)
       \/ BreaksOff(w) /\ UNCHANGED <<partial, at, verified>>
    /\ UNCHANGED <<final, catalog, copying>>

(* The process of a preparation dies, or its context is cancelled while it   *)
(* cannot save anything more.                                                *)
Crash(w) ==
    /\ ~At(w, "idle") /\ ~At(w, "ready") /\ Breaks
    /\ Goto(w, "idle")
    /\ fd' = [fd EXCEPT ![w] = "none"]
    /\ UNCHANGED <<files, catalog, at, offset, input, verified>>

-----------------------------------------------------------------------------

PrepareStep(w) ==
    \/ Prepare(w) \/ SaveTransfer(w) \/ SaveRow(w) \/ CommitWorkspace(w) \/ SaveFailure(w)
    \/ CheckFinal(w) \/ SizePartial(w) \/ OpenSource(w)
    \/ OpenPartial(w) \/ Write(w) \/ CloseFile(w) \/ PutObject(w) \/ PutRsync(w)
    \/ VerifyPartial(w) \/ Rename(w) \/ CopyObject(w) \/ RemoveObject(w)

TransferNext == \E w \in Preparations : PrepareStep(w) \/ Crash(w)

TransferSpec == TransferInit /\ [][TransferNext]_transferVars

(* A preparation goes on while its process lives, and is tried again.        *)
FairTransferSpec == TransferSpec /\ \A w \in Preparations : WF_transferVars(PrepareStep(w))

-----------------------------------------------------------------------------
(* Properties *)

Needs(w) == {Plan(w)[i] : i \in 1..Requirement[w].artifact}
                \cup (IF Requirement[w].workspace THEN Missing(w) ELSE {})

(* No two preparations copy the same blob to the same place.                 *)
Disjoint ==
    \A v, w \in Preparations : v # w => PlanBlobs(v) \cap PlanBlobs(w) = {}

(* materialization.go:236: "Providers must not submit work before both       *)
(* artifact and workspace have a verified committed state."  When Prepare    *)
(* returns a gate, every blob the activity needs is complete at the          *)
(* destination, and remains so.                                              *)
GateHolds ==
    \A w \in Preparations : At(w, "ready") => \A b \in Needs(w) : final[b] = Content

(* A materialization the catalog calls committed (coordinator.go:37) is      *)
(* there: also after crashes between the file operations and the catalog's,  *)
(* and while it is being prepared again.                                     *)
CommittedIsThere ==
    \A w \in Preparations :
        row[w] = "committed" => \A i \in 1..Requirement[w].artifact : final[Plan(w)[i]] = Content

(* A blob that is complete at its destination is never damaged, not even     *)
(* for a moment (service.go:67-71, 106).                                     *)
FinalStays ==
    [][\A b \in Blobs : final[b] = Content => final'[b] = Content]_transferVars

OverRsync(w) == \E b \in PlanBlobs(w) : Destination[b] = "ssh"

(* A partial file that a web server cannot go on from (http.go:40-55): it    *)
(* has all bytes, and the range that begins at its end is refused, or the    *)
(* server knows no ranges and the whole blob is written behind it.           *)
Unresumable(b) ==
    /\ partial[b] # NoFile
    /\ \/ Source[b] = "http" /\ Len(partial[b]) >= Size
       \/ Source[b] = "plain http" /\ Len(partial[b]) > 0

(* A preparation that is repeated resumes partial files (service.go:72-80)   *)
(* and succeeds once the faults are over; otherwise they have left a partial *)
(* file of a web server's blob that no repetition gets rid of.               *)
Delivered(w) ==
    Missing(w) \subseteq WorkspacePlan(w) /\ ~OverRsync(w) =>
        <>At(w, "ready") \/ <>[](\E b \in PlanBlobs(w) : Unresumable(b))

(* The same over rsync: service.go:87-88, "SizeBytes is the verified object  *)
(* length. A resumed copy transfers only the remaining bytes."               *)
RsyncDelivered ==
    \A w \in Preparations :
        Missing(w) \subseteq WorkspacePlan(w) /\ OverRsync(w) => <>At(w, "ready")

=============================================================================
