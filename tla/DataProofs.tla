----------------------------- MODULE DataProofs ------------------------------
(***************************************************************************)
(* Proofs about the transfers of an execution (Transfer), the definitions  *)
(* of workflows (Workflows) and the paths that price the transfers of a    *)
(* simulation (NetworkPaths), for every plan, document and network.        *)
(*                                                                         *)
(* - Preparations that do not share a blob deliver what they promise,      *)
(*   whatever the sizes, connectors and interruptions.  The argument       *)
(*   follows one blob.  The partial file of the blob a preparation is at   *)
(*   is written by that preparation only, so what it has verified is what  *)
(*   it renames; final files are written by renaming only, so they stay    *)
(*   complete; and the blobs before the current one, those in              *)
(*   VerifiedBlobs and those of a committed row have been seen complete.   *)
(* - A definition is stored whole, and its export says what it says:       *)
(*   identifiers of activities are global, so the rows of one definition   *)
(*   never mix with another's.                                             *)
(* - A resource that is open is no nearer than one that was expanded, and  *)
(*   the links of those were followed: a route leaves them over a resource *)
(*   that is open and no farther than the route is long.  The length of a  *)
(*   route is a recursive function; that there is one that satisfies the   *)
(*   equation is shown by the least argument that would be an exception.   *)
(***************************************************************************)
EXTENDS Transfer, Workflows, NetworkPaths, FiniteSetTheorems, WellFoundedInduction, TLAPS

\* Where a preparation is at a blob of its plan.
Copying == {"check", "size", "open", "put", "write", "verify", "commit", "remove", "failing"}
Saving == {"saveTransfer", "saveRow"}

\* The part of the types the argument needs.
Shape ==
    /\ DOMAIN partial = Blobs /\ partial = [b \in Blobs |-> partial[b]]
    /\ DOMAIN final = Blobs /\ final = [b \in Blobs |-> final[b]]
    /\ row \in [Preparations -> {"none", "transferring", "committed", "failed"}]
    /\ pc \in [Preparations -> PCs]
    /\ at \in [Preparations -> Nat \ {0}]
    /\ fd \in [Preparations -> {"none", "partial", "final", "unlinked"}]
    /\ verified \in [Preparations -> SUBSET Blobs]

Complete == {b \in Blobs : final[b] = Content}
ArtifactBlobs(w) == {Plan(w)[i] : i \in 1..Requirement[w].artifact}

Place(w) ==
    /\ pc[w] \in Copying => at[w] <= Len(Plan(w))
    /\ pc[w] \in Saving => at[w] = Requirement[w].artifact
    /\ pc[w] = "commitWorkspace" => at[w] > Requirement[w].artifact /\ Requirement[w].workspace
PlaceInv == \A w \in Preparations : Place(w)

\* What holds of preparations that share no blob.
CopyInv ==
    \A w \in Preparations :
        /\ fd[w] # "final"
        /\ pc[w] = "commit" => partial[Blob(w)] = Content
        /\ pc[w] = "remove" => Blob(w) \in Complete
Advancing == (Copying \cup Saving \cup {"commitWorkspace"}) \ {"failing"}
Seen(w) ==
    /\ verified[w] \subseteq Complete
    /\ pc[w] \in Advancing => \A i \in 1..(at[w] - 1) : Plan(w)[i] \in Complete
    /\ pc[w] \in Saving => Blob(w) \in Complete
SeenInv == \A w \in Preparations : Seen(w)

TransferIInv ==
    /\ Shape
    /\ PlaceInv
    /\ Disjoint => CopyInv /\ SeenInv /\ GateHolds /\ CommittedIsThere

-----------------------------------------------------------------------------

(* The plans of Requirement are sequences of blobs.                          *)
LEMMA PlanFacts ==
    ASSUME NEW w \in Preparations
    PROVE  /\ Len(Plan(w)) \in Nat
           /\ Requirement[w].artifact \in 0..Len(Plan(w))
           /\ \A i \in 1..Len(Plan(w)) : Plan(w)[i] \in Blobs
           /\ Requirement[w].workspace \in BOOLEAN
           /\ Requirement[w].missing \subseteq Blobs
           /\ ~Requirement[w].workspace => Requirement[w].artifact = Len(Plan(w))
<1>1. Requirement[w] \in Requirements
  BY Zenon, TransferAssumption
<1>2. Plan(w) \in Seq(Blobs)
  BY Zenon, <1>1 DEF Requirements, Plan
<1>3. /\ Requirement[w].artifact \in Nat
      /\ Requirement[w].workspace \in BOOLEAN
      /\ Requirement[w].missing \subseteq Blobs
  BY Zenon, <1>1 DEF Requirements
<1>4. /\ Requirement[w].artifact <= Len(Plan(w))
      /\ ~Requirement[w].workspace => Requirement[w].artifact = Len(Plan(w))
  BY Zenon, TransferAssumption DEF Plan
<1> QED BY <1>2, <1>3, <1>4

(* The blob a preparation is at is one of its plan.                          *)
LEMMA BlobFacts ==
    ASSUME Shape, PlaceInv, NEW w \in Preparations, pc[w] \in Copying \cup Saving, at[w] <= Len(Plan(w))
    PROVE  Blob(w) \in Blobs /\ Blob(w) \in PlanBlobs(w)
<1>1. at[w] \in 1..Len(Plan(w))
  BY PlanFacts DEF Shape
<1> QED BY Zenon, <1>1, PlanFacts DEF Blob, PlanBlobs

-----------------------------------------------------------------------------
(* What a step may change *)

Steps(w) == PrepareStep(w) \/ Crash(w)

\* Everything of the other preparations but their open files.
Others(w) ==
    \A v \in Preparations \ {w} :
        pc'[v] = pc[v] /\ at'[v] = at[v] /\ verified'[v] = verified[v] /\ row'[v] = row[v]

(* Where the loop over a plan goes on is a place of the code.                *)
LEMMA LoopPlace == ASSUME NEW w, NEW i PROVE Loop(w, i) \in PCs
BY Zenon DEF Loop, PCs

(* Turning to the next blob changes the preparation's own place and          *)
(* VerifiedBlobs.                                                            *)
LEMMA VerifiedShape ==
    ASSUME Shape, NEW w \in Preparations, Blob(w) \in Blobs, Verified(w)
    PROVE  /\ pc' \in [Preparations -> PCs]
           /\ at' \in [Preparations -> Nat \ {0}]
           /\ verified' \in [Preparations -> SUBSET Blobs]
           /\ \A v \in Preparations \ {w} :
                 pc'[v] = pc[v] /\ at'[v] = at[v] /\ verified'[v] = verified[v]
<1>1. verified' \in [Preparations -> SUBSET Blobs]
  BY Zenon DEF Verified, Shape
<1>2. at[w] \in Nat \ {0} /\ at[w] + 1 \in Nat \ {0}
  BY DEF Shape
<1>3. at' \in [Preparations -> Nat \ {0}]
  BY <1>2 DEF Verified, Shape
<1>4. "saveTransfer" \in PCs
  BY Zenon DEF PCs
<1>5. pc' \in [Preparations -> PCs]
  BY <1>4, LoopPlace DEF Verified, Shape, Goto
<1>6. \A v \in Preparations \ {w} :
          pc'[v] = pc[v] /\ at'[v] = at[v] /\ verified'[v] = verified[v]
  BY Zenon DEF Verified, Shape, Goto
<1> QED BY Zenon, <1>1, <1>3, <1>5, <1>6

(* A step of a preparation is a step of its own place, VerifiedBlobs and     *)
(* row, and keeps the types.                                                 *)
LEMMA ShapeStep ==
    ASSUME Shape, PlaceInv, NEW w \in Preparations, Steps(w)
    PROVE  Shape' /\ Others(w)
<1>0. pc[w] \in Copying \cup Saving => Blob(w) \in Blobs
  BY BlobFacts, PlanFacts DEF PlaceInv, Place, Saving, Copying
<1> USE DEF Shape, Others, PCs, Goto, At, files, catalog, copying, BreaksOff, Copying, Saving
<1>1. CASE Prepare(w)
  BY <1>1, LoopPlace DEF Prepare
<1>2. CASE SaveTransfer(w)
  BY Zenon, <1>0, <1>2 DEF SaveTransfer
<1>3. CASE SaveRow(w)
  BY <1>3, LoopPlace DEF SaveRow
<1>4. CASE CommitWorkspace(w)
  BY Zenon, <1>0, <1>4 DEF CommitWorkspace
<1>5. CASE SaveFailure(w)
  BY Zenon, <1>0, <1>5 DEF SaveFailure
<1>6. CASE CheckFinal(w)
  <2>1. CASE Verified(w)
    BY Zenon, <1>0, <1>6, <2>1, VerifiedShape DEF CheckFinal
  <2>2. CASE ~Verified(w)
    BY Zenon, <1>6, <2>2 DEF CheckFinal
  <2> QED BY Zenon, <2>1, <2>2
<1>7. CASE SizePartial(w)
  BY Zenon, <1>0, <1>7 DEF SizePartial
<1>8. CASE OpenSource(w)
  BY Zenon, <1>0, <1>8 DEF OpenSource
<1>9. CASE CloseFile(w)
  BY Zenon, <1>0, <1>9 DEF CloseFile
<1>10. CASE VerifyPartial(w)
  BY Zenon, <1>0, <1>10 DEF VerifyPartial
<1>11. CASE Crash(w)
  BY Zenon, <1>0, <1>11 DEF Crash
<1>12. CASE OpenPartial(w)
  BY ZenonT(60), <1>0, <1>12 DEF OpenPartial
<1>13. CASE Write(w)
  BY Zenon, <1>0, <1>13 DEF Write
<1>14. CASE PutObject(w)
  BY ZenonT(60), <1>0, <1>14 DEF PutObject
<1>15. CASE PutRsync(w)
  BY <1>0, <1>15 DEF PutRsync
<1>16. CASE Rename(w)
  <2>1. /\ DOMAIN partial' = Blobs /\ partial' = [b \in Blobs |-> partial'[b]]
        /\ DOMAIN final' = Blobs /\ final' = [b \in Blobs |-> final'[b]]
        /\ row' = row
    BY <1>0, <1>16 DEF Rename
  <2>2. fd' \in [Preparations -> {"none", "partial", "final", "unlinked"}]
    BY Zenon, <1>16 DEF Rename
  <2>3. CASE Verified(w)
    BY Zenon, <1>0, <1>16, <2>1, <2>2, <2>3, VerifiedShape DEF Rename
  <2>4. CASE ~Verified(w)
    BY Zenon, <1>16, <2>1, <2>2, <2>4 DEF Rename
  <2> QED BY Zenon, <2>3, <2>4
<1>17. CASE CopyObject(w)
  BY <1>0, <1>17 DEF CopyObject
<1>18. CASE RemoveObject(w)
  <2>1. CASE Verified(w)
    BY <1>0, <1>18, <2>1, VerifiedShape DEF RemoveObject
  <2>2. CASE ~Verified(w)
    BY Zenon, <1>18, <2>2 DEF RemoveObject
  <2> QED BY Zenon, <2>1, <2>2
<1> QED BY Zenon, <1>1, <1>2, <1>3, <1>4, <1>5, <1>6, <1>7, <1>8, <1>9, <1>10, <1>11, <1>12, <1>13, <1>14, <1>15, <1>16, <1>17, <1>18 DEF Steps, PrepareStep

(* The loop over a plan goes on at a blob while there is one.                *)
LEMMA LoopPlaceInv ==
    ASSUME NEW w \in Preparations, NEW i \in 1..(Len(Plan(w)) + 1),
           pc'[w] = Loop(w, i), at'[w] = i
    PROVE  Place(w)'
BY PlanFacts DEF Loop, Place, Copying, Saving

(* A preparation stays within its plan.                                      *)
LEMMA PlaceStep ==
    ASSUME Shape, PlaceInv, NEW w \in Preparations, Steps(w)
    PROVE  PlaceInv'
<1>1. Shape' /\ Others(w)
  BY Zenon, ShapeStep
<1>2. \A v \in Preparations \ {w} : Place(v)'
  BY Zenon, <1>1 DEF Others, PlaceInv, Place
<1>3. Place(w) /\ at[w] \in Nat \ {0} /\ Len(Plan(w)) \in Nat /\ Requirement[w].artifact \in 0..Len(Plan(w))
  BY Zenon, PlanFacts DEF PlaceInv, Shape
<1>4. Place(w)'
  <2>1. CASE Prepare(w) /\ pc'[w] = "idle"
    BY Zenon, <2>1 DEF Place, Copying, Saving
  <2>2. CASE Prepare(w) /\ pc'[w] # "idle"
    <3>1. pc'[w] = Loop(w, 1) /\ at'[w] = 1
      BY Zenon, <2>2 DEF Prepare, Goto, At, Shape
    <3> QED BY <1>3, <3>1, LoopPlaceInv
  <2>3. CASE SaveRow(w)
    <3>1. CASE pc'[w] = "idle"
      BY Zenon, <3>1 DEF Place, Copying, Saving
    <3>2. CASE pc'[w] # "idle"
      <4>1. pc'[w] = Loop(w, at[w] + 1) /\ at'[w] = at[w] + 1 /\ pc[w] = "saveRow"
        BY Zenon, <2>3, <3>2 DEF SaveRow, Goto, At, Shape
      <4>2. at[w] + 1 \in 1..(Len(Plan(w)) + 1)
        BY <1>3, <4>1 DEF Place, Saving
      <4> QED BY Zenon, <4>1, <4>2, LoopPlaceInv
    <3> QED BY Zenon, <3>1, <3>2
  <2>4. CASE Verified(w) /\ pc[w] \in Copying
    <3>1. CASE at[w] = Requirement[w].artifact
      BY Zenon, <2>4, <3>1 DEF Verified, Goto, Place, Copying, Saving, Shape
    <3>2. CASE at[w] # Requirement[w].artifact
      <4>1. pc'[w] = Loop(w, at[w] + 1) /\ at'[w] = at[w] + 1
        BY Zenon, <2>4, <3>2 DEF Verified, Goto, Shape
      <4>2. at[w] + 1 \in 1..(Len(Plan(w)) + 1)
        BY <1>3, <2>4 DEF Place
      <4> QED BY Zenon, <4>1, <4>2, LoopPlaceInv
    <3> QED BY Zenon, <3>1, <3>2
  <2>5. CASE SaveTransfer(w) \/ CommitWorkspace(w) \/ SaveFailure(w) \/ Crash(w)
    BY <1>3, <2>5 DEF SaveTransfer, CommitWorkspace, SaveFailure, Crash, Goto, At, Place, Copying, Saving, Shape
  <2>6. CASE at' = at /\ pc[w] \in Copying /\ pc'[w] \in Copying
    BY Zenon, <1>3, <2>6 DEF Place, Copying, Saving
  <2>7. CASE CheckFinal(w) \/ Rename(w) \/ RemoveObject(w)
    <3>1. pc[w] \in Copying /\ (Verified(w) \/ (at' = at /\ pc'[w] \in Copying))
      BY Zenon, <2>7 DEF CheckFinal, Rename, RemoveObject, BreaksOff, Goto, At, Copying, Shape
    <3> QED BY Zenon, <2>4, <2>6, <3>1
  <2>8. CASE \/ SizePartial(w) \/ OpenSource(w) \/ OpenPartial(w) \/ Write(w) \/ CloseFile(w)
             \/ PutObject(w) \/ PutRsync(w) \/ VerifyPartial(w) \/ CopyObject(w)
    <3>1. at' = at /\ pc[w] \in Copying /\ pc'[w] \in Copying
      BY Zenon, <2>8 DEF SizePartial, OpenSource, OpenPartial, Write, CloseFile, PutObject, PutRsync,
                  VerifyPartial, CopyObject, BreaksOff, Goto, At, Copying, Shape
    <3> QED BY Zenon, <2>6, <3>1
  <2> QED BY Zenon, <2>1, <2>2, <2>3, <2>5, <2>7, <2>8 DEF Steps, PrepareStep
<1> QED BY Zenon, <1>2, <1>4 DEF PlaceInv

-----------------------------------------------------------------------------
(* What happens to the files *)

\* The steps that leave the files alone.
Unwriting(w) ==
    \/ Prepare(w) \/ SaveTransfer(w) \/ SaveRow(w) \/ CommitWorkspace(w) \/ SaveFailure(w)
    \/ CheckFinal(w) \/ SizePartial(w) \/ OpenSource(w) \/ CloseFile(w) \/ VerifyPartial(w)
    \/ Crash(w)

(* Files are written by the connectors' Put and Commit only.                 *)
LEMMA UnwritingFiles ==
    ASSUME NEW w, Unwriting(w) PROVE UNCHANGED <<partial, final>>
BY Zenon DEF Unwriting, Prepare, SaveTransfer, SaveRow, CommitWorkspace, SaveFailure, CheckFinal,
       SizePartial, OpenSource, CloseFile, VerifyPartial, Crash, files

(* Final files change by committing what was verified (service.go:99-106).   *)
LEMMA FinalWritten ==
    ASSUME Shape, PlaceInv, CopyInv, NEW w \in Preparations, Steps(w), NEW b \in Blobs
    PROVE  final'[b] = final[b] \/ final'[b] = Content
<1>0. pc[w] \in Copying => Blob(w) \in Blobs
  BY Zenon, BlobFacts DEF PlaceInv, Place
<1>1. CASE Unwriting(w)
  BY Zenon, <1>1, UnwritingFiles
<1>2. CASE OpenPartial(w) \/ PutObject(w) \/ PutRsync(w) \/ RemoveObject(w)
  BY Zenon, <1>2 DEF OpenPartial, PutObject, PutRsync, RemoveObject
<1>3. CASE Write(w)
  BY Zenon, <1>3 DEF Write, CopyInv
<1>4. CASE Rename(w) \/ CopyObject(w)
  <2>1. UNCHANGED final \/ final' = [final EXCEPT ![Blob(w)] = partial[Blob(w)]]
    BY Zenon, <1>4 DEF Rename, CopyObject, files
  <2>2. partial[Blob(w)] = Content
    BY Zenon, <1>4 DEF Rename, CopyObject, At, CopyInv
  <2> QED BY Zenon, <2>1, <2>2 DEF Shape
<1> QED BY Zenon, <1>1, <1>2, <1>3, <1>4 DEF Steps, PrepareStep, Unwriting

(* What is complete stays complete.                                          *)
LEMMA CompleteStays ==
    ASSUME Shape, PlaceInv, CopyInv, NEW w \in Preparations, Steps(w)
    PROVE  Complete \subseteq Complete'
BY Zenon, FinalWritten DEF Complete

(* A preparation writes the partial file of its own blob only.               *)
LEMMA PartialWritten ==
    ASSUME Shape, PlaceInv, NEW w \in Preparations, Steps(w), NEW b \in Blobs
    PROVE  partial'[b] = partial[b] \/ (pc[w] \in Copying /\ b = Blob(w))
<1>1. CASE Unwriting(w)
  BY Zenon, <1>1, UnwritingFiles
<1>2. CASE OpenPartial(w)
  BY Zenon, <1>2 DEF OpenPartial, At, Copying, Shape
<1>3. CASE Write(w)
  BY Zenon, <1>3 DEF Write, At, Copying, Shape
<1>4. CASE PutObject(w)
  BY Zenon, <1>4 DEF PutObject, At, Copying, Shape
<1>5. CASE PutRsync(w)
  BY Zenon, <1>5 DEF PutRsync, At, Copying, Shape
<1>6. CASE Rename(w)
  BY Zenon, <1>6 DEF Rename, At, Copying, Shape, files
<1>7. CASE CopyObject(w)
  BY Zenon, <1>7 DEF CopyObject
<1>8. CASE RemoveObject(w)
  BY Zenon, <1>8 DEF RemoveObject, At, Copying, Shape
<1> QED BY Zenon, <1>1, <1>2, <1>3, <1>4, <1>5, <1>6, <1>7, <1>8 DEF Steps, PrepareStep, Unwriting

(* Two preparations are never at the same blob.                              *)
LEMMA ApartBlobs ==
    ASSUME Shape, PlaceInv, Disjoint, NEW v \in Preparations, NEW w \in Preparations, v # w,
           pc[v] \in Copying, pc[w] \in Copying
    PROVE  Blob(v) # Blob(w)
<1>1. Blob(v) \in PlanBlobs(v) /\ Blob(w) \in PlanBlobs(w)
  BY Zenon, BlobFacts DEF PlaceInv, Place
<1> QED BY Zenon, <1>1 DEF Disjoint

(* Nobody has a final file open for writing.                                 *)
LEMMA FdStep ==
    ASSUME Shape, PlaceInv, CopyInv, Disjoint, NEW w \in Preparations, Steps(w),
           NEW v \in Preparations
    PROVE  fd'[v] # "final"
<1>0. fd[v] # "final" /\ fd[w] # "final"
  BY Zenon DEF CopyInv
<1>1. CASE Rename(w)
  <2>1. pc[w] = "commit"
    BY Zenon, <1>1 DEF Rename, At
  <2>2. ~(pc[v] = "write" /\ Blob(v) = Blob(w))
    BY Zenon, <2>1, ApartBlobs DEF Copying
  <2> QED BY Zenon, <1>0, <1>1, <2>2 DEF Rename, At
<1>2. CASE OpenPartial(w) \/ CloseFile(w) \/ Crash(w)
  BY Zenon, <1>0, <1>2 DEF OpenPartial, CloseFile, Crash, Shape
<1>3. CASE ~(Rename(w) \/ OpenPartial(w) \/ CloseFile(w) \/ Crash(w))
  <2>1. fd' = fd
    BY Zenon, <1>3 DEF Steps, PrepareStep, Prepare, SaveTransfer, SaveRow, CommitWorkspace, SaveFailure,
                CheckFinal, SizePartial, OpenSource, Write, PutObject, PutRsync, VerifyPartial,
                CopyObject, RemoveObject, copying
  <2> QED BY Zenon, <1>0, <2>1
<1> QED BY Zenon, <1>1, <1>2, <1>3

(* What a preparation is about to commit is what it has verified.            *)
LEMMA CopyStep ==
    ASSUME Shape, PlaceInv, CopyInv, Disjoint, NEW w \in Preparations, Steps(w)
    PROVE  CopyInv'
<1>1. Shape' /\ Others(w) /\ PlaceInv'
  BY Zenon, ShapeStep, PlaceStep
<1>2. Complete \subseteq Complete'
  BY Zenon, CompleteStays
<1>3. ASSUME NEW v \in Preparations, v # w
      PROVE /\ pc'[v] = "commit" => partial'[Blob(v)'] = Content
            /\ pc'[v] = "remove" => Blob(v)' \in Complete'
  <2>1. pc'[v] = pc[v] /\ Blob(v)' = Blob(v)
    BY Zenon, <1>1, <1>3 DEF Others, Blob
  <2>2. ASSUME pc[v] = "commit" PROVE partial'[Blob(v)] = Content
    <3>1. Blob(v) \in Blobs
      BY Zenon, <2>2, BlobFacts DEF PlaceInv, Place, Copying
    <3>2. ~(pc[w] \in Copying /\ Blob(v) = Blob(w))
      BY Zenon, <1>3, <2>2, ApartBlobs DEF Copying
    <3>3. partial[Blob(v)] = Content
      BY Zenon, <2>2 DEF CopyInv
    <3> QED BY Zenon, <3>1, <3>2, <3>3, PartialWritten
  <2>3. pc[v] = "remove" => Blob(v) \in Complete'
    BY Zenon, <1>2 DEF CopyInv
  <2> QED BY Zenon, <2>1, <2>2, <2>3
<1>4. pc'[w] = "commit" => partial'[Blob(w)'] = Content
  <2>1. CASE VerifyPartial(w)
    BY Zenon, <2>1 DEF VerifyPartial, BreaksOff, Goto, At, Blob, files, Shape
  <2>2. CASE ~VerifyPartial(w)
    <3>1. pc'[w] # "commit"
      BY ZenonT(60), <2>2 DEF Steps, PrepareStep, Prepare, SaveTransfer, SaveRow, CommitWorkspace, SaveFailure,
                  CheckFinal, SizePartial, OpenSource, OpenPartial, Write, CloseFile, PutObject,
                  PutRsync, Rename, CopyObject, RemoveObject, Crash, Verified, BreaksOff, Goto, At,
                  Loop, Shape
    <3> QED BY Zenon, <3>1
  <2> QED BY Zenon, <2>1, <2>2
<1>5. pc'[w] = "remove" => Blob(w)' \in Complete'
  <2>1. CASE CopyObject(w) /\ pc'[w] = "remove"
    <3>1. pc[w] = "commit" /\ final' = [final EXCEPT ![Blob(w)] = partial[Blob(w)]] /\ at' = at
      BY Zenon, <2>1 DEF CopyObject, BreaksOff, Goto, At, Shape
    <3>2. Blob(w) \in Blobs /\ partial[Blob(w)] = Content /\ Blob(w)' = Blob(w)
      BY Zenon, <3>1, BlobFacts DEF PlaceInv, Place, Copying, CopyInv, Blob
    <3> QED BY Zenon, <3>1, <3>2 DEF Complete, Shape
  <2>2. CASE ~CopyObject(w)
    <3>1. pc'[w] # "remove"
      BY ZenonT(60), <2>2 DEF Steps, PrepareStep, Prepare, SaveTransfer, SaveRow, CommitWorkspace, SaveFailure,
                  CheckFinal, SizePartial, OpenSource, OpenPartial, Write, CloseFile, PutObject,
                  PutRsync, Rename, VerifyPartial, RemoveObject, Crash, Verified, BreaksOff, Goto, At,
                  Loop, Shape
    <3> QED BY Zenon, <3>1
  <2> QED BY Zenon, <2>1, <2>2
<1> QED BY Zenon, <1>3, <1>4, <1>5, FdStep DEF CopyInv

-----------------------------------------------------------------------------
(* What a preparation has seen *)

\* The steps that put a blob into VerifiedBlobs.
Sees(w) == (CheckFinal(w) \/ Rename(w) \/ RemoveObject(w)) /\ Verified(w) /\ pc'[w] \notin {"size", "failing"}

(* A blob that is taken as verified is complete (service.go:68-69, 106-109). *)
LEMMA SeesComplete ==
    ASSUME Shape, PlaceInv, CopyInv, NEW w \in Preparations, Sees(w)
    PROVE  Blob(w) \in Complete'
<1>1. pc[w] \in Copying
  BY Zenon DEF Sees, CheckFinal, Rename, RemoveObject, At, Copying
<1>2. Blob(w) \in Blobs
  BY Zenon, <1>1, BlobFacts DEF PlaceInv, Place
<1>3. CASE CheckFinal(w)
  <2>1. final[Blob(w)] = Content /\ final' = final
    BY Zenon, <1>3 DEF CheckFinal, Sees, Goto, files, Shape
  <2> QED BY Zenon, <1>2, <2>1 DEF Complete
<1>4. CASE Rename(w)
  <2>1. final' = [final EXCEPT ![Blob(w)] = partial[Blob(w)]] /\ partial[Blob(w)] = Content
    BY Zenon, <1>4 DEF Rename, BreaksOff, Sees, Goto, At, Shape, CopyInv
  <2> QED BY Zenon, <1>2, <2>1 DEF Complete, Shape
<1>5. CASE RemoveObject(w)
  <2>1. final' = final /\ Blob(w) \in Complete
    BY Zenon, <1>5 DEF RemoveObject, At, CopyInv
  <2> QED BY Zenon, <2>1 DEF Complete
<1> QED BY Zenon, <1>3, <1>4, <1>5 DEF Sees

(* A step that sees nothing, prepares nothing and saves no row keeps the     *)
(* place among the blobs.                                                    *)
LEMMA Unseeing ==
    ASSUME Shape, NEW w \in Preparations, Steps(w), ~Sees(w), ~Prepare(w), ~SaveRow(w)
    PROVE  /\ at'[w] = at[w] /\ verified'[w] = verified[w]
           /\ pc'[w] \in Advancing => pc[w] \in Advancing
           /\ pc'[w] \in Saving => pc[w] \in Saving
<1> USE DEF BreaksOff, Goto, At, Shape, Advancing, Copying, Saving
<1>1. CASE CheckFinal(w)
  <2>1. pc[w] = "check" /\ at' = at /\ verified' = verified /\ pc'[w] = "size"
    BY <1>1, LoopPlace DEF CheckFinal, Sees, Verified, Loop
  <2> QED BY Zenon, <2>1
<1>2. CASE Rename(w)
  <2>1. pc[w] = "commit" /\ at' = at /\ verified' = verified /\ pc'[w] = "failing"
    BY <1>2 DEF Rename, Sees, Verified, Loop
  <2> QED BY Zenon, <2>1
<1>3. CASE RemoveObject(w)
  <2>1. pc[w] = "remove" /\ at' = at /\ verified' = verified /\ pc'[w] = "failing"
    BY <1>3 DEF RemoveObject, Sees, Verified, Loop
  <2> QED BY Zenon, <2>1
<1>4. CASE SaveTransfer(w)
  BY Zenon, <1>4 DEF SaveTransfer
<1>5. CASE CommitWorkspace(w) \/ SaveFailure(w) \/ Crash(w)
  BY Zenon, <1>5 DEF CommitWorkspace, SaveFailure, Crash
<1>6. CASE \/ SizePartial(w) \/ OpenSource(w) \/ OpenPartial(w) \/ Write(w) \/ CloseFile(w)
           \/ PutObject(w) \/ PutRsync(w) \/ VerifyPartial(w) \/ CopyObject(w)
  <2>1. at' = at /\ verified' = verified /\ pc[w] \in Copying \ {"failing"} /\ pc'[w] \in Copying
    BY Zenon, <1>6 DEF SizePartial, OpenSource, OpenPartial, Write, CloseFile, PutObject, PutRsync,
                VerifyPartial, CopyObject
  <2> QED BY Zenon, <2>1
<1> QED BY Zenon, <1>1, <1>2, <1>3, <1>4, <1>5, <1>6 DEF Steps, PrepareStep

(* What a preparation has seen stays complete, and what it sees next is      *)
(* (service.go:67-71, 106-110).                                              *)
LEMMA SeenStep ==
    ASSUME Shape, PlaceInv, CopyInv, SeenInv, NEW w \in Preparations, Steps(w)
    PROVE  SeenInv'
<1>1. Shape' /\ Others(w) /\ Complete \subseteq Complete'
  BY Zenon, ShapeStep, CompleteStays
<1>2. SUFFICES Seen(w)'
  <2>1. ASSUME NEW v \in Preparations, v # w PROVE Seen(v)'
    <3>1. pc'[v] = pc[v] /\ at'[v] = at[v] /\ verified'[v] = verified[v]
      BY Zenon, <1>1, <2>1 DEF Others
    <3> QED BY Zenon, <1>1, <3>1 DEF SeenInv, Seen, Blob, Plan
  <2> QED BY Zenon, <2>1 DEF SeenInv
<1>3. Seen(w) /\ at[w] \in Nat \ {0}
  BY Zenon DEF SeenInv, Shape
<1>4. CASE ~Sees(w) /\ ~Prepare(w) /\ ~SaveRow(w)
  <2>1. /\ at'[w] = at[w] /\ verified'[w] = verified[w]
        /\ pc'[w] \in Advancing => pc[w] \in Advancing
        /\ pc'[w] \in Saving => pc[w] \in Saving
    BY Zenon, <1>4, Unseeing
  <2> QED BY Zenon, <1>1, <1>3, <2>1 DEF Seen, Blob, Plan
<1>5. CASE Sees(w)
  <2>1. Blob(w) \in Complete'
    BY Zenon, <1>5, SeesComplete
  <2>2. pc[w] \in Advancing
    BY Zenon, <1>5 DEF Sees, CheckFinal, Rename, RemoveObject, At, Advancing, Copying
  <2>3. verified'[w] = verified[w] \cup {Blob(w)}
    BY Zenon, <1>5 DEF Sees, Verified, Shape
  <2>4. \A i \in 1..at[w] : Plan(w)[i] \in Complete'
    BY <1>1, <1>3, <2>1, <2>2 DEF Seen, Blob
  <2>5. CASE at[w] = Requirement[w].artifact
    <3>1. at'[w] = at[w]
      BY Zenon, <1>5, <2>5 DEF Sees, Verified
    <3> QED BY <1>1, <1>3, <2>1, <2>3, <2>4, <3>1 DEF Seen, Blob, Plan
  <2>6. CASE at[w] # Requirement[w].artifact
    <3>1. at'[w] = at[w] + 1 /\ pc'[w] = Loop(w, at[w] + 1)
      BY Zenon, <1>5, <2>6 DEF Sees, Verified, Goto, Shape
    <3>2. pc'[w] \notin Saving
      BY Zenon, <3>1 DEF Loop, Saving
    <3> QED BY <1>1, <1>3, <2>1, <2>3, <2>4, <3>1, <3>2 DEF Seen, Plan
  <2> QED BY Zenon, <2>5, <2>6
<1>6. CASE Prepare(w)
  <2>1. at'[w] = 1 /\ verified'[w] = {} /\ pc'[w] \notin Saving
    BY <1>6 DEF Prepare, Goto, Loop, Saving, At, Shape
  <2> QED BY <2>1 DEF Seen
<1>7. CASE SaveRow(w)
  <2>1. pc[w] \in Saving /\ pc[w] \in Advancing
    BY Zenon, <1>7 DEF SaveRow, At, Saving, Advancing, Copying
  <2>2. \A i \in 1..at[w] : Plan(w)[i] \in Complete'
    BY <1>1, <1>3, <2>1 DEF Seen, Blob
  <2>3. \/ at'[w] = at[w] + 1 /\ verified'[w] = {} /\ pc'[w] \notin Saving
        \/ at'[w] = at[w] /\ verified'[w] = verified[w] /\ pc'[w] = "idle"
    BY <1>7 DEF SaveRow, Goto, Loop, Saving, At, Shape
  <2> QED BY <1>1, <1>3, <2>2, <2>3 DEF Seen, Plan, Advancing, Copying, Saving
<1> QED BY Zenon, <1>4, <1>5, <1>6, <1>7

-----------------------------------------------------------------------------
(* The promises *)

(* What an activity needs are blobs.                                         *)
LEMMA NeedsFacts == ASSUME NEW w \in Preparations PROVE Needs(w) \subseteq Blobs
<1>1. \A i \in 1..Requirement[w].artifact : Plan(w)[i] \in Blobs
  BY PlanFacts
<1>2. WorkspacePlan(w) \subseteq Blobs
  BY PlanFacts DEF WorkspacePlan
<1>3. Missing(w) \subseteq Blobs
  BY Zenon, <1>2, PlanFacts DEF Missing
<1> QED BY Zenon, <1>1, <1>3 DEF Needs

(* The step that saves the row has seen all blobs of the artifact.           *)
LEMMA ArtifactSeen ==
    ASSUME Shape, PlaceInv, SeenInv, NEW w \in Preparations,
           pc[w] \in Saving \cup {"commitWorkspace"}
    PROVE  ArtifactBlobs(w) \subseteq Complete
<1>1. at[w] \in Nat \ {0} /\ Requirement[w].artifact \in Nat /\ pc[w] \in Advancing
  BY PlanFacts DEF Shape, Advancing, Copying, Saving
<1>2. \A i \in 1..(at[w] - 1) : Plan(w)[i] \in Complete
  BY Zenon, <1>1 DEF SeenInv, Seen
<1>3. CASE pc[w] \in Saving
  <2>1. at[w] = Requirement[w].artifact /\ Plan(w)[at[w]] \in Complete
    BY Zenon, <1>3 DEF PlaceInv, Place, SeenInv, Seen, Blob
  <2> QED BY <1>1, <1>2, <2>1 DEF ArtifactBlobs
<1>4. CASE pc[w] = "commitWorkspace"
  <2>1. at[w] > Requirement[w].artifact
    BY Zenon, <1>4 DEF PlaceInv, Place
  <2> QED BY <1>1, <1>2, <2>1 DEF ArtifactBlobs
<1> QED BY Zenon, <1>3, <1>4

(* A preparation becomes ready when the last transfer it needs is done       *)
(* (coordinator.go:33-64).                                                   *)
LEMMA BecomesReady ==
    ASSUME Shape, PlaceInv, NEW w \in Preparations, Steps(w), pc[w] # "ready", pc'[w] = "ready"
    PROVE  \/ ArtifactBlobs(w) = {} /\ ~Requirement[w].workspace
           \/ SaveRow(w) /\ ~Requirement[w].workspace
           \/ CommitWorkspace(w) /\ Missing(w) \subseteq verified[w]
<1> USE DEF BreaksOff, Goto, At, Shape
<1>0. Requirement[w].artifact \in Nat /\ Len(Plan(w)) \in Nat
  BY PlanFacts
<1>1. CASE Prepare(w)
  <2>1. Loop(w, 1) = "ready"
    BY Zenon, <1>1 DEF Prepare
  <2> QED BY <1>0, <2>1 DEF Loop, ArtifactBlobs
<1>2. CASE SaveRow(w)
  <2>1. Loop(w, at[w] + 1) = "ready"
    BY Zenon, <1>2 DEF SaveRow
  <2> QED BY Zenon, <1>2, <2>1 DEF Loop
<1>3. CASE CommitWorkspace(w)
  BY Zenon, <1>3 DEF CommitWorkspace
<1>4. CASE Verified(w) /\ pc[w] \in Copying
  <2>1. at[w] # Requirement[w].artifact /\ Loop(w, at[w] + 1) = "ready"
    BY Zenon, <1>4 DEF Verified
  <2>2. at[w] <= Len(Plan(w)) /\ at[w] \in Nat
    BY Zenon, <1>4 DEF PlaceInv, Place
  <2> QED BY <1>0, <2>1, <2>2, PlanFacts DEF Loop
<1>5. CASE \/ SaveTransfer(w) \/ SaveFailure(w) \/ Crash(w)
  BY Zenon, <1>5 DEF SaveTransfer, SaveFailure, Crash
<1>6. CASE CheckFinal(w) \/ Rename(w) \/ RemoveObject(w)
  BY Zenon, <1>4, <1>6 DEF CheckFinal, Rename, RemoveObject, Copying
<1>7. CASE \/ SizePartial(w) \/ OpenSource(w) \/ OpenPartial(w) \/ Write(w) \/ CloseFile(w)
           \/ PutObject(w) \/ PutRsync(w) \/ VerifyPartial(w) \/ CopyObject(w)
  BY ZenonT(60), <1>7 DEF SizePartial, OpenSource, OpenPartial, Write, CloseFile, PutObject, PutRsync,
              VerifyPartial, CopyObject
<1> QED BY Zenon, <1>1, <1>2, <1>3, <1>5, <1>6, <1>7 DEF Steps, PrepareStep

(* Every step keeps the gate's promise.                                      *)
LEMMA GateStep ==
    ASSUME Shape, PlaceInv, CopyInv, SeenInv, GateHolds, NEW w \in Preparations, Steps(w)
    PROVE  GateHolds'
<1>1. Others(w) /\ Complete \subseteq Complete'
  BY Zenon, ShapeStep, CompleteStays
<1>2. SUFFICES ASSUME NEW v \in Preparations, pc'[v] = "ready" PROVE Needs(v) \subseteq Complete'
  BY Zenon DEF GateHolds, At, Complete, Needs, Missing, WorkspacePlan, Plan
<1>3. CASE pc[v] = "ready"
  BY Zenon, <1>1, <1>3, NeedsFacts DEF GateHolds, At, Complete
<1>4. CASE pc[v] # "ready"
  <2>1. v = w
    BY Zenon, <1>1, <1>2, <1>4 DEF Others
  <2>2. CASE ArtifactBlobs(w) = {} /\ ~Requirement[w].workspace
    BY Zenon, <2>1, <2>2 DEF Needs, ArtifactBlobs
  <2>3. CASE SaveRow(w) /\ ~Requirement[w].workspace
    <3>1. ArtifactBlobs(w) \subseteq Complete
      BY Zenon, <2>3, ArtifactSeen DEF SaveRow, At, Saving
    <3> QED BY Zenon, <1>1, <2>1, <2>3, <3>1 DEF Needs, ArtifactBlobs
  <2>4. CASE CommitWorkspace(w) /\ Missing(w) \subseteq verified[w]
    <3>1. ArtifactBlobs(w) \subseteq Complete
      BY Zenon, <2>4, ArtifactSeen DEF CommitWorkspace, At
    <3>2. Missing(w) \subseteq Complete
      BY Zenon, <2>4 DEF SeenInv, Seen
    <3> QED BY Zenon, <1>1, <2>1, <3>1, <3>2 DEF Needs, ArtifactBlobs
  <2> QED BY Zenon, <1>2, <1>4, <2>1, <2>2, <2>3, <2>4, BecomesReady
<1> QED BY Zenon, <1>3, <1>4

(* A row becomes committed by SaveRow only (coordinator.go:37-38).           *)
LEMMA BecomesCommitted ==
    ASSUME Shape, NEW w \in Preparations, Steps(w), row[w] # "committed", row'[w] = "committed"
    PROVE  SaveRow(w)
<1>1. Prepare(w) \/ SaveFailure(w) => row'[w] # "committed"
  BY Zenon DEF Prepare, SaveFailure, Shape, catalog
<1>2. \/ Prepare(w) \/ SaveFailure(w) \/ SaveRow(w) \/ row' = row
  BY Zenon DEF Steps, PrepareStep, SaveTransfer, CommitWorkspace, CheckFinal, SizePartial, OpenSource,
         OpenPartial, Write, CloseFile, PutObject, PutRsync, VerifyPartial, Rename, CopyObject,
         RemoveObject, Crash, catalog
<1> QED BY Zenon, <1>1, <1>2

(* Every step keeps the promise of committed rows.                           *)
LEMMA CommittedStep ==
    ASSUME Shape, PlaceInv, CopyInv, SeenInv, CommittedIsThere, NEW w \in Preparations, Steps(w)
    PROVE  CommittedIsThere'
<1>1. Others(w) /\ Complete \subseteq Complete'
  BY Zenon, ShapeStep, CompleteStays
<1>2. SUFFICES ASSUME NEW v \in Preparations, row'[v] = "committed"
               PROVE  ArtifactBlobs(v) \subseteq Complete'
  BY DEF CommittedIsThere, ArtifactBlobs, Complete, Plan
<1>3. CASE row[v] = "committed"
  <2>1. \A i \in 1..Requirement[v].artifact : Plan(v)[i] \in Blobs
    BY PlanFacts
  <2> QED BY Zenon, <1>1, <1>3, <2>1 DEF CommittedIsThere, ArtifactBlobs, Complete
<1>4. CASE row[v] # "committed"
  <2>1. v = w
    BY Zenon, <1>1, <1>2, <1>4 DEF Others
  <2>2. pc[w] \in Saving
    BY Zenon, <1>2, <1>4, <2>1, BecomesCommitted DEF SaveRow, At, Saving
  <2> QED BY Zenon, <1>1, <2>1, <2>2, ArtifactSeen
<1> QED BY Zenon, <1>3, <1>4

-----------------------------------------------------------------------------
(* The theorems *)

(* Before the first preparation nothing is claimed.                          *)
LEMMA TransferInitIInv == TransferInit => TransferIInv
<1> SUFFICES ASSUME TransferInit PROVE TransferIInv
  BY Zenon
<1> USE DEF TransferInit
<1>1. Shape
  BY DEF Shape, PCs
<1>2. \A w \in Preparations : pc[w] = "idle" /\ row[w] = "none" /\ fd[w] = "none" /\ verified[w] = {}
  BY Zenon
<1>3. PlaceInv
  BY Zenon, <1>2 DEF PlaceInv, Place, Copying, Saving
<1>4. CopyInv /\ SeenInv
  BY Zenon, <1>2 DEF CopyInv, SeenInv, Seen, Advancing, Copying, Saving
<1>5. GateHolds /\ CommittedIsThere
  BY Zenon, <1>2 DEF GateHolds, At, CommittedIsThere
<1> QED BY Zenon, <1>1, <1>3, <1>4, <1>5 DEF TransferIInv

(* Every call of a connector and of the catalog, and every interruption,     *)
(* keeps the invariant.                                                      *)
LEMMA TransferNextIInv == TransferIInv /\ [TransferNext]_transferVars => TransferIInv'
<1> SUFFICES ASSUME TransferIInv, [TransferNext]_transferVars PROVE TransferIInv'
  BY Zenon
<1>1. CASE TransferNext
  <2>1. PICK w \in Preparations : Steps(w)
    BY Zenon, <1>1 DEF TransferNext, Steps
  <2>2. Shape' /\ PlaceInv'
    BY Zenon, <2>1, ShapeStep, PlaceStep DEF TransferIInv
  <2>3. ASSUME Disjoint PROVE CopyInv' /\ SeenInv' /\ GateHolds' /\ CommittedIsThere'
    BY Zenon, <2>1, <2>3, CopyStep, SeenStep, GateStep, CommittedStep DEF TransferIInv
  <2>4. Disjoint' => Disjoint
    BY Zenon DEF Disjoint, PlanBlobs, Plan
  <2> QED BY Zenon, <2>2, <2>3, <2>4 DEF TransferIInv
<1>2. CASE UNCHANGED transferVars
  <2>1. UNCHANGED <<partial, final, row, pc, at, fd, verified>>
    BY Zenon, <1>2 DEF transferVars, files, catalog, copying
  <2>2. Shape' /\ PlaceInv'
    BY Zenon, <2>1 DEF TransferIInv, Shape, PlaceInv, Place, Plan
  <2>3. ASSUME Disjoint PROVE CopyInv' /\ SeenInv'
    BY Zenon, <2>1, <2>3 DEF TransferIInv, CopyInv, SeenInv, Seen, Complete, Blob, Plan
  <2>4. ASSUME Disjoint PROVE GateHolds' /\ CommittedIsThere'
    BY Zenon, <2>1, <2>4 DEF TransferIInv, GateHolds, CommittedIsThere, Needs, Missing, WorkspacePlan,
                      Plan, At
  <2>5. Disjoint' => Disjoint
    BY Zenon DEF Disjoint, PlanBlobs, Plan
  <2> QED BY Zenon, <2>2, <2>3, <2>4, <2>5 DEF TransferIInv
<1> QED BY Zenon, <1>1, <1>2

(* The inductive invariant holds throughout.                                 *)
THEOREM TransferInvariant == TransferSpec => []TransferIInv
BY TransferInitIInv, TransferNextIInv, PTL DEF TransferSpec

(* When preparations share no blob, a gate that Prepare returned             *)
(* (coordinator.go:64) keeps what materialization.go:236 says of it, for     *)
(* every plan, size, connector and number of interruptions.                  *)
THEOREM GateIsKept == ASSUME Disjoint PROVE TransferSpec => []GateHolds
<1>1. TransferIInv => GateHolds
  BY Zenon DEF TransferIInv
<1> QED BY <1>1, TransferInvariant, PTL

(* When preparations share no blob, a row that says committed                *)
(* (coordinator.go:37) is never ahead of the files.                          *)
THEOREM CommittedIsKept == ASSUME Disjoint PROVE TransferSpec => []CommittedIsThere
<1>1. TransferIInv => CommittedIsThere
  BY Zenon DEF TransferIInv
<1> QED BY <1>1, TransferInvariant, PTL

(* When preparations share no blob, no step damages a complete file          *)
(* (service.go:67-71, 106).                                                  *)
THEOREM FinalIsKept == ASSUME Disjoint PROVE TransferSpec => FinalStays
<1>1. TransferIInv /\ [TransferNext]_transferVars =>
        [\A b \in Blobs : final[b] = Content => final'[b] = Content]_transferVars
  <2> SUFFICES ASSUME TransferIInv, TransferNext, NEW b \in Blobs, final[b] = Content
               PROVE  final'[b] = Content
    BY Zenon
  <2>1. PICK w \in Preparations : Steps(w)
    BY Zenon DEF TransferNext, Steps
  <2> QED BY Zenon, <2>1, FinalWritten DEF TransferIInv
<1> QED BY <1>1, TransferInvariant, PTL DEF TransferSpec, FinalStays

-----------------------------------------------------------------------------
(* Workflow definitions *)

WorkflowIds == {d.id : d \in definitions}

\* The rows of activity_definitions carry the identifier of their name, belong
\* to a stored workflow and are told apart by it; dependencies stay inside one.
RowsInv ==
    /\ \A y \in activities : /\ y = [id |-> Slug[y.name], workflow |-> y.workflow, name |-> y.name]
                             /\ y.workflow \in WorkflowIds /\ y.id # NoSlug
    /\ \A y, z \in activities : y.id = z.id => y = z
    /\ \A e \in edges : \E x, y \in activities : e = <<x.id, y.id>> /\ x.workflow = y.workflow

\* Row d of workflow_definitions says what src, or a copy of it, says.
Says(d, src) ==
    \/ d = DefinitionRow(src)
    \/ /\ d.id # Slug[src.name] /\ d.id \in {Slug[n] : n \in CopyNames}
       /\ d.namespace \in {src.namespace} \cup CopyNamespaces

\* Definition d was made from the submitted document src, which is stored too.
MadeFrom(d, src) ==
    /\ Slug[src.name] \in WorkflowIds /\ Says(d, src)
    /\ {x \in activities : x.workflow = d.id} = ActivityRows(d.id, src)
    /\ EdgeRows(src) \subseteq edges

DefinitionsInv ==
    \A d \in definitions :
      /\ d.id # NoSlug /\ d.namespace # "" /\ \E n \in DOMAIN Slug : Slug[n] = d.id
      /\ \E src \in Documents : MadeFrom(d, src)

\* What DuplicateWorkflow has read is what it would read now.
CopiesInv ==
    /\ DOMAIN copies = Copiers
    /\ \A c \in Copiers :
         /\ "pc" \in DOMAIN copies[c]
         /\ copies[c].pc = "read" =>
              \E d \in definitions, name \in CopyNames, namespace \in CopyNamespaces :
                copies[c].document = FromDomain(d, name, namespace)

WorkflowsIInv == RowsInv /\ DefinitionsInv /\ CopiesInv

(* Create adds the rows of a valid document that clashes with nothing: no    *)
(* row of another workflow is among them.                                    *)
LEMMA RowsAdded ==
    ASSUME RowsInv, NEW doc, ~Clash(doc), Committed(doc)
    PROVE  /\ definitions' = definitions \cup {DefinitionRow(doc)}
           /\ Slug[doc.name] \notin WorkflowIds /\ WorkflowIds' = WorkflowIds \cup {Slug[doc.name]}
           /\ activities' = activities \cup ActivityRows(Slug[doc.name], doc)
           /\ edges' = edges \cup EdgeRows(doc)
           /\ \A a \in doc.activities, y \in activities : Slug[a.name] # y.id
           /\ \A a, b \in doc.activities : Slug[a.name] = Slug[b.name] => a = b
<1>1. /\ Slug[doc.name] \notin WorkflowIds
      /\ \A a \in doc.activities, y \in activities : Slug[a.name] # y.id
      /\ \A a, b \in doc.activities : Slug[a.name] = Slug[b.name] => a = b
  BY Zenon DEF Clash, WorkflowIds
<1>2. /\ definitions' = definitions \cup {DefinitionRow(doc)}
      /\ activities' = activities \cup {x \in ActivityRows(Slug[doc.name], doc) : x.id \notin {y.id : y \in activities}}
      /\ edges' = edges \cup EdgeRows(doc)
  BY Zenon DEF Committed
<1>3. \A x \in ActivityRows(Slug[doc.name], doc) : x.id \notin {y.id : y \in activities}
  <2> SUFFICES ASSUME NEW a \in doc.activities, NEW x,
                      x = [id |-> Slug[a.name], workflow |-> Slug[doc.name], name |-> a.name]
               PROVE  x.id \notin {y.id : y \in activities}
    BY Zenon DEF ActivityRows
  <2>1. x.id = Slug[a.name]
    BY SMT
  <2> QED BY Zenon, <1>1, <2>1
<1>4. activities' = activities \cup ActivityRows(Slug[doc.name], doc)
  BY Zenon, <1>2, <1>3
<1>5. DefinitionRow(doc).id = Slug[doc.name]
  BY SMT DEF DefinitionRow
<1>6. WorkflowIds' = WorkflowIds \cup {Slug[doc.name]}
  BY Zenon, <1>2, <1>5 DEF WorkflowIds
<1> QED BY Zenon, <1>1, <1>2, <1>4, <1>6

(* The fields of the rows a document has.                                    *)
LEMMA RowFields ==
    ASSUME NEW id, NEW doc, NEW x \in ActivityRows(id, doc)
    PROVE  \E a \in doc.activities : x.id = Slug[a.name] /\ x.workflow = id /\ x.name = a.name
<1>1. PICK a \in doc.activities : x = [id |-> Slug[a.name], workflow |-> id, name |-> a.name]
  BY Zenon DEF ActivityRows
<1>2. x.id = Slug[a.name] /\ x.workflow = id /\ x.name = a.name
  BY SMT, <1>1
<1> QED BY Zenon, <1>2

(* And what is read of the workflows stored before stays the same.           *)
LEMMA OthersKept ==
    ASSUME RowsInv, NEW doc, ~Clash(doc), Committed(doc), NEW d \in definitions
    PROVE  /\ {x \in activities : x.workflow = d.id}' = {x \in activities : x.workflow = d.id}
           /\ \A name, namespace : FromDomain(d, name, namespace)' = FromDomain(d, name, namespace)
<1> DEFINE id == Slug[doc.name]
<1>1. /\ id \notin WorkflowIds /\ activities' = activities \cup ActivityRows(id, doc)
      /\ edges' = edges \cup EdgeRows(doc)
      /\ \A a \in doc.activities, y \in activities : Slug[a.name] # y.id
  BY Zenon, RowsAdded
<1>2. \A x \in ActivityRows(id, doc) : x.workflow = id
  BY Zenon, RowFields
<1>3. d.id \in WorkflowIds
  BY Zenon DEF WorkflowIds
<1> HIDE DEF id
<1>4. {x \in activities : x.workflow = d.id}' = {x \in activities : x.workflow = d.id}
  BY Zenon, <1>1, <1>2, <1>3
<1>5. ASSUME NEW x \in activities PROVE Predecessors(x)' = Predecessors(x)
  <2>1. x.workflow \in WorkflowIds
    BY Zenon DEF RowsInv
  <2>2. ASSUME NEW z PROVE <<x.id, z>> \notin EdgeRows(doc)
    <3> SUFFICES ASSUME NEW a \in doc.activities, NEW p \in a.dependsOn, <<x.id, z>> = <<Slug[a.name], Slug[p]>>
                 PROVE  FALSE
      BY Zenon DEF EdgeRows
    <3>1. x.id = Slug[a.name]
      OBVIOUS
    <3> QED BY Zenon, <1>1, <3>1
  <2>3. \A z : (z \in activities' /\ z.workflow = x.workflow) <=> (z \in activities /\ z.workflow = x.workflow)
    BY Zenon, <1>1, <1>2, <2>1
  <2>4. \A z : (<<x.id, z>> \in edges') <=> (<<x.id, z>> \in edges)
    BY Zenon, <1>1, <2>2
  <2>5. {z \in activities' : z.workflow = x.workflow /\ <<x.id, z.id>> \in edges'}
          = {z \in activities : z.workflow = x.workflow /\ <<x.id, z.id>> \in edges}
    BY Zenon, <2>3, <2>4
  <2> QED BY Zenon, <2>5 DEF Predecessors
<1>6. {[name |-> x.name, dependsOn |-> Predecessors(x), good |-> TRUE] : x \in {y \in activities : y.workflow = d.id}}'
        = {[name |-> x.name, dependsOn |-> Predecessors(x), good |-> TRUE] : x \in {y \in activities : y.workflow = d.id}}
  BY Zenon, <1>4, <1>5
<1>7. \A name, namespace : FromDomain(d, name, namespace)' = FromDomain(d, name, namespace)
  BY Zenon, <1>6 DEF FromDomain
<1> QED BY Zenon, <1>4, <1>7

(* Create keeps what is known of the rows.                                   *)
LEMMA RowsStep ==
    ASSUME RowsInv, NEW doc, Valid(doc), ~Clash(doc), Committed(doc)
    PROVE  RowsInv'
<1> DEFINE id == Slug[doc.name]
           rows == ActivityRows(id, doc)
<1>1. /\ id \notin WorkflowIds /\ WorkflowIds' = WorkflowIds \cup {id} /\ activities' = activities \cup rows
      /\ edges' = edges \cup EdgeRows(doc)
      /\ \A a \in doc.activities, y \in activities : Slug[a.name] # y.id
      /\ \A a, b \in doc.activities : Slug[a.name] = Slug[b.name] => a = b
  BY Zenon, RowsAdded
<1>2. ASSUME NEW x \in rows
      PROVE  \E a \in doc.activities : x.id = Slug[a.name] /\ x.workflow = id /\ x.name = a.name
  <2>1. x \in ActivityRows(id, doc)
    BY Zenon
  <2> HIDE DEF id
  <2> QED BY Zenon, <2>1, RowFields
<1>3. \A x \in rows : \E a \in doc.activities : x = [id |-> Slug[a.name], workflow |-> id, name |-> a.name]
  BY Zenon DEF ActivityRows
<1>4. \A a \in doc.activities : \E x \in rows : x.id = Slug[a.name] /\ x.workflow = id /\ x.name = a.name
  <2> SUFFICES ASSUME NEW a \in doc.activities
               PROVE  \E x \in rows : x.id = Slug[a.name] /\ x.workflow = id /\ x.name = a.name
    OBVIOUS
  <2> DEFINE x == [id |-> Slug[a.name], workflow |-> id, name |-> a.name]
  <2>1. x \in rows
    BY Zenon DEF ActivityRows
  <2>2. x.id = Slug[a.name] /\ x.workflow = id /\ x.name = a.name
    BY SMT
  <2> QED BY Zenon, <2>1, <2>2
<1>5. \A a \in doc.activities : Slug[a.name] # NoSlug /\ a.dependsOn \subseteq ActivityNames(doc)
  BY Zenon DEF Valid
<1> HIDE DEF rows, id
<1>6. ASSUME NEW y \in rows PROVE y = [id |-> Slug[y.name], workflow |-> y.workflow, name |-> y.name]
  BY SMT, <1>3
<1>7. \A y \in activities' : /\ y = [id |-> Slug[y.name], workflow |-> y.workflow, name |-> y.name]
                             /\ y.workflow \in WorkflowIds' /\ y.id # NoSlug
  <2>1. ASSUME NEW y \in rows PROVE y.workflow \in WorkflowIds' /\ y.id # NoSlug
    <3>1. PICK a \in doc.activities : y.id = Slug[a.name] /\ y.workflow = id
      BY Zenon, <1>2
    <3> QED BY Zenon, <1>1, <1>5, <3>1
  <2>2. \A y \in activities : /\ y = [id |-> Slug[y.name], workflow |-> y.workflow, name |-> y.name]
                              /\ y.workflow \in WorkflowIds' /\ y.id # NoSlug
    BY Zenon, <1>1 DEF RowsInv
  <2> QED BY Zenon, <1>1, <1>6, <2>1, <2>2
<1>8. ASSUME NEW y \in activities', NEW z \in activities', y.id = z.id PROVE y = z
  <2>1. ASSUME NEW u \in rows, NEW v \in activities PROVE u.id # v.id
    <3>1. PICK a \in doc.activities : u.id = Slug[a.name]
      BY Zenon, <1>2
    <3> QED BY Zenon, <1>1, <3>1
  <2>2. ASSUME NEW u \in rows, NEW v \in rows, u.id = v.id PROVE u = v
    <3>1. PICK a \in doc.activities : u = [id |-> Slug[a.name], workflow |-> id, name |-> a.name]
      BY Zenon, <1>3
    <3>2. PICK b \in doc.activities : v = [id |-> Slug[b.name], workflow |-> id, name |-> b.name]
      BY Zenon, <1>3
    <3>3. Slug[a.name] = Slug[b.name]
      BY SMT, <2>2, <3>1, <3>2
    <3> QED BY Zenon, <1>1, <3>1, <3>2, <3>3
  <2>3. \A u, v \in activities : u.id = v.id => u = v
    BY Zenon DEF RowsInv
  <2> QED BY Zenon, <1>1, <1>8, <2>1, <2>2, <2>3
<1>9. ASSUME NEW e \in edges' PROVE \E x, y \in activities' : e = <<x.id, y.id>> /\ x.workflow = y.workflow
  <2>1. CASE e \in edges
    BY Zenon, <1>1, <2>1 DEF RowsInv
  <2>2. CASE e \in EdgeRows(doc)
    <3>0. PICK a \in doc.activities : \E p \in a.dependsOn : e = <<Slug[a.name], Slug[p]>>
      BY Zenon, <2>2 DEF EdgeRows
    <3>1. PICK p \in a.dependsOn : e = <<Slug[a.name], Slug[p]>>
      BY Zenon, <3>0
    <3>2. PICK b \in doc.activities : b.name = p
      BY Zenon, <1>5, <3>1 DEF ActivityNames
    <3>3. PICK x \in rows : x.id = Slug[a.name] /\ x.workflow = id
      BY Zenon, <1>4
    <3>4. PICK y \in rows : y.id = Slug[p] /\ y.workflow = id
      BY Zenon, <1>4, <3>2
    <3> QED BY Zenon, <1>1, <3>1, <3>3, <3>4
  <2> QED BY Zenon, <1>1, <2>1, <2>2
<1> QED BY Zenon, <1>7, <1>8, <1>9 DEF RowsInv

(* And what is known of the definitions, when the document says what some    *)
(* submitted document says.                                                  *)
LEMMA DefinitionsStep ==
    ASSUME RowsInv, DefinitionsInv, NEW doc, Valid(doc), ~Clash(doc), Committed(doc),
           doc.name \in DOMAIN Slug, NEW src \in Documents,
           Slug[src.name] \in WorkflowIds \cup {Slug[doc.name]}, Says(DefinitionRow(doc), src),
           ActivityRows(Slug[doc.name], doc) = ActivityRows(Slug[doc.name], src),
           EdgeRows(src) \subseteq edges \cup EdgeRows(doc)
    PROVE  DefinitionsInv'
<1> DEFINE id == Slug[doc.name]
           new == DefinitionRow(doc)
<1>1. /\ definitions' = definitions \cup {new} /\ id \notin WorkflowIds /\ WorkflowIds' = WorkflowIds \cup {id}
      /\ activities' = activities \cup ActivityRows(id, doc) /\ edges' = edges \cup EdgeRows(doc)
  BY Zenon, RowsAdded
<1>2. new.id = id /\ new.namespace = doc.namespace
  BY SMT DEF DefinitionRow
<1>3. /\ Slug[src.name] \in WorkflowIds' /\ Says(new, src)
      /\ ActivityRows(id, doc) = ActivityRows(id, src) /\ EdgeRows(src) \subseteq edges'
  BY Zenon, <1>1
<1>4. id # NoSlug /\ doc.namespace # ""
  BY Zenon DEF Valid
<1>5. id \in {Slug[n] : n \in DOMAIN Slug}
  BY Zenon
<1>6. \A x \in ActivityRows(id, doc) : x.workflow = id
  BY Zenon, RowFields
<1> HIDE DEF id, new
<1>7. {x \in activities : x.workflow = new.id}' = ActivityRows(new.id, src)
  <2>1. \A x \in activities : x.workflow # id
    BY Zenon, <1>1 DEF RowsInv
  <2>2. {x \in activities' : x.workflow = id} = ActivityRows(id, doc)
    BY Zenon, <1>1, <1>6, <2>1
  <2>3. {x \in activities' : x.workflow = new.id} = ActivityRows(new.id, src)
    BY Zenon, <1>2, <1>3, <2>2
  <2> QED BY Zenon, <2>3
<1>8. MadeFrom(new, src)'
  <2>1. {x \in activities' : x.workflow = new.id} = ActivityRows(new.id, src)
    BY Zenon, <1>7
  <2> QED BY Zenon, <1>3, <2>1 DEF MadeFrom
<1>9. ASSUME NEW d \in definitions, NEW s \in Documents, MadeFrom(d, s) PROVE MadeFrom(d, s)'
  <2>1. {x \in activities' : x.workflow = d.id} = {x \in activities : x.workflow = d.id}
    BY Zenon, OthersKept
  <2>2. /\ Slug[s.name] \in WorkflowIds /\ Says(d, s)
        /\ {x \in activities : x.workflow = d.id} = ActivityRows(d.id, s)
        /\ EdgeRows(s) \subseteq edges
    BY Zenon, <1>9 DEF MadeFrom
  <2> QED BY Zenon, <1>1, <2>1, <2>2 DEF MadeFrom
<1>10. ASSUME NEW d \in definitions
       PROVE  /\ d.id # NoSlug /\ d.namespace # "" /\ \E n \in DOMAIN Slug : Slug[n] = d.id
              /\ \E s \in Documents : MadeFrom(d, s)'
  BY Zenon, <1>9 DEF DefinitionsInv
<1>11. /\ new.id # NoSlug /\ new.namespace # "" /\ \E n \in DOMAIN Slug : Slug[n] = new.id
       /\ \E s \in Documents : MadeFrom(new, s)'
  BY Zenon, <1>2, <1>4, <1>5, <1>8
<1> QED BY Zenon, <1>1, <1>10, <1>11 DEF DefinitionsInv

(* The fields of an exported document.                                       *)
LEMMA ExportName ==
    ASSUME NEW d, NEW name, NEW namespace PROVE FromDomain(d, name, namespace).name = name
<1> DEFINE space == IF namespace = "" THEN d.namespace ELSE namespace
           acts == {[name |-> x.name, dependsOn |-> Predecessors(x), good |-> TRUE] :
                    x \in {y \in activities : y.workflow = d.id}}
           doc == FromDomain(d, name, namespace)
<1>1. doc = [name |-> name, namespace |-> space, activities |-> acts]
  BY Zenon DEF FromDomain
<1> HIDE DEF space, acts, doc
<1>2. doc.name = name
  BY SMT, <1>1
<1> QED BY Zenon, <1>2 DEF doc

(* Its namespace is the one asked for, or that of the source.                *)
LEMMA ExportNamespace ==
    ASSUME NEW d, NEW name, NEW namespace
    PROVE  /\ FromDomain(d, name, namespace).namespace \in {d.namespace, namespace}
           /\ namespace = "" => FromDomain(d, name, namespace).namespace = d.namespace
<1> DEFINE space == IF namespace = "" THEN d.namespace ELSE namespace
           acts == {[name |-> x.name, dependsOn |-> Predecessors(x), good |-> TRUE] :
                    x \in {y \in activities : y.workflow = d.id}}
           doc == FromDomain(d, name, namespace)
<1>1. doc = [name |-> name, namespace |-> space, activities |-> acts]
  BY Zenon DEF FromDomain
<1> HIDE DEF space, acts, doc
<1>2. doc.namespace = space
  BY SMT, <1>1
<1> QED BY Zenon, <1>2 DEF space, doc

(* Its activities are the stored ones, with predecessors by name.            *)
LEMMA ExportActivities ==
    ASSUME NEW d, NEW name, NEW namespace
    PROVE  FromDomain(d, name, namespace).activities =
             {[name |-> x.name, dependsOn |-> Predecessors(x), good |-> TRUE] :
              x \in {y \in activities : y.workflow = d.id}}
<1> DEFINE space == IF namespace = "" THEN d.namespace ELSE namespace
           acts == {[name |-> x.name, dependsOn |-> Predecessors(x), good |-> TRUE] :
                    x \in {y \in activities : y.workflow = d.id}}
           doc == FromDomain(d, name, namespace)
<1>1. doc = [name |-> name, namespace |-> space, activities |-> acts]
  BY Zenon DEF FromDomain
<1> HIDE DEF space, acts, doc
<1>2. doc.activities = acts
  BY SMT, <1>1
<1> QED BY Zenon, <1>2 DEF acts, doc

(* An exported workflow that has activities clashes with itself: only the    *)
(* copy of an empty one is stored.                                           *)
LEMMA CopiesOfNothing ==
    ASSUME RowsInv, NEW d \in definitions, NEW name, NEW namespace, ~Clash(FromDomain(d, name, namespace))
    PROVE  {x \in activities : x.workflow = d.id} = {} /\ FromDomain(d, name, namespace).activities = {}
<1> DEFINE own == {x \in activities : x.workflow = d.id}
           doc == FromDomain(d, name, namespace)
<1>1. doc.activities = {[name |-> x.name, dependsOn |-> Predecessors(x), good |-> TRUE] : x \in own}
  BY Zenon, ExportActivities
<1>2. \A a \in doc.activities : Slug[a.name] \notin {x.id : x \in activities}
  BY Zenon DEF Clash
<1> HIDE DEF doc
<1>3. ASSUME NEW y \in own PROVE FALSE
  <2> DEFINE a == [name |-> y.name, dependsOn |-> Predecessors(y), good |-> TRUE]
  <2>1. a \in doc.activities
    BY Zenon, <1>1
  <2>2. a.name = y.name
    BY SMT
  <2>3. y = [id |-> Slug[y.name], workflow |-> y.workflow, name |-> y.name]
    BY Zenon DEF RowsInv
  <2>4. y.id = Slug[y.name]
    BY SMT, <2>3
  <2>5. Slug[a.name] = y.id
    BY Zenon, <2>2, <2>4
  <2> HIDE DEF a
  <2> QED BY Zenon, <1>2, <2>1, <2>5
<1>4. own = {}
  BY Zenon, <1>3
<1>5. doc.activities = {}
  BY Zenon, <1>1, <1>4
<1> QED BY Zenon, <1>4, <1>5 DEF doc

(* So a duplicate says what the submitted document of its source says.       *)
LEMMA CopySays ==
    ASSUME RowsInv, DefinitionsInv, NEW d \in definitions, NEW name \in CopyNames, NEW namespace \in CopyNamespaces,
           NEW doc, doc = FromDomain(d, name, namespace), ~Clash(doc)
    PROVE  /\ doc.name \in DOMAIN Slug
           /\ \E src \in Documents :
                /\ Slug[src.name] \in WorkflowIds /\ Says(DefinitionRow(doc), src)
                /\ ActivityRows(Slug[doc.name], doc) = ActivityRows(Slug[doc.name], src)
                /\ EdgeRows(src) \subseteq edges
<1>1. doc.name = name /\ doc.namespace \in {d.namespace, namespace}
  <2>1. doc.name = name
    BY SMT, ExportName
  <2>2. doc.namespace \in {d.namespace, namespace}
    BY Zenon, ExportNamespace
  <2> QED BY Zenon, <2>1, <2>2
<1>2. name \in DOMAIN Slug
  BY Zenon, WorkflowsAssumption
<1>3. PICK src \in Documents : MadeFrom(d, src)
  BY Zenon DEF DefinitionsInv
<1>4. /\ Slug[src.name] \in WorkflowIds /\ Says(d, src)
      /\ {x \in activities : x.workflow = d.id} = ActivityRows(d.id, src)
      /\ EdgeRows(src) \subseteq edges
  BY Zenon, <1>3 DEF MadeFrom
<1>5. {x \in activities : x.workflow = d.id} = {} /\ doc.activities = {}
  BY Zenon, CopiesOfNothing
<1>6. src.activities = {}
  BY Zenon, <1>4, <1>5 DEF ActivityRows
<1>7. ActivityRows(Slug[doc.name], doc) = ActivityRows(Slug[doc.name], src)
  BY Zenon, <1>5, <1>6 DEF ActivityRows
<1>8. Slug[doc.name] \notin WorkflowIds
  BY Zenon DEF Clash, WorkflowIds
<1>9. DefinitionRow(doc).id = Slug[doc.name] /\ DefinitionRow(doc).namespace = doc.namespace
  BY SMT DEF DefinitionRow
<1>10. d.namespace \in {src.namespace} \cup CopyNamespaces
  <2>1. CASE d = DefinitionRow(src)
    <3>1. d.namespace = src.namespace
      BY SMT, <2>1 DEF DefinitionRow
    <3> QED BY Zenon, <3>1
  <2> QED BY Zenon, <1>4, <2>1 DEF Says
<1>11. doc.namespace \in {src.namespace} \cup CopyNamespaces
  BY Zenon, <1>1, <1>10
<1>12. Slug[doc.name] # Slug[src.name] /\ Slug[doc.name] \in {Slug[n] : n \in CopyNames}
  BY Zenon, <1>1, <1>4, <1>8
<1>13. Says(DefinitionRow(doc), src)
  BY Zenon, <1>9, <1>11, <1>12 DEF Says
<1> QED BY Zenon, <1>1, <1>2, <1>4, <1>7, <1>13

(* Copies in progress outlive a commit.                                      *)
LEMMA ReadStays ==
    ASSUME RowsInv, NEW doc, ~Clash(doc), Committed(doc), NEW document,
           \E d \in definitions, name \in CopyNames, namespace \in CopyNamespaces :
             document = FromDomain(d, name, namespace)
    PROVE  \E d \in definitions', name \in CopyNames, namespace \in CopyNamespaces :
             document = FromDomain(d, name, namespace)'
<1>1. PICK d \in definitions, name \in CopyNames, namespace \in CopyNamespaces :
             document = FromDomain(d, name, namespace)
  BY Zenon
<1>2. FromDomain(d, name, namespace)' = FromDomain(d, name, namespace)
  BY Zenon, OthersKept
<1>3. d \in definitions'
  BY Zenon, RowsAdded
<1> QED BY Zenon, <1>1, <1>2, <1>3

(* A request that stores nothing changes no document.                        *)
LEMMA NothingStored ==
    ASSUME UNCHANGED <<definitions, activities, edges>>, RowsInv, DefinitionsInv
    PROVE  /\ RowsInv' /\ DefinitionsInv'
           /\ \A d, name, namespace : FromDomain(d, name, namespace)' = FromDomain(d, name, namespace)
<1>1. definitions' = definitions /\ activities' = activities /\ edges' = edges
  OBVIOUS
<1>2. WorkflowIds' = WorkflowIds /\ \A x : Predecessors(x)' = Predecessors(x)
  BY Zenon, <1>1 DEF WorkflowIds, Predecessors
<1>3. RowsInv'
  BY Zenon, <1>1, <1>2 DEF RowsInv
<1>4. \A d, src : MadeFrom(d, src)' <=> MadeFrom(d, src)
  BY Zenon, <1>1, <1>2 DEF MadeFrom
<1>5. DefinitionsInv'
  BY Zenon, <1>1, <1>4 DEF DefinitionsInv
<1>6. \A d, name, namespace : FromDomain(d, name, namespace)' = FromDomain(d, name, namespace)
  BY Zenon, <1>1, <1>2 DEF FromDomain
<1> QED BY Zenon, <1>3, <1>5, <1>6

(* POST /workflows.                                                          *)
LEMMA CreateStep ==
    ASSUME WorkflowsIInv, NEW doc \in Documents, CreateWorkflow(doc)
    PROVE  WorkflowsIInv'
<1> USE DEF WorkflowsIInv
<1>1. Valid(doc) /\ copies' = copies
  BY Zenon DEF CreateWorkflow
<1>2. CASE Clash(doc)
  <2>1. UNCHANGED <<definitions, activities, edges>>
    BY Zenon, <1>2 DEF CreateWorkflow, RolledBack
  <2>2. /\ RowsInv' /\ DefinitionsInv' /\ definitions' = definitions
        /\ \A d, name, namespace : FromDomain(d, name, namespace)' = FromDomain(d, name, namespace)
    BY Zenon, <2>1, NothingStored
  <2>3. CopiesInv'
    BY Zenon, <1>1, <2>2 DEF CopiesInv
  <2> QED BY Zenon, <2>2, <2>3
<1>3. CASE ~Clash(doc)
  <2>1. Committed(doc)
    BY Zenon, <1>3 DEF CreateWorkflow
  <2>2. RowsInv'
    BY Zenon, <1>1, <1>3, <2>1, RowsStep
  <2>3. doc.name \in DOMAIN Slug
    BY Zenon, WorkflowsAssumption
  <2>4. Says(DefinitionRow(doc), doc)
    BY Zenon DEF Says
  <2>5. DefinitionsInv'
    BY Zenon, <1>1, <1>3, <2>1, <2>3, <2>4, DefinitionsStep
  <2>6. CopiesInv'
    <3>1. ASSUME NEW c \in Copiers, copies[c].pc = "read"
          PROVE  \E d \in definitions', name \in CopyNames, namespace \in CopyNamespaces :
                   copies[c].document = FromDomain(d, name, namespace)'
      <4>1. \E d \in definitions, name \in CopyNames, namespace \in CopyNamespaces :
              copies[c].document = FromDomain(d, name, namespace)
        BY Zenon, <3>1 DEF CopiesInv
      <4> QED BY ZenonT(30), <1>3, <2>1, <4>1, ReadStays
    <3> QED BY Zenon, <1>1, <3>1 DEF CopiesInv
  <2> QED BY Zenon, <2>2, <2>5, <2>6
<1> QED BY Zenon, <1>2, <1>3

(* POST /workflows/{id}/duplicate, the source being read.                    *)
LEMMA DuplicateStep ==
    ASSUME WorkflowsIInv, NEW c \in Copiers, NEW d \in definitions, NEW name \in CopyNames,
           NEW namespace \in CopyNamespaces, DuplicateWorkflow(c, d, name, namespace)
    PROVE  WorkflowsIInv'
<1> USE DEF WorkflowsIInv
<1> DEFINE new == [pc |-> "read", name |-> name, document |-> FromDomain(d, name, namespace)]
<1>1. UNCHANGED <<definitions, activities, edges>> /\ copies' = [copies EXCEPT ![c] = new]
  BY Zenon DEF DuplicateWorkflow
<1>2. /\ RowsInv' /\ DefinitionsInv' /\ definitions' = definitions
      /\ \A f, n, s : FromDomain(f, n, s)' = FromDomain(f, n, s)
  BY Zenon, <1>1, NothingStored
<1>3. "pc" \in DOMAIN new /\ new.document = FromDomain(d, name, namespace)
  BY SMT
<1> HIDE DEF new
<1>4. DOMAIN copies = Copiers
  BY Zenon DEF CopiesInv
<1>5. DOMAIN copies' = Copiers /\ copies'[c] = new /\ \A b \in Copiers : b # c => copies'[b] = copies[b]
  BY Zenon, <1>1, <1>4
<1>6. ASSUME NEW b \in Copiers
      PROVE  /\ "pc" \in DOMAIN copies'[b]
             /\ copies'[b].pc = "read" =>
                  \E f \in definitions', n \in CopyNames, s \in CopyNamespaces :
                    copies'[b].document = FromDomain(f, n, s)'
  <2>1. CASE b = c
    <3>1. copies'[b].document = FromDomain(d, name, namespace)'
      BY Zenon, <1>2, <1>3, <1>5, <2>1
    <3> QED BY Zenon, <1>2, <1>3, <1>5, <2>1, <3>1
  <2>2. CASE b # c
    <3>1. /\ "pc" \in DOMAIN copies[b]
          /\ copies[b].pc = "read" => \E f \in definitions, n \in CopyNames, s \in CopyNamespaces :
                                        copies[b].document = FromDomain(f, n, s)
      BY Zenon DEF CopiesInv
    <3> QED BY Zenon, <1>2, <1>5, <2>2, <3>1
  <2> QED BY Zenon, <2>1, <2>2
<1> QED BY Zenon, <1>2, <1>5, <1>6 DEF CopiesInv

(* The copy being stored.                                                    *)
LEMMA StoreCopyStep ==
    ASSUME WorkflowsIInv, NEW c \in Copiers, StoreCopy(c)
    PROVE  WorkflowsIInv'
<1> USE DEF WorkflowsIInv
<1> DEFINE doc == copies[c].document
           fine == Valid(doc) /\ ~Clash(doc)
           end == IF fine THEN "stored" ELSE "refused"
<1>1. /\ copies[c].pc = "read" /\ copies' = [copies EXCEPT ![c].pc = end]
      /\ fine => Committed(doc)
      /\ ~fine => UNCHANGED <<definitions, activities, edges>>
  BY Zenon DEF StoreCopy, RolledBack
<1>2. PICK d \in definitions, name \in CopyNames, namespace \in CopyNamespaces :
        doc = FromDomain(d, name, namespace)
  BY Zenon, <1>1 DEF CopiesInv
<1>3. end # "read"
  BY SMT
<1> HIDE DEF doc, end
<1>4. DOMAIN copies = Copiers /\ "pc" \in DOMAIN copies[c]
  BY Zenon DEF CopiesInv
<1>5. /\ DOMAIN copies' = Copiers /\ copies'[c] = [copies[c] EXCEPT !.pc = end]
      /\ \A b \in Copiers : b # c => copies'[b] = copies[b]
  BY Zenon, <1>1, <1>4
<1>6. copies'[c].pc = end /\ "pc" \in DOMAIN copies'[c]
  BY SMT, <1>4, <1>5
<1>7. ASSUME NEW b \in Copiers, copies'[b].pc = "read"
      PROVE  /\ copies'[b] = copies[b]
             /\ \E f \in definitions, n \in CopyNames, s \in CopyNamespaces : copies'[b].document = FromDomain(f, n, s)
  <2>1. copies'[b] = copies[b]
    BY Zenon, <1>3, <1>5, <1>6, <1>7
  <2> QED BY Zenon, <1>7, <2>1 DEF CopiesInv
<1>8. \A b \in Copiers : "pc" \in DOMAIN copies'[b]
  BY Zenon, <1>5, <1>6 DEF CopiesInv
<1>9. CASE fine
  <2>1. Valid(doc) /\ ~Clash(doc) /\ Committed(doc)
    BY Zenon, <1>1, <1>9
  <2>2. RowsInv'
    BY Zenon, <2>1, RowsStep
  <2>3. doc.name \in DOMAIN Slug
    BY Zenon, <1>2, <2>1, CopySays
  <2>4. PICK src \in Documents :
          /\ Slug[src.name] \in WorkflowIds /\ Says(DefinitionRow(doc), src)
          /\ ActivityRows(Slug[doc.name], doc) = ActivityRows(Slug[doc.name], src)
          /\ EdgeRows(src) \subseteq edges
    BY Zenon, <1>2, <2>1, CopySays
  <2>5. Slug[src.name] \in WorkflowIds \cup {Slug[doc.name]} /\ EdgeRows(src) \subseteq edges \cup EdgeRows(doc)
    BY Zenon, <2>4
  <2>6. DefinitionsInv'
    BY Zenon, <2>1, <2>3, <2>4, <2>5, DefinitionsStep
  <2>7. ASSUME NEW b \in Copiers, copies'[b].pc = "read"
        PROVE  \E f \in definitions', n \in CopyNames, s \in CopyNamespaces :
                 copies'[b].document = FromDomain(f, n, s)'
    <3>1. /\ copies'[b] = copies[b]
          /\ \E f \in definitions, n \in CopyNames, s \in CopyNamespaces : copies[b].document = FromDomain(f, n, s)
      BY ZenonT(30), <1>7, <2>7
    <3>2. \E f \in definitions', n \in CopyNames, s \in CopyNamespaces :
            copies[b].document = FromDomain(f, n, s)'
      BY ZenonT(30), <2>1, <3>1, ReadStays
    <3> QED BY Zenon, <3>1, <3>2
  <2>8. CopiesInv'
    BY Zenon, <1>5, <1>8, <2>7 DEF CopiesInv
  <2> QED BY Zenon, <2>2, <2>6, <2>8
<1>10. CASE ~fine
  <2>1. /\ RowsInv' /\ DefinitionsInv' /\ definitions' = definitions
        /\ \A f, n, s : FromDomain(f, n, s)' = FromDomain(f, n, s)
    BY Zenon, <1>1, <1>10, NothingStored
  <2>2. ASSUME NEW b \in Copiers, copies'[b].pc = "read"
        PROVE  \E f \in definitions', n \in CopyNames, s \in CopyNamespaces :
                 copies'[b].document = FromDomain(f, n, s)'
    BY Zenon, <1>7, <2>1, <2>2
  <2>3. CopiesInv'
    BY Zenon, <1>5, <1>8, <2>2 DEF CopiesInv
  <2> QED BY Zenon, <2>1, <2>3
<1> QED BY Zenon, <1>9, <1>10

(* The answer to the request.                                                *)
LEMMA AnswerStep ==
    ASSUME WorkflowsIInv, NEW c \in Copiers, AnswerCopy(c)
    PROVE  WorkflowsIInv'
<1> USE DEF WorkflowsIInv
<1>1. UNCHANGED <<definitions, activities, edges>> /\ copies' = [copies EXCEPT ![c] = NoCopy]
  BY Zenon DEF AnswerCopy
<1>2. /\ RowsInv' /\ DefinitionsInv' /\ definitions' = definitions
      /\ \A f, n, s : FromDomain(f, n, s)' = FromDomain(f, n, s)
  BY Zenon, <1>1, NothingStored
<1>3. "pc" \in DOMAIN NoCopy /\ NoCopy.pc # "read"
  BY SMT DEF NoCopy
<1>4. DOMAIN copies' = Copiers /\ copies'[c] = NoCopy /\ \A b \in Copiers : b # c => copies'[b] = copies[b]
  BY Zenon, <1>1 DEF CopiesInv
<1>5. ASSUME NEW b \in Copiers
      PROVE  /\ "pc" \in DOMAIN copies'[b]
             /\ copies'[b].pc = "read" =>
                  \E f \in definitions', n \in CopyNames, s \in CopyNamespaces :
                    copies'[b].document = FromDomain(f, n, s)'
  <2>1. CASE b = c
    BY Zenon, <1>3, <1>4, <2>1
  <2>2. CASE b # c
    <3>1. /\ "pc" \in DOMAIN copies[b]
          /\ copies[b].pc = "read" => \E f \in definitions, n \in CopyNames, s \in CopyNamespaces :
                                        copies[b].document = FromDomain(f, n, s)
      BY Zenon DEF CopiesInv
    <3> QED BY Zenon, <1>2, <1>4, <2>2, <3>1
  <2> QED BY Zenon, <2>1, <2>2
<1> QED BY Zenon, <1>2, <1>4, <1>5 DEF CopiesInv

(* Nothing is stored at first, and every request keeps the invariant.        *)
LEMMA WorkflowsInitially == WorkflowsInit => WorkflowsIInv
<1> SUFFICES ASSUME WorkflowsInit PROVE WorkflowsIInv
  OBVIOUS
<1>1. definitions = {} /\ activities = {} /\ edges = {} /\ copies = [c \in Copiers |-> NoCopy]
  BY Zenon DEF WorkflowsInit
<1>2. "pc" \in DOMAIN NoCopy /\ NoCopy.pc # "read"
  BY SMT DEF NoCopy
<1> QED BY Zenon, <1>1, <1>2 DEF WorkflowsIInv, RowsInv, DefinitionsInv, CopiesInv

(* Every request keeps the invariant.                                        *)
LEMMA WorkflowsStep == WorkflowsIInv /\ [WorkflowsNext]_workflowVars => WorkflowsIInv'
<1> SUFFICES ASSUME WorkflowsIInv, [WorkflowsNext]_workflowVars PROVE WorkflowsIInv'
  OBVIOUS
<1>1. CASE UNCHANGED workflowVars
  <2>1. UNCHANGED <<definitions, activities, edges>> /\ copies' = copies
    BY <1>1 DEF workflowVars
  <2>2. /\ RowsInv' /\ DefinitionsInv' /\ definitions' = definitions
        /\ \A f, n, s : FromDomain(f, n, s)' = FromDomain(f, n, s)
    BY Zenon, <2>1, NothingStored DEF WorkflowsIInv
  <2> QED BY Zenon, <2>1, <2>2 DEF WorkflowsIInv, CopiesInv
<1>2. ASSUME NEW doc \in Documents, CreateWorkflow(doc) PROVE WorkflowsIInv'
  BY Zenon, <1>2, CreateStep
<1>3. ASSUME NEW c \in Copiers, NEW d \in definitions, NEW name \in CopyNames, NEW namespace \in CopyNamespaces,
             DuplicateWorkflow(c, d, name, namespace)
      PROVE  WorkflowsIInv'
  BY Zenon, <1>3, DuplicateStep
<1>4. ASSUME NEW c \in Copiers, StoreCopy(c) \/ AnswerCopy(c) PROVE WorkflowsIInv'
  BY Zenon, <1>4, StoreCopyStep, AnswerStep
<1> QED BY Zenon, <1>1, <1>2, <1>3, <1>4 DEF WorkflowsNext

(* Every definition has all the activities and dependencies of the document  *)
(* it was made from, and no dependency leaves its workflow.                  *)
THEOREM StoredWorkflowsAreWhole == WorkflowsSpec => []DefinitionsAreWhole
<1>1. WorkflowsIInv => DefinitionsAreWhole
  <2> SUFFICES ASSUME WorkflowsIInv PROVE DefinitionsAreWhole
    OBVIOUS
  <2>1. ASSUME NEW d \in definitions
        PROVE  \E doc \in Documents :
                 /\ Says(d, doc) /\ {x \in activities : x.workflow = d.id} = ActivityRows(d.id, doc)
                 /\ EdgeRows(doc) \subseteq edges
    BY Zenon DEF WorkflowsIInv, DefinitionsInv, MadeFrom
  <2>2. ASSUME NEW e \in edges, NEW x \in activities, NEW y \in activities, x.id = e[1], y.id = e[2]
        PROVE  x.workflow = y.workflow
    <3>1. PICK u \in activities, v \in activities : e = <<u.id, v.id>> /\ u.workflow = v.workflow
      BY Zenon DEF WorkflowsIInv, RowsInv
    <3>2. x.id = u.id /\ y.id = v.id
      BY <2>2, <3>1
    <3>3. x = u /\ y = v
      BY Zenon, <3>2 DEF WorkflowsIInv, RowsInv
    <3> QED BY Zenon, <3>1, <3>3
  <2> QED BY Zenon, <2>1, <2>2 DEF DefinitionsAreWhole, Says
<1> QED BY <1>1, WorkflowsInitially, WorkflowsStep, PTL DEF WorkflowsSpec

\* Converting document x gives the rows of definition d.
SameAgain(d, x) ==
    /\ Valid(x)
    /\ ActivityRows(d.id, x) = {y \in activities : y.workflow = d.id}
    /\ EdgeRows(x) = {e \in edges : e[1] \in {y.id : y \in {z \in activities : z.workflow = d.id}}}

(* A stored workflow, exported and converted again, is valid and has the     *)
(* same activities and dependencies.                                         *)
LEMMA ExportMatches ==
    ASSUME WorkflowsIInv, NEW d \in definitions, NEW name \in DOMAIN Slug, Slug[name] = d.id,
           NEW namespace, NEW doc, doc = FromDomain(d, name, namespace), doc.namespace = d.namespace
    PROVE  SameAgain(d, doc)
<1> DEFINE own == {y \in activities : y.workflow = d.id}
           act(x) == [name |-> x.name, dependsOn |-> Predecessors(x), good |-> TRUE]
<1>1. doc.name = name
  BY SMT, ExportName
<1>3. doc.activities = {act(x) : x \in own}
  BY Zenon, ExportActivities
<1>4. \A x : act(x).name = x.name /\ act(x).dependsOn = Predecessors(x) /\ act(x).good
  BY SMT
<1>5. d.id # NoSlug /\ d.namespace # ""
  BY Zenon DEF WorkflowsIInv, DefinitionsInv
<1>6. /\ \A y \in own : y \in activities /\ y.workflow = d.id
      /\ \A y \in activities : y = [id |-> Slug[y.name], workflow |-> y.workflow, name |-> y.name] /\ y.id # NoSlug
      /\ \A y, z \in activities : y.id = z.id => y = z
      /\ \A e \in edges : \E x, y \in activities : e = <<x.id, y.id>> /\ x.workflow = y.workflow
  BY Zenon DEF WorkflowsIInv, RowsInv
<1> HIDE DEF own, act
<1>7. ASSUME NEW y \in activities PROVE y.id = Slug[y.name]
  <2>1. y = [id |-> Slug[y.name], workflow |-> y.workflow, name |-> y.name]
    BY Zenon, <1>6
  <2> QED BY SMT, <2>1
<1>8. ASSUME NEW x \in own
      PROVE  Predecessors(x) = {y.name : y \in {z \in own : <<x.id, z.id>> \in edges}}
  <2>1. x.workflow = d.id
    BY Zenon, <1>6
  <2> QED BY Zenon, <2>1 DEF Predecessors, own
<1>9. Valid(doc)
  <2>1. Slug[doc.name] # NoSlug /\ doc.namespace # ""
    BY Zenon, <1>1, <1>5
  <2>2. ASSUME NEW a \in doc.activities PROVE Slug[a.name] # NoSlug /\ a.good
    <3>1. PICK x \in own : a = act(x)
      BY Zenon, <1>3
    <3>2. x \in activities /\ x.id # NoSlug
      BY Zenon, <1>6
    <3>3. Slug[a.name] = x.id /\ a.good
      BY Zenon, <1>4, <1>7, <3>1, <3>2
    <3> QED BY Zenon, <3>2, <3>3
  <2>3. ASSUME NEW a \in doc.activities, NEW b \in doc.activities, a.name = b.name PROVE a = b
    <3>1. PICK x \in own : a = act(x)
      BY Zenon, <1>3
    <3>2. PICK y \in own : b = act(y)
      BY Zenon, <1>3
    <3>3. x \in activities /\ y \in activities /\ x.name = y.name
      BY Zenon, <1>4, <1>6, <2>3, <3>1, <3>2
    <3>4. x.id = y.id
      BY Zenon, <1>7, <3>3
    <3> QED BY Zenon, <1>6, <3>1, <3>2, <3>3, <3>4
  <2>4. ASSUME NEW a \in doc.activities, NEW p \in a.dependsOn PROVE p \in ActivityNames(doc)
    <3>1. PICK x \in own : a = act(x)
      BY Zenon, <1>3
    <3>2. p \in Predecessors(x)
      BY Zenon, <1>4, <3>1
    <3>3. PICK y \in own : p = y.name
      BY Zenon, <1>8, <3>2
    <3>4. act(y) \in doc.activities /\ act(y).name = p
      BY Zenon, <1>3, <1>4, <3>3
    <3> QED BY Zenon, <3>4 DEF ActivityNames
  <2> QED BY Zenon, <2>1, <2>2, <2>3, <2>4 DEF Valid
<1>10. ActivityRows(d.id, doc) = own
  <2> DEFINE stored(a) == [id |-> Slug[a.name], workflow |-> d.id, name |-> a.name]
  <2>1. ASSUME NEW x \in own PROVE stored(act(x)) = x
    <3>1. x = [id |-> Slug[x.name], workflow |-> x.workflow, name |-> x.name] /\ x.workflow = d.id
      BY Zenon, <1>6
    <3> QED BY Zenon, <1>4, <3>1
  <2>2. ActivityRows(d.id, doc) = {stored(a) : a \in doc.activities}
    BY Zenon DEF ActivityRows
  <2> HIDE DEF stored
  <2>3. \A a \in doc.activities : stored(a) \in own
    BY Zenon, <1>3, <2>1
  <2>4. \A x \in own : act(x) \in doc.activities /\ stored(act(x)) = x
    BY Zenon, <1>3, <2>1
  <2> QED BY Zenon, <2>2, <2>3, <2>4
<1>11. EdgeRows(doc) = {e \in edges : e[1] \in {y.id : y \in own}}
  <2>1. ASSUME NEW e \in EdgeRows(doc) PROVE e \in edges /\ e[1] \in {y.id : y \in own}
    <3>1. PICK a \in doc.activities : \E p \in a.dependsOn : e = <<Slug[a.name], Slug[p]>>
      BY Zenon DEF EdgeRows
    <3>2. PICK p \in a.dependsOn : e = <<Slug[a.name], Slug[p]>>
      BY Zenon, <3>1
    <3>3. PICK x \in own : a = act(x)
      BY Zenon, <1>3
    <3>4. a.name = x.name /\ p \in Predecessors(x)
      BY Zenon, <1>4, <3>3
    <3>5. PICK y \in own : p = y.name /\ <<x.id, y.id>> \in edges
      BY Zenon, <1>8, <3>4
    <3>6. x.id = Slug[a.name] /\ y.id = Slug[p]
      BY ZenonT(30), <1>6, <1>7, <3>4, <3>5
    <3>7. e = <<x.id, y.id>>
      BY Zenon, <3>2, <3>6
    <3>8. e[1] = x.id
      BY SMT, <3>7
    <3> QED BY Zenon, <3>5, <3>7, <3>8
  <2>2. ASSUME NEW e \in edges, NEW x \in own, e[1] = x.id PROVE e \in EdgeRows(doc)
    <3>1. PICK u \in activities, y \in activities : e = <<u.id, y.id>> /\ u.workflow = y.workflow
      BY Zenon, <1>6
    <3>2. u.id = x.id
      BY SMT, <2>2, <3>1
    <3>3. u = x /\ x.workflow = d.id
      BY Zenon, <1>6, <3>2
    <3>4. y \in own /\ e = <<x.id, y.id>>
      BY Zenon, <3>1, <3>3 DEF own
    <3>5. y.name \in Predecessors(x)
      BY Zenon, <1>8, <3>4
    <3>6. act(x) \in doc.activities /\ act(x).name = x.name /\ y.name \in act(x).dependsOn
      BY Zenon, <1>3, <1>4, <3>5
    <3>7. x.id = Slug[x.name] /\ y.id = Slug[y.name]
      BY Zenon, <1>6, <1>7
    <3>8. e = <<Slug[act(x).name], Slug[y.name]>>
      BY Zenon, <3>4, <3>6, <3>7
    <3> DEFINE leading(a) == {<<Slug[a.name], Slug[p]>> : p \in a.dependsOn}
    <3>9. e \in leading(act(x))
      BY Zenon, <3>6, <3>8
    <3>10. EdgeRows(doc) = UNION {leading(a) : a \in doc.activities}
      BY Zenon DEF EdgeRows
    <3> HIDE DEF leading
    <3> QED BY Zenon, <3>6, <3>9, <3>10
  <2> QED BY Zenon, <2>1, <2>2
<1> QED BY Zenon, <1>9, <1>10, <1>11 DEF own, SameAgain

(* Whatever was submitted and copied before, every stored workflow survives  *)
(* being exported and imported.                                              *)
THEOREM ExportsAreFaithful == WorkflowsSpec => []ExportIsFaithful
<1>1. ASSUME WorkflowsIInv, NEW d \in definitions, NEW name \in DOMAIN Slug, Slug[name] = d.id,
             NEW namespace, namespace = ""
      PROVE  SameAgain(d, FromDomain(d, name, namespace))
  <2>1. FromDomain(d, name, namespace).namespace = d.namespace
    BY Zenon, <1>1, ExportNamespace
  <2> QED BY Zenon, <1>1, <2>1, ExportMatches
<1>2. WorkflowsIInv => ExportIsFaithful
  <2> SUFFICES ASSUME WorkflowsIInv, NEW d \in definitions
               PROVE  SameAgain(d, FromDomain(d, CHOOSE n \in DOMAIN Slug : Slug[n] = d.id, ""))
    BY Zenon DEF ExportIsFaithful, SameAgain
  <2>1. \E n \in DOMAIN Slug : Slug[n] = d.id
    BY Zenon DEF WorkflowsIInv, DefinitionsInv
  <2>2. PICK name : name = CHOOSE n \in DOMAIN Slug : Slug[n] = d.id
    BY Zenon
  <2>3. name \in DOMAIN Slug /\ Slug[name] = d.id
    BY Zenon, <2>1, <2>2
  <2>4. SameAgain(d, FromDomain(d, name, ""))
    BY Zenon, <1>1, <2>3
  <2> QED BY Zenon, <2>2, <2>4
<1> QED BY <1>2, WorkflowsInitially, WorkflowsStep, PTL DEF WorkflowsSpec

-----------------------------------------------------------------------------
(* Sums *)

(* A set of natural numbers that is not empty has a least element.           *)
LEMMA LeastNatural ==
    ASSUME NEW S, S \subseteq Nat, S # {}
    PROVE  \E m \in S : \A n \in S : m <= n
<1> DEFINE R == {ss \in Nat \X Nat : ss[1] < ss[2]}
<1>1. IsWellFoundedOn(R, Nat)
  BY Zenon, NatLessThanWellFounded DEF OpToRel
<1> HIDE DEF R
<1>2. PICK m \in S : \A n \in S : ~(<<n, m>> \in R)
  BY Zenon, <1>1, WFMin
<1>3. \A n \in S : <<n, m>> \in Nat \X Nat
  BY <1>2
<1>4. \A n \in S : ~(n < m)
  BY <1>2, <1>3 DEF R
<1> QED BY <1>2, <1>4

\* What Sums(amounts) is to be.
Summing(sum, amounts) ==
  sum = [i \in 0..Len(amounts) |-> IF i = 0 THEN 0 ELSE sum[i - 1] + amounts[i]]

\* A function that sums the first n numbers.
Partial(sum, amounts, n) ==
  /\ sum \in [0..n -> Nat]
  /\ sum[0] = 0
  /\ \A i \in 1..n : sum[i] = sum[i - 1] + amounts[i]

(* The sums of a sequence exist, one number after the other.                 *)
LEMMA SumsExist ==
  ASSUME NEW amounts \in Seq(Nat)
  PROVE  \A n \in 0..Len(amounts) : \E sum : Partial(sum, amounts, n)
<1> DEFINE bad == {n \in 0..Len(amounts) : ~ \E sum : Partial(sum, amounts, n)}
<1> SUFFICES ASSUME bad # {} PROVE FALSE
  OBVIOUS
<1>1. bad \subseteq Nat /\ Len(amounts) \in Nat
  OBVIOUS
<1>2. PICK n \in bad : \A m \in bad : n <= m
  <2> HIDE DEF bad
  <2> QED BY Zenon, <1>1, LeastNatural
<1>3. n \in 0..Len(amounts) /\ ~ \E sum : Partial(sum, amounts, n)
  OBVIOUS
<1>4. CASE n = 0
  <2>1. Partial([i \in 0..0 |-> 0], amounts, 0)
    BY DEF Partial
  <2> QED BY Zenon, <1>3, <1>4, <2>1
<1>5. CASE n # 0
  <2>1. n - 1 \in 0..Len(amounts) /\ ~(n <= n - 1) /\ n \in Nat /\ n - 1 \in Nat
    BY <1>3, <1>5
  <2>2. PICK before : Partial(before, amounts, n - 1)
    <3>1. n - 1 \notin bad
      <4> HIDE DEF bad
      <4> QED BY Zenon, <1>2, <2>1
    <3> QED BY Zenon, <2>1, <3>1
  <2> DEFINE sum == [i \in 0..n |-> IF i = n THEN before[n - 1] + amounts[n] ELSE before[i]]
  <2>3. amounts[n] \in Nat
    BY <1>3, <1>5
  <2>4. before \in [0..(n - 1) -> Nat] /\ before[0] = 0
        /\ \A i \in 1..(n - 1) : before[i] = before[i - 1] + amounts[i]
    BY Zenon, <2>2 DEF Partial
  <2>5. sum \in [0..n -> Nat] /\ sum[0] = 0
    BY <1>5, <2>1, <2>3, <2>4
  <2>6. ASSUME NEW i \in 1..n PROVE sum[i] = sum[i - 1] + amounts[i]
    <3>1. i \in 0..n /\ i - 1 \in 0..n /\ i - 1 # n
      BY <2>1
    <3>2. sum[i - 1] = before[i - 1]
      BY Zenon, <3>1
    <3>3. CASE i = n
      BY Zenon, <3>1, <3>2, <3>3
    <3>4. CASE i # n
      <4>1. i \in 1..(n - 1)
        BY <2>1, <3>4
      <4>2. sum[i] = before[i]
        BY Zenon, <3>1, <3>4
      <4> QED BY Zenon, <2>4, <3>2, <4>1, <4>2
    <3> QED BY Zenon, <3>3, <3>4
  <2>7. Partial(sum, amounts, n)
    <3> HIDE DEF sum
    <3> QED BY Zenon, <2>5, <2>6 DEF Partial
  <2> QED BY Zenon, <1>3, <2>7
<1> QED BY Zenon, <1>4, <1>5

(* Sums is the function it is defined to be.                                 *)
LEMMA SumsDefined ==
  ASSUME NEW amounts \in Seq(Nat)
  PROVE  Partial(Sums(amounts), amounts, Len(amounts))
<1> DEFINE n == Len(amounts)
<1>1. n \in Nat /\ n \in 0..n
  OBVIOUS
<1>2. PICK sum : Partial(sum, amounts, n)
  BY Zenon, <1>1, SumsExist
<1>3. Summing(sum, amounts)
  BY <1>1, <1>2 DEF Partial, Summing
<1>4. Sums(amounts) = CHOOSE f : Summing(f, amounts)
  BY Zenon DEF Sums, Summing
<1>5. Summing(Sums(amounts), amounts)
  BY Zenon, <1>3, <1>4
<1> DEFINE s == Sums(amounts)
<1>6. s = [i \in 0..n |-> IF i = 0 THEN 0 ELSE s[i - 1] + amounts[i]]
  BY Zenon, <1>5 DEF Summing
<1> HIDE DEF s
<1>7. DOMAIN s = 0..n /\ s[0] = 0 /\ \A i \in 1..n : s[i] = s[i - 1] + amounts[i]
  BY <1>1, <1>6
<1>8. \A i \in 0..n : s[i] \in Nat
  <2> DEFINE bad == {i \in 0..n : s[i] \notin Nat}
  <2> SUFFICES ASSUME bad # {} PROVE FALSE
    OBVIOUS
  <2>1. bad \subseteq Nat
    BY <1>1
  <2>2. PICK i \in bad : \A j \in bad : i <= j
    <3> HIDE DEF bad
    <3> QED BY Zenon, <2>1, LeastNatural
  <2>3. i # 0 /\ i \in 1..n /\ i - 1 \in 0..n /\ ~(i <= i - 1)
    BY <1>1, <1>7
  <2>4. s[i - 1] \in Nat
    BY Zenon, <2>2, <2>3
  <2>5. amounts[i] \in Nat
    BY <2>3
  <2> QED BY <1>7, <2>2, <2>3, <2>4, <2>5
<1>9. s \in [0..n -> Nat]
  BY <1>6, <1>8
<1> QED BY Zenon, <1>7, <1>9 DEF Partial, s

(* A number more adds to the total.                                          *)
LEMMA TotalAppend ==
  ASSUME NEW amounts \in Seq(Nat), NEW x \in Nat
  PROVE  Total(amounts) \in Nat /\ Total(Append(amounts, x)) = Total(amounts) + x
<1> DEFINE n == Len(amounts)
           more == Append(amounts, x)
           s == Sums(amounts)
           t == Sums(more)
<1>1. n \in Nat /\ more \in Seq(Nat) /\ Len(more) = n + 1 /\ more[n + 1] = x
      /\ \A i \in 1..n : more[i] = amounts[i]
  OBVIOUS
<1>2. s \in [0..n -> Nat] /\ s[0] = 0 /\ \A i \in 1..n : s[i] = s[i - 1] + amounts[i]
  BY Zenon, SumsDefined DEF Partial
<1>3. t \in [0..(n + 1) -> Nat] /\ t[0] = 0 /\ \A i \in 1..(n + 1) : t[i] = t[i - 1] + more[i]
  <2> HIDE DEF more
  <2>1. Partial(t, more, n + 1)
    BY Zenon, <1>1, SumsDefined
  <2> QED BY Zenon, <2>1 DEF Partial
<1>4. Total(amounts) = s[n] /\ Total(more) = t[n + 1]
  BY Zenon, <1>1 DEF Total
<1> HIDE DEF s, t, more, n
<1>5. \A i \in 0..n : t[i] = s[i]
  <2> DEFINE bad == {i \in 0..n : t[i] # s[i]}
  <2> SUFFICES ASSUME bad # {} PROVE FALSE
    OBVIOUS
  <2>1. bad \subseteq Nat
    BY <1>1
  <2>2. PICK i \in bad : \A j \in bad : i <= j
    <3> HIDE DEF bad
    <3> QED BY Zenon, <2>1, LeastNatural
  <2>3. i \in 1..n /\ i \in 1..(n + 1) /\ i - 1 \in 0..n /\ ~(i <= i - 1)
    BY <1>1, <1>2, <1>3
  <2>4. t[i - 1] = s[i - 1]
    BY Zenon, <2>2, <2>3
  <2>5. t[i] = t[i - 1] + more[i] /\ s[i] = s[i - 1] + amounts[i] /\ more[i] = amounts[i]
    BY Zenon, <1>1, <1>2, <1>3, <2>3
  <2>6. t[i] # s[i]
    BY Zenon, <2>2
  <2> HIDE DEF bad
  <2> QED BY <2>4, <2>5, <2>6
<1>6. t[n + 1] = t[n] + x /\ t[n] = s[n] /\ s[n] \in Nat
  BY <1>1, <1>2, <1>3, <1>5
<1> QED BY Zenon, <1>4, <1>6 DEF more

(* The total of nothing                                                      *)
LEMMA TotalEmpty == Total(<<>>) = 0
<1>1. <<>> \in Seq(Nat) /\ Len(<<>>) = 0
  OBVIOUS
<1>2. Sums(<<>>)[0] = 0
  BY Zenon, <1>1, SumsDefined DEF Partial
<1> QED BY Zenon, <1>1, <1>2 DEF Total

-----------------------------------------------------------------------------
(* Routes *)

(* The seconds of a route are numbers.                                       *)
LEMMA AmountsType ==
  ASSUME NEW route \in Seq(Links)
  PROVE  /\ SecondsOf(route) \in Seq(Nat) /\ Len(SecondsOf(route)) = Len(route)
         /\ CostsOf(route) \in Seq(Nat) /\ Len(CostsOf(route)) = Len(route)
<1>1. Len(route) \in Nat
  OBVIOUS
<1>2. ASSUME NEW i \in 1..Len(route) PROVE route[i].seconds \in Nat /\ route[i].cost \in Nat
  <2>1. route[i] \in Links
    OBVIOUS
  <2> QED BY <2>1 DEF Links
<1>3. SecondsOf(route) \in [1..Len(route) -> Nat] /\ CostsOf(route) \in [1..Len(route) -> Nat]
  BY Zenon, <1>2 DEF SecondsOf, CostsOf
<1>4. ASSUME NEW n \in Nat, NEW f \in [1..n -> Nat] PROVE f \in Seq(Nat) /\ Len(f) = n
  OBVIOUS
<1> QED BY Zenon, <1>1, <1>3, <1>4

(* A link more adds its seconds and its cost.                               *)
LEMMA AmountsAppend ==
  ASSUME NEW route \in Seq(Links), NEW l \in Links
  PROVE  /\ Total(SecondsOf(Append(route, l))) = Total(SecondsOf(route)) + l.seconds
         /\ Total(CostsOf(Append(route, l))) = Total(CostsOf(route)) + l.cost
<1>1. l.seconds \in Nat /\ l.cost \in Nat
  BY DEF Links
<1>2. SecondsOf(Append(route, l)) = Append(SecondsOf(route), l.seconds)
  BY DEF SecondsOf
<1>3. CostsOf(Append(route, l)) = Append(CostsOf(route), l.cost)
  BY DEF CostsOf
<1> QED BY Zenon, <1>1, <1>2, <1>3, AmountsType, TotalAppend

(* A link more leads to where the link does.                                 *)
LEMMA LeadsAppend ==
  ASSUME NEW route \in Seq(Links), NEW l \in Links, NEW s, Leads(route, s, l.from)
  PROVE  Leads(Append(route, l), s, l.to)
<1> DEFINE more == Append(route, l)
           n == Len(route)
<1>1. n \in Nat /\ Len(more) = n + 1 /\ more[n + 1] = l /\ \A i \in 1..n : more[i] = route[i]
  OBVIOUS
<1>2. (\A i \in 1..n : route[i].from = After(route, s, i - 1)) /\ After(route, s, n) = l.from
  BY Zenon DEF Leads
<1> HIDE DEF more, n
<1>3. \A i \in 0..n : After(more, s, i) = After(route, s, i)
  BY <1>1 DEF After
<1>4. After(more, s, n + 1) = l.to
  BY <1>1 DEF After
<1>5. ASSUME NEW i \in 1..(n + 1) PROVE more[i].from = After(more, s, i - 1)
  <2>1. i - 1 \in 0..n
    BY <1>1
  <2>2. CASE i = n + 1
    <3>1. i - 1 = n
      BY <1>1, <2>2
    <3> QED BY Zenon, <1>1, <1>2, <1>3, <2>1, <2>2, <3>1
  <2>3. CASE i # n + 1
    <3>1. i \in 1..n
      BY <1>1, <2>3
    <3> QED BY Zenon, <1>1, <1>2, <1>3, <2>1, <3>1
  <2> QED BY Zenon, <2>2, <2>3
<1> QED BY Zenon, <1>1, <1>4, <1>5 DEF Leads, more

-----------------------------------------------------------------------------
(* The search *)

\* What is known of the resources that were reached
ReachedInv ==
  /\ distance \in [DOMAIN distance -> Nat]
  /\ cost \in [DOMAIN distance -> Nat]
  /\ trail \in [DOMAIN distance -> Seq(query.links)]
  /\ \A n \in DOMAIN distance :
       /\ Leads(trail[n], query.source, n)
       /\ Total(SecondsOf(trail[n])) = distance[n]
       /\ Total(CostsOf(trail[n])) = cost[n]

\* Nothing that is open is nearer than what is expanded, and the links of what is
\* expanded have been followed.
SettledInv ==
  /\ query.source \in DOMAIN distance /\ distance[query.source] = 0
  /\ expanded \subseteq DOMAIN distance /\ query.target \notin expanded
  /\ \A v \in expanded, u \in Frontier : distance[v] <= distance[u]
  /\ \A l \in query.links \ pending : l.from \in expanded =>
       l.to \in DOMAIN distance /\ distance[l.to] <= Through(l)
  /\ \A l \in pending : l.from \in expanded /\ \A v \in expanded : distance[v] <= distance[l.from]

NetworkIInv ==
  /\ search \in {"idle", "settle", "found", "unreachable"}
  /\ search # "settle" => pending = {}
  /\ search = "idle" => expanded = {}
  /\ search # "idle" =>
       /\ query.links \subseteq Links
       /\ pending \subseteq query.links
       /\ ReachedInv
       /\ SettledInv
  /\ search = "found" => query.target \in Nearest
  /\ search = "unreachable" => Frontier = {}

(* A search begins at its source, which no link led to.                      *)
LEMMA FindPathKeeps ==
  ASSUME NetworkIInv, NEW links \in Topologies, NEW s \in Resources, NEW t \in Resources, FindPath(links, s, t)
  PROVE  NetworkIInv'
<1> USE DEF FindPath
<1>1. search' = "settle" /\ query'.links = links /\ query'.source = s /\ query'.target = t
      /\ expanded' = {} /\ pending' = {} /\ links \subseteq Links
  BY NetworkAssumption DEF NetworkIInv
<1>2. DOMAIN distance' = {s} /\ distance'[s] = 0 /\ cost'[s] = 0 /\ trail'[s] = <<>>
      /\ distance' \in [{s} -> Nat] /\ cost' \in [{s} -> Nat] /\ trail' \in [{s} -> Seq(links)]
  OBVIOUS
<1>3. Leads(<<>>, s, s) /\ SecondsOf(<<>>) = <<>> /\ CostsOf(<<>>) = <<>>
  BY DEF Leads, After, SecondsOf, CostsOf
<1>4. ReachedInv'
  <2> SUFFICES ASSUME NEW n \in {s}
               PROVE  /\ Leads(trail'[n], query'.source, n)
                      /\ Total(SecondsOf(trail'[n])) = distance'[n]
                      /\ Total(CostsOf(trail'[n])) = cost'[n]
    BY Zenon, <1>1, <1>2 DEF ReachedInv
  <2> QED BY Zenon, <1>1, <1>2, <1>3, TotalEmpty
<1>5. SettledInv'
  BY Zenon, <1>1, <1>2 DEF SettledInv, Frontier
<1> QED BY Zenon, <1>1, <1>4, <1>5 DEF NetworkIInv

(* Settling one of the nearest keeps what is open behind what is expanded.    *)
LEMMA SettleKeeps ==
  ASSUME NetworkIInv, Settle
  PROVE  NetworkIInv'
<1> USE DEF Settle
<1>1. PICK n \in Nearest : /\ n # query.target
                           /\ expanded' = expanded \cup {n}
                           /\ pending' = {l \in query.links : l.from = n}
  BY Zenon
<1>2. search = "settle" /\ pending = {} /\ UNCHANGED <<search, query, distance, cost, trail>>
  BY Zenon DEF reached
<1>3. ReachedInv /\ SettledInv /\ query.links \subseteq Links
  BY Zenon, <1>2 DEF NetworkIInv
<1>4. ReachedInv'
  BY Zenon, <1>2, <1>3 DEF ReachedInv
<1>5. n \in DOMAIN distance /\ n \notin expanded /\ \A m \in Frontier : distance[n] <= distance[m]
  BY Zenon DEF Nearest, Frontier
<1>6. distance[n] \in Nat /\ Frontier' = Frontier \ {n} /\ n \in Frontier
  BY Zenon, <1>1, <1>2, <1>3, <1>5 DEF Frontier, ReachedInv
<1>7. \A v \in expanded' : distance[v] <= distance[n]
  <2>1. \A v \in expanded : distance[v] <= distance[n]
    BY Zenon, <1>3, <1>6 DEF SettledInv
  <2>2. distance[n] <= distance[n]
    BY <1>6
  <2> QED BY Zenon, <1>1, <2>1, <2>2
<1>8. ASSUME NEW v \in expanded', NEW u \in Frontier' PROVE distance[v] <= distance[u]
  <2>1. CASE v = n
    BY Zenon, <1>5, <1>6, <2>1
  <2>2. CASE v # n
    BY Zenon, <1>1, <1>3, <1>6, <2>2 DEF SettledInv
  <2> QED BY Zenon, <2>1, <2>2
<1>9. ASSUME NEW l \in query.links \ pending', l.from \in expanded'
      PROVE  l.to \in DOMAIN distance /\ distance[l.to] <= Through(l)
  <2>1. l.from # n /\ l.from \in expanded /\ l \in query.links \ pending
    BY Zenon, <1>1, <1>2, <1>9
  <2> QED BY Zenon, <1>3, <2>1 DEF SettledInv
<1>10. ASSUME NEW l \in pending' PROVE l.from \in expanded' /\ \A v \in expanded' : distance[v] <= distance[l.from]
  BY Zenon, <1>1, <1>7
<1>11. SettledInv'
  <2>1. query.source \in DOMAIN distance /\ distance[query.source] = 0
        /\ expanded' \subseteq DOMAIN distance /\ query.target \notin expanded'
    BY Zenon, <1>1, <1>3, <1>5 DEF SettledInv
  <2>2. \A l : Through(l)' = Through(l)
    BY Zenon, <1>2 DEF Through
  <2> QED BY Zenon, <1>2, <1>8, <1>9, <1>10, <2>1, <2>2 DEF SettledInv
<1>12. pending' \subseteq query.links
  BY Zenon, <1>1
<1>13. search' = "settle" /\ query' = query
  BY Zenon, <1>2
<1> QED BY Zenon, <1>3, <1>4, <1>11, <1>12, <1>13 DEF NetworkIInv

(* The end of a search changes nothing that was found.                       *)
LEMMA EndSearchKeeps ==
  ASSUME NetworkIInv, EndSearch
  PROVE  NetworkIInv'
<1> USE DEF EndSearch, reached
<1>1. search = "settle" /\ pending = {} /\ UNCHANGED <<query, distance, cost, trail, expanded, pending>>
  BY Zenon
<1>2. ReachedInv /\ SettledInv /\ query.links \subseteq Links
  BY Zenon, <1>1 DEF NetworkIInv
<1>3. ReachedInv'
  BY Zenon, <1>1, <1>2 DEF ReachedInv
<1>4. SettledInv'
  BY Zenon, <1>1, <1>2 DEF SettledInv, Frontier, Through
<1>5. Frontier' = Frontier /\ Nearest' = Nearest
  BY Zenon, <1>1 DEF Frontier, Nearest
<1>6. search' \in {"found", "unreachable"} /\ (search' = "found" => query.target \in Nearest)
      /\ (search' = "unreachable" => Frontier = {})
  OBVIOUS
<1> QED BY Zenon, <1>1, <1>2, <1>3, <1>4, <1>5, <1>6 DEF NetworkIInv

(* Sequences over a set are sequences over a larger one.                     *)
LEMMA SequencesOver ==
  ASSUME NEW S, NEW T, S \subseteq T, NEW x \in Seq(S), NEW y \in S
  PROVE  x \in Seq(T) /\ Append(x, y) \in Seq(S)
<1>1. Len(x) \in Nat /\ x \in [1..Len(x) -> S] /\ Append(x, y) \in Seq(S)
  OBVIOUS
<1>2. x \in [1..Len(x) -> T]
  BY Zenon, <1>1
<1>3. ASSUME NEW n \in Nat, x \in [1..n -> T] PROVE x \in Seq(T)
  BY <1>3
<1> QED BY Zenon, <1>1, <1>2, <1>3

(* A link that shortens the way extends the trail to where it starts.        *)
LEMMA ShorterKeepsReached ==
  ASSUME ReachedInv, query.links \subseteq Links, NEW l \in query.links, l.from \in DOMAIN distance, query' = query,
         distance' = Extended(distance, l.to, Through(l)),
         cost' = Extended(cost, l.to, cost[l.from] + l.cost),
         trail' = Extended(trail, l.to, Append(trail[l.from], l))
  PROVE  ReachedInv'
<1>1. l \in Links /\ l.seconds \in Nat /\ l.cost \in Nat
  BY DEF Links
<1>2. distance[l.from] \in Nat /\ cost[l.from] \in Nat /\ trail[l.from] \in Seq(query.links)
  BY Zenon DEF ReachedInv
<1>3. Through(l) \in Nat /\ cost[l.from] + l.cost \in Nat
  BY <1>1, <1>2 DEF Through
<1>4. trail[l.from] \in Seq(Links) /\ Append(trail[l.from], l) \in Seq(query.links)
  <2> DEFINE S == query.links
             x == trail[l.from]
  <2>1. S \subseteq Links /\ x \in Seq(S) /\ l \in S
    BY Zenon, <1>2
  <2> HIDE DEF S, x
  <2>2. x \in Seq(Links) /\ Append(x, l) \in Seq(S)
    BY Zenon, <2>1, SequencesOver
  <2> QED BY Zenon, <2>2 DEF S, x
<1>5. /\ Leads(Append(trail[l.from], l), query.source, l.to)
      /\ Total(SecondsOf(Append(trail[l.from], l))) = Through(l)
      /\ Total(CostsOf(Append(trail[l.from], l))) = cost[l.from] + l.cost
  <2>1. Leads(trail[l.from], query.source, l.from) /\ Total(SecondsOf(trail[l.from])) = distance[l.from]
        /\ Total(CostsOf(trail[l.from])) = cost[l.from]
    BY Zenon DEF ReachedInv
  <2> QED BY Zenon, <1>1, <1>4, <2>1, LeadsAppend, AmountsAppend DEF Through
<1> DEFINE D == DOMAIN distance \cup {l.to}
<1>6. DOMAIN distance' = D /\ DOMAIN cost' = D /\ DOMAIN trail' = D
  BY Zenon DEF ReachedInv, Extended
<1>7. ASSUME NEW n \in D
      PROVE  /\ distance'[n] \in Nat /\ cost'[n] \in Nat /\ trail'[n] \in Seq(query.links)
             /\ Leads(trail'[n], query.source, n)
             /\ Total(SecondsOf(trail'[n])) = distance'[n]
             /\ Total(CostsOf(trail'[n])) = cost'[n]
  <2>1. CASE n = l.to
    <3>1. distance'[n] = Through(l) /\ cost'[n] = cost[l.from] + l.cost /\ trail'[n] = Append(trail[l.from], l)
      BY Zenon, <2>1 DEF Extended
    <3> QED BY Zenon, <1>3, <1>4, <1>5, <2>1, <3>1
  <2>2. CASE n # l.to
    <3>1. n \in DOMAIN distance /\ n \in DOMAIN cost /\ n \in DOMAIN trail
      BY Zenon, <2>2 DEF ReachedInv
    <3>2. distance'[n] = distance[n] /\ cost'[n] = cost[n] /\ trail'[n] = trail[n]
      BY Zenon, <2>2, <3>1 DEF Extended
    <3> QED BY Zenon, <3>1, <3>2 DEF ReachedInv
  <2> QED BY Zenon, <2>1, <2>2
<1>8. distance' \in [D -> Nat] /\ cost' \in [D -> Nat] /\ trail' \in [D -> Seq(query.links)]
  <2>1. distance' = [n \in D |-> distance'[n]] /\ cost' = [n \in D |-> cost'[n]] /\ trail' = [n \in D |-> trail'[n]]
    BY Zenon, <1>6 DEF Extended
  <2> QED BY Zenon, <1>7, <2>1
<1> HIDE DEF D
<1> QED BY Zenon, <1>6, <1>7, <1>8 DEF ReachedInv

(* A link that shortens the way leads to what is not expanded.                *)
LEMMA ShorterKeepsSettled ==
  ASSUME ReachedInv, SettledInv, query.links \subseteq Links, NEW l \in pending, l \in query.links,
         Shortens(l), UNCHANGED <<query, expanded>>, pending' = pending \ {l},
         distance' = Extended(distance, l.to, Through(l))
  PROVE  SettledInv'
<1>1. l \in Links /\ l.seconds \in Nat
  BY DEF Links
<1>2. l.from \in expanded /\ l.from \in DOMAIN distance /\ expanded \subseteq DOMAIN distance
      /\ \A v \in expanded : distance[v] <= distance[l.from]
  BY Zenon DEF SettledInv
<1>3. \A n \in DOMAIN distance : distance[n] \in Nat
  BY Zenon DEF ReachedInv
<1>4. Through(l) \in Nat /\ distance[l.from] <= Through(l)
  BY <1>1, <1>2, <1>3 DEF Through
<1>5. \A v \in expanded : distance[v] <= Through(l)
  BY <1>2, <1>3, <1>4
<1>6. l.to \notin expanded
  BY <1>2, <1>3, <1>4, <1>5 DEF Shortens
<1>7. DOMAIN distance' = DOMAIN distance \cup {l.to} /\ distance'[l.to] = Through(l)
      /\ \A n \in DOMAIN distance : n # l.to => distance'[n] = distance[n]
  BY Zenon DEF Extended
<1>8. \A n \in DOMAIN distance : distance'[n] \in Nat /\ distance'[n] <= distance[n]
  <2> SUFFICES ASSUME NEW n \in DOMAIN distance PROVE distance'[n] \in Nat /\ distance'[n] <= distance[n]
    OBVIOUS
  <2>1. CASE n = l.to
    BY <1>3, <1>4, <1>7, <2>1 DEF Shortens
  <2>2. CASE n # l.to
    BY <1>3, <1>7, <2>2
  <2> QED BY Zenon, <2>1, <2>2
<1>9. \A v \in expanded : distance'[v] = distance[v]
  BY Zenon, <1>2, <1>6, <1>7
<1>10. query.source \in DOMAIN distance' /\ distance'[query.source] = 0
  <2>1. query.source \in DOMAIN distance /\ distance[query.source] = 0
    BY Zenon DEF SettledInv
  <2> QED BY <1>7, <1>8, <2>1
<1>11. ASSUME NEW v \in expanded, NEW u \in Frontier' PROVE distance'[v] <= distance'[u]
  <2>1. u \in DOMAIN distance' /\ u \notin expanded
    BY Zenon DEF Frontier
  <2>2. CASE u = l.to
    BY Zenon, <1>5, <1>7, <1>9, <2>2
  <2>3. CASE u # l.to
    <3>1. u \in Frontier /\ distance'[u] = distance[u]
      BY Zenon, <1>7, <2>1, <2>3 DEF Frontier
    <3> QED BY Zenon, <1>9, <3>1 DEF SettledInv
  <2> QED BY Zenon, <2>2, <2>3
<1>12. ASSUME NEW k \in query.links \ pending', k.from \in expanded
       PROVE  k.to \in DOMAIN distance' /\ distance'[k.to] <= distance'[k.from] + k.seconds
  <2>1. k.seconds \in Nat /\ distance'[k.from] = distance[k.from] /\ distance[k.from] \in Nat
    BY <1>2, <1>3, <1>9, <1>12 DEF Links
  <2>2. CASE k = l
    <3>1. distance'[l.to] = distance'[l.from] + l.seconds /\ distance'[l.to] \in Nat
      BY Zenon, <1>2, <1>4, <1>7, <1>9 DEF Through
    <3>2. distance'[l.to] <= distance'[l.from] + l.seconds
      BY <3>1
    <3> QED BY Zenon, <1>7, <2>2, <3>2
  <2>3. CASE k # l
    <3>1. k.to \in DOMAIN distance /\ distance[k.to] <= distance[k.from] + k.seconds
      BY Zenon, <1>12, <2>3 DEF SettledInv, Through
    <3>2. distance'[k.to] \in Nat /\ distance[k.to] \in Nat /\ distance'[k.to] <= distance[k.to]
      BY Zenon, <1>3, <1>8, <3>1
    <3>3. distance'[k.to] <= distance[k.from] + k.seconds
      BY <2>1, <3>1, <3>2
    <3> QED BY Zenon, <1>7, <2>1, <3>1, <3>3
  <2> QED BY Zenon, <2>2, <2>3
<1>13. ASSUME NEW k \in pending'
       PROVE  k.from \in expanded /\ \A v \in expanded : distance'[v] <= distance'[k.from]
  BY Zenon, <1>9 DEF SettledInv
<1>14. expanded \subseteq DOMAIN distance' /\ query.target \notin expanded
  BY Zenon, <1>2, <1>7 DEF SettledInv
<1> QED BY Zenon, <1>10, <1>11, <1>12, <1>13, <1>14 DEF SettledInv, Through

(* Following a link keeps what is known of the search.                       *)
LEMMA FollowLinkKeeps ==
  ASSUME NetworkIInv, FollowLink
  PROVE  NetworkIInv'
<1> USE DEF reached
<1>1. PICK l \in pending :
        /\ pending' = pending \ {l}
        /\ \/ /\ Shortens(l)
              /\ distance' = Extended(distance, l.to, Through(l))
              /\ cost' = Extended(cost, l.to, cost[l.from] + l.cost)
              /\ trail' = Extended(trail, l.to, Append(trail[l.from], l))
           \/ ~Shortens(l) /\ UNCHANGED <<distance, cost, trail>>
        /\ UNCHANGED <<search, query, expanded>>
  BY Zenon DEF FollowLink
<1>2. search = "settle" /\ ReachedInv /\ SettledInv /\ query.links \subseteq Links /\ l \in query.links
      /\ pending \subseteq query.links
  BY Zenon DEF NetworkIInv
<1>3. l.from \in DOMAIN distance
  BY Zenon, <1>2 DEF SettledInv
<1>4. ReachedInv'
  <2>1. CASE Shortens(l)
    BY Zenon, <1>1, <1>2, <1>3, <2>1, ShorterKeepsReached
  <2>2. CASE ~Shortens(l)
    BY Zenon, <1>1, <1>2, <2>2 DEF ReachedInv
  <2> QED BY Zenon, <2>1, <2>2
<1>5. SettledInv'
  <2>1. CASE Shortens(l)
    BY Zenon, <1>1, <1>2, <2>1, ShorterKeepsSettled
  <2>2. CASE ~Shortens(l)
    <3>1. UNCHANGED <<distance, query, expanded>> /\ pending' = pending \ {l}
      BY Zenon, <1>1, <2>2
    <3>2. l.to \in DOMAIN distance /\ distance[l.to] <= Through(l)
      <4>1. l.to \in DOMAIN distance /\ ~(Through(l) < distance[l.to])
        BY Zenon, <2>2 DEF Shortens
      <4>2. distance[l.to] \in Nat /\ distance[l.from] \in Nat
        BY Zenon, <1>2, <1>3, <4>1 DEF ReachedInv
      <4>3. l.seconds \in Nat
        BY <1>2 DEF Links
      <4> QED BY <4>1, <4>2, <4>3 DEF Through
    <3>3. Frontier' = Frontier /\ \A k : Through(k)' = Through(k)
      BY Zenon, <3>1 DEF Frontier, Through
    <3>4. ASSUME NEW k \in query.links \ pending', k.from \in expanded
          PROVE  k.to \in DOMAIN distance /\ distance[k.to] <= Through(k)
      BY Zenon, <1>2, <3>1, <3>2, <3>4 DEF SettledInv
    <3> QED BY Zenon, <1>2, <3>1, <3>3, <3>4 DEF SettledInv
  <2> QED BY Zenon, <2>1, <2>2
<1>6. search' = "settle" /\ query' = query /\ pending' \subseteq query.links
  BY Zenon, <1>1, <1>2
<1> QED BY Zenon, <1>2, <1>4, <1>5, <1>6 DEF NetworkIInv

(* Wherever a route has led to after some links, the search has expanded it   *)
(* in no more seconds, or something open is as near.                         *)
LEMMA RoutesAreFollowed ==
  ASSUME ReachedInv, SettledInv, query.links \subseteq Links, pending = {},
         NEW route \in Seq(query.links), NEW t, Leads(route, query.source, t)
  PROVE  /\ Total(SecondsOf(route)) \in Nat
         /\ \/ t \in expanded
            \/ \E u \in Frontier : distance[u] <= Total(SecondsOf(route))
<1> DEFINE n == Len(route)
           sum == Sums(SecondsOf(route))
           stop(i) == After(route, query.source, i)
           followed(i) == \/ stop(i) \in expanded /\ distance[stop(i)] <= sum[i]
                          \/ \E u \in Frontier : distance[u] <= sum[i]
<1>1. n \in Nat /\ \A i \in 1..n : route[i] \in query.links
  OBVIOUS
<1>2. SecondsOf(route) \in Seq(Nat) /\ Len(SecondsOf(route)) = n
  <2>1. ASSUME NEW S, S \subseteq Links, NEW r \in Seq(S) PROVE r \in Seq(Links)
    <3>1. CASE S = {}
      <4>1. r = <<>>
        BY <3>1
      <4> QED BY <4>1
    <3>2. CASE S # {}
      BY Zenon, <2>1, <3>2, SequencesOver
    <3> QED BY Zenon, <3>1, <3>2
  <2>2. route \in Seq(Links)
    <3> DEFINE S == query.links
    <3>1. S \subseteq Links /\ route \in Seq(S)
      OBVIOUS
    <3> HIDE DEF S
    <3> QED BY Zenon, <2>1, <3>1
  <2> QED BY Zenon, <2>2, AmountsType
<1>3. sum \in [0..n -> Nat] /\ sum[0] = 0 /\ \A i \in 1..n : sum[i] = sum[i - 1] + SecondsOf(route)[i]
  <2>1. Partial(sum, SecondsOf(route), n)
    BY Zenon, <1>2, SumsDefined
  <2> QED BY Zenon, <2>1 DEF Partial
<1>4. Total(SecondsOf(route)) = sum[n]
  BY Zenon, <1>2 DEF Total
<1>5. stop(0) = query.source /\ stop(n) = t /\ \A i \in 1..n : route[i].from = stop(i - 1) /\ stop(i) = route[i].to
  BY <1>1 DEF Leads, After
<1>6. \A m \in DOMAIN distance : distance[m] \in Nat /\ (m \in expanded \/ m \in Frontier)
  BY Zenon DEF ReachedInv, Frontier
<1>7. \A i \in 1..n : SecondsOf(route)[i] = route[i].seconds /\ route[i].seconds \in Nat
  BY <1>1 DEF SecondsOf, Links
<1> HIDE DEF n, sum, stop
<1>8. followed(0)
  <2>1. query.source \in DOMAIN distance /\ distance[query.source] = 0
    BY Zenon DEF SettledInv
  <2>2. distance[query.source] <= sum[0]
    BY <1>3, <2>1
  <2> QED BY Zenon, <1>5, <1>6, <2>1, <2>2
<1>9. ASSUME NEW i \in 1..n, followed(i - 1) PROVE followed(i)
  <2>1. i - 1 \in 0..n /\ i \in 0..n /\ sum[i - 1] \in Nat /\ sum[i] \in Nat
        /\ sum[i] = sum[i - 1] + route[i].seconds /\ route[i].seconds \in Nat
    BY <1>1, <1>3, <1>7
  <2>2. CASE stop(i - 1) \in expanded /\ distance[stop(i - 1)] <= sum[i - 1]
    <3>1. route[i] \in query.links \ pending /\ route[i].from = stop(i - 1) /\ route[i].to = stop(i)
      BY Zenon, <1>1, <1>5
    <3>2. stop(i) \in DOMAIN distance /\ distance[stop(i)] <= distance[stop(i - 1)] + route[i].seconds
      BY Zenon, <2>2, <3>1 DEF SettledInv, Through
    <3>3. distance[stop(i - 1)] \in Nat /\ distance[stop(i)] \in Nat
      BY Zenon, <1>6, <2>2, <3>2 DEF SettledInv
    <3>4. distance[stop(i)] <= sum[i]
      BY <2>1, <2>2, <3>2, <3>3
    <3> QED BY Zenon, <1>6, <3>2, <3>4
  <2>3. CASE \E u \in Frontier : distance[u] <= sum[i - 1]
    <3>1. PICK u \in Frontier : distance[u] <= sum[i - 1]
      BY Zenon, <2>3
    <3>2. distance[u] \in Nat
      BY Zenon, <1>6 DEF Frontier
    <3>3. distance[u] <= sum[i]
      BY <2>1, <3>1, <3>2
    <3> QED BY Zenon, <3>3
  <2> QED BY Zenon, <1>9, <2>2, <2>3
<1>10. \A i \in 0..n : followed(i)
  <2> DEFINE bad == {i \in 0..n : ~followed(i)}
  <2> HIDE DEF followed
  <2> SUFFICES ASSUME bad # {} PROVE FALSE
    OBVIOUS
  <2>1. bad \subseteq Nat
    BY <1>1
  <2>2. PICK i \in bad : \A j \in bad : i <= j
    <3> HIDE DEF bad
    <3> QED BY Zenon, <2>1, LeastNatural
  <2>3. i # 0
    BY Zenon, <1>8, <2>2
  <2>4. i \in 1..n /\ i - 1 \in 0..n /\ ~(i <= i - 1)
    BY <1>1, <2>2, <2>3
  <2>5. followed(i - 1)
    BY Zenon, <2>2, <2>4
  <2> QED BY Zenon, <1>9, <2>2, <2>4, <2>5
<1>11. followed(n) /\ sum[n] \in Nat
  <2>1. n \in 0..n
    BY <1>1
  <2> HIDE DEF followed
  <2> QED BY Zenon, <1>3, <1>10, <2>1
<1> QED BY Zenon, <1>4, <1>5, <1>11

(* What is answered at the end of a search is right.                         *)
LEMMA NetworkIInvImplies == NetworkIInv => PathsAreShortest
<1> SUFFICES ASSUME NetworkIInv PROVE PathsAreShortest
  BY Zenon
<1>1. ASSUME search = "found"
      PROVE  /\ trail[query.target] \in Seq(query.links)
             /\ Leads(trail[query.target], query.source, query.target)
             /\ Total(SecondsOf(trail[query.target])) = distance[query.target]
             /\ Total(CostsOf(trail[query.target])) = cost[query.target]
  <2>1. ReachedInv /\ query.target \in DOMAIN distance
    BY Zenon, <1>1 DEF NetworkIInv, Nearest, Frontier
  <2> QED BY Zenon, <2>1 DEF ReachedInv
<1>2. ASSUME NEW route \in Routes(query.links), Leads(route, query.source, query.target), search # "idle", search # "settle"
      PROVE  search # "unreachable" /\ (search = "found" => distance[query.target] <= Total(SecondsOf(route)))
  <2>1. ReachedInv /\ SettledInv /\ query.links \subseteq Links /\ pending = {} /\ query.target \notin expanded
    BY Zenon, <1>2 DEF NetworkIInv, SettledInv
  <2>2. route \in Seq(query.links)
    <3>1. PICK k \in 0..MaxHops : route \in [1..k -> query.links]
      BY Zenon DEF Routes
    <3>2. k \in Nat
      BY NetworkAssumption
    <3> QED BY <3>1, <3>2
  <2>3. PICK u \in Frontier : distance[u] <= Total(SecondsOf(route))
    BY Zenon, <1>2, <2>1, <2>2, RoutesAreFollowed
  <2>4. search # "unreachable"
    BY Zenon, <2>3 DEF NetworkIInv
  <2>5. ASSUME search = "found" PROVE distance[query.target] <= Total(SecondsOf(route))
    <3>1. query.target \in DOMAIN distance /\ distance[query.target] <= distance[u]
      BY Zenon, <2>5 DEF NetworkIInv, Nearest, Frontier
    <3>2. distance[query.target] \in Nat /\ distance[u] \in Nat
      BY Zenon, <2>1, <3>1 DEF ReachedInv, Frontier
    <3>3. Total(SecondsOf(route)) \in Nat
      BY Zenon, <1>2, <2>1, <2>2, RoutesAreFollowed
    <3> QED BY <2>3, <3>1, <3>2, <3>3
  <2> QED BY Zenon, <2>4, <2>5
<1>3. search \in {"idle", "settle", "found", "unreachable"}
  BY Zenon DEF NetworkIInv
<1> QED BY Zenon, <1>1, <1>2, <1>3 DEF PathsAreShortest

(* A step of the search keeps its invariant.                                 *)
LEMMA NetworkNextIInv == NetworkIInv /\ [NetworkNext]_networkVars => NetworkIInv'
<1>1. ASSUME NetworkIInv, NetworkNext PROVE NetworkIInv'
  BY Zenon, <1>1, FindPathKeeps, SettleKeeps, EndSearchKeeps, FollowLinkKeeps DEF NetworkNext
<1>2. ASSUME NetworkIInv, UNCHANGED networkVars PROVE NetworkIInv'
  <2> USE <1>2 DEF networkVars, reached
  <2>1. ReachedInv' = ReachedInv /\ SettledInv' = SettledInv /\ Frontier' = Frontier /\ Nearest' = Nearest
    BY Zenon DEF ReachedInv, SettledInv, Frontier, Nearest, Through
  <2> QED BY Zenon, <2>1 DEF NetworkIInv
<1> QED BY Zenon, <1>1, <1>2

(* resolveNetworkPath: for every network, source and target, and whichever   *)
(* of the equally near resources a Go map yields first, the path answered is *)
(* a shortest one, with its own cost, and none is missed.                   *)
THEOREM NetworkPathsAreShortest == NetworkSpec => []PathsAreShortest
<1>1. NetworkInit => NetworkIInv
  BY Zenon DEF NetworkInit, NetworkIInv
<1> QED BY <1>1, NetworkNextIInv, NetworkIInvImplies, PTL DEF NetworkSpec
==============================================================================
