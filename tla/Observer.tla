------------------------------ MODULE Observer -------------------------------
(* internal/provider/artifact_observer.go as the local adapter uses it: the  *)
(* files an activity made are the difference of two walks over its           *)
(* workspace, one before its process starts and one after it ended.  A walk  *)
(* reads one file after the other while other activities may be writing.     *)
EXTENDS Integers, FiniteSets, Functions

CONSTANTS
    LocalTasks,       \* activities of the local adapter
    Declared,    \* the workspace an activity names, or its own name for none
    Files,       \* names of files, walked in ascending order
    Contents,    \* [size, digest] of the contents files may have
    MaxWrites    \* bound: what one activity writes

ASSUME ObserverAssumption ==
    /\ Files \subseteq Int /\ IsFiniteSet(Files) /\ MaxWrites \in Nat
    /\ \A c \in Contents : c = [size |-> c.size, digest |-> c.digest] /\ c.digest # "absent"

VARIABLES
    disk,      \* workspace -> file -> content
    seat,      \* where each activity is
    walked,    \* the files its current walk has passed
    pre, post, \* the two snapshots
    manifest,  \* file -> observation, and the summary
    writes,    \* how often the process has written
    began, ended,  \* what its workspace held when the process started and ended
    company    \* activities that met another one in their workspace

observerVars == <<disk, seat, walked, pre, post, manifest, writes, began, ended, company>>

Absent == [size |-> 0, digest |-> "absent"]
Stored == Contents \cup {Absent}
NoFiles == [f \in {} |-> Absent]

\* The metadata's root or the working directory, or a new directory
PrepareArtifactRoot(a) == Declared[a]

Neighbours(a) ==
    {b \in LocalTasks \ {a} : /\ PrepareArtifactRoot(b) = PrepareArtifactRoot(a)
                         /\ seat[b] \in {"before", "running", "after"}}

ObserverInit ==
    /\ \E old \in SUBSET Files, c \in Contents :
          disk = [r \in {Declared[a] : a \in LocalTasks} |-> [f \in Files |-> IF f \in old THEN c ELSE Absent]]
    /\ seat = [a \in LocalTasks |-> "planned"]
    /\ walked = [a \in LocalTasks |-> {}]
    /\ pre = [a \in LocalTasks |-> NoFiles] /\ post = [a \in LocalTasks |-> NoFiles]
    /\ manifest = [a \in LocalTasks |-> NoFiles]
    /\ writes = [a \in LocalTasks |-> 0]
    /\ began = [a \in LocalTasks |-> NoFiles] /\ ended = [a \in LocalTasks |-> NoFiles]
    /\ company = {}

-----------------------------------------------------------------------------
\* ArtifactManifestFor: sizes and digests are compared, not times
Unchanged_Size(x, y) == x.size = y.size
Unchanged(x, y) == x.size = y.size /\ x.digest = y.digest

Change(x, y) ==
    CASE x = Absent -> "created"
      [] y = Absent -> "deleted"
      [] OTHER      -> "modified"

ArtifactManifestFor(x, y) ==
    LET at(s, f) == IF f \in DOMAIN s THEN s[f] ELSE Absent
    IN  [f \in {g \in DOMAIN x \cup DOMAIN y : ~Unchanged(at(x, g), at(y, g))} |->
            [change |-> Change(at(x, f), at(y, f)),
             file   |-> IF f \in DOMAIN y THEN y[f] ELSE x[f]]]

With(s, f, c) == [g \in DOMAIN s \cup {f} |-> IF g = f THEN c ELSE s[g]]

\* One file of a walk; the walk is over when the last one is read.
WalkStep(a, s, over) ==
    LET root == PrepareArtifactRoot(a)
        left == Files \ walked[a]
    IN  \/ left = {} /\ over /\ UNCHANGED s
        \/ \E f \in left :
              /\ \A g \in left : f <= g
              /\ walked' = [walked EXCEPT ![a] = @ \cup {f}]
              /\ s' = IF disk[root][f] = Absent THEN s
                      ELSE [s EXCEPT ![a] = With(@, f, disk[root][f])]
              /\ UNCHANGED <<seat, manifest, began, company>>

\* Adapter.Start: the workspace exists, the first walk begins.
StartActivity(a) ==
    /\ seat[a] = "planned"
    /\ seat' = [seat EXCEPT ![a] = "before"]
    /\ company' = IF Neighbours(a) = {} THEN company ELSE company \cup {a} \cup Neighbours(a)
    /\ UNCHANGED <<disk, walked, pre, post, manifest, writes, began, ended>>

\* The process starts when the walk is over, or cannot be started.
SnapshotBefore(a) ==
    /\ seat[a] = "before"
    /\ WalkStep(a, pre, /\ walked' = [walked EXCEPT ![a] = {}]
                    /\ \E s \in {"running", "unstarted"} : seat' = [seat EXCEPT ![a] = s]
                    /\ began' = [began EXCEPT ![a] = disk[PrepareArtifactRoot(a)]]
                    /\ UNCHANGED <<manifest, company>>)
    /\ UNCHANGED <<disk, post, writes, ended>>

\* External: the process creates, changes or deletes a file of its workspace.
Write(a) ==
    /\ seat[a] = "running" /\ writes[a] < MaxWrites
    /\ \E f \in Files, c \in Stored :
          /\ disk[PrepareArtifactRoot(a)][f] # c
          /\ disk' = [disk EXCEPT ![PrepareArtifactRoot(a)][f] = c]
    /\ writes' = [writes EXCEPT ![a] = @ + 1]
    /\ UNCHANGED <<seat, walked, pre, post, manifest, began, ended, company>>

\* command.Wait returns, whatever the exit code.
ProcessEnds(a) ==
    /\ seat[a] = "running"
    /\ seat' = [seat EXCEPT ![a] = "after"]
    /\ ended' = [ended EXCEPT ![a] = disk[PrepareArtifactRoot(a)]]
    /\ UNCHANGED <<disk, walked, pre, post, manifest, writes, began, company>>

\* The second walk, then the manifest of both
SnapshotAfter(a) ==
    /\ seat[a] = "after"
    /\ WalkStep(a, post, /\ manifest' = [manifest EXCEPT ![a] = ArtifactManifestFor(pre[a], post[a])]
                     /\ seat' = [seat EXCEPT ![a] = "done"]
                     /\ UNCHANGED <<walked, began, company>>)
    /\ UNCHANGED <<disk, pre, writes, ended>>

\* A file that vanishes or cannot be read ends the walk: the first time the
\* activity is not started, the second time it has no manifest.
WalkFails(a) ==
    /\ seat[a] \in {"before", "after"}
    /\ seat' = [seat EXCEPT ![a] = IF @ = "before" THEN "unstarted" ELSE "unobserved"]
    /\ UNCHANGED <<disk, walked, pre, post, manifest, writes, began, ended, company>>

ObserverNext ==
    \E a \in LocalTasks : \/ StartActivity(a) \/ SnapshotBefore(a) \/ Write(a) \/ ProcessEnds(a)
                     \/ SnapshotAfter(a) \/ WalkFails(a)

ObserverSpec == ObserverInit /\ [][ObserverNext]_observerVars

-----------------------------------------------------------------------------
(* Properties *)

\* What the process found is replayed with the manifest.
Replay(x, m) ==
    [f \in Files |-> IF f \notin DOMAIN m THEN x[f]
                     ELSE IF m[f].change = "deleted" THEN Absent ELSE m[f].file]

(* ArtifactManifestFor: an activity that met no other one in its workspace   *)
(* has a manifest that turns what its process found into what it left, so    *)
(* no file it made or removed is missing and none has an old digest; and it  *)
(* has no more entries than the activity wrote files.                        *)
AloneIsExact ==
    \A a \in LocalTasks : (seat[a] = "done" /\ a \notin company) =>
        /\ Replay(began[a], manifest[a]) = ended[a]
        /\ Cardinality(DOMAIN manifest[a]) <= writes[a]

=============================================================================
