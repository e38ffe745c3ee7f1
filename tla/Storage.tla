------------------------------- MODULE Storage -------------------------------
(* The storage browser: downloads, copies between storages, archives of      *)
(* directories (application/storage/service.go) on the drivers              *)
(* for file systems, ssh and S3, with rows in storage_download_runs.  Copies *)
(* and archives are goroutines the request leaves behind; an archive is two  *)
(* of them joined by a pipe.                                                 *)
EXTENDS Integers, Sequences, FiniteSets

CONSTANTS
    Stores,       \* rows of storage_resources
    Driver,       \* [Stores -> {"filesystem", "ssh", "s3", "none"}]
    ReadOnly,     \* the stores that must not be written
    Paths,        \* 1..n, in the order of their names; 0 is the root
    Parent,       \* the directory a path is in
    LinkTo,       \* what a path points to while it is a symbolic link
    Output,       \* the path with .tar.gz appended
    InitialTree,  \* what is at each path of each store at the start
    Downloads,    \* ids of download runs
    Request,      \* what each id is requested for
    PageLimit,    \* entries of one page of Browse
    MaxRequests,  \* bound: ids that are requested
    MaxUpsets,    \* bound: failing calls and crashes
    MaxEdits      \* bound: changes by users and administrators

Requests == [op : {"download", "copy", "archive"},
             from : Stores, path : Paths, to : Stores]

\* A file holds pieces <<path, version>>.
FileEntries == [type : {"absent", "file", "directory", "symlink"}, holds : SUBSET (Paths \X {0})]

ASSUME StorageAssumption ==
    /\ IsFiniteSet(Paths) /\ Paths = 1..Cardinality(Paths) /\ PageLimit \in Nat
    /\ MaxRequests \in Nat /\ MaxUpsets \in Nat /\ MaxEdits \in Nat
    /\ ReadOnly \subseteq Stores
    /\ Driver \in [Stores -> {"filesystem", "ssh", "s3", "none"}]
    /\ Parent \in [Paths -> Paths \cup {0}] /\ \A p \in Paths : Parent[p] < p
    /\ LinkTo \in [Paths -> Paths] /\ Output \in [Paths -> Paths]
    /\ Request \in [Downloads -> Requests]
    /\ \A d \in Downloads : Request[d].op = "archive" => Parent[Output[Request[d].path]] = Parent[Request[d].path]
    /\ InitialTree \in [Stores -> [Paths -> FileEntries]]
    /\ \A s \in Stores, p \in Paths :
          InitialTree[s][p].type # "absent" /\ Parent[p] # 0 => InitialTree[s][Parent[p]].type = "directory"

VARIABLES
    listed,    \* the stores that are in the inventory
    tree,      \* what is at each path of each store
    part,      \* [Stores \X Paths -> runs that have its .akoflow-copy-part open]
    temp,      \* what that temporary file holds
    shared,    \* history: the paths whose temporary file two runs had open
    download,  \* the row of each id
    job,       \* where the request or goroutine of each id is
    outcome,   \* the error of the goroutine so far
    body,      \* what the source of each run has delivered
    feed,      \* the goroutine that writes the archive
    unwalked,  \* the directories it has yet to walk
    upsets, edits

places == <<tree, part, temp, shared>>
archiver == <<feed, unwalked>>
storageVars == <<listed, places, download, job, outcome, body, archiver, upsets, edits>>

Torn(t) == <<0, t>>   \* what was written at t is cut off, empty or mixed
File(pieces) == [type |-> "file", holds |-> pieces]
Absent == [type |-> "absent", holds |-> {}]
Directory == [type |-> "directory", holds |-> {}]

NoDownload == [status |-> "none", path |-> 0]
DownloadRows == [status : {"none", "queued", "ready", "streaming", "completed", "failed"},
                 path : Paths \cup {0}]
DownloadStates == {"idle", "queued", "starting", "opening", "writing", "copying",
                   "renaming", "awaiting", "saving", "over", "refused", "unsaved", "gone"}

Is(d, op) == Request[d].op = op
From(d) == Request[d].from
PathOf(d) == Request[d].path

Calm == UNCHANGED upsets
Upset == upsets < MaxUpsets /\ upsets' = upsets + 1

-----------------------------------------------------------------------------
(* Drivers *)

\* The directories above each path: every set with the directory of the path and
\* the directories of its own members has them.
Enclosing(p) ==
    {set \in SUBSET Paths : \A q \in set \cup {p} : Parent[q] \in set \cup {0}}
Above == [p \in Paths |-> {q \in Paths : \A set \in Enclosing(p) : q \in set}]

\* realpath of the ssh driver's scripts
Resolve(s, p) == IF Driver[s] = "ssh" /\ tree[s][p].type = "symlink" THEN LinkTo[p] ELSE p

BrowseStat(s, p) == tree[s][Resolve(s, p)].type

\* One page, and callers never ask for a second one
Browse(s, d) ==
    LET children == {p \in Paths : Parent[p] = d /\ tree[s][p].type # "absent"}
    IN  {p \in children : Cardinality({q \in children : q < p}) < PageLimit}

CanOpen(s, p) == BrowseStat(s, p) = "file"
Contents(s, p) == tree[s][Resolve(s, p)].holds

usable(s, write) == Driver[s] # "none" /\ (write => s \notin ReadOnly)
Found(s, write) == s \in listed /\ usable(s, write)

\* Where the run writes
Target(d) == IF Is(d, "archive") THEN <<From(d), Output[PathOf(d)]>>
             ELSE <<Request[d].to, PathOf(d)>>
Put(t, e) == [tree EXCEPT ![t[1]][t[2]] = e]

-----------------------------------------------------------------------------
(* Rows *)

\* An upsert; the reference to storage_resources refuses it if the store is
\* gone, and a row that exists keeps its path.
SaveDownload(d, status, path) ==
    /\ From(d) \in listed
    /\ download' =
         [download EXCEPT ![d] =
             [status |-> status,
              path |-> IF @ = NoDownload THEN path ELSE @.path]]

SaveFails(d) == ((From(d) \notin listed /\ Calm) \/ Upset) /\ UNCHANGED download

StorageInit ==
    /\ listed = Stores
    /\ tree = InitialTree
    /\ part = [t \in Stores \X Paths |-> {}]
    /\ temp = [t \in Stores \X Paths |-> {}]
    /\ shared = {}
    /\ download = [d \in Downloads |-> NoDownload]
    /\ job = [d \in Downloads |-> "idle"]
    /\ outcome = [d \in Downloads |-> "ok"]
    /\ body = [d \in Downloads |-> {}]
    /\ feed = [d \in Downloads |-> "none"]
    /\ unwalked = [d \in Downloads |-> {}]
    /\ upsets = 0
    /\ edits = 0

On(d, state) == job[d] = state
Go(d, state) == job' = [job EXCEPT ![d] = state]
New(d, op) ==
    /\ job[d] = "idle" /\ Is(d, op)
    /\ Cardinality({e \in Downloads : job[e] # "idle"}) < MaxRequests

-----------------------------------------------------------------------------
(* Requests *)

StartDownload(d) ==
    /\ New(d, "download") /\ Found(From(d), FALSE)
    /\ BrowseStat(From(d), PathOf(d)) \in {"file", "symlink"}
    /\ SaveDownload(d, "ready", PathOf(d))
    /\ Go(d, "over")
    /\ UNCHANGED <<listed, places, outcome, body, archiver, upsets, edits>>

QueueCopy(d) ==
    /\ New(d, "copy") /\ Found(From(d), FALSE)
    /\ BrowseStat(From(d), PathOf(d)) # "absent"
    /\ SaveDownload(d, "queued", PathOf(d))
    /\ Go(d, "queued")
    /\ UNCHANGED <<listed, places, outcome, body, archiver, upsets, edits>>

QueueArchive(d) ==
    /\ New(d, "archive") /\ Found(From(d), FALSE)
    /\ BrowseStat(From(d), PathOf(d)) = "directory"
    /\ SaveDownload(d, "queued", PathOf(d))
    /\ Go(d, "queued")
    /\ UNCHANGED <<listed, places, outcome, body, archiver, upsets, edits>>

\* The storages are looked up after the row was written; only a destination
\* that is missing is recorded.
Launch(d) ==
    /\ On(d, "queued")
    /\ \/ /\ Is(d, "copy") /\ Request[d].to \notin listed
          /\ \/ SaveDownload(d, "failed", PathOf(d)) /\ Calm
             \/ SaveFails(d)
          /\ Go(d, "refused")
       \/ /\ ~Found(From(d), Is(d, "archive")) \/ (Is(d, "copy") /\ ~usable(Request[d].to, TRUE))
          /\ Go(d, "refused") /\ UNCHANGED <<download, upsets>>
       \/ /\ Upset
          /\ UNCHANGED download \/ (Is(d, "copy") /\ SaveDownload(d, "failed", PathOf(d)))
          /\ Go(d, "refused")
       \/ /\ Found(From(d), Is(d, "archive"))
          /\ Is(d, "copy") => Found(Request[d].to, TRUE)
          /\ Go(d, "starting") /\ UNCHANGED <<download, upsets>>
    /\ UNCHANGED <<listed, places, outcome, body, archiver, edits>>

-----------------------------------------------------------------------------
(* Goroutines of copy and archive *)

BeginDownload(d) ==
    /\ On(d, "starting")
    /\ \/ /\ SaveDownload(d, "streaming", PathOf(d)) /\ Calm
          /\ Go(d, IF Is(d, "copy") THEN "opening" ELSE "writing")
          /\ IF Is(d, "copy") THEN UNCHANGED archiver
             ELSE /\ feed' = [feed EXCEPT ![d] = "walking"]
                  /\ unwalked' = [unwalked EXCEPT ![d] = {PathOf(d)}]
       \/ SaveFails(d) /\ Go(d, "unsaved") /\ UNCHANGED archiver
    /\ UNCHANGED <<listed, places, outcome, body, edits>>

OpenBody(d) ==
    /\ On(d, "opening")
    /\ \/ /\ CanOpen(From(d), PathOf(d)) /\ Calm
          /\ body' = [body EXCEPT ![d] = Contents(From(d), PathOf(d))]
          /\ Go(d, "writing") /\ UNCHANGED outcome
       \/ /\ (~CanOpen(From(d), PathOf(d)) /\ Calm) \/ Upset
          /\ outcome' = [outcome EXCEPT ![d] = "error"]
          /\ Go(d, "saving") /\ UNCHANGED body
    /\ UNCHANGED <<listed, places, download, archiver, edits>>

Written(d) == IF Is(d, "archive") THEN "awaiting" ELSE "saving"

\* The pipe ends when the walk does, with or without an error.
Drained(d) == Is(d, "archive") => feed[d] \in {"done", "failed"}

\* What the driver reads until then: an archive whose walk failed is cut off.
CutOff(d) == Is(d, "archive") /\ feed[d] = "failed"
Delivered(d) == IF CutOff(d) THEN body[d] \cup {Torn(Target(d))} ELSE body[d]

(* Driver.Write for file systems, up to the temporary file: directories are  *)
(* made, and the file is emptied, whoever writes it.                         *)
MakePart_InPlace(d) ==
    LET t == Target(d) IN
    /\ On(d, "writing")
    /\ Driver[t[1]] = "filesystem" /\ Calm
    /\ part' = [part EXCEPT ![t] = @ \cup {d}]
    /\ temp' = [temp EXCEPT ![t] = {Torn(t)}]
    /\ tree' = Put(t, File({Torn(t)}))
    /\ shared' = IF part[t] = {} THEN shared ELSE shared \cup {t}
    /\ Go(d, "copying")
    /\ UNCHANGED <<listed, download, outcome, body, archiver, edits>>

MakePart(d) ==
    LET t == Target(d)
        above == Above[t[2]]
    IN
    /\ On(d, "writing")
    /\ Driver[t[1]] = "filesystem" /\ Calm
    /\ \A q \in above : tree[t[1]][q].type \in {"absent", "directory"}
    /\ tree' = [tree EXCEPT ![t[1]] = [q \in Paths |-> IF q \in above THEN Directory ELSE @[q]]]
    /\ part' = [part EXCEPT ![t] = @ \cup {d}]
    /\ temp' = [temp EXCEPT ![t] = {Torn(t)}]
    /\ shared' = IF part[t] = {} THEN shared ELSE shared \cup {t}
    /\ Go(d, "copying")
    /\ UNCHANGED <<listed, download, outcome, body, archiver, edits>>

\* The source is at its end.  Two runs that had the file open have mixed their
\* bytes, and one that finds it renamed has gone on writing under its final name.
FillPart(d) ==
    LET t == Target(d)
        there == tree[t[1]][t[2]]
    IN
    /\ On(d, "copying") /\ Drained(d) /\ Calm
    /\ \E pieces \in {Delivered(d)} \cup (IF t \in shared THEN {{Torn(t)}} ELSE {}) :
          \/ /\ d \in part[t]
             /\ temp' = [temp EXCEPT ![t] = pieces] /\ UNCHANGED tree
          \/ /\ d \notin part[t]
             /\ tree' \in {tree} \cup (IF there.type = "file" THEN {Put(t, File(pieces))} ELSE {})
             /\ UNCHANGED temp
    /\ Go(d, "renaming")
    /\ UNCHANGED <<listed, part, shared, download, outcome, body, archiver, edits>>

\* Whatever has the name of the temporary file by now gets the final one.
RenamePart(d) ==
    LET t == Target(d)
        possible == part[t] # {} /\ tree[t[1]][t[2]].type # "directory"
    IN
    /\ On(d, "renaming")
    /\ \/ /\ possible /\ Calm
          /\ tree' = Put(t, File(temp[t]))
          /\ part' = [part EXCEPT ![t] = {}]
          /\ UNCHANGED outcome
       \/ /\ (~possible /\ Calm) \/ Upset
          /\ outcome' = [outcome EXCEPT ![d] = "error"]
          /\ part' = [part EXCEPT ![t] = @ \ {d}]
          /\ UNCHANGED tree
    /\ temp' = [temp EXCEPT ![t] = IF part'[t] = {} THEN {} ELSE @]
    /\ Go(d, Written(d))
    /\ UNCHANGED <<listed, shared, download, body, archiver, edits>>

\* Write returns early: nothing closes the reading end of a pipe.
BreakOff_Ignored(d) ==
    LET t == Target(d) IN
    /\ Driver[t[1]] = "filesystem" /\ job[d] = "copying" /\ Upset
    /\ part' = [part EXCEPT ![t] = {}] /\ temp' = [temp EXCEPT ![t] = {}]
    /\ job' = [job EXCEPT ![d] = Written(d)]
    /\ UNCHANGED <<listed, tree, shared, download, outcome, body, archiver, edits>>
BreakOff(d) ==
    LET t == Target(d) IN
    /\ Driver[t[1]] = "filesystem"
    /\ \/ /\ job[d] = "copying" /\ Upset
          /\ part' = [part EXCEPT ![t] = {}] /\ temp' = [temp EXCEPT ![t] = {}]
       \/ job[d] = "writing" /\ Upset /\ UNCHANGED <<part, temp>>
       \/ /\ job[d] = "writing" /\ Calm /\ UNCHANGED <<part, temp>>
          /\ \E q \in Above[t[2]] : tree[t[1]][q].type \notin {"absent", "directory"}
    /\ outcome' = [outcome EXCEPT ![d] = "error"]
    /\ job' = [job EXCEPT ![d] = Written(d)]
    /\ UNCHANGED <<listed, tree, shared, download, body, archiver, edits>>

\* The ssh driver reads its source to the end and pipes its script into the
\* remote shell, so that the script's cat finds no input: the file is made, and
\* empty.
WriteOverSSH(d) ==
    LET t == Target(d)
        stored == IF tree[t[1]][t[2]].type = "directory" THEN tree ELSE Put(t, File({Torn(t)}))
        ready == \A q \in {Parent[t[2]]} \ {0} : tree[t[1]][q].type = "directory"
    IN
    /\ On(d, "writing")
    /\ Driver[t[1]] = "ssh" /\ Drained(d)
    /\ \/ ready /\ Calm /\ tree' = stored /\ UNCHANGED outcome
       \/ /\ (~ready /\ Calm /\ tree' = tree) \/ (ready /\ Upset /\ tree' \in {tree, stored})
          /\ outcome' = [outcome EXCEPT ![d] = "error"]
    /\ Go(d, Written(d))
    /\ UNCHANGED <<listed, part, temp, shared, download, body, archiver, edits>>

\* Object stores replace an object as a whole.
PutObject(d) ==
    LET t == Target(d)
        stored == Put(t, File(Delivered(d)))
    IN
    /\ On(d, "writing")
    /\ Driver[t[1]] = "s3" /\ Drained(d)
    /\ \/ Calm /\ tree' = stored /\ UNCHANGED outcome
       \/ /\ Upset /\ tree' \in {tree, stored}
          /\ outcome' = [outcome EXCEPT ![d] = "error"]
    /\ Go(d, Written(d))
    /\ UNCHANGED <<listed, part, temp, shared, download, body, archiver, edits>>

\* The walk: links are skipped, directories descended into, files packed as
\* they are.  It blocks on the pipe unless somebody reads.
Pack(d) ==
    \E dir \in unwalked[d] :
        LET page == Browse(From(d), dir)
            Of(type) == {p \in page : tree[From(d)][p].type = type}
            rest == (unwalked[d] \ {dir}) \cup Of("directory")
            found == tree[From(d)][dir].type = "directory"
        IN
        /\ feed[d] = "walking" /\ job[d] \in {"writing", "copying"}
        /\ \/ /\ found /\ Calm
              /\ unwalked' = [unwalked EXCEPT ![d] = rest]
              /\ body' = [body EXCEPT ![d] = @ \cup UNION {Contents(From(d), p) : p \in Of("file")}]
              /\ feed' = [feed EXCEPT ![d] = IF rest = {} THEN "done" ELSE @]
           \/ /\ (~found /\ Calm) \/ Upset
              /\ feed' = [feed EXCEPT ![d] = "failed"]
              /\ UNCHANGED <<unwalked, body>>
        /\ UNCHANGED <<listed, places, download, job, outcome, edits>>

Await(d) ==
    /\ On(d, "awaiting")
    /\ feed[d] \in {"done", "failed"}
    /\ outcome' = [outcome EXCEPT ![d] = IF feed[d] = "failed" THEN "error" ELSE @]
    /\ Go(d, "saving")
    /\ UNCHANGED <<listed, places, download, body, archiver, upsets, edits>>

SaveOutcome_Forgets(d) ==
    /\ On(d, "saving")
    /\ outcome[d] = "ok"
    /\ SaveDownload(d, IF Is(d, "copy") THEN "completed" ELSE "ready", Target(d)[2])
    /\ Go(d, "over") /\ Calm
    /\ UNCHANGED <<listed, places, outcome, body, archiver, edits>>

SaveOutcome(d) ==
    /\ On(d, "saving")
    /\ \/ /\ \/ outcome[d] = "error" /\ SaveDownload(d, "failed", PathOf(d))
             \/ outcome[d] = "ok" /\ Is(d, "copy") /\ SaveDownload(d, "completed", PathOf(d))
             \/ outcome[d] = "ok" /\ Is(d, "archive") /\ SaveDownload(d, "ready", Target(d)[2])
          /\ Go(d, "over") /\ Calm
       \/ SaveFails(d) /\ Go(d, "unsaved")
    /\ UNCHANGED <<listed, places, outcome, body, archiver, edits>>

-----------------------------------------------------------------------------
(* Everybody else *)

Edit == edits < MaxEdits /\ edits' = edits + 1

\* BrowserCoordinator.Delete; on ssh it is the target of a link that goes
DeleteEntry(s, p) ==
    /\ Edit /\ Found(s, TRUE) /\ BrowseStat(s, p) \in {"file", "symlink"}
    /\ tree' = Put(<<s, Resolve(s, p)>>, Absent)
    /\ UNCHANGED <<listed, part, temp, shared, download, job, outcome, body, archiver, upsets>>

\* A user replaces a file by another one.
ReplaceFile(s, p) ==
    /\ Edit /\ tree[s][p].type = "file"
    /\ tree' = Put(<<s, p>>, File({<<p, edits'>>}))
    /\ UNCHANGED <<listed, part, temp, shared, download, job, outcome, body, archiver, upsets>>

\* The environment of a store is replaced or deleted; its runs go with it.
ReplaceEnvironment(s, stays) ==
    /\ Edit /\ s \in listed
    /\ listed' = IF stays THEN listed ELSE listed \ {s}
    /\ download' = [d \in Downloads |-> IF From(d) = s THEN NoDownload ELSE download[d]]
    /\ UNCHANGED <<places, job, outcome, body, archiver, upsets>>

StorageCrash ==
    /\ Upset
    /\ job' = [d \in Downloads |-> IF job[d] \in {"idle", "over", "refused", "unsaved"} THEN job[d] ELSE "gone"]
    /\ feed' = [d \in Downloads |-> IF feed[d] = "walking" THEN "none" ELSE feed[d]]
    /\ part' = [t \in Stores \X Paths |-> {}]
    /\ temp' = [t \in Stores \X Paths |-> {}]
    /\ UNCHANGED <<listed, tree, shared, download, outcome, body, unwalked, edits>>

DownloadStep(d) ==
    /\ job[d] \notin {"idle", "over", "refused", "unsaved", "gone"}
    /\ \/ Launch(d) \/ BeginDownload(d) \/ OpenBody(d) \/ MakePart(d) \/ FillPart(d) \/ RenamePart(d)
       \/ BreakOff(d) \/ WriteOverSSH(d) \/ PutObject(d) \/ Pack(d) \/ Await(d) \/ SaveOutcome(d)

StorageNext ==
    \/ \E d \in Downloads :
          StartDownload(d) \/ QueueCopy(d) \/ QueueArchive(d) \/ DownloadStep(d)
    \/ \E s \in Stores, p \in Paths : DeleteEntry(s, p) \/ ReplaceFile(s, p)
    \/ \E s \in Stores, stays \in BOOLEAN : ReplaceEnvironment(s, stays)
    \/ StorageCrash

StorageSpec == StorageInit /\ [][StorageNext]_storageVars

\* The scheduler runs every goroutine, and drivers return.  A run takes finitely
\* many steps, so none can be passed over for ever.
StorageFairness == WF_storageVars(Calm /\ \E d \in Downloads : DownloadStep(d))

FairStorageSpec == StorageSpec /\ StorageFairness

-----------------------------------------------------------------------------
(* Properties *)

\* Where a run may leave less than it was to write: two runs wrote at the same
\* time, the driver is the one for ssh, or the walk of an archive failed, whose
\* row says so (DownloadsArrive).
Spoilt ==
    {t \in Stores \X Paths :
        t \in shared \/ Driver[t[1]] = "ssh" \/ \E d \in Downloads : CutOff(d) /\ Target(d) = t}

(* A path shows what was there before or the whole of what a run was to      *)
(* write, also while runs write, after failing calls and crashes: Write      *)
(* fills a temporary file and renames it only when it is full.  The          *)
(* exceptions are those of Spoilt, and what copies make of them.             *)
NothingHalfWritten ==
    \A s \in Stores, p \in Paths, t \in Stores \X Paths : Torn(t) \in tree[s][p].holds => t \in Spoilt

\* Nobody else writes where the run writes, or below the directory it packs.
Undisturbed(d) ==
    \A e \in Downloads \ {d} : job[e] # "idle" =>
        /\ Target(e) # Target(d)
        /\ ~(Is(d, "archive") /\ Target(e)[1] = From(d) /\ PathOf(d) \in Above[Target(e)[2]])

\* What the run read is what its destination holds.
Arrived(d) == tree[Target(d)[1]][Target(d)[2]] = File(body[d])

\* All files below a directory, links aside
Below(s, dir) == {p \in Paths : dir \in Above[p] /\ tree[s][p].type = "file"}

\* What the archive read is all files below its directory, however deep.
Packed(d) == body[d] = UNION {tree[From(d)][p].holds : p \in Below(From(d), PathOf(d))}

OnePage == \A dir \in Paths : Cardinality({p \in Paths : Parent[p] = dir}) <= PageLimit

(* service.go:369-371: a run's life cycle is persisted "rather than receiving *)
(* a completed response for work that has not happened yet".  What a         *)
(* completed copy or archive was to deliver is at its destination, in a file *)
(* system or an object store, if nobody else wrote there, and an archive     *)
(* holds every file below its directory, if no directory has more entries    *)
(* than a page.  The ssh driver stores an empty file and reports success.    *)
DownloadsArrive ==
    edits = 0 => \A d \in Downloads : Undisturbed(d) /\ Driver[Target(d)[1]] # "ssh" =>
        /\ Is(d, "copy") /\ download[d].status = "completed" => Arrived(d)
        /\ Is(d, "archive") /\ download[d].status = "ready" => Arrived(d) /\ (OnePage => Packed(d))

\* The pipe's reader has left and its writer has not noticed.
Stuck(d) == job[d] = "awaiting" /\ feed[d] = "walking"

\* The row is final, or the run ended where nothing writes it again.
DownloadSettled(d) ==
    \/ job[d] \in {"idle", "refused", "gone", "unsaved"} \/ Stuck(d)
    \/ job[d] = "over" /\ (download[d].status \in {"ready", "completed", "failed"} \/ edits > 0)
AllSettled == \A d \in Downloads : DownloadSettled(d)

(* service.go, copy and archive: a run that was accepted gets a final row,   *)
(* unless the server died, a save failed, its store was replaced or the      *)
(* write of its archive broke off while the walk still fed the pipe.         *)
DownloadsSettle == []<>AllSettled
=============================================================================
