--------------------------- MODULE ServicesProofs ----------------------------
(***************************************************************************)
(* Proofs about the storage browser (Storage), for any stores, drivers,    *)
(* paths, requests and failures, and about the pool of simulators          *)
(* (SimulationPool), for any calls and permits.                            *)
(*                                                                         *)
(* - A temporary file with one writer is full when that writer renames it; *)
(*   what is cut off, empty or mixed is so where two writers had the file  *)
(*   open, the driver is the one for ssh or a walk failed, and copies      *)
(*   carry it on with the name of that place.                              *)
(* - What a run reports is at its destination, unless others wrote there.  *)
(*   The walk of an archive keeps what it has packed and what is below the *)
(*   directories it has yet to walk together: all files below the one it   *)
(*   began with.                                                           *)
(* - A simulator runs only while its call holds a permit, because Run      *)
(*   returns after the process is gone; a directory is written by the call *)
(*   it was made for.                                                      *)
(***************************************************************************)
EXTENDS Storage, SimulationPool, FiniteSetTheorems, TLAPS

-----------------------------------------------------------------------------
(* Nothing is half written *)

Spots == Stores \X Paths

\* A store has an entry for each path.
TreeShape(f) == DOMAIN f = Stores /\ \A s \in Stores : DOMAIN f[s] = Paths

\* What is torn was torn where the exceptions allow it.
Sound(pieces) == \A t \in Spots : Torn(t) \in pieces => t \in Spoilt

Open == {"copying", "renaming"}

\* Nobody is about to rename the temporary file of a path.
Filling(t) == \A d \in Downloads : job[d] = "renaming" => Target(d) # t

StorageIInv ==
    /\ TreeShape(tree) /\ DOMAIN body = Downloads /\ DOMAIN feed = Downloads
    /\ part \in [Spots -> SUBSET Downloads] /\ DOMAIN temp = Spots /\ DOMAIN job = Downloads
    /\ \A s \in Stores, p \in Paths : Sound(tree[s][p].holds)
    /\ \A d \in Downloads : Sound(body[d])
    /\ \A t \in Spots : \A d, e \in part[t] : d # e => t \in shared
    /\ \A d \in Downloads : job[d] \in Open => d \in part[Target(d)] \/ Target(d) \in shared
    /\ \A t, u \in Spots : Torn(u) \in temp[t] => u \in Spoilt \/ (u = t /\ Filling(t))

\* What a step leaves of the exceptions, and of the runs that are at their rename
Grows ==
    /\ shared \subseteq shared' /\ DOMAIN feed' = Downloads
    /\ \A d \in Downloads : feed[d] = "failed" => feed'[d] = "failed"

(* Exceptions stay exceptions.                                               *)
LEMMA SpoiltStays ==
    ASSUME Grows
    PROVE  Spoilt \subseteq Spoilt' /\ shared' \cap Spots \subseteq Spoilt'
<1>1. \A d \in Downloads : CutOff(d) => CutOff(d)'
  BY Zenon DEF Grows, CutOff, Is
<1>2. \A d \in Downloads : Target(d)' = Target(d)
  BY Zenon DEF Target, Is, From, PathOf
<1> QED BY Zenon, <1>1, <1>2 DEF Grows, Spoilt, Spots

(* Every request has a place to write to.                                    *)
LEMMA TargetIsOne ==
    /\ \A d \in Downloads : Target(d) \in Spots /\ Target(d)[1] \in Stores /\ Target(d)[2] \in Paths
    /\ \A d \in Downloads : From(d) \in Stores /\ PathOf(d) \in Paths
    /\ \A s \in Stores, p \in Paths : Resolve(s, p) \in Paths
<1>1. \A d \in Downloads : From(d) \in Stores /\ PathOf(d) \in Paths /\ Request[d].to \in Stores
  BY StorageAssumption DEF From, PathOf, Requests
<1>2. \A p \in Paths : Output[p] \in Paths /\ LinkTo[p] \in Paths
  BY Zenon, StorageAssumption
<1>3. \A d \in Downloads : \E s \in Stores, p \in Paths : Target(d) = <<s, p>>
  BY Zenon, <1>1, <1>2 DEF Target
<1>4. \A d \in Downloads : Target(d) \in Spots /\ Target(d)[1] \in Stores /\ Target(d)[2] \in Paths
  BY <1>3 DEF Spots
<1>5. \A s \in Stores, p \in Paths : Resolve(s, p) \in Paths
  BY Zenon, <1>2 DEF Resolve
<1> QED BY Zenon, <1>1, <1>4, <1>5

(* One path gets another entry.                                              *)
LEMMA PutIs ==
    ASSUME TreeShape(tree), NEW t \in Spots, NEW e
    PROVE  /\ TreeShape(Put(t, e))
           /\ \A s \in Stores, p \in Paths :
                 Put(t, e)[s][p] = IF s = t[1] /\ p = t[2] THEN e ELSE tree[s][p]
<1>1. t[1] \in Stores /\ t[2] \in Paths
  BY DEF Spots
<1>2. Put(t, e) = [tree EXCEPT ![t[1]] = [tree[t[1]] EXCEPT ![t[2]] = e]]
  BY Zenon DEF Put
<1>3. /\ DOMAIN Put(t, e) = Stores
      /\ \A s \in Stores : Put(t, e)[s] = IF s = t[1] THEN [tree[t[1]] EXCEPT ![t[2]] = e] ELSE tree[s]
  BY Zenon, <1>1, <1>2 DEF TreeShape
<1>4. /\ DOMAIN [tree[t[1]] EXCEPT ![t[2]] = e] = Paths
      /\ \A p \in Paths : [tree[t[1]] EXCEPT ![t[2]] = e][p] = IF p = t[2] THEN e ELSE tree[t[1]][p]
  BY Zenon, <1>1 DEF TreeShape
<1> QED BY Zenon, <1>3, <1>4 DEF TreeShape

(* A sound entry is put somewhere, or nothing is, and nobody changes hands.  *)
LEMMA SoundPut ==
    ASSUME StorageIInv, NEW t \in Spots, NEW e, Sound(e.holds), tree' = tree \/ tree' = Put(t, e), Grows
    PROVE  TreeShape(tree') /\ \A s \in Stores, p \in Paths : Sound(tree[s][p].holds)'
<1>0. Spoilt \subseteq Spoilt'
  BY Zenon, SpoiltStays
<1>1. CASE tree' = tree
  BY Zenon, <1>0, <1>1 DEF StorageIInv, Sound, TreeShape
<1>2. CASE tree' = Put(t, e)
  <2>1. TreeShape(tree') /\ \A s \in Stores, p \in Paths : tree'[s][p] = IF s = t[1] /\ p = t[2] THEN e ELSE tree[s][p]
    <3>1. TreeShape(tree)
      BY Zenon DEF StorageIInv
    <3>2. TreeShape(Put(t, e)) /\ \A s \in Stores, p \in Paths :
             Put(t, e)[s][p] = IF s = t[1] /\ p = t[2] THEN e ELSE tree[s][p]
      BY <3>1, PutIs
    <3> QED BY <1>2, <3>2
  <2>2. ASSUME NEW s \in Stores, NEW p \in Paths PROVE Sound(tree[s][p].holds)'
    <3>1. tree'[s][p] = e \/ tree'[s][p] = tree[s][p]
      BY Zenon, <2>1
    <3>2. Sound(tree[s][p].holds)
      BY Zenon DEF StorageIInv
    <3> QED BY Zenon, <1>0, <3>1, <3>2 DEF Sound
  <2> QED BY Zenon, <2>1, <2>2
<1> QED BY Zenon, <1>1, <1>2

(* What the drivers hand on is what they found (OpenBody, Pack).             *)
LEMMA ContentsAreSound ==
    ASSUME StorageIInv, NEW s \in Stores, NEW p \in Paths
    PROVE  Sound(Contents(s, p)) /\ Sound({}) /\ Sound(Absent.holds)
<1>1. Sound(Contents(s, p))
  BY Zenon, TargetIsOne DEF StorageIInv, Contents
<1>2. Absent.holds = {}
  BY DEF Absent
<1> QED BY Zenon, <1>1, <1>2 DEF Sound

(* Temporary files are left alone or given up, nobody comes to a rename.     *)
LEMMA TempStays ==
    ASSUME StorageIInv, Grows, DOMAIN temp' = Spots, \A t \in Spots : temp'[t] = temp[t] \/ temp'[t] = {},
           \A d \in Downloads : job'[d] = "renaming" => job[d] = "renaming"
    PROVE  \A t, u \in Spots : Torn(u) \in temp'[t] => u \in Spoilt' \/ (u = t /\ Filling(t)')
<1>1. \A t \in Spots : Filling(t) => Filling(t)'
  <2>1. \A d \in Downloads : Target(d)' = Target(d)
    BY Zenon DEF Target, Is, From, PathOf
  <2> QED BY Zenon, <2>1 DEF Filling
<1>2. Spoilt \subseteq Spoilt'
  BY Zenon, SpoiltStays
<1> QED BY Zenon, <1>1, <1>2 DEF StorageIInv

(* Runs that do not touch files and do not open them.                        *)
LEMMA JobsMove ==
    ASSUME StorageIInv, UNCHANGED <<tree, part, temp, shared>>, DOMAIN job' = Downloads, DOMAIN body' = Downloads, Grows,
           \A d \in Downloads : job'[d] \in Open => job'[d] = job[d],
           \A d \in Downloads : Sound(body'[d])
    PROVE  StorageIInv'
<1>1. Spots' = Spots /\ \A d \in Downloads : Target(d)' = Target(d)
  BY Zenon DEF Spots, Target, Is, From, PathOf
<1>0. Spoilt \subseteq Spoilt'
  BY Zenon, SpoiltStays
<1>2. /\ TreeShape(tree)' /\ part' \in [Spots -> SUBSET Downloads]
      /\ \A s \in Stores, p \in Paths : Sound(tree[s][p].holds)'
      /\ \A d \in Downloads : Sound(body[d])'
      /\ \A t \in Spots : \A d, e \in part'[t] : d # e => t \in shared'
  BY Zenon, <1>0 DEF StorageIInv, TreeShape, Sound
<1>3. \A d \in Downloads : job'[d] \in Open => d \in part'[Target(d)] \/ Target(d) \in shared'
  BY Zenon DEF StorageIInv
<1>4. /\ DOMAIN temp' = Spots /\ DOMAIN feed' = Downloads
      /\ \A t, u \in Spots : Torn(u) \in temp'[t] => u \in Spoilt' \/ (u = t /\ Filling(t)')
  <2>1. \A d \in Downloads : job'[d] = "renaming" => job[d] = "renaming"
    BY Zenon DEF Open
  <2>2. DOMAIN temp' = Spots
    BY Zenon DEF StorageIInv
  <2> QED BY Zenon, <2>1, <2>2, TempStays DEF Grows
<1> QED BY Zenon, <1>2, <1>3, <1>4 DEF StorageIInv

(* Requests and rows: no file is touched.                                    *)
LEMMA RowSteps ==
    ASSUME StorageIInv, UNCHANGED <<tree, part, temp, shared, body>>, Grows,
           \/ UNCHANGED job
           \/ \E d \in Downloads : \E state \in DownloadStates \ Open : Go(d, state)
    PROVE  StorageIInv'
<1>1. DOMAIN job' = Downloads /\ \A d \in Downloads : job'[d] \in Open => job'[d] = job[d]
  <2>1. CASE UNCHANGED job
    BY Zenon, <2>1 DEF StorageIInv
  <2>2. ASSUME NEW d \in Downloads, NEW state \in DownloadStates \ Open, Go(d, state)
        PROVE  DOMAIN job' = Downloads /\ \A e \in Downloads : job'[e] \in Open => job'[e] = job[e]
    BY Zenon, <2>2 DEF StorageIInv, Go
  <2> QED BY Zenon, <2>1, <2>2
<1> QED BY Zenon, <1>1, JobsMove DEF StorageIInv

(* A source delivers what its store holds.                                   *)
LEMMA ReadSteps ==
    ASSUME StorageIInv, NEW d \in Downloads, OpenBody(d) \/ Pack(d)
    PROVE  StorageIInv'
<1>1. UNCHANGED <<tree, part, temp, shared>> /\ DOMAIN job' = Downloads /\ \A e \in Downloads : job'[e] \in Open => job'[e] = job[e]
  <2>1. CASE OpenBody(d)
    <3>1. "writing" \notin Open /\ "saving" \notin Open
      BY DEF Open
    <3> QED BY Zenon, <2>1, <3>1 DEF OpenBody, Go, places, StorageIInv
  <2>2. CASE Pack(d)
    BY Zenon, <2>2 DEF Pack, places, StorageIInv
  <2> QED BY Zenon, <2>1, <2>2
<1>0. Grows
  <2>1. CASE OpenBody(d)
    BY Zenon, <2>1 DEF OpenBody, archiver, places, StorageIInv, Grows
  <2>2. CASE Pack(d)
    <3>1. feed[d] = "walking" /\ shared' = shared /\ \E state : feed' = [feed EXCEPT ![d] = state]
      BY Zenon, <2>2 DEF Pack, places
    <3>2. "walking" # "failed"
      OBVIOUS
    <3> QED BY Zenon, <3>1, <3>2 DEF StorageIInv, Grows
  <2> QED BY Zenon, <2>1, <2>2
<1>2. ASSUME NEW pieces, Sound(pieces), body' = [body EXCEPT ![d] = pieces]
      PROVE  StorageIInv'
  <2>1. DOMAIN body' = Downloads /\ \A e \in Downloads : body'[e] = pieces \/ body'[e] = body[e]
    BY Zenon, <1>2 DEF StorageIInv
  <2>2. \A e \in Downloads : Sound(body'[e])
    BY Zenon, <1>2, <2>1 DEF StorageIInv
  <2> QED BY Zenon, <1>0, <1>1, <2>1, <2>2, JobsMove
<1>3. CASE UNCHANGED body
  BY Zenon, <1>0, <1>1, <1>3, JobsMove DEF StorageIInv
<1>4. CASE body' = [body EXCEPT ![d] = Contents(From(d), PathOf(d))]
  BY Zenon, <1>2, <1>4, ContentsAreSound, TargetIsOne
<1>5. ASSUME NEW set \in SUBSET Paths, body' = [body EXCEPT ![d] = @ \cup UNION {Contents(From(d), p) : p \in set}]
      PROVE  StorageIInv'
  <2>1. Sound(body[d]) /\ \A p \in set : Sound(Contents(From(d), p))
    BY Zenon, ContentsAreSound, TargetIsOne DEF StorageIInv
  <2>2. Sound(body[d] \cup UNION {Contents(From(d), p) : p \in set})
    BY Zenon, <2>1 DEF Sound
  <2> QED BY Zenon, <1>2, <1>5, <2>2
<1>6. CASE OpenBody(d)
  BY Zenon, <1>3, <1>4, <1>6 DEF OpenBody
<1>7. CASE Pack(d)
  <2>1. \/ UNCHANGED body
        \/ \E set \in SUBSET Paths : body' = [body EXCEPT ![d] = @ \cup UNION {Contents(From(d), p) : p \in set}]
    <3>1. PICK dir \in unwalked[d] :
             \/ UNCHANGED body
             \/ body' = [body EXCEPT ![d] = @ \cup
                   UNION {Contents(From(d), p) : p \in {q \in Browse(From(d), dir) : tree[From(d)][q].type = "file"}}]
      BY Zenon, <1>7 DEF Pack
    <3>2. {q \in Browse(From(d), dir) : tree[From(d)][q].type = "file"} \in SUBSET Paths
      BY Zenon DEF Browse
    <3> QED BY Zenon, <3>1, <3>2
  <2> QED BY Zenon, <1>3, <1>5, <2>1
<1> QED BY Zenon, <1>6, <1>7

(* The runs that have a temporary file open stay known when one of them      *)
(* renames it or gives it up.                                                *)
LEMMA PartsMove ==
    ASSUME StorageIInv, NEW d \in Downloads, NEW state \in DownloadStates \ Open,
           job[d] \in Open, Go(d, state), UNCHANGED body, Grows, shared' = shared,
           \/ part' = [part EXCEPT ![Target(d)] = {}]
           \/ part' = [part EXCEPT ![Target(d)] = @ \ {d}],
           \E pieces \in {{}, temp[Target(d)]} : temp' = [temp EXCEPT ![Target(d)] = pieces],
           TreeShape(tree'), \A s \in Stores, p \in Paths : Sound(tree[s][p].holds)'
    PROVE  StorageIInv'
<1>1. DOMAIN job' = Downloads /\ job'[d] \notin Open /\ \A e \in Downloads \ {d} : job'[e] = job[e]
  BY Zenon DEF StorageIInv, Go
<1>2. /\ part' \in [Spots -> SUBSET Downloads]
      /\ \A t \in Spots : part'[t] \subseteq part[t] /\ (t # Target(d) => part'[t] = part[t])
  <2>1. part \in [Spots -> SUBSET Downloads] /\ Target(d) \in Spots
    BY Zenon, TargetIsOne DEF StorageIInv
  <2>2. PICK left \in SUBSET part[Target(d)] : part' = [part EXCEPT ![Target(d)] = left]
    BY Zenon
  <2> QED BY Zenon, <2>1, <2>2
<1>3. \A t \in Spots : \A e, f \in part'[t] : e # f => t \in shared'
  BY Zenon, <1>2 DEF StorageIInv
<1>4. ASSUME NEW e \in Downloads, job'[e] \in Open
      PROVE  e \in part'[Target(e)] \/ Target(e) \in shared'
  <2>1. e # d /\ job[e] \in Open /\ Target(e) \in Spots
    BY Zenon, <1>1, <1>4, TargetIsOne
  <2>2. e \in part[Target(e)] \/ Target(e) \in shared
    BY Zenon, <2>1 DEF StorageIInv
  <2>3. CASE Target(e) = Target(d)
    <3>1. d \in part[Target(d)] \/ Target(d) \in shared
      BY Zenon DEF StorageIInv
    <3> QED BY Zenon, <2>1, <2>2, <2>3, <3>1 DEF StorageIInv
  <2>4. CASE Target(e) # Target(d)
    BY Zenon, <1>2, <2>1, <2>2, <2>4
  <2> QED BY Zenon, <2>3, <2>4
<1>5. \A e \in Downloads : Sound(body[e])'
  BY Zenon, SpoiltStays DEF StorageIInv, Sound
<1>6. DOMAIN body' = Downloads /\ DOMAIN feed' = Downloads
  BY Zenon DEF StorageIInv, Grows
<1>7. \A e \in Downloads : (job[e] \in Open => e \in part[Target(e)] \/ Target(e) \in shared)'
  BY Zenon, <1>4 DEF Target, Is, From, PathOf
<1>8. /\ DOMAIN temp' = Spots
      /\ \A t, u \in Spots : Torn(u) \in temp'[t] => u \in Spoilt' \/ (u = t /\ Filling(t)')
  <2>1. DOMAIN temp = Spots /\ Target(d) \in Spots
    BY Zenon, TargetIsOne DEF StorageIInv
  <2>2. PICK pieces \in {{}, temp[Target(d)]} : temp' = [temp EXCEPT ![Target(d)] = pieces]
    BY Zenon
  <2>3. DOMAIN temp' = Spots /\ \A t \in Spots : temp'[t] = temp[t] \/ temp'[t] = {}
    BY Zenon, <2>1, <2>2
  <2>4. \A e \in Downloads : job'[e] = "renaming" => job[e] = "renaming"
    BY Zenon, <1>1 DEF Open
  <2> QED BY Zenon, <2>3, <2>4, TempStays
<1> QED BY Zenon, <1>1, <1>2, <1>3, <1>5, <1>6, <1>7, <1>8 DEF StorageIInv, TreeShape

(* Write of the file system's driver, up to the temporary file.              *)
LEMMA MakePartStep ==
    ASSUME StorageIInv, NEW d \in Downloads, MakePart(d)
    PROVE  StorageIInv'
<1> DEFINE t == Target(d)
<1>0. t \in Spots /\ t[1] \in Stores
  BY Zenon, TargetIsOne
<1>1. /\ part' = [part EXCEPT ![t] = @ \cup {d}] /\ Go(d, "copying") /\ UNCHANGED <<body, feed>>
      /\ temp' = [temp EXCEPT ![t] = {Torn(t)}]
      /\ shared' = IF part[t] = {} THEN shared ELSE shared \cup {t}
      /\ tree' = [tree EXCEPT ![t[1]] = [q \in Paths |-> IF q \in Above[t[2]] THEN Directory ELSE @[q]]]
  BY Zenon DEF MakePart, archiver
<1> HIDE DEF t
<1>2. /\ shared \subseteq shared' /\ (part[t] # {} => t \in shared')
      /\ Grows /\ Spoilt \subseteq Spoilt' /\ (part[t] # {} => t \in Spoilt')
  <2>1. shared \subseteq shared' /\ (part[t] # {} => t \in shared')
    BY Zenon, <1>1
  <2>2. Grows
    BY Zenon, <1>1, <2>1 DEF Grows, StorageIInv
  <2> QED BY Zenon, <1>0, <2>1, <2>2, SpoiltStays
<1>3. /\ part' \in [Spots -> SUBSET Downloads] /\ part'[t] = part[t] \cup {d}
      /\ \A u \in Spots \ {t} : part'[u] = part[u]
  BY Zenon, <1>0, <1>1 DEF StorageIInv
<1>4. \A u \in Spots : \A e, f \in part'[u] : e # f => u \in shared'
  <2>1. ASSUME NEW e \in part'[t], NEW f \in part'[t], e # f PROVE t \in shared'
    BY Zenon, <1>2, <1>3, <2>1
  <2>2. ASSUME NEW u \in Spots \ {t}, NEW e \in part'[u], NEW f \in part'[u], e # f PROVE u \in shared'
    <3>1. part'[u] = part[u]
      BY Zenon, <1>3
    <3> QED BY Zenon, <1>2, <2>2, <3>1 DEF StorageIInv
  <2> QED BY Zenon, <2>1, <2>2
<1>5. DOMAIN job' = Downloads /\ \A e \in Downloads \ {d} : job'[e] = job[e]
  BY Zenon, <1>1 DEF StorageIInv, Go
<1>6. ASSUME NEW e \in Downloads, job'[e] \in Open
      PROVE  e \in part'[Target(e)] \/ Target(e) \in shared'
  <2>1. CASE e = d
    BY Zenon, <1>3, <2>1 DEF t
  <2>2. CASE e # d
    <3>1. e \in part[Target(e)] \/ Target(e) \in shared
      BY Zenon, <1>5, <1>6, <2>2 DEF StorageIInv
    <3>2. part[Target(e)] \subseteq part'[Target(e)]
      BY Zenon, <1>3, TargetIsOne
    <3> QED BY Zenon, <1>2, <3>1, <3>2
  <2> QED BY Zenon, <2>1, <2>2
<1>7. TreeShape(tree') /\ \A s \in Stores, p \in Paths : tree'[s][p] = Directory \/ tree'[s][p] = tree[s][p]
  <2>1. /\ DOMAIN tree' = Stores /\ \A s \in Stores \ {t[1]} : tree'[s] = tree[s]
        /\ tree'[t[1]] = [q \in Paths |-> IF q \in Above[t[2]] THEN Directory ELSE tree[t[1]][q]]
    BY Zenon, <1>0, <1>1 DEF StorageIInv, TreeShape
  <2>2. TreeShape(tree')
    BY Zenon, <1>0, <2>1 DEF StorageIInv, TreeShape
  <2>3. \A p \in Paths : tree'[t[1]][p] = Directory \/ tree'[t[1]][p] = tree[t[1]][p]
    BY Zenon, <2>1
  <2> QED BY Zenon, <2>1, <2>2, <2>3
<1>8. \A s \in Stores, p \in Paths : Sound(tree[s][p].holds)'
  <2>1. Directory.holds = {}
    BY DEF Directory
  <2>2. ASSUME NEW s \in Stores, NEW p \in Paths PROVE Sound(tree[s][p].holds)'
    <3>1. tree'[s][p].holds = {} \/ tree'[s][p] = tree[s][p]
      BY Zenon, <1>7, <2>1
    <3>2. Sound(tree[s][p].holds)
      BY Zenon DEF StorageIInv
    <3> QED BY Zenon, <1>2, <3>1, <3>2 DEF Sound
  <2> QED BY Zenon, <2>2
<1>9. DOMAIN body' = Downloads /\ DOMAIN feed' = Downloads /\ \A e \in Downloads : Sound(body[e])'
  BY Zenon, <1>1, <1>2 DEF StorageIInv, Sound
<1>10. \A e \in Downloads : (job[e] \in Open => e \in part[Target(e)] \/ Target(e) \in shared)'
  BY Zenon, <1>6 DEF Target, Is, From, PathOf
<1>11. DOMAIN temp' = Spots /\ temp'[t] = {Torn(t)} /\ \A u \in Spots \ {t} : temp'[u] = temp[u]
  BY Zenon, <1>0, <1>1 DEF StorageIInv
<1>12. ASSUME NEW v \in Spots, NEW u \in Spots, Torn(u) \in temp'[v]
       PROVE  u \in Spoilt' \/ (u = v /\ Filling(v)')
  <2>1. job'[d] # "renaming" /\ \A e \in Downloads : job'[e] = "renaming" => job[e] = "renaming" /\ e # d
    <3>1. job'[d] = "copying" /\ "copying" # "renaming"
      BY Zenon, <1>1 DEF StorageIInv, Go
    <3> QED BY Zenon, <1>5, <3>1
  <2>2. \A w \in Spots : Filling(w) => Filling(w)'
    <3>1. \A e \in Downloads : Target(e)' = Target(e)
      BY Zenon DEF Target, Is, From, PathOf
    <3> QED BY Zenon, <2>1, <3>1 DEF Filling
  <2>3. CASE v = t
    <3>1. u = t
      <4>1. Torn(u) = Torn(t)
        BY Zenon, <1>11, <1>12, <2>3
      <4> QED BY <4>1 DEF Torn
    <3>2. CASE part[t] # {} \/ t \in shared
      <4>1. t \in shared' /\ Grows
        BY Zenon, <1>2, <3>2
      <4> QED BY Zenon, <1>0, <3>1, <4>1, SpoiltStays
    <3>3. CASE part[t] = {} /\ t \notin shared
      <4>1. "renaming" \in Open
        BY DEF Open
      <4>2. ASSUME NEW e \in Downloads, job[e] = "renaming" PROVE Target(e) # t
        <5>1. e \in part[Target(e)] \/ Target(e) \in shared
          BY Zenon, <4>1, <4>2 DEF StorageIInv
        <5> QED BY Zenon, <3>3, <5>1
      <4>3. Filling(t)
        BY Zenon, <4>2 DEF Filling
      <4> QED BY Zenon, <1>0, <2>2, <2>3, <3>1, <4>3
    <3> QED BY Zenon, <3>2, <3>3
  <2>4. CASE v # t
    <3>1. Torn(u) \in temp[v]
      BY Zenon, <1>11, <1>12, <2>4
    <3>2. u \in Spoilt \/ (u = v /\ Filling(v))
      BY Zenon, <3>1 DEF StorageIInv
    <3> QED BY Zenon, <1>2, <2>2, <3>2
  <2> QED BY Zenon, <2>3, <2>4
<1> QED BY Zenon, <1>3, <1>4, <1>5, <1>7, <1>8, <1>9, <1>10, <1>11, <1>12 DEF StorageIInv, TreeShape

(* What a source delivers is sound, cut off or not.                          *)
LEMMA DeliveredIsSound ==
    ASSUME StorageIInv, NEW d \in Downloads
    PROVE  Sound(Delivered(d)) /\ (Target(d) \in Spoilt => Sound({Torn(Target(d))}))
<1>1. Target(d) \in Spots /\ Sound(body[d])
  BY Zenon, TargetIsOne DEF StorageIInv
<1>2. \A u : Torn(u) = Torn(Target(d)) => u = Target(d)
  BY DEF Torn
<1>3. CutOff(d) => Target(d) \in Spoilt
  BY Zenon, <1>1 DEF Spoilt, Spots
<1>4. Target(d) \in Spoilt => Sound({Torn(Target(d))})
  BY Zenon, <1>2 DEF Sound
<1>5. CASE CutOff(d)
  BY Zenon, <1>1, <1>3, <1>4, <1>5 DEF Delivered, Sound
<1>6. CASE ~CutOff(d)
  <2>1. Delivered(d) = body[d]
    BY Zenon, <1>6 DEF Delivered
  <2> QED BY Zenon, <1>1, <1>4, <2>1
<1> QED BY Zenon, <1>4, <1>5, <1>6

(* The source is at its end: bytes are mixed only where the temporary file   *)
(* was shared, and a run whose file is gone has shared it.                   *)
LEMMA FillPartStep ==
    ASSUME StorageIInv, NEW d \in Downloads, FillPart(d)
    PROVE  StorageIInv'
<1> DEFINE t == Target(d)
           there == tree[t[1]][t[2]]
<1>0. t \in Spots /\ t[1] \in Stores /\ t[2] \in Paths
  BY Zenon, TargetIsOne
<1>1. job[d] = "copying" /\ Go(d, "renaming") /\ UNCHANGED <<part, shared, body, feed>>
  BY Zenon DEF FillPart, On, archiver
<1>2. PICK pieces \in {Delivered(d)} \cup (IF t \in shared THEN {{Torn(t)}} ELSE {}) :
         \/ d \in part[t] /\ temp' = [temp EXCEPT ![t] = pieces] /\ UNCHANGED tree
         \/ /\ d \notin part[t] /\ UNCHANGED temp
            /\ tree' \in {tree} \cup (IF there.type = "file" THEN {Put(t, File(pieces))} ELSE {})
  BY Zenon DEF FillPart
<1>3. Grows /\ Spoilt \subseteq Spoilt' /\ (t \in shared => t \in Spoilt /\ t \in Spoilt')
  <2>1. Grows
    BY Zenon, <1>1 DEF Grows, StorageIInv
  <2>2. t \in shared => t \in Spoilt
    BY Zenon, <1>0 DEF Spoilt, Spots
  <2> QED BY Zenon, <2>1, <2>2, SpoiltStays
<1>4. Sound(pieces) /\ Sound(File(pieces).holds)
  <2>1. Sound(pieces)
    BY Zenon, <1>2, <1>3, DeliveredIsSound
  <2>2. File(pieces).holds = pieces
    BY DEF File
  <2> QED BY Zenon, <2>1, <2>2
<1>5. TreeShape(tree') /\ \A s \in Stores, p \in Paths : Sound(tree[s][p].holds)'
  <2>1. tree' = tree \/ tree' = Put(t, File(pieces))
    BY Zenon, <1>2
  <2> HIDE DEF t
  <2> QED BY Zenon, <1>0, <1>3, <1>4, <2>1, SoundPut
<1>6. DOMAIN job' = Downloads /\ \A e \in Downloads \ {d} : job'[e] = job[e]
  BY Zenon, <1>1 DEF StorageIInv, Go
<1>7. d \in part[t] \/ t \in shared
  <2>1. job[d] \in Open
    BY <1>1 DEF Open
  <2> QED BY Zenon, <2>1 DEF StorageIInv
<1>8. \A e \in Downloads : job'[e] \in Open => e \in part'[Target(e)] \/ Target(e) \in shared'
  BY Zenon, <1>1, <1>6, <1>7 DEF StorageIInv
<1>9. \A e \in Downloads : Target(e)' = Target(e)
  BY Zenon DEF Target, Is, From, PathOf
<1>10. \A w \in Spots \ {t} : Filling(w) => Filling(w)'
  BY Zenon, <1>6, <1>9 DEF Filling
<1> HIDE DEF t
<1>11. /\ DOMAIN temp' = Spots /\ \A v \in Spots \ {t} : temp'[v] = temp[v]
       /\ temp'[t] = pieces \/ (temp'[t] = temp[t] /\ t \in shared)
  BY Zenon, <1>0, <1>2, <1>7 DEF StorageIInv
<1>12. ASSUME NEW v \in Spots, NEW u \in Spots, Torn(u) \in temp'[v]
       PROVE  u \in Spoilt' \/ (u = v /\ Filling(v)')
  <2>1. CASE v = t
    <3>1. CASE temp'[t] = pieces
      BY Zenon, <1>3, <1>4, <1>12, <2>1, <3>1 DEF Sound
    <3>2. CASE temp'[t] = temp[t] /\ t \in shared
      <4>1. u \in Spoilt \/ u = t
        BY Zenon, <1>0, <1>12, <2>1, <3>2 DEF StorageIInv
      <4> QED BY Zenon, <1>3, <3>2, <4>1
    <3> QED BY Zenon, <1>11, <3>1, <3>2
  <2>2. CASE v # t
    <3>1. Torn(u) \in temp[v]
      BY Zenon, <1>11, <1>12, <2>2
    <3>2. u \in Spoilt \/ (u = v /\ Filling(v))
      BY Zenon, <3>1 DEF StorageIInv
    <3> QED BY Zenon, <1>3, <1>10, <2>2, <3>2
  <2> QED BY Zenon, <2>1, <2>2
<1>13. /\ DOMAIN body' = Downloads /\ DOMAIN feed' = Downloads /\ part' \in [Spots -> SUBSET Downloads]
       /\ \A e \in Downloads : Sound(body[e])'
       /\ \A w \in Spots : \A e, f \in part'[w] : e # f => w \in shared'
  BY Zenon, <1>1, <1>3 DEF StorageIInv, Sound
<1>14. \A e \in Downloads : (job[e] \in Open => e \in part[Target(e)] \/ Target(e) \in shared)'
  BY Zenon, <1>8, <1>9
<1> QED BY Zenon, <1>5, <1>6, <1>11, <1>12, <1>13, <1>14 DEF StorageIInv, TreeShape

(* The rename: what has the temporary name by then is full, or the path is   *)
(* an exception.                                                             *)
LEMMA RenamePartStep ==
    ASSUME StorageIInv, NEW d \in Downloads, RenamePart(d)
    PROVE  StorageIInv'
<1> DEFINE t == Target(d)
<1>0. t \in Spots /\ t[1] \in Stores /\ t[2] \in Paths
  BY Zenon, TargetIsOne
<1>1. /\ job[d] = "renaming" /\ Go(d, Written(d)) /\ UNCHANGED <<shared, body, feed>>
      /\ part' = [part EXCEPT ![t] = {}] \/ part' = [part EXCEPT ![t] = @ \ {d}]
      /\ tree' = tree \/ tree' = Put(t, File(temp[t]))
      /\ temp' = [temp EXCEPT ![t] = IF part'[t] = {} THEN {} ELSE temp[t]]
  BY Zenon DEF RenamePart, On, archiver
<1>2. Grows
  BY Zenon, <1>1 DEF Grows, StorageIInv
<1>3. Sound(File(temp[t]).holds)
  <2>1. File(temp[t]).holds = temp[t]
    BY DEF File
  <2>2. ~Filling(t)
    BY Zenon, <1>1 DEF Filling
  <2>3. Sound(temp[t])
    BY Zenon, <1>0, <2>2 DEF StorageIInv, Sound
  <2> QED BY Zenon, <2>1, <2>3
<1>4. TreeShape(tree') /\ \A s \in Stores, p \in Paths : Sound(tree[s][p].holds)'
  <2> HIDE DEF t
  <2> QED BY Zenon, <1>0, <1>1, <1>2, <1>3, SoundPut
<1>5. job[d] \in Open /\ Written(d) \in DownloadStates \ Open
  BY <1>1 DEF Written, DownloadStates, Open
<1>6. \E pieces \in {{}, temp[t]} : temp' = [temp EXCEPT ![t] = pieces]
  <2>1. CASE part'[t] = {}
    <3>1. temp' = [temp EXCEPT ![t] = {}]
      BY Zenon, <1>1, <2>1
    <3> QED BY Zenon, <3>1
  <2>2. CASE part'[t] # {}
    <3>1. temp' = [temp EXCEPT ![t] = temp[t]]
      BY Zenon, <1>1, <2>2
    <3> QED BY Zenon, <3>1
  <2> QED BY Zenon, <2>1, <2>2
<1> QED BY Zenon, <1>1, <1>2, <1>4, <1>5, <1>6, PartsMove

(* Write breaks off and removes the temporary file.                          *)
LEMMA BreakOffStep ==
    ASSUME StorageIInv, NEW d \in Downloads, BreakOff(d)
    PROVE  StorageIInv'
<1>1. /\ Go(d, Written(d)) /\ UNCHANGED <<tree, shared, body, feed>>
      /\ Written(d) \in DownloadStates \ Open
  <2>1. Written(d) \in DownloadStates \ Open
    BY DEF Written, DownloadStates, Open
  <2> QED BY Zenon, <2>1 DEF BreakOff, Go, archiver
<1>2. Grows
  BY Zenon, <1>1 DEF Grows, StorageIInv
<1>3. CASE job[d] = "copying" /\ part' = [part EXCEPT ![Target(d)] = {}] /\ temp' = [temp EXCEPT ![Target(d)] = {}]
  <2>1. TreeShape(tree') /\ \A s \in Stores, p \in Paths : Sound(tree[s][p].holds)'
    BY Zenon, <1>1, <1>2, SpoiltStays DEF StorageIInv, Sound, TreeShape
  <2>2. job[d] \in Open
    BY <1>3 DEF Open
  <2> QED BY Zenon, <1>1, <1>2, <1>3, <2>1, <2>2, PartsMove
<1>4. CASE UNCHANGED <<part, temp>>
  BY Zenon, <1>1, <1>2, <1>4, RowSteps
<1> QED BY Zenon, <1>3, <1>4 DEF BreakOff

(* Paths are numbered from 1: no piece of a whole file looks torn.           *)
LEMMA NoPathIsZero == 0 \notin Paths
<1>1. Cardinality(Paths) \in Nat
  BY StorageAssumption, FS_CardinalityType
<1> QED BY <1>1, StorageAssumption

(* Whoever puts a sound entry at a path, and copies nothing.                 *)
LEMMA PutSteps ==
    ASSUME StorageIInv, NEW t \in Spots, NEW e, Sound(e.holds), tree' = tree \/ tree' = Put(t, e),
           UNCHANGED <<part, temp, shared, body, feed>>,
           \/ UNCHANGED job
           \/ \E d \in Downloads : \E state \in DownloadStates \ Open : Go(d, state)
    PROVE  StorageIInv'
<1>0. Grows
  BY Zenon DEF Grows, StorageIInv
<1>1. TreeShape(tree') /\ \A s \in Stores, p \in Paths : Sound(tree[s][p].holds)'
  BY Zenon, <1>0, SoundPut
<1>2. DOMAIN job' = Downloads /\ \A d \in Downloads : job'[d] \in Open => job'[d] = job[d]
  <2>1. CASE UNCHANGED job
    BY Zenon, <2>1 DEF StorageIInv
  <2>2. ASSUME NEW d \in Downloads, NEW state \in DownloadStates \ Open, Go(d, state)
        PROVE  DOMAIN job' = Downloads /\ \A c \in Downloads : job'[c] \in Open => job'[c] = job[c]
    BY Zenon, <2>2 DEF StorageIInv, Go
  <2> QED BY Zenon, <2>1, <2>2
<1>3. \A d \in Downloads : (job[d] \in Open => d \in part[Target(d)] \/ Target(d) \in shared)'
  <2>1. \A d \in Downloads : job'[d] \in Open => d \in part'[Target(d)] \/ Target(d) \in shared'
    BY Zenon, <1>2 DEF StorageIInv
  <2> QED BY Zenon, <2>1 DEF Target, Is, From, PathOf
<1>4. /\ DOMAIN body' = Downloads /\ DOMAIN feed' = Downloads /\ \A d \in Downloads : Sound(body[d])'
      /\ part' \in [Spots -> SUBSET Downloads]
      /\ \A u \in Spots : \A c, d \in part'[u] : c # d => u \in shared'
  BY Zenon, <1>0, SpoiltStays DEF StorageIInv, Sound
<1>5. /\ DOMAIN temp' = Spots
      /\ \A v, u \in Spots : Torn(u) \in temp'[v] => u \in Spoilt' \/ (u = v /\ Filling(v)')
  <2>1. \A d \in Downloads : job'[d] = "renaming" => job[d] = "renaming"
    BY Zenon, <1>2 DEF Open
  <2>2. DOMAIN temp' = Spots
    BY Zenon DEF StorageIInv
  <2> QED BY Zenon, <1>0, <2>1, <2>2, TempStays
<1> QED BY Zenon, <1>1, <1>2, <1>3, <1>4, <1>5 DEF StorageIInv, TreeShape

(* The drivers for ssh and S3, and what users do.                            *)
LEMMA OtherWrites ==
    ASSUME StorageIInv,
           \/ \E d \in Downloads : WriteOverSSH(d) \/ PutObject(d)
           \/ \E s \in Stores, p \in Paths : DeleteEntry(s, p) \/ ReplaceFile(s, p)
    PROVE  StorageIInv'
<1>1. \A pieces : File(pieces).holds = pieces
  BY DEF File
<1>2. Sound({}) /\ Sound(Absent.holds)
  <2>1. Absent.holds = {}
    BY DEF Absent
  <2> QED BY Zenon, <2>1 DEF Sound
<1>7. \A d \in Downloads : Written(d) \in DownloadStates \ Open
  BY DEF Written, DownloadStates, Open
<1>3. ASSUME NEW d \in Downloads, WriteOverSSH(d) PROVE StorageIInv'
  <2>1. Target(d) \in Spots /\ Driver[Target(d)[1]] = "ssh"
    BY Zenon, <1>3, TargetIsOne DEF WriteOverSSH
  <2>2. Target(d) \in Spoilt
    BY Zenon, <2>1 DEF Spoilt, Spots
  <2>3. Sound(File({Torn(Target(d))}).holds)
    <3>1. File({Torn(Target(d))}).holds = {Torn(Target(d))}
      BY Zenon, <1>1
    <3> QED BY Zenon, <2>2, <3>1, DeliveredIsSound
  <2>4. /\ tree' = tree \/ tree' = Put(Target(d), File({Torn(Target(d))}))
        /\ UNCHANGED <<part, temp, shared, body, feed>> /\ Go(d, Written(d))
    BY Zenon, <1>3 DEF WriteOverSSH, archiver
  <2> QED BY Zenon, <1>7, <2>1, <2>3, <2>4, PutSteps
<1>4. ASSUME NEW d \in Downloads, PutObject(d) PROVE StorageIInv'
  <2>1. Target(d) \in Spots /\ Sound(File(Delivered(d)).holds)
    BY Zenon, <1>1, TargetIsOne, DeliveredIsSound
  <2>2. /\ tree' = tree \/ tree' = Put(Target(d), File(Delivered(d)))
        /\ UNCHANGED <<part, temp, shared, body, feed>> /\ Go(d, Written(d))
    BY Zenon, <1>4 DEF PutObject, archiver
  <2> QED BY Zenon, <1>7, <2>1, <2>2, PutSteps
<1>5. ASSUME NEW s \in Stores, NEW p \in Paths, DeleteEntry(s, p) PROVE StorageIInv'
  <2>1. <<s, Resolve(s, p)>> \in Spots
    BY TargetIsOne DEF Spots
  <2>2. tree' = Put(<<s, Resolve(s, p)>>, Absent) /\ UNCHANGED <<part, temp, shared, body, feed, job>>
    BY Zenon, <1>5 DEF DeleteEntry, archiver
  <2> QED BY Zenon, <1>2, <2>1, <2>2, PutSteps
<1>6. ASSUME NEW s \in Stores, NEW p \in Paths, ReplaceFile(s, p) PROVE StorageIInv'
  <2>1. <<s, p>> \in Spots
    BY DEF Spots
  <2>2. tree' = Put(<<s, p>>, File({<<p, edits'>>})) /\ UNCHANGED <<part, temp, shared, body, feed, job>>
    BY Zenon, <1>6 DEF ReplaceFile, archiver
  <2>3. \A t : Torn(t) # <<p, edits'>>
    <3>1. p # 0
      BY Zenon, NoPathIsZero
    <3> QED BY <3>1 DEF Torn
  <2>4. Sound(File({<<p, edits'>>}).holds)
    <3>1. File({<<p, edits'>>}).holds = {<<p, edits'>>}
      BY Zenon, <1>1
    <3> QED BY Zenon, <2>3, <3>1 DEF Sound
  <2> QED BY Zenon, <2>1, <2>2, <2>4, PutSteps
<1> QED BY Zenon, <1>3, <1>4, <1>5, <1>6

(* A crash closes every temporary file, and nobody copies any more.          *)
LEMMA StorageCrashStep ==
    ASSUME StorageIInv, StorageCrash
    PROVE  StorageIInv'
<1>1. /\ job' = [d \in Downloads |-> IF job[d] \in {"idle", "over", "refused", "unsaved"} THEN job[d] ELSE "gone"]
      /\ feed' = [d \in Downloads |-> IF feed[d] = "walking" THEN "none" ELSE feed[d]]
      /\ part' = [t \in Stores \X Paths |-> {}] /\ temp' = [t \in Stores \X Paths |-> {}]
      /\ UNCHANGED <<tree, shared, body>>
  BY Zenon DEF StorageCrash
<1>2. DOMAIN job' = Downloads /\ \A d \in Downloads : job'[d] \notin Open
  <2>1. \A d \in Downloads : job'[d] \in {"idle", "over", "refused", "unsaved", "gone"}
    BY Zenon, <1>1
  <2> QED BY Zenon, <1>1, <2>1 DEF Open
<1>3. /\ part' \in [Spots -> SUBSET Downloads] /\ \A t \in Spots : part'[t] = {}
      /\ DOMAIN temp' = Spots /\ \A t \in Spots : temp'[t] = {}
  BY Zenon, <1>1 DEF Spots
<1>0. Grows
  <2>1. "walking" # "failed"
    OBVIOUS
  <2> QED BY Zenon, <1>1, <2>1 DEF Grows
<1>4. /\ TreeShape(tree)' /\ DOMAIN body' = Downloads /\ DOMAIN feed' = Downloads
      /\ \A s \in Stores, p \in Paths : Sound(tree[s][p].holds)'
      /\ \A d \in Downloads : Sound(body[d])'
  BY Zenon, <1>0, <1>1, SpoiltStays DEF StorageIInv, Sound, TreeShape
<1> QED BY Zenon, <1>2, <1>3, <1>4 DEF StorageIInv

\* A run that has not begun has not walked.
Early == {"idle", "queued", "starting"}
WalksLater ==
    DOMAIN job = Downloads /\ DOMAIN feed = Downloads /\ \A d \in Downloads : job[d] \in Early => feed[d] = "none"

(* The walk of an archive starts with its goroutine (archive).               *)
LEMMA WalksLaterStep == WalksLater /\ [StorageNext]_storageVars => WalksLater'
<1> SUFFICES ASSUME WalksLater, [StorageNext]_storageVars PROVE WalksLater'
  BY Zenon
<1>0. /\ {"opening", "writing", "copying", "renaming", "awaiting", "saving", "over", "refused", "unsaved", "gone"} \cap Early = {}
      /\ "queued" \in Early /\ "idle" \in Early /\ "starting" \in Early
  BY DEF Early
<1>1. ASSUME NEW d \in Downloads, NEW state, Go(d, state), state \notin Early, \E walk : feed' = [feed EXCEPT ![d] = walk]
      PROVE  WalksLater'
  BY Zenon, <1>1 DEF WalksLater, Go
<1>2. ASSUME NEW d \in Downloads, NEW state, Go(d, state), job[d] \in Early \/ state \notin Early, UNCHANGED feed PROVE WalksLater'
  BY Zenon, <1>2 DEF WalksLater, Go
<1>3. CASE UNCHANGED <<job, feed>>
  BY Zenon, <1>3 DEF WalksLater
<1>4. ASSUME NEW d \in Downloads, StartDownload(d) \/ QueueCopy(d) \/ QueueArchive(d) PROVE WalksLater'
  BY Zenon, <1>0, <1>2, <1>4 DEF StartDownload, QueueCopy, QueueArchive, New, archiver
<1>5. ASSUME NEW d \in Downloads, Launch(d) \/ OpenBody(d) \/ Await(d) \/ SaveOutcome(d) PROVE WalksLater'
  BY Zenon, <1>0, <1>2, <1>5 DEF Launch, OpenBody, Await, SaveOutcome, On, archiver
<1>6. ASSUME NEW d \in Downloads, BeginDownload(d) PROVE WalksLater'
  <2>1. \/ UNCHANGED feed /\ (Go(d, "opening") \/ Go(d, "unsaved"))
        \/ Go(d, "writing") /\ \E walk : feed' = [feed EXCEPT ![d] = walk]
    BY Zenon, <1>6 DEF BeginDownload, archiver
  <2> QED BY Zenon, <1>0, <1>1, <1>2, <2>1
<1>7. ASSUME NEW d \in Downloads, MakePart(d) \/ FillPart(d) PROVE WalksLater'
  BY Zenon, <1>0, <1>2, <1>7 DEF MakePart, FillPart, archiver
<1>8. ASSUME NEW d \in Downloads, RenamePart(d) \/ BreakOff(d) \/ WriteOverSSH(d) \/ PutObject(d) PROVE WalksLater'
  <2>1. Written(d) \notin Early
    BY DEF Written, Early
  <2>2. Go(d, Written(d)) /\ UNCHANGED feed
    BY Zenon, <1>8 DEF RenamePart, BreakOff, WriteOverSSH, PutObject, Go, archiver
  <2> QED BY Zenon, <1>2, <2>1, <2>2
<1>9. ASSUME NEW d \in Downloads, Pack(d) PROVE WalksLater'
  <2>1. feed[d] = "walking" /\ UNCHANGED job /\ \E walk : feed' = [feed EXCEPT ![d] = walk]
    BY Zenon, <1>9 DEF Pack
  <2>2. "walking" # "none"
    OBVIOUS
  <2> QED BY Zenon, <2>1, <2>2 DEF WalksLater
<1>10. ASSUME NEW s \in Stores, NEW p \in Paths, DeleteEntry(s, p) \/ ReplaceFile(s, p) PROVE WalksLater'
  BY Zenon, <1>3, <1>10 DEF DeleteEntry, ReplaceFile, archiver
<1>11. ASSUME NEW s \in Stores, NEW stays \in BOOLEAN, ReplaceEnvironment(s, stays) PROVE WalksLater'
  BY Zenon, <1>3, <1>11 DEF ReplaceEnvironment, archiver
<1>12. CASE StorageCrash
  <2>1. /\ job' = [d \in Downloads |-> IF job[d] \in {"idle", "over", "refused", "unsaved"} THEN job[d] ELSE "gone"]
        /\ feed' = [d \in Downloads |-> IF feed[d] = "walking" THEN "none" ELSE feed[d]]
    BY Zenon, <1>12 DEF StorageCrash
  <2>2. ASSUME NEW d \in Downloads, job'[d] \in Early PROVE feed'[d] = "none"
    BY Zenon, <1>0, <2>1, <2>2 DEF WalksLater
  <2> QED BY Zenon, <2>1, <2>2 DEF WalksLater
<1>13. CASE UNCHANGED storageVars
  BY Zenon, <1>3, <1>13 DEF storageVars, archiver
<1>14. ASSUME NEW d \in Downloads, DownloadStep(d) PROVE WalksLater'
  BY Zenon, <1>5, <1>6, <1>7, <1>8, <1>9, <1>14 DEF DownloadStep
<1> QED BY Zenon, <1>4, <1>10, <1>11, <1>12, <1>13, <1>14 DEF StorageNext

(* Every step of requests, goroutines, users and crashes leaves torn pieces  *)
(* only where the exceptions allow them.                                     *)
LEMMA StorageStep == StorageIInv /\ WalksLater /\ [StorageNext]_storageVars => StorageIInv' /\ WalksLater'
<1> SUFFICES ASSUME StorageIInv, WalksLater, [StorageNext]_storageVars PROVE StorageIInv'
  BY Zenon, WalksLaterStep
<1>0. {"over", "queued", "refused", "starting", "opening", "writing", "saving", "unsaved"} \subseteq DownloadStates \ Open
  BY DEF DownloadStates, Open
<1>7. UNCHANGED <<shared, feed>> => Grows
  BY Zenon DEF Grows, StorageIInv
<1>1. ASSUME NEW d \in Downloads, StartDownload(d) \/ QueueCopy(d) \/ QueueArchive(d) PROVE StorageIInv'
  BY Zenon, <1>0, <1>1, <1>7, RowSteps DEF StartDownload, QueueCopy, QueueArchive, places, archiver
<1>2. ASSUME NEW d \in Downloads, Launch(d) \/ Await(d) \/ SaveOutcome(d) PROVE StorageIInv'
  BY Zenon, <1>0, <1>2, <1>7, RowSteps DEF Launch, Await, SaveOutcome, places, archiver
<1>3. ASSUME NEW d \in Downloads, BeginDownload(d) PROVE StorageIInv'
  <2>1. UNCHANGED <<tree, part, temp, shared, body>> /\ \E state \in DownloadStates \ Open : Go(d, state)
    BY Zenon, <1>0, <1>3 DEF BeginDownload, places
  <2>2. feed' = feed \/ feed' = [feed EXCEPT ![d] = "walking"]
    BY Zenon, <1>3 DEF BeginDownload, archiver
  <2>3. feed[d] = "none" /\ "none" # "failed"
    BY Zenon, <1>3 DEF WalksLater, Early, BeginDownload, On
  <2>4. Grows
    BY Zenon, <2>1, <2>2, <2>3 DEF WalksLater, Grows
  <2> QED BY Zenon, <2>1, <2>4, RowSteps
<1>4. ASSUME NEW s \in Stores, NEW stays \in BOOLEAN, ReplaceEnvironment(s, stays) PROVE StorageIInv'
  BY Zenon, <1>4, <1>7, RowSteps DEF ReplaceEnvironment, places, archiver
<1>5. CASE UNCHANGED storageVars
  BY Zenon, <1>5, <1>7, RowSteps DEF storageVars, places, archiver
<1>6. ASSUME NEW d \in Downloads, DownloadStep(d) PROVE StorageIInv'
  BY Zenon, <1>2, <1>3, <1>6, ReadSteps, MakePartStep, FillPartStep, RenamePartStep, BreakOffStep, OtherWrites DEF DownloadStep
<1> QED BY Zenon, <1>1, <1>4, <1>5, <1>6, OtherWrites, StorageCrashStep DEF StorageNext

(* A server starts without torn pieces and with nobody copying.              *)
LEMMA StorageStarts == StorageInit => StorageIInv /\ WalksLater
<1> SUFFICES ASSUME StorageInit PROVE StorageIInv /\ WalksLater
  BY Zenon
<1>1. TreeShape(tree)
  BY Zenon, StorageAssumption DEF StorageInit, TreeShape
<1>2. \A s \in Stores, p \in Paths : Sound(tree[s][p].holds)
  <2> SUFFICES ASSUME NEW s \in Stores, NEW p \in Paths, NEW t \in Spots PROVE Torn(t) \notin tree[s][p].holds
    BY Zenon DEF Sound
  <2>1. tree[s][p] \in FileEntries
    BY Zenon, StorageAssumption DEF StorageInit
  <2>2. tree[s][p].holds \subseteq Paths \X {0}
    BY <2>1 DEF FileEntries
  <2> QED BY <2>2, NoPathIsZero DEF Torn
<1>3. /\ part \in [Spots -> SUBSET Downloads] /\ \A t \in Spots : part[t] = {}
      /\ DOMAIN temp = Spots /\ \A t \in Spots : temp[t] = {}
      /\ DOMAIN job = Downloads /\ DOMAIN body = Downloads /\ DOMAIN feed = Downloads
      /\ \A d \in Downloads : job[d] = "idle" /\ body[d] = {} /\ feed[d] = "none"
  BY Zenon DEF StorageInit, Spots
<1>4. "idle" \notin Open
  BY DEF Open
<1> QED BY Zenon, <1>1, <1>2, <1>3, <1>4 DEF StorageIInv, WalksLater, Sound

(* For any stores, drivers, paths, requests and failures: no path ever shows *)
(* less than a run was to write there, also while runs write, after failing  *)
(* calls and crashes, except where two runs wrote at once, the driver is the *)
(* one for ssh or the walk of an archive failed, and what copies make of     *)
(* that (Driver.Write).                                                      *)
THEOREM NothingIsHalfWritten == StorageSpec => []NothingHalfWritten
<1>1. StorageIInv => NothingHalfWritten
  BY Zenon DEF StorageIInv, NothingHalfWritten, Sound, Spots
<1> QED BY <1>1, StorageStarts, StorageStep, PTL DEF StorageSpec

-----------------------------------------------------------------------------
(* What was reported has arrived *)

(* The directories above a path are those that enclose it: its own, and the  *)
(* ones above that (Driver.Write's MkdirAll, walks of archives).             *)
LEMMA AboveIs ==
    /\ \A p \in Paths : Parent[p] \in Paths => Parent[p] \in Above[p]
    /\ \A p \in Paths : \A q \in Above[p] : q \in Paths /\ (Parent[q] \in Paths => Parent[q] \in Above[p])
    /\ \A p \in Paths : \A set \in SUBSET Paths :
          (\A q \in set \cup {p} : Parent[q] \in set \cup {0}) => Above[p] \subseteq set
<1>1. \A p \in Paths : Above[p] = {q \in Paths : \A set \in Enclosing(p) : q \in set}
  BY Zenon DEF Above
<1>2. ASSUME NEW p \in Paths, Parent[p] \in Paths PROVE Parent[p] \in Above[p]
  <2>1. Parent[p] # 0
    BY Zenon, <1>2, NoPathIsZero
  <2>2. ASSUME NEW set \in Enclosing(p) PROVE Parent[p] \in set
    BY Zenon, <2>1 DEF Enclosing
  <2> QED BY Zenon, <1>1, <1>2, <2>2
<1>3. ASSUME NEW p \in Paths, NEW q \in Above[p], Parent[q] \in Paths PROVE Parent[q] \in Above[p]
  <2>1. Parent[q] # 0
    BY Zenon, <1>3, NoPathIsZero
  <2>2. ASSUME NEW set \in Enclosing(p) PROVE Parent[q] \in set
    <3>1. q \in set
      BY Zenon, <1>1
    <3> QED BY Zenon, <2>1, <3>1 DEF Enclosing
  <2> QED BY Zenon, <1>1, <1>3, <2>2
<1>4. ASSUME NEW p \in Paths, NEW set \in SUBSET Paths, \A q \in set \cup {p} : Parent[q] \in set \cup {0}
      PROVE  Above[p] \subseteq set
  <2>1. set \in Enclosing(p)
    BY Zenon, <1>4 DEF Enclosing
  <2> QED BY Zenon, <1>1, <2>1
<1>5. \A p \in Paths : \A q \in Above[p] : q \in Paths
  BY Zenon, <1>1
<1> QED BY Zenon, <1>2, <1>3, <1>4, <1>5

(* What is above is smaller, and above everything below.                     *)
LEMMA AboveIsAnOrder ==
    /\ \A p \in Paths : p \notin Above[p]
    /\ \A p \in Paths : \A q \in Above[p] : Above[q] \subseteq Above[p]
    /\ \A p, q \in Paths : Parent[p] = Parent[q] => Above[p] = Above[q]
<1>1. \A p \in Paths : Parent[p] \in Paths \cup {0} /\ Parent[p] < p
  BY Zenon, StorageAssumption
<1>2. ASSUME NEW p \in Paths PROVE p \notin Above[p]
  <2> DEFINE set == {q \in Paths : q < p}
  <2>1. Paths \subseteq Nat
    <3>1. Cardinality(Paths) \in Nat
      BY StorageAssumption, FS_CardinalityType
    <3> QED BY <3>1, StorageAssumption
  <2>2. \A q \in set \cup {p} : Parent[q] \in set \cup {0}
    <3>1. ASSUME NEW q \in set \cup {p} PROVE Parent[q] \in set \cup {0}
      <4>1. q \in Paths /\ (q < p \/ q = p)
        BY Zenon
      <4>2. Parent[q] = 0 \/ (Parent[q] \in Paths /\ Parent[q] < q)
        BY Zenon, <1>1, <4>1
      <4>3. CASE Parent[q] = 0
        BY Zenon, <4>3
      <4>4. CASE Parent[q] \in Paths /\ Parent[q] < q
        <5>1. Parent[q] < p
          <6>1. Parent[q] \in Nat /\ q \in Nat /\ p \in Nat
            BY Zenon, <2>1, <4>1, <4>4
          <6> QED BY <4>1, <4>4, <6>1
        <5>2. Parent[q] \in set
          BY <4>4, <5>1
        <5> QED BY <5>2
      <4> QED BY Zenon, <4>2, <4>3, <4>4
    <3> QED BY Zenon, <3>1
  <2>3. p \notin set
    BY <2>1
  <2>4. set \in SUBSET Paths
    BY Zenon
  <2> HIDE DEF set
  <2> QED BY Zenon, <2>2, <2>3, <2>4, AboveIs
<1>3. ASSUME NEW p \in Paths, NEW q \in Above[p] PROVE Above[q] \subseteq Above[p]
  <2>1. Above[p] \in SUBSET Paths /\ q \in Paths
    BY Zenon, AboveIs
  <2>2. \A r \in Above[p] \cup {q} : Parent[r] \in Above[p] \cup {0}
    BY Zenon, <1>1, <2>1, AboveIs
  <2> QED BY Zenon, <2>1, <2>2, AboveIs
<1>4. ASSUME NEW p \in Paths, NEW q \in Paths, Parent[p] = Parent[q] PROVE Above[p] \subseteq Above[q]
  <2>1. Above[q] \in SUBSET Paths
    BY Zenon, AboveIs
  <2>2. \A r \in Above[q] \cup {p} : Parent[r] \in Above[q] \cup {0}
    BY Zenon, <1>1, <1>4, AboveIs
  <2> QED BY Zenon, <2>1, <2>2, AboveIs
<1>5. \A p, q \in Paths : Parent[p] = Parent[q] => Above[p] = Above[q]
  <2> SUFFICES ASSUME NEW p \in Paths, NEW q \in Paths, Parent[p] = Parent[q] PROVE Above[p] = Above[q]
    BY Zenon
  <2>1. Above[p] \subseteq Above[q] /\ Above[q] \subseteq Above[p]
    BY Zenon, <1>4
  <2> QED BY <2>1
<1> QED BY Zenon, <1>2, <1>3, <1>5

(* Between a directory and a path below it is one of its entries.            *)
LEMMA WayDown ==
    ASSUME NEW p \in Paths, NEW q \in Above[p], Parent[p] # q
    PROVE  \E c \in Above[p] : Parent[c] = q
<1> SUFFICES ASSUME \A c \in Above[p] : Parent[c] # q PROVE FALSE
  BY Zenon
<1> DEFINE set == Above[p] \ {q}
<1>1. set \in SUBSET Paths
  BY Zenon, AboveIs
<1>2. \A r \in set \cup {p} : Parent[r] \in set \cup {0}
  <2>1. \A r \in Above[p] \cup {p} : r \in Paths /\ Parent[r] \in Paths \cup {0}
    BY Zenon, AboveIs, StorageAssumption
  <2>2. \A r \in Above[p] \cup {p} : Parent[r] \in Above[p] \cup {0}
    BY Zenon, <2>1, AboveIs
  <2> QED BY Zenon, <2>2
<1> HIDE DEF set
<1>3. Above[p] \subseteq set
  BY Zenon, <1>1, <1>2, AboveIs
<1> QED BY Zenon, <1>3 DEF set

(* At the start, what encloses something is a directory.                     *)
LEMMA WaysAreDirectories ==
    ASSUME NEW s \in Stores, NEW p \in Paths, InitialTree[s][p].type # "absent"
    PROVE  \A q \in Above[p] : InitialTree[s][q].type = "directory"
<1> DEFINE set == {q \in Paths : InitialTree[s][q].type = "directory"}
<1>1. \A r \in set \cup {p} : r \in Paths /\ InitialTree[s][r].type # "absent"
  BY Zenon
<1>2. \A r \in set \cup {p} : Parent[r] \in set \cup {0}
  <2>1. \A r \in set \cup {p} : Parent[r] \in Paths \cup {0}
    BY Zenon, <1>1, StorageAssumption
  <2>2. \A r \in set \cup {p} : Parent[r] # 0 => InitialTree[s][Parent[r]].type = "directory"
    BY Zenon, <1>1, StorageAssumption
  <2> QED BY Zenon, <2>1, <2>2
<1>3. set \in SUBSET Paths
  BY Zenon
<1> HIDE DEF set
<1>4. Above[p] \subseteq set
  BY Zenon, <1>2, <1>3, AboveIs
<1> QED BY Zenon, <1>4 DEF set

\* Whoever wrote a path has it in a file system's tree as it was, but for the
\* path itself and directories above it.
Touched(d, before, after) ==
    \A s \in Stores, p \in Paths :
        \/ after[s][p] = before[s][p]
        \/ /\ s = Target(d)[1]
           /\ p = Target(d)[2] \/ (p \in Above[Target(d)[2]] /\ before[s][p].type # "file")

\* Nobody else has a run that writes where d writes or below what it packs.
Clear(d, jobs) ==
    \A e \in Downloads \ {d} : jobs[e] # "idle" =>
        /\ Target(e) # Target(d)
        /\ ~(Is(d, "archive") /\ Target(e)[1] = From(d) /\ PathOf(d) \in Above[Target(e)[2]])

\* Below the directory of an archive everything is as it was at the start.
Untouched(d, now) ==
    \A p \in Paths : PathOf(d) \in Above[p] => now[From(d)][p] = InitialTree[From(d)][p]

Packing(d) == {p \in Paths : PathOf(d) \in Above[p] /\ InitialTree[From(d)][p].type = "file"}
AllPieces(d) == UNION {InitialTree[From(d)][p].holds : p \in Packing(d)}

\* The walk: what is not packed yet is below a directory that is not walked yet.
Walking(d, pieces, dirs) ==
    /\ pieces \subseteq AllPieces(d)
    /\ \A q \in dirs : q \in Paths /\ (q = PathOf(d) \/ PathOf(d) \in Above[q])
    /\ OnePage => \A p \in Packing(d) :
          InitialTree[From(d)][p].holds \subseteq pieces \/ \E q \in dirs : q \in Above[p]
Whole(d, pieces) == OnePage => pieces = AllPieces(d)

There(d, now, pieces) ==
    Driver[Target(d)[1]] = "ssh" \/ now[Target(d)[1]][Target(d)[2]] = File(pieces)
Reported(d, status) ==
    (Is(d, "copy") /\ status = "completed") \/ (Is(d, "archive") /\ status = "ready")

\* Where a run is and what it has
InOrder(d, state, pieces, dirs, status) ==
    /\ state \in {"idle", "queued", "starting"} => pieces = {}
    /\ state = "opening" => Is(d, "copy")
    /\ Is(d, "copy") => dirs = {}
    /\ Reported(d, status) => state = "over"

\* Its archive is cut off.
Cut(d, walk) == Is(d, "archive") /\ walk = "failed"

\* What a run has achieved that nobody disturbed
OnCourse(d, state, result, pieces, walk, dirs, status, now) ==
    /\ Is(d, "archive") => /\ Untouched(d, now)
                           /\ walk = "walking" => Walking(d, pieces, dirs)
                           /\ walk = "done" => Whole(d, pieces)
    /\ state \in {"awaiting", "saving"} /\ result = "ok" /\ ~Cut(d, walk) => There(d, now, pieces)
    /\ Is(d, "archive") /\ state = "saving" /\ result = "ok" => walk = "done"
    /\ Reported(d, status) => There(d, now, pieces) /\ (Is(d, "archive") => Whole(d, pieces))

(* An archive is written beside its directory, not in it.                    *)
LEMMA ArchivesAreBeside ==
    ASSUME NEW d \in Downloads, Is(d, "archive")
    PROVE  PathOf(d) \notin Above[Target(d)[2]]
<1>1. Target(d)[2] = Output[PathOf(d)]
  BY DEF Target
<1>2. Parent[Output[PathOf(d)]] = Parent[PathOf(d)]
  BY Zenon, StorageAssumption DEF Is, PathOf
<1>3. PathOf(d) \in Paths /\ Output[PathOf(d)] \in Paths
  BY Zenon, TargetIsOne, StorageAssumption
<1>4. Above[Output[PathOf(d)]] = Above[PathOf(d)]
  BY Zenon, <1>2, <1>3, AboveIsAnOrder
<1> QED BY Zenon, <1>1, <1>3, <1>4, AboveIsAnOrder

(* Who writes elsewhere leaves a directory's contents alone.                 *)
LEMMA UntouchedStays ==
    ASSUME NEW d \in Downloads, NEW e \in Downloads, NEW before, NEW after, Touched(d, before, after),
           Untouched(e, before), ~(Target(d)[1] = From(e) /\ PathOf(e) \in Above[Target(d)[2]])
    PROVE  Untouched(e, after)
<1> SUFFICES ASSUME NEW p \in Paths, PathOf(e) \in Above[p] PROVE after[From(e)][p] = before[From(e)][p]
  BY Zenon DEF Untouched
<1>1. From(e) \in Stores /\ Target(d)[2] \in Paths
  BY Zenon, TargetIsOne
<1>2. CASE p = Target(d)[2] /\ From(e) = Target(d)[1]
  BY Zenon, <1>2
<1>3. CASE p \in Above[Target(d)[2]] /\ From(e) = Target(d)[1]
  <2>1. Above[p] \subseteq Above[Target(d)[2]]
    BY Zenon, <1>1, <1>3, AboveIsAnOrder
  <2> QED BY Zenon, <1>3, <2>1
<1> QED BY Zenon, <1>1, <1>2, <1>3 DEF Touched

(* A file that somebody brought stays when others write other paths.         *)
LEMMA ThereStays ==
    ASSUME NEW d \in Downloads, NEW e \in Downloads, NEW before, NEW after, Touched(d, before, after),
           Target(d) # Target(e), NEW pieces, There(e, before, pieces)
    PROVE  There(e, after, pieces)
<1>1. /\ Target(e)[1] \in Stores /\ Target(e)[2] \in Paths
      /\ ~(Target(e)[1] = Target(d)[1] /\ Target(e)[2] = Target(d)[2])
  <2>1. Target(e) \in Spots /\ Target(d) \in Spots
    BY Zenon, TargetIsOne
  <2> QED BY <2>1 DEF Spots
<1>2. File(pieces).type = "file"
  BY DEF File
<1>3. CASE before[Target(e)[1]][Target(e)[2]] = File(pieces)
  <2>1. before[Target(e)[1]][Target(e)[2]].type = "file"
    BY Zenon, <1>2, <1>3
  <2>2. after[Target(e)[1]][Target(e)[2]] = before[Target(e)[1]][Target(e)[2]]
    BY Zenon, <1>1, <2>1 DEF Touched
  <2> QED BY Zenon, <1>3, <2>2 DEF There
<1> QED BY Zenon, <1>3 DEF There

(* The runs nobody disturbs stay on course while another one moves.          *)
LEMMA OthersStayOnCourse ==
    ASSUME NEW d \in Downloads, NEW e \in Downloads, d # e, NEW before, NEW after, Touched(d, before, after),
           NEW jobs, jobs[d] # "idle", Clear(e, jobs),
           NEW state, NEW result, NEW pieces, NEW walk, NEW dirs, NEW status,
           OnCourse(e, state, result, pieces, walk, dirs, status, before)
    PROVE  OnCourse(e, state, result, pieces, walk, dirs, status, after)
<1>1. /\ Target(d) # Target(e)
      /\ Is(e, "archive") => ~(Target(d)[1] = From(e) /\ PathOf(e) \in Above[Target(d)[2]])
  BY Zenon DEF Clear
<1>2. Is(e, "archive") /\ Untouched(e, before) => Untouched(e, after)
  BY Zenon, <1>1, UntouchedStays
<1>3. There(e, before, pieces) => There(e, after, pieces)
  BY Zenon, <1>1, ThereStays
<1> QED BY Zenon, <1>2, <1>3 DEF OnCourse

(* A page has all entries of a directory that fits on it (Browse).           *)
LEMMA PagesAreWhole ==
    ASSUME OnePage, NEW s \in Stores, NEW dir \in Paths
    PROVE  Browse(s, dir) = {p \in Paths : Parent[p] = dir /\ tree[s][p].type # "absent"}
<1> DEFINE children == {p \in Paths : Parent[p] = dir /\ tree[s][p].type # "absent"}
           kin == {p \in Paths : Parent[p] = dir}
<1>1. IsFiniteSet(kin) /\ Cardinality(kin) \in Nat /\ Cardinality(kin) <= PageLimit
  <2>1. IsFiniteSet(kin)
    BY StorageAssumption, FS_Subset
  <2> QED BY <2>1, FS_CardinalityType DEF OnePage
<1>2. ASSUME NEW p \in children PROVE Cardinality({q \in children : q < p}) < PageLimit
  <2> DEFINE smaller == {q \in children : q < p}
  <2>1. p \in Int
    <3>1. Cardinality(Paths) \in Nat
      BY StorageAssumption, FS_CardinalityType
    <3> QED BY <3>1, StorageAssumption
  <2>2. smaller \subseteq kin \ {p} /\ p \in kin
    BY <2>1
  <2>3. IsFiniteSet(kin \ {p}) /\ Cardinality(kin \ {p}) = Cardinality(kin) - 1
    <3> HIDE DEF kin
    <3> QED BY <1>1, <2>2, FS_RemoveElement
  <2> HIDE DEF smaller, kin
  <2>4. Cardinality(smaller) \in Nat /\ Cardinality(smaller) <= Cardinality(kin \ {p})
    <3>1. IsFiniteSet(smaller) /\ Cardinality(smaller) <= Cardinality(kin \ {p})
      BY Zenon, <2>2, <2>3, FS_Subset
    <3> QED BY Zenon, <3>1, FS_CardinalityType
  <2>5. PageLimit \in Nat
    BY Zenon, StorageAssumption
  <2>6. Cardinality(smaller) < PageLimit
    BY <1>1, <2>3, <2>4, <2>5
  <2> QED BY Zenon, <2>6 DEF smaller
<1>3. Browse(s, dir) = {p \in children : Cardinality({q \in children : q < p}) < PageLimit}
  BY Zenon DEF Browse
<1> HIDE DEF children
<1>4. Browse(s, dir) = children
  BY <1>2, <1>3
<1> QED BY Zenon, <1>4 DEF children

(* One directory is walked: its files are packed and its directories wait    *)
(* in its place.                                                             *)
LEMMA WalkGoesOn ==
    ASSUME NEW d \in Downloads, Is(d, "archive"), Untouched(d, tree), NEW pieces, NEW dirs,
           Walking(d, pieces, dirs), NEW dir \in dirs, NEW page, page = Browse(From(d), dir),
           NEW more, more = UNION {Contents(From(d), p) : p \in {q \in page : tree[From(d)][q].type = "file"}},
           NEW rest, rest = (dirs \ {dir}) \cup {q \in page : tree[From(d)][q].type = "directory"}
    PROVE  Walking(d, pieces \cup more, rest)
<1> DEFINE s == From(d)
<1>0. s \in Stores /\ dir \in Paths /\ (dir = PathOf(d) \/ PathOf(d) \in Above[dir])
  BY Zenon, TargetIsOne DEF Walking
<1>1. \A p \in Paths : PathOf(d) \in Above[p] => tree[s][p] = InitialTree[s][p]
  BY Zenon DEF Untouched
<1>2. \A p \in page : p \in Paths /\ Parent[p] = dir
  BY Zenon DEF Browse
<1>3. ASSUME NEW p \in Paths, Parent[p] = dir PROVE dir \in Above[p] /\ PathOf(d) \in Above[p]
  <2>1. dir \in Above[p]
    BY Zenon, <1>0, <1>3, AboveIs
  <2>2. Above[dir] \subseteq Above[p]
    BY Zenon, <2>1, AboveIsAnOrder
  <2> QED BY Zenon, <1>0, <2>1, <2>2
<1>4. \A p \in Paths : tree[s][p].type = "file" => Contents(s, p) = tree[s][p].holds
  BY Zenon DEF Contents, Resolve
<1> HIDE DEF s
<1>5. pieces \cup more \subseteq AllPieces(d)
  <2>1. pieces \subseteq AllPieces(d)
    BY Zenon DEF Walking
  <2>2. ASSUME NEW p \in page, tree[s][p].type = "file" PROVE Contents(s, p) \subseteq AllPieces(d)
    <3>1. PathOf(d) \in Above[p] /\ tree[s][p] = InitialTree[s][p] /\ p \in Paths
      BY Zenon, <1>1, <1>2, <1>3
    <3>2. p \in Packing(d)
      BY Zenon, <2>2, <3>1 DEF Packing, s
    <3>3. Contents(s, p) = InitialTree[s][p].holds
      BY Zenon, <1>4, <2>2, <3>1
    <3> QED BY Zenon, <3>2, <3>3 DEF AllPieces, s
  <2>3. more \subseteq AllPieces(d)
    BY Zenon, <2>2 DEF s
  <2> QED BY Zenon, <2>1, <2>3
<1>6. \A q \in rest : q \in Paths /\ (q = PathOf(d) \/ PathOf(d) \in Above[q])
  BY Zenon, <1>2, <1>3 DEF Walking
<1>7. ASSUME OnePage, NEW p \in Packing(d)
      PROVE  InitialTree[s][p].holds \subseteq pieces \cup more \/ \E q \in rest : q \in Above[p]
  <2>1. p \in Paths /\ PathOf(d) \in Above[p] /\ InitialTree[s][p].type = "file"
    BY Zenon DEF Packing, s
  <2>2. InitialTree[s][p].holds \subseteq pieces \/ \E q \in dirs : q \in Above[p]
    BY Zenon, <1>7 DEF Walking, s
  <2>3. page = {c \in Paths : Parent[c] = dir /\ tree[s][c].type # "absent"}
    BY Zenon, <1>0, <1>7, PagesAreWhole DEF s
  <2>4. CASE Parent[p] = dir
    <3>1. tree[s][p] = InitialTree[s][p] /\ tree[s][p].type = "file" /\ "file" # "absent"
      BY Zenon, <1>1, <2>1
    <3>2. p \in page
      BY Zenon, <2>1, <2>3, <2>4, <3>1
    <3>3. InitialTree[s][p].holds = Contents(s, p)
      BY Zenon, <1>4, <2>1, <3>1
    <3>4. Contents(s, p) \subseteq more
      BY Zenon, <3>1, <3>2 DEF s
    <3> QED BY Zenon, <3>3, <3>4
  <2>5. CASE dir \in Above[p] /\ Parent[p] # dir
    <3>1. PICK c \in Above[p] : Parent[c] = dir
      BY Zenon, <2>1, <2>5, WayDown
    <3>2. c \in Paths
      BY Zenon, <2>1, AboveIs
    <3>3. InitialTree[s][c].type = "directory"
      <4>1. InitialTree[s][p].type # "absent"
        BY <2>1
      <4> QED BY Zenon, <1>0, <2>1, <4>1, WaysAreDirectories
    <3>4. tree[s][c].type = "directory" /\ tree[s][c].type # "absent"
      BY <1>1, <1>3, <3>1, <3>2, <3>3
    <3>5. c \in rest
      BY Zenon, <2>3, <3>1, <3>2, <3>4 DEF s
    <3> QED BY Zenon, <3>1, <3>5
  <2>6. CASE \E q \in dirs : q \in Above[p] /\ q # dir
    BY Zenon, <2>6
  <2>7. CASE InitialTree[s][p].holds \subseteq pieces
    BY Zenon, <2>7
  <2> QED BY Zenon, <2>2, <2>4, <2>5, <2>6, <2>7
<1> QED BY Zenon, <1>5, <1>6, <1>7 DEF Walking, s

(* Nothing is left to walk: everything is packed.                            *)
LEMMA WalkEnds ==
    ASSUME NEW d \in Downloads, NEW pieces, Walking(d, pieces, {})
    PROVE  Whole(d, pieces)
<1> SUFFICES ASSUME OnePage PROVE pieces = AllPieces(d)
  BY Zenon DEF Whole
<1>1. pieces \subseteq AllPieces(d)
  BY Zenon DEF Walking
<1>2. \A p \in Packing(d) : InitialTree[From(d)][p].holds \subseteq pieces
  BY Zenon DEF Walking
<1>3. AllPieces(d) \subseteq pieces
  BY Zenon, <1>2 DEF AllPieces
<1> QED BY <1>1, <1>3

(* A walk that begins                                                        *)
LEMMA WalkBegins ==
    ASSUME NEW d \in Downloads
    PROVE  Walking(d, {}, {PathOf(d)})
<1>1. PathOf(d) \in Paths
  BY Zenon, TargetIsOne
<1> QED BY Zenon, <1>1 DEF Walking, Packing

-----------------------------------------------------------------------------
\* Who has a temporary file open is at work on it, and two had a shared one open.
PartsKnown ==
    /\ \A t \in Spots : \A e \in part[t] : job[e] \in Open /\ Target(e) = t
    /\ \A t \in shared : \E e, f \in Downloads :
          e # f /\ job[e] # "idle" /\ job[f] # "idle" /\ Target(e) = t /\ Target(f) = t

Here(d) == InOrder(d, job[d], body[d], unwalked[d], download[d].status)
Good(d) == OnCourse(d, job[d], outcome[d], body[d], feed[d], unwalked[d], download[d].status, tree)

\* What a run is about to rename is what it read.
Full(d) == job[d] = "renaming" /\ ~CutOff(d) => temp[Target(d)] = body[d]

RowsAndWalks ==
    DOMAIN outcome = Downloads /\ DOMAIN download = Downloads /\ DOMAIN feed = Downloads /\ DOMAIN unwalked = Downloads

ArriveIInv ==
    /\ edits \in Nat /\ RowsAndWalks /\ PartsKnown
    /\ \A d \in Downloads : Here(d) /\ (Clear(d, job) => Full(d))
    /\ edits = 0 => \A d \in Downloads : Clear(d, job) => Good(d)

\* What a step leaves alone for a run
Kept(e) ==
    /\ job'[e] = job[e] /\ outcome'[e] = outcome[e] /\ body'[e] = body[e]
    /\ feed'[e] = feed[e] /\ unwalked'[e] = unwalked[e] /\ download'[e] = download[e]

\* A step of one run
Alone(d) ==
    /\ edits' = edits /\ RowsAndWalks' /\ job'[d] # "idle"
    /\ \A e \in Downloads \ {d} : Kept(e)
    /\ \A t \in Spots \ {Target(d)} : temp'[t] = temp[t]
    /\ Clear(d, job) => Full(d)'

(* A run that moves leaves the others where they are.                        *)
LEMMA RunMoves ==
    ASSUME ArriveIInv, NEW d \in Downloads, Alone(d), Touched(d, tree, tree'), PartsKnown',
           Here(d)', edits = 0 /\ Clear(d, job) => Good(d)'
    PROVE  ArriveIInv'
<1>1. \A e \in Downloads : Here(e)'
  <2>1. ASSUME NEW e \in Downloads \ {d} PROVE Here(e)'
    <3>1. Here(e) /\ Kept(e)
      BY Zenon DEF ArriveIInv, Alone
    <3> QED BY Zenon, <3>1 DEF Here, Kept
  <2> QED BY Zenon, <2>1
<1>2. ASSUME NEW e \in Downloads, Clear(e, job') PROVE Clear(e, job)
  <2>1. \A f \in Downloads \ {e} : job[f] # "idle" => job'[f] # "idle"
    BY Zenon DEF Alone, Kept
  <2> QED BY Zenon, <1>2, <2>1 DEF Clear
<1>3. ASSUME edits' = 0, NEW e \in Downloads, Clear(e, job') PROVE Good(e)'
  <2>1. Clear(e, job)
    BY Zenon, <1>2, <1>3
  <2>2. CASE e = d
    BY Zenon, <1>3, <2>1, <2>2 DEF Alone
  <2>3. CASE e # d
    <3>1. Good(e) /\ Kept(e) /\ job'[d] # "idle"
      BY Zenon, <1>3, <2>1, <2>3 DEF ArriveIInv, Alone
    <3>2. OnCourse(e, job[e], outcome[e], body[e], feed[e], unwalked[e], download[e].status, tree')
      BY Zenon, <1>3, <2>3, <3>1, OthersStayOnCourse DEF Good
    <3> QED BY Zenon, <3>1, <3>2 DEF Good, Kept
  <2> QED BY Zenon, <2>2, <2>3
<1>4. ASSUME NEW e \in Downloads, Clear(e, job') PROVE Full(e)'
  <2>1. Clear(e, job)
    BY Zenon, <1>2, <1>4
  <2>2. CASE e = d
    BY Zenon, <2>1, <2>2 DEF Alone
  <2>3. CASE e # d
    <3>1. Full(e) /\ Kept(e) /\ job'[d] # "idle"
      BY Zenon, <2>1, <2>3 DEF ArriveIInv, Alone
    <3>2. Target(e) # Target(d) /\ Target(e) \in Spots
      BY Zenon, <1>4, <2>3, <3>1, TargetIsOne DEF Clear
    <3>3. temp'[Target(e)] = temp[Target(e)]
      BY Zenon, <3>2 DEF Alone
    <3>4. Target(e)' = Target(e) /\ (CutOff(e)' <=> CutOff(e))
      BY Zenon, <3>1 DEF Target, Is, From, PathOf, CutOff, Kept
    <3>5. job'[e] = "renaming" /\ ~CutOff(e)' => temp'[Target(e)] = body'[e]
      BY Zenon, <3>1, <3>3, <3>4 DEF Full, Kept
    <3> QED BY Zenon, <3>4, <3>5 DEF Full
  <2> QED BY Zenon, <2>2, <2>3
<1>5. \A e \in Downloads : (Clear(e, job) => Full(e))'
  BY Zenon, <1>4 DEF Clear, Target, Is, From, PathOf
<1>6. edits' = 0 => \A e \in Downloads : (Clear(e, job) => Good(e))'
  BY Zenon, <1>3 DEF Clear, Target, Is, From, PathOf
<1> QED BY Zenon, <1>1, <1>5, <1>6 DEF ArriveIInv, Alone

(* Runs that open and close nothing leave the temporary files alone.         *)
LEMMA PartsStay ==
    ASSUME PartsKnown, UNCHANGED <<part, shared>>, NEW d \in Downloads, job'[d] # "idle",
           job[d] \in Open => job'[d] \in Open, \A e \in Downloads \ {d} : job'[e] = job[e],
           part \in [Spots -> SUBSET Downloads]
    PROVE  PartsKnown'
<1>1. ASSUME NEW t \in Spots, NEW e \in part'[t] PROVE job'[e] \in Open /\ Target(e) = t
  <2>1. e \in part[t] /\ e \in Downloads
    BY Zenon
  <2>2. job[e] \in Open /\ Target(e) = t
    BY Zenon, <2>1 DEF PartsKnown
  <2> QED BY Zenon, <2>1, <2>2
<1>2. ASSUME NEW t \in shared'
      PROVE  \E e, f \in Downloads : e # f /\ job'[e] # "idle" /\ job'[f] # "idle" /\ Target(e) = t /\ Target(f) = t
  <2>1. PICK e \in Downloads, f \in Downloads : e # f /\ job[e] # "idle" /\ job[f] # "idle" /\ Target(e) = t /\ Target(f) = t
    BY Zenon DEF PartsKnown
  <2>2. job'[e] # "idle" /\ job'[f] # "idle"
    BY Zenon, <2>1
  <2> QED BY Zenon, <2>1, <2>2
<1>3. Spots' = Spots
  BY Zenon
<1> QED BY Zenon, <1>1, <1>2, <1>3 DEF PartsKnown

(* A row that is saved, or not (SaveDownload).                               *)
LEMMA RowIsSaved ==
    ASSUME RowsAndWalks, NEW d \in Downloads
    PROVE  /\ \A status, path : SaveDownload(d, status, path) =>
                 /\ DOMAIN download' = Downloads /\ download'[d].status = status
                 /\ \A e \in Downloads \ {d} : download'[e] = download[e]
           /\ UNCHANGED download => DOMAIN download' = Downloads /\ \A e \in Downloads : download'[e] = download[e]
<1>1. ASSUME NEW status, NEW path, SaveDownload(d, status, path)
      PROVE  /\ DOMAIN download' = Downloads /\ download'[d].status = status
             /\ \A e \in Downloads \ {d} : download'[e] = download[e]
  <2>1. PICK other : download' = [download EXCEPT ![d] = [status |-> status, path |-> other]]
    BY Zenon, <1>1 DEF SaveDownload
  <2>2. download'[d] = [status |-> status, path |-> other]
    BY Zenon, <2>1 DEF RowsAndWalks
  <2>3. download'[d].status = status
    BY <2>2
  <2> QED BY Zenon, <2>1, <2>3 DEF RowsAndWalks
<1> QED BY Zenon, <1>1 DEF RowsAndWalks

(* Where a run goes (Go)                                                     *)
LEMMA RunGoes ==
    ASSUME StorageIInv, NEW d \in Downloads, NEW state, Go(d, state)
    PROVE  job'[d] = state /\ \A e \in Downloads \ {d} : job'[e] = job[e]
BY Zenon DEF StorageIInv, Go

(* Where nothing is written                                                  *)
LEMMA NothingTouched ==
    ASSUME NEW d \in Downloads, UNCHANGED tree
    PROVE  Touched(d, tree, tree')
BY Zenon DEF Touched

(* A step of a run that touches no file, row aside: it is where the step     *)
(* puts it, and what nobody disturbed is on course.                          *)
LEMMA QuietMove ==
    ASSUME StorageIInv, ArriveIInv, NEW d \in Downloads, NEW state, Go(d, state), state # "idle",
           job[d] \notin Open, state # "renaming", UNCHANGED <<edits, tree, part, temp, shared>>,
           RowsAndWalks', \A e \in Downloads \ {d} : Kept(e),
           Here(d)', edits = 0 /\ Clear(d, job) => Good(d)'
    PROVE  ArriveIInv'
<1>1. job'[d] = state /\ \A e \in Downloads \ {d} : job'[e] = job[e]
  BY Zenon, RunGoes
<1>2. PartsKnown'
  BY Zenon, <1>1, PartsStay DEF ArriveIInv, StorageIInv
<1>3. Alone(d)
  BY Zenon, <1>1 DEF Alone, Full
<1>4. Touched(d, tree, tree')
  BY Zenon, NothingTouched
<1> QED BY Zenon, <1>2, <1>3, <1>4, RunMoves

(* Requests: nothing was read, and nothing is reported but downloads.        *)
LEMMA RequestSteps ==
    ASSUME StorageIInv, ArriveIInv, NEW d \in Downloads, StartDownload(d) \/ QueueCopy(d) \/ QueueArchive(d)
    PROVE  ArriveIInv'
<1>1. /\ job[d] = "idle" /\ UNCHANGED <<edits, tree, part, temp, shared, outcome, body, feed, unwalked>>
      /\ \/ Is(d, "download") /\ Go(d, "over") /\ SaveDownload(d, "ready", PathOf(d))
         \/ Go(d, "queued") /\ SaveDownload(d, "queued", PathOf(d))
  BY Zenon DEF StartDownload, QueueCopy, QueueArchive, New, places, archiver
<1>2. RowsAndWalks /\ Here(d) /\ (edits = 0 /\ Clear(d, job) => Good(d))
  BY Zenon DEF ArriveIInv
<1>3. PICK state \in {"over", "queued"}, status \in {"ready", "queued"} :
         /\ Go(d, state) /\ SaveDownload(d, status, PathOf(d))
         /\ (Is(d, "download") /\ state = "over") \/ (state = "queued" /\ status = "queued")
  BY Zenon, <1>1
<1>4. /\ job'[d] = state /\ \A e \in Downloads \ {d} : job'[e] = job[e]
      /\ DOMAIN download' = Downloads /\ download'[d].status = status
      /\ \A e \in Downloads \ {d} : download'[e] = download[e]
  BY Zenon, <1>2, <1>3, RunGoes, RowIsSaved
<1>5. RowsAndWalks' /\ \A e \in Downloads \ {d} : Kept(e)
  BY Zenon, <1>1, <1>2, <1>4 DEF RowsAndWalks, Kept
<1>6. ~Reported(d, status) /\ state \notin {"opening", "awaiting", "saving", "idle"}
  BY <1>3 DEF Reported, Is
<1>7. Here(d)'
  <2>1. InOrder(d, job[d], body[d], unwalked[d], download[d].status)
    BY Zenon, <1>2 DEF Here
  <2>2. InOrder(d, state, body[d], unwalked[d], status)
    BY Zenon, <1>1, <1>6, <2>1 DEF InOrder
  <2> QED BY Zenon, <1>1, <1>4, <2>2 DEF Here
<1>8. ASSUME edits = 0, Clear(d, job) PROVE Good(d)'
  <2>1. OnCourse(d, job[d], outcome[d], body[d], feed[d], unwalked[d], download[d].status, tree)
    BY Zenon, <1>2, <1>8 DEF Good
  <2>2. OnCourse(d, state, outcome[d], body[d], feed[d], unwalked[d], status, tree)
    BY Zenon, <1>6, <2>1 DEF OnCourse
  <2> QED BY Zenon, <1>1, <1>4, <2>2 DEF Good
<1>9. job[d] \notin Open /\ state # "idle" /\ state # "renaming"
  BY <1>1, <1>3 DEF Open
<1> QED BY Zenon, <1>1, <1>3, <1>5, <1>7, <1>8, <1>9, QuietMove

(* A run that is not over has not been reported.                             *)
LEMMA NotReported ==
    ASSUME ArriveIInv, NEW d \in Downloads, job[d] # "over"
    PROVE  ~Reported(d, download[d].status)
BY Zenon DEF ArriveIInv, Here, InOrder

(* A row that is saved with a state that is not final, or not saved          *)
LEMMA RowIsOpen ==
    ASSUME ArriveIInv, NEW d \in Downloads, job[d] # "over", NEW status, ~Reported(d, status), NEW path,
           SaveDownload(d, status, path) \/ UNCHANGED download
    PROVE  /\ DOMAIN download' = Downloads /\ ~Reported(d, download'[d].status)
           /\ \A e \in Downloads \ {d} : download'[e] = download[e]
<1>1. RowsAndWalks /\ ~Reported(d, download[d].status)
  BY Zenon, NotReported DEF ArriveIInv
<1>2. CASE SaveDownload(d, status, path)
  BY Zenon, <1>1, <1>2, RowIsSaved
<1>3. CASE UNCHANGED download
  BY Zenon, <1>1, <1>3 DEF RowsAndWalks
<1> QED BY Zenon, <1>2, <1>3

(* The lookups after the row was written (Launch)                            *)
LEMMA LaunchStep ==
    ASSUME StorageIInv, ArriveIInv, NEW d \in Downloads, Launch(d)
    PROVE  ArriveIInv'
<1>1. /\ job[d] = "queued" /\ UNCHANGED <<edits, tree, part, temp, shared, outcome, body, feed, unwalked>>
      /\ SaveDownload(d, "failed", PathOf(d)) \/ UNCHANGED download
      /\ \E state \in {"refused", "starting"} : Go(d, state)
  BY Zenon DEF Launch, On, SaveFails, places, archiver
<1>2. PICK state \in {"refused", "starting"} : Go(d, state)
  BY Zenon, <1>1
<1>3. /\ ~Reported(d, "failed") /\ job[d] # "over" /\ job[d] \notin Open
      /\ state \notin {"opening", "awaiting", "saving", "idle", "renaming"}
  BY <1>1 DEF Reported, Open
<1>4. /\ job'[d] = state /\ \A e \in Downloads \ {d} : job'[e] = job[e]
      /\ DOMAIN download' = Downloads /\ ~Reported(d, download'[d].status)
      /\ \A e \in Downloads \ {d} : download'[e] = download[e]
  BY Zenon, <1>1, <1>2, <1>3, RunGoes, RowIsOpen
<1>5. RowsAndWalks' /\ \A e \in Downloads \ {d} : Kept(e)
  BY Zenon, <1>1, <1>4 DEF ArriveIInv, RowsAndWalks, Kept
<1>6. Here(d)'
  <2>1. InOrder(d, job[d], body[d], unwalked[d], download[d].status)
    BY Zenon DEF ArriveIInv, Here
  <2>2. InOrder(d, state, body[d], unwalked[d], download'[d].status)
    BY Zenon, <1>1, <1>3, <1>4, <2>1 DEF InOrder
  <2> QED BY Zenon, <1>1, <1>4, <2>2 DEF Here
<1>7. ASSUME edits = 0, Clear(d, job) PROVE Good(d)'
  <2>1. OnCourse(d, job[d], outcome[d], body[d], feed[d], unwalked[d], download[d].status, tree)
    BY Zenon, <1>7 DEF ArriveIInv, Good
  <2>2. OnCourse(d, state, outcome[d], body[d], feed[d], unwalked[d], download'[d].status, tree)
    BY Zenon, <1>3, <1>4, <2>1 DEF OnCourse
  <2> QED BY Zenon, <1>1, <1>4, <2>2 DEF Good
<1> QED BY Zenon, <1>1, <1>2, <1>3, <1>5, <1>6, <1>7, QuietMove

(* The goroutine starts: an archive has all of its directory to walk.        *)
LEMMA BeginStep ==
    ASSUME StorageIInv, ArriveIInv, NEW d \in Downloads, BeginDownload(d)
    PROVE  ArriveIInv'
<1>1. /\ job[d] = "starting" /\ UNCHANGED <<edits, tree, part, temp, shared, outcome, body>>
      /\ SaveDownload(d, "streaming", PathOf(d)) \/ UNCHANGED download
      /\ \/ Go(d, "opening") /\ Is(d, "copy") /\ UNCHANGED <<feed, unwalked>>
         \/ /\ Go(d, "writing") /\ ~Is(d, "copy")
            /\ feed' = [feed EXCEPT ![d] = "walking"] /\ unwalked' = [unwalked EXCEPT ![d] = {PathOf(d)}]
         \/ Go(d, "unsaved") /\ UNCHANGED <<feed, unwalked>>
  BY Zenon DEF BeginDownload, On, SaveFails, places, archiver
<1>2. /\ RowsAndWalks /\ ~Reported(d, "streaming") /\ job[d] # "over" /\ job[d] \notin Open
      /\ InOrder(d, job[d], body[d], unwalked[d], download[d].status) /\ body[d] = {}
  <2>1. ~Reported(d, "streaming") /\ job[d] # "over" /\ job[d] \notin Open
    BY <1>1 DEF Reported, Open
  <2> QED BY Zenon, <1>1, <2>1 DEF ArriveIInv, Here, InOrder
<1>3. /\ DOMAIN download' = Downloads /\ ~Reported(d, download'[d].status)
      /\ \A e \in Downloads \ {d} : download'[e] = download[e]
  BY Zenon, <1>1, <1>2, RowIsOpen
<1>4. ASSUME NEW state \in {"opening", "writing", "unsaved"}, Go(d, state), state = "opening" => Is(d, "copy"),
             DOMAIN feed' = Downloads, DOMAIN unwalked' = Downloads,
             \A e \in Downloads \ {d} : feed'[e] = feed[e] /\ unwalked'[e] = unwalked[e],
             \/ feed'[d] = feed[d] /\ unwalked'[d] = unwalked[d]
             \/ ~Is(d, "copy") /\ feed'[d] = "walking" /\ unwalked'[d] = {PathOf(d)}
      PROVE  ArriveIInv'
  <2>1. job'[d] = state /\ \A e \in Downloads \ {d} : job'[e] = job[e]
    BY Zenon, <1>4, RunGoes
  <2>2. RowsAndWalks' /\ \A e \in Downloads \ {d} : Kept(e)
    BY Zenon, <1>1, <1>2, <1>3, <1>4, <2>1 DEF RowsAndWalks, Kept
  <2>3. state \notin {"idle", "queued", "starting", "awaiting", "saving", "renaming"}
    OBVIOUS
  <2>4. Here(d)'
    <3>1. InOrder(d, state, body[d], unwalked'[d], download'[d].status)
      BY Zenon, <1>2, <1>3, <1>4, <2>3 DEF InOrder
    <3> QED BY Zenon, <1>1, <2>1, <3>1 DEF Here
  <2>5. ASSUME edits = 0, Clear(d, job) PROVE Good(d)'
    <3>1. OnCourse(d, job[d], outcome[d], body[d], feed[d], unwalked[d], download[d].status, tree)
      BY Zenon, <2>5 DEF ArriveIInv, Good
    <3>2. feed'[d] = "walking" => Walking(d, body[d], unwalked'[d]) \/ ~Is(d, "archive")
      BY Zenon, <1>2, <1>4, <3>1, WalkBegins DEF OnCourse
    <3>3. feed'[d] = "done" => Whole(d, body[d]) \/ ~Is(d, "archive")
      <4>1. "walking" # "done"
        OBVIOUS
      <4> QED BY Zenon, <1>4, <3>1, <4>1 DEF OnCourse
    <3>4. OnCourse(d, state, outcome[d], body[d], feed'[d], unwalked'[d], download'[d].status, tree)
      BY Zenon, <1>3, <2>3, <3>1, <3>2, <3>3 DEF OnCourse
    <3> QED BY Zenon, <1>1, <2>1, <3>4 DEF Good
  <2> QED BY Zenon, <1>1, <1>2, <1>4, <2>2, <2>3, <2>4, <2>5, QuietMove
<1>5. CASE Go(d, "opening") /\ Is(d, "copy") /\ UNCHANGED <<feed, unwalked>>
  BY Zenon, <1>2, <1>4, <1>5 DEF RowsAndWalks
<1>6. CASE /\ Go(d, "writing") /\ ~Is(d, "copy")
           /\ feed' = [feed EXCEPT ![d] = "walking"] /\ unwalked' = [unwalked EXCEPT ![d] = {PathOf(d)}]
  <2>1. /\ DOMAIN feed' = Downloads /\ DOMAIN unwalked' = Downloads
        /\ \A e \in Downloads \ {d} : feed'[e] = feed[e] /\ unwalked'[e] = unwalked[e]
        /\ feed'[d] = "walking" /\ unwalked'[d] = {PathOf(d)} /\ "writing" # "opening"
    BY Zenon, <1>2, <1>6 DEF RowsAndWalks
  <2> QED BY Zenon, <1>4, <1>6, <2>1
<1>7. CASE Go(d, "unsaved") /\ UNCHANGED <<feed, unwalked>>
  <2>1. "unsaved" # "opening"
    OBVIOUS
  <2> QED BY Zenon, <1>2, <1>4, <1>7, <2>1 DEF RowsAndWalks
<1> QED BY Zenon, <1>1, <1>5, <1>6, <1>7

(* The source of a copy is opened.                                           *)
LEMMA OpenStep ==
    ASSUME StorageIInv, ArriveIInv, NEW d \in Downloads, OpenBody(d)
    PROVE  ArriveIInv'
<1>1. /\ job[d] = "opening" /\ UNCHANGED <<edits, tree, part, temp, shared, download, feed, unwalked>>
      /\ \/ /\ Go(d, "writing") /\ UNCHANGED outcome
            /\ body' = [body EXCEPT ![d] = Contents(From(d), PathOf(d))]
         \/ Go(d, "saving") /\ UNCHANGED body /\ outcome' = [outcome EXCEPT ![d] = "error"]
  BY Zenon DEF OpenBody, On, places, archiver
<1>2. /\ RowsAndWalks /\ job[d] # "over" /\ job[d] \notin Open
      /\ Is(d, "copy") /\ unwalked[d] = {} /\ ~Is(d, "archive")
  <2>1. Is(d, "copy") /\ unwalked[d] = {} /\ RowsAndWalks
    BY Zenon, <1>1 DEF ArriveIInv, Here, InOrder
  <2>2. job[d] # "over" /\ job[d] \notin Open /\ ~Is(d, "archive")
    BY <1>1, <2>1 DEF Is, Open
  <2> QED BY Zenon, <2>1, <2>2
<1>3. PICK state \in {"writing", "saving"} : Go(d, state) /\ (state = "saving" => outcome' = [outcome EXCEPT ![d] = "error"])
  <2>1. "writing" # "saving"
    OBVIOUS
  <2> QED BY Zenon, <1>1, <2>1
<1>4. /\ job'[d] = state /\ \A e \in Downloads \ {d} : job'[e] = job[e]
      /\ DOMAIN outcome' = Downloads /\ \A e \in Downloads \ {d} : outcome'[e] = outcome[e]
      /\ \A e \in Downloads \ {d} : body'[e] = body[e]
      /\ state = "saving" => outcome'[d] = "error"
  <2>1. job'[d] = state /\ \A e \in Downloads \ {d} : job'[e] = job[e]
    BY Zenon, <1>3, RunGoes
  <2>2. DOMAIN outcome' = Downloads /\ \A e \in Downloads \ {d} : outcome'[e] = outcome[e]
    BY Zenon, <1>1, <1>2 DEF RowsAndWalks
  <2>3. \A e \in Downloads \ {d} : body'[e] = body[e]
    BY Zenon, <1>1 DEF StorageIInv
  <2>4. state = "saving" => outcome'[d] = "error"
    BY Zenon, <1>2, <1>3 DEF RowsAndWalks
  <2> QED BY Zenon, <2>1, <2>2, <2>3, <2>4
<1>5. RowsAndWalks' /\ \A e \in Downloads \ {d} : Kept(e)
  BY Zenon, <1>1, <1>2, <1>4 DEF RowsAndWalks, Kept
<1>6. /\ state \notin {"idle", "queued", "starting", "opening", "awaiting", "renaming"} /\ "error" # "ok"
      /\ ~Reported(d, download[d].status)
  <2>1. ~Reported(d, download[d].status)
    BY Zenon, <1>2, NotReported
  <2> QED BY <2>1
<1>7. Here(d)'
  <2>1. InOrder(d, state, body'[d], unwalked[d], download[d].status)
    BY Zenon, <1>2, <1>6 DEF InOrder
  <2> QED BY Zenon, <1>1, <1>4, <2>1 DEF Here
<1>8. Good(d)'
  <2>1. OnCourse(d, state, outcome'[d], body'[d], feed[d], unwalked[d], download[d].status, tree)
    BY Zenon, <1>2, <1>4, <1>6 DEF OnCourse
  <2> QED BY Zenon, <1>1, <1>4, <2>1 DEF Good
<1> QED BY Zenon, <1>1, <1>2, <1>3, <1>5, <1>6, <1>7, <1>8, QuietMove

(* What is written beside a directory is not in it.                          *)
LEMMA OwnWritesAreBeside ==
    ASSUME NEW d \in Downloads, Is(d, "archive"), NEW before, NEW after, Touched(d, before, after), Untouched(d, before)
    PROVE  Untouched(d, after)
BY Zenon, ArchivesAreBeside, UntouchedStays

(* One entry is put where the run writes, or none.                           *)
LEMMA PutTouches ==
    ASSUME StorageIInv, NEW d \in Downloads, NEW entry, tree' = tree \/ tree' = Put(Target(d), entry)
    PROVE  /\ Touched(d, tree, tree')
           /\ tree' = Put(Target(d), entry) => tree'[Target(d)[1]][Target(d)[2]] = entry
<1>1. Target(d) \in Spots /\ Target(d)[1] \in Stores /\ Target(d)[2] \in Paths /\ TreeShape(tree)
  BY Zenon, TargetIsOne DEF StorageIInv
<1>2. CASE tree' = Put(Target(d), entry)
  <2>1. \A s \in Stores, p \in Paths :
           tree'[s][p] = IF s = Target(d)[1] /\ p = Target(d)[2] THEN entry ELSE tree[s][p]
    BY <1>1, <1>2, PutIs
  <2>2. Touched(d, tree, tree')
    BY Zenon, <2>1 DEF Touched
  <2> QED BY Zenon, <1>1, <2>1, <2>2
<1>3. CASE tree' = tree /\ tree' # Put(Target(d), entry)
  BY Zenon, <1>3 DEF Touched
<1> QED BY Zenon, <1>2, <1>3

(* Nobody shared the temporary file of a run that nobody disturbs.           *)
LEMMA NotShared ==
    ASSUME PartsKnown, NEW d \in Downloads, Clear(d, job)
    PROVE  Target(d) \notin shared
<1> SUFFICES ASSUME Target(d) \in shared PROVE FALSE
  BY Zenon
<1>1. PICK e \in Downloads, f \in Downloads :
         e # f /\ job[e] # "idle" /\ job[f] # "idle" /\ Target(e) = Target(d) /\ Target(f) = Target(d)
  BY Zenon DEF PartsKnown
<1> QED BY Zenon, <1>1 DEF Clear

(* The run is through with its write (Driver.Write returns).                 *)
LEMMA WriteEnds ==
    ASSUME StorageIInv, ArriveIInv, NEW d \in Downloads, job[d] \in Open \cup {"writing"}, Go(d, Written(d)),
           UNCHANGED <<edits, download, body, feed, unwalked>>, \A t \in Spots \ {Target(d)} : temp'[t] = temp[t],
           UNCHANGED outcome \/ outcome' = [outcome EXCEPT ![d] = "error"],
           Touched(d, tree, tree'), PartsKnown',
           outcome'[d] = "ok" /\ edits = 0 /\ Clear(d, job) /\ ~CutOff(d) => There(d, tree', body[d])
    PROVE  ArriveIInv'
<1>1. job'[d] = Written(d) /\ \A e \in Downloads \ {d} : job'[e] = job[e]
  BY Zenon, RunGoes
<1>2. /\ RowsAndWalks /\ ~Reported(d, download[d].status)
      /\ InOrder(d, job[d], body[d], unwalked[d], download[d].status)
  <2>1. job[d] # "over"
    BY DEF Open
  <2> QED BY Zenon, <2>1, NotReported DEF ArriveIInv, Here
<1>3. DOMAIN outcome' = Downloads /\ \A e \in Downloads \ {d} : outcome'[e] = outcome[e]
  BY Zenon, <1>2 DEF RowsAndWalks
<1>5. /\ Written(d) \notin {"idle", "queued", "starting", "opening", "renaming"}
      /\ Is(d, "archive") => Written(d) # "saving"
  BY DEF Written
<1>6. RowsAndWalks' /\ \A e \in Downloads \ {d} : Kept(e)
  BY Zenon, <1>1, <1>2, <1>3 DEF RowsAndWalks, Kept
<1>7. Alone(d)
  BY Zenon, <1>1, <1>5, <1>6 DEF Alone, Full
<1>8. Here(d)'
  <2>1. InOrder(d, Written(d), body[d], unwalked[d], download[d].status)
    BY Zenon, <1>2, <1>5 DEF InOrder
  <2> QED BY Zenon, <1>1, <2>1 DEF Here
<1>9. ASSUME edits = 0, Clear(d, job) PROVE Good(d)'
  <2>1. OnCourse(d, job[d], outcome[d], body[d], feed[d], unwalked[d], download[d].status, tree)
    BY Zenon, <1>9 DEF ArriveIInv, Good
  <2>2. Is(d, "archive") => Untouched(d, tree')
    BY Zenon, <2>1, OwnWritesAreBeside DEF OnCourse
  <2>3. outcome'[d] = "ok" /\ ~Cut(d, feed[d]) => There(d, tree', body[d])
    BY Zenon, <1>9 DEF Cut, CutOff
  <2>4. OnCourse(d, Written(d), outcome'[d], body[d], feed[d], unwalked[d], download[d].status, tree')
    BY Zenon, <1>2, <1>5, <2>1, <2>2, <2>3 DEF OnCourse
  <2> QED BY Zenon, <1>1, <2>4 DEF Good
<1> QED BY Zenon, <1>7, <1>8, <1>9, RunMoves

(* A run that had its temporary file open, or had not made it, leaves.       *)
LEMMA PartIsLeft ==
    ASSUME StorageIInv, PartsKnown, NEW d \in Downloads, Go(d, Written(d)), UNCHANGED shared,
           \/ UNCHANGED part /\ job[d] \notin Open
           \/ part' = [part EXCEPT ![Target(d)] = {}]
           \/ part' = [part EXCEPT ![Target(d)] = @ \ {d}]
    PROVE  PartsKnown'
<1>1. job'[d] = Written(d) /\ Written(d) # "idle" /\ \A e \in Downloads \ {d} : job'[e] = job[e]
  <2>1. Written(d) # "idle"
    BY DEF Written
  <2> QED BY Zenon, <2>1, RunGoes
<1>2. part \in [Spots -> SUBSET Downloads] /\ Target(d) \in Spots
  BY Zenon, TargetIsOne DEF StorageIInv
<1>3. ASSUME NEW t \in Spots, NEW e \in part'[t] PROVE e \in part[t] /\ e # d /\ e \in Downloads
  <2>1. CASE UNCHANGED part /\ job[d] \notin Open
    BY Zenon, <1>2, <1>3, <2>1 DEF PartsKnown
  <2>2. CASE t # Target(d) /\ (part' = [part EXCEPT ![Target(d)] = {}] \/ part' = [part EXCEPT ![Target(d)] = @ \ {d}])
    <3>1. part'[t] = part[t]
      BY Zenon, <1>2, <2>2
    <3> QED BY Zenon, <1>2, <1>3, <2>2, <3>1 DEF PartsKnown
  <2>3. CASE t = Target(d) /\ (part' = [part EXCEPT ![Target(d)] = {}] \/ part' = [part EXCEPT ![Target(d)] = @ \ {d}])
    <3>1. part'[t] = {} \/ part'[t] = part[t] \ {d}
      BY Zenon, <1>2, <2>3
    <3> QED BY Zenon, <1>2, <1>3, <3>1
  <2> QED BY Zenon, <2>1, <2>2, <2>3
<1>4. ASSUME NEW t \in Spots, NEW e \in part'[t] PROVE job'[e] \in Open /\ Target(e) = t
  BY Zenon, <1>1, <1>3 DEF PartsKnown
<1>5. ASSUME NEW t \in shared'
      PROVE  \E e, f \in Downloads : e # f /\ job'[e] # "idle" /\ job'[f] # "idle" /\ Target(e) = t /\ Target(f) = t
  <2>1. PICK e \in Downloads, f \in Downloads : e # f /\ job[e] # "idle" /\ job[f] # "idle" /\ Target(e) = t /\ Target(f) = t
    BY Zenon DEF PartsKnown
  <2>2. job'[e] # "idle" /\ job'[f] # "idle"
    BY Zenon, <1>1, <2>1
  <2> QED BY Zenon, <2>1, <2>2
<1> QED BY Zenon, <1>4, <1>5 DEF PartsKnown

(* Write of the file system's driver: the source is at its end               *)
LEMMA FillArrives ==
    ASSUME StorageIInv, ArriveIInv, NEW d \in Downloads, FillPart(d)
    PROVE  ArriveIInv'
<1> DEFINE t == Target(d)
<1>1. job[d] = "copying" /\ Go(d, "renaming") /\ UNCHANGED <<edits, download, outcome, body, feed, unwalked, part, shared>>
  BY Zenon DEF FillPart, On, archiver
<1>2. PICK pieces \in {Delivered(d)} \cup (IF t \in shared THEN {{Torn(t)}} ELSE {}) :
         \/ d \in part[t] /\ temp' = [temp EXCEPT ![t] = pieces] /\ UNCHANGED tree
         \/ d \notin part[t] /\ UNCHANGED temp /\ (tree' = tree \/ tree' = Put(t, File(pieces)))
  BY Zenon DEF FillPart
<1>3. job'[d] = "renaming" /\ \A e \in Downloads \ {d} : job'[e] = job[e]
  BY Zenon, <1>1, RunGoes
<1>4. /\ "renaming" \notin {"idle", "queued", "starting", "opening", "awaiting", "saving"}
      /\ job[d] # "over" /\ job[d] \in Open /\ "renaming" \in Open
  BY <1>1 DEF Open
<1>5. /\ RowsAndWalks' /\ (\A e \in Downloads \ {d} : Kept(e)) /\ ~Reported(d, download[d].status)
  BY Zenon, <1>1, <1>3, <1>4, NotReported DEF ArriveIInv, RowsAndWalks, Kept
<1>6. t \in Spots /\ DOMAIN temp = Spots /\ part \in [Spots -> SUBSET Downloads]
  BY Zenon, TargetIsOne DEF StorageIInv
<1>7. \A u \in Spots \ {t} : temp'[u] = temp[u]
  BY Zenon, <1>2, <1>6
<1>8. ASSUME Clear(d, job) PROVE Full(d)'
  <2>1. t \notin shared /\ d \in part[t]
    <3>1. t \notin shared
      BY Zenon, <1>8, NotShared DEF ArriveIInv
    <3> QED BY Zenon, <1>4, <3>1 DEF StorageIInv
  <2>2. temp'[t] = Delivered(d)
    BY Zenon, <1>2, <1>6, <2>1
  <2>3. ~CutOff(d) => temp'[t] = body[d]
    BY Zenon, <2>2 DEF Delivered
  <2>4. Target(d)' = Target(d) /\ (CutOff(d)' <=> CutOff(d))
    BY Zenon, <1>1 DEF Target, Is, From, PathOf, CutOff
  <2> QED BY Zenon, <1>1, <2>3, <2>4 DEF Full
<1>9. Alone(d)
  BY Zenon, <1>1, <1>3, <1>4, <1>5, <1>7, <1>8 DEF Alone
<1>10. Touched(d, tree, tree')
  BY Zenon, <1>2, PutTouches
<1>11. PartsKnown'
  BY Zenon, <1>1, <1>3, <1>4, <1>6, PartsStay DEF ArriveIInv
<1>12. Here(d)'
  <2>1. InOrder(d, job[d], body[d], unwalked[d], download[d].status)
    BY Zenon DEF ArriveIInv, Here
  <2>2. InOrder(d, "renaming", body[d], unwalked[d], download[d].status)
    BY Zenon, <1>4, <1>5, <2>1 DEF InOrder
  <2> QED BY Zenon, <1>1, <1>3, <2>2 DEF Here
<1>13. ASSUME edits = 0, Clear(d, job) PROVE Good(d)'
  <2>1. OnCourse(d, job[d], outcome[d], body[d], feed[d], unwalked[d], download[d].status, tree)
    BY Zenon, <1>13 DEF ArriveIInv, Good
  <2>2. Is(d, "archive") => Untouched(d, tree')
    BY Zenon, <1>10, <2>1, OwnWritesAreBeside DEF OnCourse
  <2>3. OnCourse(d, "renaming", outcome[d], body[d], feed[d], unwalked[d], download[d].status, tree')
    BY Zenon, <1>4, <1>5, <2>1, <2>2 DEF OnCourse
  <2> QED BY Zenon, <1>1, <1>3, <2>3 DEF Good
<1> QED BY Zenon, <1>9, <1>10, <1>11, <1>12, <1>13, RunMoves

(* Write of the file system's driver: the rename                             *)
LEMMA RenameArrives ==
    ASSUME StorageIInv, ArriveIInv, NEW d \in Downloads, RenamePart(d)
    PROVE  ArriveIInv'
<1> DEFINE t == Target(d)
<1>1. /\ job[d] = "renaming" /\ Go(d, Written(d)) /\ UNCHANGED <<edits, download, body, feed, unwalked, shared>>
      /\ \/ tree' = Put(t, File(temp[t])) /\ UNCHANGED outcome
         \/ tree' = tree /\ outcome' = [outcome EXCEPT ![d] = "error"]
      /\ part' = [part EXCEPT ![t] = {}] \/ part' = [part EXCEPT ![t] = @ \ {d}]
      /\ temp' = [temp EXCEPT ![t] = IF part'[t] = {} THEN {} ELSE @]
  BY Zenon DEF RenamePart, On, archiver
<1>2. PartsKnown'
  BY Zenon, <1>1, PartIsLeft DEF ArriveIInv
<1>3. Touched(d, tree, tree')
  BY Zenon, <1>1, PutTouches
<1>4. ASSUME outcome'[d] = "ok", Clear(d, job), ~CutOff(d) PROVE There(d, tree', body[d])
  <2>1. outcome' # [outcome EXCEPT ![d] = "error"]
    <3>1. DOMAIN outcome = Downloads /\ "ok" # "error"
      BY Zenon DEF ArriveIInv, RowsAndWalks
    <3> QED BY Zenon, <1>4, <3>1
  <2>2. temp[t] = body[d]
    BY Zenon, <1>1, <1>4 DEF ArriveIInv, Full
  <2>3. tree' = Put(Target(d), File(body[d]))
    BY Zenon, <1>1, <2>1, <2>2
  <2>4. tree'[Target(d)[1]][Target(d)[2]] = File(body[d])
    BY Zenon, <2>3, PutTouches
  <2> QED BY Zenon, <2>4 DEF There
<1>5. job[d] \in Open \cup {"writing"}
  BY <1>1 DEF Open
<1>6. \A u \in Spots \ {t} : temp'[u] = temp[u]
  BY Zenon, <1>1, TargetIsOne DEF StorageIInv
<1>7. UNCHANGED outcome \/ outcome' = [outcome EXCEPT ![d] = "error"]
  BY Zenon, <1>1
<1> QED BY Zenon, <1>1, <1>2, <1>3, <1>4, <1>5, <1>6, <1>7, WriteEnds

(* Write of the file system's driver, up to the temporary file               *)
LEMMA MakePartArrives ==
    ASSUME StorageIInv, ArriveIInv, NEW d \in Downloads, MakePart(d)
    PROVE  ArriveIInv'
<1> DEFINE t == Target(d)
<1>0. t \in Spots /\ t[1] \in Stores /\ TreeShape(tree) /\ part \in [Spots -> SUBSET Downloads] /\ PartsKnown
  BY Zenon, TargetIsOne DEF StorageIInv, ArriveIInv
<1>1. /\ job[d] = "writing" /\ Go(d, "copying") /\ UNCHANGED <<edits, download, outcome, body, feed, unwalked>>
      /\ \A q \in Above[t[2]] : tree[t[1]][q].type \in {"absent", "directory"}
      /\ tree' = [tree EXCEPT ![t[1]] = [q \in Paths |-> IF q \in Above[t[2]] THEN Directory ELSE @[q]]]
      /\ part' = [part EXCEPT ![t] = @ \cup {d}]
      /\ shared' = IF part[t] = {} THEN shared ELSE shared \cup {t}
      /\ temp' = [temp EXCEPT ![t] = {Torn(t)}]
  BY Zenon DEF MakePart, On, archiver
<1> HIDE DEF t
<1>2. job'[d] = "copying" /\ \A e \in Downloads \ {d} : job'[e] = job[e]
  BY Zenon, <1>1, RunGoes
<1>3. Touched(d, tree, tree')
  <2>1. /\ \A s \in Stores \ {t[1]} : tree'[s] = tree[s]
        /\ tree'[t[1]] = [q \in Paths |-> IF q \in Above[t[2]] THEN Directory ELSE tree[t[1]][q]]
    BY Zenon, <1>0, <1>1 DEF TreeShape
  <2>2. \A p \in Paths : tree'[t[1]][p] = tree[t[1]][p] \/ p \in Above[t[2]]
    BY Zenon, <2>1
  <2>3. \A q \in Above[t[2]] : tree[t[1]][q].type # "file"
    BY <1>1
  <2> QED BY Zenon, <2>1, <2>2, <2>3 DEF Touched, t
<1>4. PartsKnown'
  <2>0. job[d] \notin Open /\ "copying" \in Open /\ "idle" \notin Open
    BY <1>1 DEF Open
  <2>1. ASSUME NEW u \in Spots, NEW e \in part[u] PROVE e \in Downloads /\ e # d /\ job'[e] \in Open /\ Target(e) = u
    <3>1. e \in Downloads /\ job[e] \in Open /\ Target(e) = u
      BY Zenon, <1>0 DEF PartsKnown
    <3>2. e # d
      BY Zenon, <2>0, <3>1
    <3> QED BY Zenon, <1>2, <3>1, <3>2
  <2>2. \A u \in Spots : part'[u] = part[u] \/ (u = t /\ part'[u] = part[u] \cup {d})
    BY Zenon, <1>0, <1>1
  <2>3. ASSUME NEW u \in Spots, NEW e \in part'[u] PROVE job'[e] \in Open /\ Target(e) = u
    <3>1. e \in part[u] \/ (u = t /\ e = d)
      <4>1. CASE part'[u] = part[u]
        BY Zenon, <4>1
      <4>2. CASE u = t /\ part'[u] = part[u] \cup {d}
        BY Zenon, <4>2
      <4> QED BY Zenon, <2>2, <4>1, <4>2
    <3> QED BY Zenon, <1>2, <2>0, <2>1, <3>1 DEF t
  <2>4. "copying" # "idle" /\ \A e \in Downloads : job[e] # "idle" => job'[e] # "idle"
    <3>1. "copying" # "idle"
      OBVIOUS
    <3> QED BY Zenon, <1>2, <3>1
  <2>5. ASSUME NEW u \in shared'
        PROVE  \E e, f \in Downloads : e # f /\ job'[e] # "idle" /\ job'[f] # "idle" /\ Target(e) = u /\ Target(f) = u
    <3>1. CASE u \in shared
      <4>1. PICK e \in Downloads, f \in Downloads : e # f /\ job[e] # "idle" /\ job[f] # "idle" /\ Target(e) = u /\ Target(f) = u
        BY Zenon, <1>0, <3>1 DEF PartsKnown
      <4> QED BY Zenon, <2>4, <4>1
    <3>2. CASE u = t /\ part[t] # {}
      <4>1. PICK e : e \in part[t]
        BY Zenon, <3>2
      <4>2. e \in Downloads /\ e # d /\ job'[e] \in Open /\ Target(e) = t
        BY Zenon, <1>0, <2>1, <4>1
      <4>3. job'[d] # "idle" /\ job'[e] # "idle" /\ Target(d) = t
        BY Zenon, <1>2, <2>0, <2>4, <4>2 DEF t
      <4> QED BY Zenon, <3>2, <4>2, <4>3
    <3> QED BY Zenon, <1>1, <3>1, <3>2
  <2> QED BY Zenon, <2>3, <2>5 DEF PartsKnown
<1>5. /\ RowsAndWalks' /\ (\A e \in Downloads \ {d} : Kept(e)) /\ ~Reported(d, download[d].status)
      /\ "copying" \notin {"idle", "queued", "starting", "opening", "awaiting", "saving", "renaming"}
  <2>1. job[d] # "over" /\ "copying" \notin {"idle", "queued", "starting", "opening", "awaiting", "saving", "renaming"}
    BY <1>1
  <2> QED BY Zenon, <1>1, <1>2, <2>1, NotReported DEF ArriveIInv, RowsAndWalks, Kept
<1>6. Alone(d)
  <2>1. \A u \in Spots \ {Target(d)} : temp'[u] = temp[u]
    BY Zenon, <1>0, <1>1 DEF StorageIInv, t
  <2>2. job'[d] # "renaming" /\ job'[d] # "idle"
    BY Zenon, <1>2, <1>5
  <2>3. Full(d)'
    BY Zenon, <2>2 DEF Full
  <2> QED BY Zenon, <1>1, <1>5, <2>1, <2>2, <2>3 DEF Alone
<1>7. Here(d)'
  <2>1. InOrder(d, job[d], body[d], unwalked[d], download[d].status)
    BY Zenon DEF ArriveIInv, Here
  <2>2. InOrder(d, "copying", body[d], unwalked[d], download[d].status)
    BY Zenon, <1>5, <2>1 DEF InOrder
  <2> QED BY Zenon, <1>1, <1>2, <2>2 DEF Here
<1>8. ASSUME edits = 0, Clear(d, job) PROVE Good(d)'
  <2>1. OnCourse(d, job[d], outcome[d], body[d], feed[d], unwalked[d], download[d].status, tree)
    BY Zenon, <1>8 DEF ArriveIInv, Good
  <2>2. Is(d, "archive") => Untouched(d, tree')
    BY Zenon, <1>3, <2>1, OwnWritesAreBeside DEF OnCourse
  <2>3. OnCourse(d, "copying", outcome[d], body[d], feed[d], unwalked[d], download[d].status, tree')
    BY Zenon, <1>5, <2>1, <2>2 DEF OnCourse
  <2> QED BY Zenon, <1>1, <1>2, <2>3 DEF Good
<1> QED BY Zenon, <1>3, <1>4, <1>6, <1>7, <1>8, RunMoves

(* Write breaks off.                                                         *)
LEMMA BreakOffArrives ==
    ASSUME StorageIInv, ArriveIInv, NEW d \in Downloads, BreakOff(d)
    PROVE  ArriveIInv'
<1>1. /\ job[d] \in {"writing", "copying"} /\ Go(d, Written(d))
      /\ UNCHANGED <<edits, tree, download, body, feed, unwalked, shared>>
      /\ UNCHANGED temp \/ temp' = [temp EXCEPT ![Target(d)] = {}]
      /\ outcome' = [outcome EXCEPT ![d] = "error"]
      /\ (job[d] = "writing" /\ UNCHANGED part) \/ part' = [part EXCEPT ![Target(d)] = {}]
  BY Zenon DEF BreakOff, Go, archiver
<1>2. PartsKnown'
  <2>1. job[d] = "writing" => job[d] \notin Open
    BY DEF Open
  <2> QED BY Zenon, <1>1, <2>1, PartIsLeft DEF ArriveIInv
<1>3. outcome'[d] # "ok"
  <2>1. outcome'[d] = "error"
    BY Zenon, <1>1 DEF ArriveIInv, RowsAndWalks
  <2> QED BY <2>1
<1>4. Touched(d, tree, tree')
  BY Zenon, <1>1, NothingTouched
<1>5. job[d] \in Open \cup {"writing"}
  BY <1>1 DEF Open
<1>6. \A t \in Spots \ {Target(d)} : temp'[t] = temp[t]
  BY Zenon, <1>1, TargetIsOne DEF StorageIInv
<1> QED BY Zenon, <1>1, <1>2, <1>3, <1>4, <1>5, <1>6, WriteEnds

(* The drivers for ssh and S3                                                *)
LEMMA RemoteArrives ==
    ASSUME StorageIInv, ArriveIInv, NEW d \in Downloads, WriteOverSSH(d) \/ PutObject(d)
    PROVE  ArriveIInv'
<1>1. /\ job[d] = "writing" /\ Go(d, Written(d)) /\ UNCHANGED <<edits, download, body, feed, unwalked, part, temp, shared>>
      /\ UNCHANGED outcome \/ outcome' = [outcome EXCEPT ![d] = "error"]
  BY Zenon DEF WriteOverSSH, PutObject, On, archiver
<1>2. job[d] \notin Open /\ job[d] \in Open \cup {"writing"}
  BY <1>1 DEF Open
<1>3. PartsKnown'
  BY Zenon, <1>1, <1>2, PartIsLeft DEF ArriveIInv
<1>4. \E entry : tree' = tree \/ tree' = Put(Target(d), entry)
  BY Zenon DEF WriteOverSSH, PutObject
<1>5. Touched(d, tree, tree')
  BY Zenon, <1>4, PutTouches
<1>6. outcome'[d] = "ok" /\ ~CutOff(d) => There(d, tree', body[d])
  <2>1. CASE Driver[Target(d)[1]] = "ssh"
    BY Zenon, <2>1 DEF There
  <2>2. CASE PutObject(d) /\ tree' = Put(Target(d), File(Delivered(d)))
    <3>1. tree'[Target(d)[1]][Target(d)[2]] = File(Delivered(d))
      BY Zenon, <2>2, PutTouches
    <3> QED BY Zenon, <3>1 DEF There, Delivered
  <2>3. CASE outcome' = [outcome EXCEPT ![d] = "error"]
    <3>1. outcome'[d] = "error"
      BY Zenon, <2>3 DEF ArriveIInv, RowsAndWalks
    <3> QED BY <3>1
  <2> QED BY Zenon, <2>1, <2>2, <2>3 DEF WriteOverSSH, PutObject
<1> QED BY Zenon, <1>1, <1>2, <1>3, <1>5, <1>6, WriteEnds

(* The walk of an archive goes on (Pack).                                    *)
LEMMA PackArrives ==
    ASSUME StorageIInv, ArriveIInv, NEW d \in Downloads, Pack(d)
    PROVE  ArriveIInv'
<1> DEFINE Page(dir) == Browse(From(d), dir)
           More(dir) == UNION {Contents(From(d), p) : p \in {q \in Page(dir) : tree[From(d)][q].type = "file"}}
           Rest(dir) == (unwalked[d] \ {dir}) \cup {q \in Page(dir) : tree[From(d)][q].type = "directory"}
<1>1. /\ feed[d] = "walking" /\ job[d] \in {"writing", "copying"}
      /\ UNCHANGED <<edits, tree, part, temp, shared, download, job, outcome>>
  BY Zenon DEF Pack, places
<1>2. PICK dir \in unwalked[d] :
         \/ /\ unwalked' = [unwalked EXCEPT ![d] = Rest(dir)]
            /\ body' = [body EXCEPT ![d] = @ \cup More(dir)]
            /\ feed' = [feed EXCEPT ![d] = IF Rest(dir) = {} THEN "done" ELSE @]
         \/ feed' = [feed EXCEPT ![d] = "failed"] /\ UNCHANGED <<unwalked, body>>
  BY Zenon DEF Pack
<1> DEFINE rest == Rest(dir)
           more == More(dir)
<1>3. \/ /\ unwalked' = [unwalked EXCEPT ![d] = rest]
         /\ body' = [body EXCEPT ![d] = body[d] \cup more]
         /\ feed' = [feed EXCEPT ![d] = IF rest = {} THEN "done" ELSE feed[d]]
      \/ feed' = [feed EXCEPT ![d] = "failed"] /\ UNCHANGED <<unwalked, body>>
  BY Zenon, <1>2
<1>4. Is(d, "archive") /\ Untouched(d, tree) /\ Walking(d, body[d], unwalked[d]) => Walking(d, body[d] \cup more, rest)
  BY Zenon, WalkGoesOn
<1> HIDE DEF rest, more, Page, More, Rest
<1>5. /\ RowsAndWalks /\ ~Is(d, "copy") /\ ~Reported(d, download[d].status)
      /\ job[d] \notin {"idle", "queued", "starting", "opening", "awaiting", "saving", "over", "renaming"}
  <2>1. job[d] \notin {"idle", "queued", "starting", "opening", "awaiting", "saving", "over", "renaming"}
    BY <1>1
  <2>2. ~Is(d, "copy")
    BY Zenon, <1>2 DEF ArriveIInv, Here, InOrder
  <2> QED BY Zenon, <2>1, <2>2, NotReported DEF ArriveIInv
<1>6. /\ RowsAndWalks' /\ \A e \in Downloads \ {d} : Kept(e)
  <2>1. /\ DOMAIN unwalked' = Downloads /\ DOMAIN feed' = Downloads
        /\ \A e \in Downloads \ {d} : unwalked'[e] = unwalked[e] /\ feed'[e] = feed[e]
    BY Zenon, <1>3, <1>5 DEF RowsAndWalks
  <2>2. \A e \in Downloads \ {d} : body'[e] = body[e]
    BY Zenon, <1>3 DEF StorageIInv
  <2> QED BY Zenon, <1>1, <1>5, <2>1, <2>2 DEF RowsAndWalks, Kept
<1>7. Alone(d)
  <2>1. Full(d)'
    BY Zenon, <1>1, <1>5 DEF Full
  <2> QED BY Zenon, <1>1, <1>5, <1>6, <2>1 DEF Alone
<1>8. PartsKnown'
  <2>1. PartsKnown /\ part \in [Spots -> SUBSET Downloads]
    BY Zenon DEF ArriveIInv, StorageIInv
  <2>2. job'[d] # "idle"
    BY Zenon, <1>1, <1>5
  <2> QED BY Zenon, <1>1, <2>1, <2>2, PartsStay
<1>9. Touched(d, tree, tree')
  BY Zenon, <1>1, NothingTouched
<1>10. Here(d)'
  <2>1. InOrder(d, job[d], body'[d], unwalked'[d], download[d].status)
    BY Zenon, <1>5 DEF InOrder
  <2> QED BY Zenon, <1>1, <2>1 DEF Here
<1>11. ASSUME edits = 0, Clear(d, job) PROVE Good(d)'
  <2>1. OnCourse(d, job[d], outcome[d], body[d], feed[d], unwalked[d], download[d].status, tree)
    BY Zenon, <1>11 DEF ArriveIInv, Good
  <2>2. /\ feed'[d] = "walking" /\ Is(d, "archive") => Walking(d, body'[d], unwalked'[d])
        /\ feed'[d] = "done" /\ Is(d, "archive") => Whole(d, body'[d])
    <3>1. Is(d, "archive") => Walking(d, body[d] \cup more, rest)
      BY Zenon, <1>1, <1>4, <2>1 DEF OnCourse
    <3>2. CASE /\ unwalked' = [unwalked EXCEPT ![d] = rest]
               /\ body' = [body EXCEPT ![d] = body[d] \cup more]
               /\ feed' = [feed EXCEPT ![d] = IF rest = {} THEN "done" ELSE feed[d]]
      <4>1. /\ unwalked'[d] = rest /\ body'[d] = body[d] \cup more
            /\ feed'[d] = IF rest = {} THEN "done" ELSE "walking"
        BY Zenon, <1>1, <1>5, <3>2 DEF RowsAndWalks, StorageIInv
      <4>2. feed'[d] = "done" => rest = {}
        BY <4>1
      <4>3. feed'[d] = "done" /\ Is(d, "archive") => Whole(d, body'[d])
        BY Zenon, <3>1, <4>1, <4>2, WalkEnds
      <4> QED BY Zenon, <3>1, <4>1, <4>3
    <3>3. CASE feed' = [feed EXCEPT ![d] = "failed"]
      <4>1. feed'[d] = "failed"
        BY Zenon, <1>5, <3>3 DEF RowsAndWalks
      <4> QED BY <4>1
    <3> QED BY Zenon, <1>3, <3>2, <3>3
  <2>3. OnCourse(d, job[d], outcome[d], body'[d], feed'[d], unwalked'[d], download[d].status, tree)
    BY Zenon, <1>5, <2>1, <2>2 DEF OnCourse
  <2> QED BY Zenon, <1>1, <2>3 DEF Good
<1> QED BY Zenon, <1>7, <1>8, <1>9, <1>10, <1>11, RunMoves

(* The archive's write waits for the walk.                                   *)
LEMMA AwaitArrives ==
    ASSUME StorageIInv, ArriveIInv, NEW d \in Downloads, Await(d)
    PROVE  ArriveIInv'
<1>1. /\ job[d] = "awaiting" /\ feed[d] \in {"done", "failed"} /\ Go(d, "saving")
      /\ outcome' = [outcome EXCEPT ![d] = IF feed[d] = "failed" THEN "error" ELSE outcome[d]]
      /\ UNCHANGED <<edits, tree, part, temp, shared, download, body, feed, unwalked>>
  BY Zenon DEF Await, On, places, archiver
<1>2. job[d] # "over" /\ job[d] \notin Open /\ "saving" \notin {"idle", "queued", "starting", "opening", "renaming"}
  BY <1>1 DEF Open
<1>3. RowsAndWalks /\ ~Reported(d, download[d].status) /\ InOrder(d, job[d], body[d], unwalked[d], download[d].status)
  BY Zenon, <1>2, NotReported DEF ArriveIInv, Here
<1>4. job'[d] = "saving" /\ \A e \in Downloads \ {d} : job'[e] = job[e]
  BY Zenon, <1>1, RunGoes
<1>5. /\ outcome'[d] = IF feed[d] = "failed" THEN "error" ELSE outcome[d]
      /\ RowsAndWalks' /\ \A e \in Downloads \ {d} : Kept(e)
  BY Zenon, <1>1, <1>3, <1>4 DEF RowsAndWalks, Kept
<1>6. Here(d)'
  <2>1. InOrder(d, "saving", body[d], unwalked[d], download[d].status)
    BY Zenon, <1>2, <1>3 DEF InOrder
  <2> QED BY Zenon, <1>1, <1>4, <2>1 DEF Here
<1>7. ASSUME edits = 0, Clear(d, job) PROVE Good(d)'
  <2>1. OnCourse(d, job[d], outcome[d], body[d], feed[d], unwalked[d], download[d].status, tree)
    BY Zenon, <1>7 DEF ArriveIInv, Good
  <2>2. outcome'[d] = "ok" => feed[d] = "done" /\ outcome[d] = "ok"
    BY <1>1, <1>5
  <2>3. outcome'[d] = "ok" => There(d, tree, body[d])
    <3>1. feed[d] = "done" => ~Cut(d, feed[d])
      BY DEF Cut
    <3> QED BY Zenon, <1>1, <2>1, <2>2, <3>1 DEF OnCourse
  <2>4. OnCourse(d, "saving", outcome'[d], body[d], feed[d], unwalked[d], download[d].status, tree)
    BY Zenon, <1>3, <2>1, <2>2, <2>3 DEF OnCourse
  <2> QED BY Zenon, <1>1, <1>4, <2>4 DEF Good
<1> QED BY Zenon, <1>1, <1>2, <1>5, <1>6, <1>7, QuietMove

(* The outcome is saved: what is reported is there.                          *)
LEMMA SaveArrives ==
    ASSUME StorageIInv, ArriveIInv, NEW d \in Downloads, SaveOutcome(d)
    PROVE  ArriveIInv'
<1>1. /\ job[d] = "saving" /\ UNCHANGED <<edits, tree, part, temp, shared, outcome, body, feed, unwalked>>
      /\ \/ Go(d, "over") /\ SaveDownload(d, "failed", PathOf(d))
         \/ Go(d, "over") /\ outcome[d] = "ok" /\ SaveDownload(d, "completed", PathOf(d))
         \/ Go(d, "over") /\ outcome[d] = "ok" /\ SaveDownload(d, "ready", Target(d)[2])
         \/ Go(d, "unsaved") /\ UNCHANGED download
  BY Zenon DEF SaveOutcome, SaveFails, On, places, archiver
<1>2. job[d] # "over" /\ job[d] \notin Open
  BY <1>1 DEF Open
<1>3. RowsAndWalks /\ ~Reported(d, download[d].status) /\ InOrder(d, job[d], body[d], unwalked[d], download[d].status)
  BY Zenon, <1>2, NotReported DEF ArriveIInv, Here
<1>4. ASSUME NEW state \in {"over", "unsaved"}, Go(d, state), DOMAIN download' = Downloads,
             \A e \in Downloads \ {d} : download'[e] = download[e],
             Reported(d, download'[d].status) => state = "over" /\ outcome[d] = "ok"
      PROVE  ArriveIInv'
  <2>1. job'[d] = state /\ \A e \in Downloads \ {d} : job'[e] = job[e]
    BY Zenon, <1>4, RunGoes
  <2>2. RowsAndWalks' /\ \A e \in Downloads \ {d} : Kept(e)
    BY Zenon, <1>1, <1>3, <1>4, <2>1 DEF RowsAndWalks, Kept
  <2>3. state \notin {"idle", "queued", "starting", "opening", "awaiting", "saving", "renaming"}
    OBVIOUS
  <2>4. Here(d)'
    <3>1. InOrder(d, state, body[d], unwalked[d], download'[d].status)
      BY Zenon, <1>3, <1>4, <2>3 DEF InOrder
    <3> QED BY Zenon, <1>1, <2>1, <3>1 DEF Here
  <2>5. ASSUME edits = 0, Clear(d, job) PROVE Good(d)'
    <3>1. OnCourse(d, job[d], outcome[d], body[d], feed[d], unwalked[d], download[d].status, tree)
      BY Zenon, <2>5 DEF ArriveIInv, Good
    <3>2. outcome[d] = "ok" => There(d, tree, body[d]) /\ (Is(d, "archive") => Whole(d, body[d]))
      <4>1. outcome[d] = "ok" => ~Cut(d, feed[d])
        <5>1. outcome[d] = "ok" /\ Is(d, "archive") => feed[d] = "done"
          BY Zenon, <1>1, <3>1 DEF OnCourse
        <5> QED BY <5>1 DEF Cut
      <4> QED BY Zenon, <1>1, <3>1, <4>1 DEF OnCourse
    <3>3. OnCourse(d, state, outcome[d], body[d], feed[d], unwalked[d], download'[d].status, tree)
      BY Zenon, <1>4, <2>3, <3>1, <3>2 DEF OnCourse
    <3> QED BY Zenon, <1>1, <2>1, <3>3 DEF Good
  <2> QED BY Zenon, <1>1, <1>2, <1>4, <2>2, <2>3, <2>4, <2>5, QuietMove
<1>5. ASSUME NEW status \in {"failed", "completed", "ready"}, NEW path, SaveDownload(d, status, path), Go(d, "over"),
             status = "failed" \/ outcome[d] = "ok"
      PROVE  ArriveIInv'
  <2>1. /\ DOMAIN download' = Downloads /\ download'[d].status = status
        /\ \A e \in Downloads \ {d} : download'[e] = download[e]
    BY Zenon, <1>3, <1>5, RowIsSaved
  <2>2. ~Reported(d, "failed")
    BY DEF Reported
  <2> QED BY Zenon, <1>4, <1>5, <2>1, <2>2
<1>6. CASE Go(d, "unsaved") /\ UNCHANGED download
  BY Zenon, <1>3, <1>4, <1>6 DEF RowsAndWalks
<1> QED BY Zenon, <1>1, <1>5, <1>6

(* A crash: goroutines are gone, files and rows stay.                        *)
LEMMA CrashArrives ==
    ASSUME StorageIInv, ArriveIInv, StorageCrash
    PROVE  ArriveIInv'
<1>1. /\ job' = [d \in Downloads |-> IF job[d] \in {"idle", "over", "refused", "unsaved"} THEN job[d] ELSE "gone"]
      /\ feed' = [d \in Downloads |-> IF feed[d] = "walking" THEN "none" ELSE feed[d]]
      /\ part' = [t \in Spots |-> {}]
      /\ UNCHANGED <<edits, tree, shared, download, outcome, body, unwalked>>
  BY Zenon DEF StorageCrash, Spots
<1>2. ASSUME NEW d \in Downloads
      PROVE  /\ feed'[d] # "walking" /\ (feed'[d] = "done" => feed[d] = "done") /\ (job'[d] = "idle" <=> job[d] = "idle")
             /\ job'[d] = job[d] \/ job'[d] = "gone"
             /\ job'[d] \notin {"queued", "starting", "opening", "awaiting", "saving", "renaming"}
             /\ job[d] = "over" => job'[d] = "over"
  <2>1. feed'[d] = (IF feed[d] = "walking" THEN "none" ELSE feed[d]) /\ job'[d] = IF job[d] \in {"idle", "over", "refused", "unsaved"} THEN job[d] ELSE "gone"
    BY Zenon, <1>1
  <2> QED BY <2>1
<1>3. RowsAndWalks'
  BY Zenon, <1>1 DEF ArriveIInv, RowsAndWalks
<1>4. PartsKnown'
  <2>1. \A t \in Spots : part'[t] = {}
    BY Zenon, <1>1
  <2>2. ASSUME NEW t \in shared'
        PROVE  \E e, f \in Downloads : e # f /\ job'[e] # "idle" /\ job'[f] # "idle" /\ Target(e) = t /\ Target(f) = t
    <3>1. PICK e \in Downloads, f \in Downloads : e # f /\ job[e] # "idle" /\ job[f] # "idle" /\ Target(e) = t /\ Target(f) = t
      BY Zenon, <1>1 DEF ArriveIInv, PartsKnown
    <3>2. job'[e] # "idle" /\ job'[f] # "idle"
      BY Zenon, <1>2, <3>1
    <3> QED BY Zenon, <3>1, <3>2
  <2> QED BY Zenon, <2>1, <2>2 DEF PartsKnown
<1>7. \A d \in Downloads : Full(d)'
  BY Zenon, <1>2 DEF Full
<1>5. ASSUME NEW d \in Downloads PROVE Here(d)'
  <2>1. InOrder(d, job[d], body[d], unwalked[d], download[d].status)
    BY Zenon DEF ArriveIInv, Here
  <2>2. job'[d] \in {"idle", "queued", "starting"} => job[d] = "idle"
    BY Zenon, <1>2
  <2>3. InOrder(d, job'[d], body[d], unwalked[d], download[d].status)
    BY Zenon, <1>2, <2>1, <2>2 DEF InOrder
  <2> QED BY Zenon, <1>1, <2>3 DEF Here
<1>6. ASSUME edits' = 0, NEW d \in Downloads, Clear(d, job') PROVE Good(d)'
  <2>1. Clear(d, job)
    BY Zenon, <1>2, <1>6 DEF Clear
  <2>2. OnCourse(d, job[d], outcome[d], body[d], feed[d], unwalked[d], download[d].status, tree)
    BY Zenon, <1>1, <1>6, <2>1 DEF ArriveIInv, Good
  <2>3. feed'[d] # "walking" /\ (feed'[d] = "done" => feed[d] = "done") /\ job'[d] \notin {"awaiting", "saving"}
    BY Zenon, <1>2
  <2>4. OnCourse(d, job'[d], outcome[d], body[d], feed'[d], unwalked[d], download[d].status, tree)
    BY Zenon, <2>2, <2>3 DEF OnCourse
  <2> QED BY Zenon, <1>1, <2>4 DEF Good
<1> QED BY Zenon, <1>1, <1>3, <1>4, <1>5, <1>6, <1>7 DEF ArriveIInv

(* Users and administrators: what they change, they change.                  *)
LEMMA EditsArrive ==
    ASSUME StorageIInv, ArriveIInv,
           \/ \E s \in Stores, p \in Paths : DeleteEntry(s, p) \/ ReplaceFile(s, p)
           \/ \E s \in Stores, stays \in BOOLEAN : ReplaceEnvironment(s, stays)
    PROVE  ArriveIInv'
<1>1. edits' \in Nat /\ edits' # 0
  <2>1. edits \in Nat /\ edits' = edits + 1
    BY Zenon DEF ArriveIInv, DeleteEntry, ReplaceFile, ReplaceEnvironment, Edit
  <2> QED BY <2>1
<1>2. /\ UNCHANGED <<part, temp, shared, job, outcome, body, feed, unwalked>>
      /\ \/ UNCHANGED download
         \/ \E s \in Stores : download' = [d \in Downloads |-> IF From(d) = s THEN NoDownload ELSE download[d]]
  BY Zenon DEF DeleteEntry, ReplaceFile, ReplaceEnvironment, places, archiver
<1>3. RowsAndWalks' /\ PartsKnown'
  BY Zenon, <1>2 DEF ArriveIInv, RowsAndWalks, PartsKnown
<1>4. ASSUME NEW d \in Downloads PROVE Here(d)'
  <2>1. InOrder(d, job[d], body[d], unwalked[d], download[d].status)
    BY Zenon DEF ArriveIInv, Here
  <2>2. download'[d] = download[d] \/ download'[d] = NoDownload
    BY Zenon, <1>2
  <2>3. ~Reported(d, NoDownload.status)
    BY DEF Reported, NoDownload
  <2>4. InOrder(d, job[d], body[d], unwalked[d], download'[d].status)
    BY Zenon, <2>1, <2>2, <2>3 DEF InOrder
  <2> QED BY Zenon, <1>2, <2>4 DEF Here
<1>5. \A d \in Downloads : (Clear(d, job) => Full(d))'
  <2>1. \A d \in Downloads : Target(d)' = Target(d) /\ (CutOff(d)' <=> CutOff(d))
    BY Zenon, <1>2 DEF Target, Is, From, PathOf, CutOff
  <2>2. \A d \in Downloads : Clear(d, job') => Full(d)'
    BY Zenon, <1>2, <2>1 DEF ArriveIInv, Full
  <2> QED BY Zenon, <2>2 DEF Clear, Target, Is, From, PathOf
<1> QED BY Zenon, <1>1, <1>3, <1>4, <1>5 DEF ArriveIInv

(* Every step of requests, goroutines, users and crashes                     *)
LEMMA ArriveStep == StorageIInv /\ ArriveIInv /\ [StorageNext]_storageVars => ArriveIInv'
<1> SUFFICES ASSUME StorageIInv, ArriveIInv, [StorageNext]_storageVars PROVE ArriveIInv'
  BY Zenon
<1>1. ASSUME NEW d \in Downloads, DownloadStep(d) PROVE ArriveIInv'
  BY Zenon, <1>1, LaunchStep, BeginStep, OpenStep, MakePartArrives, FillArrives, RenameArrives, BreakOffArrives, RemoteArrives,
     PackArrives, AwaitArrives, SaveArrives DEF DownloadStep
<1>2. CASE UNCHANGED storageVars
  <2>1. UNCHANGED <<edits, tree, part, temp, shared, job, outcome, body, feed, unwalked, download>>
    BY Zenon, <1>2 DEF storageVars, places, archiver
  <2>2. RowsAndWalks' /\ PartsKnown' /\ (\A d \in Downloads : Here(d)') /\ edits' \in Nat
    BY Zenon, <2>1 DEF ArriveIInv, RowsAndWalks, PartsKnown, Here
  <2>3. edits' = 0 => \A d \in Downloads : Clear(d, job') => Good(d)'
    BY Zenon, <2>1 DEF ArriveIInv, Good
  <2>4. \A d \in Downloads : (Clear(d, job) => Full(d))'
    <3>1. \A d \in Downloads : Target(d)' = Target(d) /\ (CutOff(d)' <=> CutOff(d))
      BY Zenon, <2>1 DEF Target, Is, From, PathOf, CutOff
    <3>2. \A d \in Downloads : Clear(d, job') => Full(d)'
      BY Zenon, <2>1, <3>1 DEF ArriveIInv, Full
    <3> QED BY Zenon, <3>2 DEF Clear, Target, Is, From, PathOf
  <2> QED BY Zenon, <2>2, <2>3, <2>4 DEF ArriveIInv
<1> QED BY Zenon, <1>1, <1>2, RequestSteps, EditsArrive, CrashArrives DEF StorageNext

(* For any stores, paths and requests: what a run that nobody disturbed      *)
(* reports as completed or ready is at its destination, in a file system or  *)
(* an object store, and an archive has every file below its directory,       *)
(* whatever failed or crashed on the way (service.go, copy and archive).     *)
THEOREM DownloadsAlwaysArrive == StorageSpec => []DownloadsArrive
<1>1. StorageInit => StorageIInv /\ WalksLater /\ ArriveIInv
  <2> SUFFICES ASSUME StorageInit PROVE StorageIInv /\ WalksLater /\ ArriveIInv
    BY Zenon
  <2>1. StorageIInv /\ WalksLater
    BY Zenon, StorageStarts
  <2>2. /\ edits = 0 /\ RowsAndWalks /\ tree = InitialTree /\ shared = {} /\ \A t \in Spots : part[t] = {}
        /\ \A d \in Downloads : /\ job[d] = "idle" /\ body[d] = {} /\ feed[d] = "none" /\ unwalked[d] = {}
                                /\ download[d] = NoDownload
    BY Zenon DEF StorageInit, RowsAndWalks, Spots
  <2>3. /\ \A d \in Downloads : ~Reported(d, NoDownload.status)
        /\ "idle" \notin {"opening", "awaiting", "saving", "renaming"} /\ "none" \notin {"walking", "done"} /\ edits \in Nat
    BY <2>2 DEF Reported, NoDownload
  <2>4. PartsKnown
    BY Zenon, <2>2 DEF PartsKnown
  <2>5. \A d \in Downloads : Here(d)
    BY Zenon, <2>2, <2>3 DEF Here, InOrder
  <2>6. \A d \in Downloads : Good(d)
    BY Zenon, <2>2, <2>3 DEF Good, OnCourse, Untouched
  <2>7. \A d \in Downloads : Full(d)
    BY Zenon, <2>2, <2>3 DEF Full
  <2> QED BY Zenon, <2>1, <2>2, <2>3, <2>4, <2>5, <2>6, <2>7 DEF ArriveIInv
<1>2. ArriveIInv => DownloadsArrive
  <2> SUFFICES ASSUME ArriveIInv, edits = 0, NEW d \in Downloads, Undisturbed(d), Driver[Target(d)[1]] # "ssh",
                      Reported(d, download[d].status)
               PROVE  Arrived(d) /\ (Is(d, "archive") => (OnePage => Packed(d)))
    BY Zenon DEF DownloadsArrive, Reported
  <2>1. Clear(d, job)
    BY Zenon DEF Clear, Undisturbed
  <2>2. Good(d)
    BY Zenon, <2>1 DEF ArriveIInv
  <2>3. Arrived(d)
    BY Zenon, <2>2 DEF Good, OnCourse, There, Arrived
  <2>4. ASSUME Is(d, "archive"), OnePage PROVE Packed(d)
    <3>1. body[d] = AllPieces(d) /\ Untouched(d, tree)
      BY Zenon, <2>2, <2>4 DEF Good, OnCourse, Whole
    <3>2. Below(From(d), PathOf(d)) = Packing(d)
      BY Zenon, <3>1 DEF Below, Packing, Untouched
    <3>3. \A p \in Packing(d) : tree[From(d)][p] = InitialTree[From(d)][p]
      BY Zenon, <3>1 DEF Packing, Untouched
    <3>4. UNION {tree[From(d)][p].holds : p \in Packing(d)} = AllPieces(d)
      BY Zenon, <3>3 DEF AllPieces
    <3> QED BY Zenon, <3>1, <3>2, <3>4 DEF Packed
  <2> QED BY Zenon, <2>3, <2>4
<1> QED BY <1>1, <1>2, StorageStep, ArriveStep, PTL DEF StorageSpec

-----------------------------------------------------------------------------
(* The pool of simulators *)

Stages == {"idle", "acquiring", "bundling", "running", "reading", "returning", "returned"}
Holding == {"bundling", "running", "reading", "returning"}
Alive == {"alive", "hangs"}
Holders == {c \in Calls : stage[c] \in Holding}

PoolTypes ==
    /\ stage \in [Calls -> Stages]
    /\ child \in [Calls -> {"none", "alive", "hangs", "succeeded", "failed"}]
    /\ directory \in [Calls -> Calls \cup {NoCall}]
    /\ written \in [Calls -> Calls \cup {NoCall}]
    /\ trace \in [Calls -> Calls \cup {NoCall}]
    /\ permits \in Nat

\* A permit for every holder, and no more than there are.
PermitInv == permits = Cardinality(Holders) /\ permits <= Permits

CallInv ==
    \A c \in Calls :
        /\ child[c] \in Alive => stage[c] = "running"
        /\ stage[c] \in {"running", "reading"} => directory[c] = c
        /\ written[c] \in {NoCall, c}
        /\ trace[c] \in {NoCall, c}

PoolIInv == PoolTypes /\ PermitInv /\ CallInv

(* The semaphore has at least one permit (process_executor.go:42-44).        *)
LEMMA PermitsType == Permits \in Nat \ {0}
  BY PoolAssumption DEF Permits

(* The holders are finitely many.                                            *)
LEMMA HoldersFinite == IsFiniteSet(Holders) /\ IsFiniteSet(Holders')
<1>1. Holders \subseteq Calls /\ Holders' \subseteq Calls
  BY Zenon DEF Holders
<1> QED BY Zenon, <1>1, PoolAssumption, FS_Subset

(* A call that neither takes nor returns a permit keeps the count.           *)
LEMMA SameHolders ==
    ASSUME PoolTypes, PermitInv, UNCHANGED permits, NEW c \in Calls, NEW s \in Stages, Move(c, s),
           stage[c] \in Holding <=> s \in Holding
    PROVE  PermitInv' /\ stage' \in [Calls -> Stages] /\ permits' \in Nat
<1>1. stage' \in [Calls -> Stages] /\ \A b \in Calls : stage'[b] = IF b = c THEN s ELSE stage[b]
  BY Zenon DEF PoolTypes, Move
<1>2. Holders' = Holders
  BY Zenon, <1>1 DEF Holders
<1> QED BY Zenon, <1>1, <1>2 DEF PermitInv, PoolTypes

(* acquire (process_executor.go:94-101).                                     *)
LEMMA AcquireKeeps ==
    ASSUME PoolTypes, PermitInv, NEW c \in Calls, Acquire(c)
    PROVE  PermitInv' /\ stage' \in [Calls -> Stages] /\ permits' \in Nat
<1>1. /\ stage[c] = "acquiring" /\ permits < Permits /\ permits' = permits + 1
      /\ stage' \in [Calls -> Stages]
      /\ \A b \in Calls : stage'[b] = IF b = c THEN "bundling" ELSE stage[b]
  BY Zenon DEF Acquire, In, Move, PoolTypes, Stages
<1>2. c \notin Holders /\ Holders' = Holders \cup {c}
  BY Zenon, <1>1 DEF Holders, Holding
<1>3. Cardinality(Holders') = Cardinality(Holders) + 1
  BY SMTT(30), <1>2, HoldersFinite, FS_AddElement
<1>4. permits \in Nat /\ Permits \in Nat /\ permits = Cardinality(Holders)
  BY PermitsType DEF PoolTypes, PermitInv
<1>5. permits' = Cardinality(Holders') /\ permits' <= Permits /\ permits' \in Nat
  BY <1>1, <1>3, <1>4
<1>6. UNCHANGED Permits
  BY Zenon DEF Permits
<1> QED BY Zenon, <1>1, <1>5, <1>6 DEF PermitInv

(* release (process_executor.go:103).                                        *)
LEMMA ReleaseKeeps ==
    ASSUME PoolTypes, PermitInv, NEW c \in Calls, ReleasePermit(c)
    PROVE  PermitInv' /\ stage' \in [Calls -> Stages] /\ permits' \in Nat
<1>1. /\ stage[c] = "returning" /\ permits' = permits - 1
      /\ stage' \in [Calls -> Stages]
      /\ \A b \in Calls : stage'[b] = IF b = c THEN "returned" ELSE stage[b]
  BY Zenon DEF ReleasePermit, In, Move, PoolTypes, Stages
<1>2. c \in Holders /\ Holders' = Holders \ {c}
  BY Zenon, <1>1 DEF Holders, Holding
<1>3. Cardinality(Holders') = Cardinality(Holders) - 1
  BY SMTT(30), <1>2, HoldersFinite, FS_RemoveElement
<1>4. permits \in Nat /\ Permits \in Nat /\ permits = Cardinality(Holders) /\ permits <= Permits
  BY PermitsType DEF PoolTypes, PermitInv
<1>5. Cardinality(Holders') \in Nat
  BY SMTT(30), HoldersFinite, FS_CardinalityType
<1>6. permits' = Cardinality(Holders') /\ permits' <= Permits /\ permits' \in Nat
  BY <1>1, <1>3, <1>4, <1>5
<1>7. UNCHANGED Permits
  BY Zenon DEF Permits
<1> QED BY Zenon, <1>1, <1>6, <1>7 DEF PermitInv

-----------------------------------------------------------------------------
(* Nobody has called Execute yet.                                            *)
LEMMA PoolInitIInv == PoolInit => PoolIInv
<1> SUFFICES ASSUME PoolInit PROVE PoolIInv
  BY Zenon
<1>1. PoolTypes
  <2>1. permits \in Nat
    BY DEF PoolInit
  <2> QED BY Zenon, <2>1 DEF PoolTypes, PoolInit, Stages
<1>2. Holders = {}
  BY Zenon DEF Holders, PoolInit, Holding
<1>3. PermitInv
  <2>1. permits = 0 /\ Cardinality(Holders) = 0
    BY Zenon, <1>2, FS_EmptySet DEF PoolInit
  <2> QED BY <2>1, PermitsType DEF PermitInv
<1>4. CallInv
  BY Zenon DEF CallInv, PoolInit, Alive
<1> QED BY Zenon, <1>1, <1>3, <1>4 DEF PoolIInv

(* Every step of a call, of a simulator or of a caller that gives up.        *)
LEMMA PoolNextIInv == PoolIInv /\ [PoolNext]_poolVars => PoolIInv'
<1> SUFFICES ASSUME PoolIInv, [PoolNext]_poolVars PROVE PoolIInv'
  BY Zenon
<1>i. PoolTypes /\ PermitInv /\ CallInv
  BY Zenon DEF PoolIInv
<1>s. Stages = {"idle", "acquiring", "bundling", "running", "reading", "returning", "returned"}
      /\ Holding = {"bundling", "running", "reading", "returning"}
  BY Zenon DEF Stages, Holding
<1>n. NoCall \notin Calls
  BY Zenon, PoolAssumption
<1>1. ASSUME NEW c \in Calls, Simulate(c) PROVE PoolIInv'
  <2>1. PermitInv' /\ stage' \in [Calls -> Stages] /\ permits' \in Nat
    BY Zenon, <1>1, <1>i, <1>s, SameHolders DEF Simulate, In
  <2>2. CallInv'
    BY ZenonT(30), <1>1, <1>i DEF Simulate, In, Move, CallInv, PoolTypes
  <2> QED BY Zenon, <1>1, <1>i, <2>1, <2>2 DEF Simulate, PoolIInv, PoolTypes
<1>2. ASSUME NEW c \in Calls, Acquire(c) PROVE PoolIInv'
  <2>1. PermitInv' /\ stage' \in [Calls -> Stages] /\ permits' \in Nat
    BY Zenon, <1>2, <1>i, AcquireKeeps
  <2>2. CallInv'
    BY ZenonT(30), <1>2, <1>i DEF Acquire, In, Move, CallInv, PoolTypes
  <2> QED BY Zenon, <1>2, <1>i, <2>1, <2>2 DEF Acquire, PoolIInv, PoolTypes
<1>3. ASSUME NEW c \in Calls, GiveUp(c) PROVE PoolIInv'
  <2>1. PermitInv' /\ stage' \in [Calls -> Stages] /\ permits' \in Nat
    BY Zenon, <1>3, <1>i, <1>s, SameHolders DEF GiveUp, In
  <2>2. CallInv'
    BY ZenonT(30), <1>3, <1>i DEF GiveUp, In, Move, CallInv, PoolTypes
  <2> QED BY Zenon, <1>3, <1>i, <2>1, <2>2 DEF GiveUp, PoolIInv, PoolTypes
<1>4. ASSUME NEW c \in Calls, createBundle(c) PROVE PoolIInv'
  <2>0. UNCHANGED <<permits, written, trace>> /\ stage[c] = "bundling"
    BY Zenon, <1>4 DEF createBundle, In
  <2>1. CASE /\ directory' = [directory EXCEPT ![c] = c]
             /\ child' = [child EXCEPT ![c] = "alive"] /\ Move(c, "running")
    <3>1. PermitInv' /\ stage' \in [Calls -> Stages] /\ permits' \in Nat
      BY Zenon, <2>0, <2>1, <1>i, <1>s, SameHolders
    <3>2. /\ directory' \in [Calls -> Calls \cup {NoCall}]
          /\ child' \in [Calls -> {"none", "alive", "hangs", "succeeded", "failed"}]
      BY Zenon, <2>1, <1>i DEF PoolTypes
    <3>3. CallInv'
      BY ZenonT(30), <2>0, <2>1, <1>i DEF Move, CallInv, PoolTypes
    <3> QED BY Zenon, <2>0, <1>i, <3>1, <3>2, <3>3 DEF PoolIInv, PoolTypes
  <2>2. CASE Move(c, "returning") /\ UNCHANGED <<directory, child>>
    <3>1. PermitInv' /\ stage' \in [Calls -> Stages] /\ permits' \in Nat
      BY Zenon, <2>0, <2>2, <1>i, <1>s, SameHolders
    <3>2. CallInv'
      BY ZenonT(30), <2>0, <2>2, <1>i DEF Move, CallInv, PoolTypes
    <3> QED BY Zenon, <2>0, <2>2, <1>i, <3>1, <3>2 DEF PoolIInv, PoolTypes
  <2> QED BY Zenon, <1>4, <2>1, <2>2 DEF createBundle, DirectoryOf
<1>5. ASSUME NEW c \in Calls, ChildEnds(c) PROVE PoolIInv'
  <2>0. UNCHANGED <<stage, permits, directory, trace>> /\ child[c] = "alive"
    BY Zenon, <1>5 DEF ChildEnds
  <2>1. directory[c] = c
    BY Zenon, <2>0, <1>i DEF CallInv, Alive
  <2>2. PICK end \in {"succeeded", "failed", "hangs"} : child' = [child EXCEPT ![c] = end]
    BY Zenon, <1>5 DEF ChildEnds
  <2>3. UNCHANGED written \/ written' = [written EXCEPT ![c] = c]
    BY Zenon, <1>5, <2>1 DEF ChildEnds
  <2>4. PermitInv'
    BY Zenon, <2>0, <1>i DEF PermitInv, Holders, Permits
  <2>5. PoolTypes'
    BY Zenon, <2>0, <2>2, <2>3, <1>i DEF PoolTypes
  <2>6. CallInv'
    <3> SUFFICES ASSUME NEW b \in Calls
                 PROVE  /\ child'[b] \in Alive => stage[b] = "running"
                        /\ stage[b] \in {"running", "reading"} => directory[b] = b
                        /\ written'[b] \in {NoCall, b}
                        /\ trace[b] \in {NoCall, b}
      BY Zenon, <2>0 DEF CallInv
    <3>1. child'[b] = (IF b = c THEN end ELSE child[b]) /\ stage[c] = "running"
      BY Zenon, <2>0, <2>2, <1>i DEF CallInv, PoolTypes, Alive
    <3>2. written'[b] = written[b] \/ (b = c /\ written'[b] = c)
      BY Zenon, <2>3, <1>i DEF PoolTypes
    <3> QED BY Zenon, <3>1, <3>2, <1>i DEF CallInv
  <2> QED BY Zenon, <2>4, <2>5, <2>6 DEF PoolIInv
<1>6. ASSUME NEW c \in Calls, KillChild(c) PROVE PoolIInv'
  <2>1. PermitInv'
    BY Zenon, <1>6, <1>i DEF KillChild, PermitInv, Holders, Permits
  <2>2. PoolTypes'
    BY Zenon, <1>6, <1>i DEF KillChild, PoolTypes
  <2>3. CallInv'
    BY Zenon, <1>6, <1>i DEF KillChild, CallInv, PoolTypes, Alive
  <2> QED BY Zenon, <2>1, <2>2, <2>3 DEF PoolIInv
<1>7. ASSUME NEW c \in Calls, CommandReturns(c) PROVE PoolIInv'
  <2>0. /\ UNCHANGED <<permits, directory, child, written, trace>>
        /\ stage[c] = "running" /\ child[c] \in {"succeeded", "failed"}
    BY Zenon, <1>7 DEF CommandReturns, In
  <2>1. PICK s \in {"reading", "returning"} : Move(c, s)
    BY Zenon, <1>7 DEF CommandReturns
  <2>2. PermitInv' /\ stage' \in [Calls -> Stages] /\ permits' \in Nat
    BY Zenon, <2>0, <2>1, <1>i, <1>s, SameHolders
  <2>3. CallInv'
    BY Zenon, <2>0, <2>1, <1>i DEF Move, CallInv, PoolTypes, Alive
  <2> QED BY Zenon, <2>0, <1>i, <2>2, <2>3 DEF PoolIInv, PoolTypes
<1>8. ASSUME NEW c \in Calls, readTrace(c) PROVE PoolIInv'
  <2>0. UNCHANGED <<permits, directory, child, written>> /\ stage[c] = "reading" /\ Move(c, "returning")
    BY Zenon, <1>8 DEF readTrace, In
  <2>1. directory[c] = c
    BY Zenon, <2>0, <1>i DEF CallInv
  <2>2. UNCHANGED trace \/ trace' = [trace EXCEPT ![c] = written[c]]
    BY Zenon, <1>8, <2>1 DEF readTrace
  <2>3. PermitInv' /\ stage' \in [Calls -> Stages] /\ permits' \in Nat
    BY Zenon, <2>0, <1>i, <1>s, SameHolders
  <2>4. trace' \in [Calls -> Calls \cup {NoCall}]
    BY Zenon, <2>2, <1>i DEF PoolTypes
  <2>5. CallInv'
    <3> SUFFICES ASSUME NEW b \in Calls
                 PROVE  /\ child[b] \in Alive => stage'[b] = "running"
                        /\ stage'[b] \in {"running", "reading"} => directory[b] = b
                        /\ written[b] \in {NoCall, b}
                        /\ trace'[b] \in {NoCall, b}
      BY Zenon, <2>0 DEF CallInv
    <3>1. stage'[b] = (IF b = c THEN "returning" ELSE stage[b])
      BY Zenon, <2>0, <1>i DEF Move, PoolTypes
    <3>2. trace'[b] = trace[b] \/ (b = c /\ trace'[b] = written[c])
      BY Zenon, <2>2, <1>i DEF PoolTypes
    <3>3. child[c] \notin Alive
      BY Zenon, <2>0, <1>i DEF CallInv
    <3> QED BY Zenon, <3>1, <3>2, <3>3, <1>i DEF CallInv
  <2> QED BY Zenon, <2>0, <1>i, <2>3, <2>4, <2>5 DEF PoolIInv, PoolTypes
<1>9. ASSUME NEW c \in Calls, ReleasePermit(c) PROVE PoolIInv'
  <2>1. PermitInv' /\ stage' \in [Calls -> Stages] /\ permits' \in Nat
    BY Zenon, <1>9, <1>i, ReleaseKeeps
  <2>2. CallInv'
    BY ZenonT(30), <1>9, <1>i DEF ReleasePermit, In, Move, CallInv, PoolTypes
  <2> QED BY Zenon, <1>9, <1>i, <2>1, <2>2 DEF ReleasePermit, PoolIInv, PoolTypes
<1>10. ASSUME UNCHANGED <<stage, permits, directory, child, written, trace>> PROVE PoolIInv'
  <2>1. PermitInv'
    BY Zenon, <1>10, <1>i DEF PermitInv, Holders, Permits
  <2> QED BY Zenon, <1>10, <1>i, <2>1 DEF PoolIInv, PoolTypes, CallInv
<1>11. ASSUME NEW c \in Calls, CancelCall(c) PROVE PoolIInv'
  BY Zenon, <1>10, <1>11 DEF CancelCall
<1>12. CASE UNCHANGED poolVars
  BY Zenon, <1>10, <1>12 DEF poolVars
<1> QED
  BY Zenon, <1>1, <1>2, <1>3, <1>4, <1>5, <1>6, <1>7, <1>8, <1>9, <1>11, <1>12 DEF PoolNext, CallStep

(* The inductive invariant of the pool.                                      *)
THEOREM PoolInvariant == PoolSpec => []PoolIInv
  BY PoolInitIInv, PoolNextIInv, PTL DEF PoolSpec

(* Never more simulators than permits, and no permit is lost                 *)
(* (process_executor.go:57-103, command.go:19-27).                           *)
THEOREM SimulatorsAlwaysBounded == PoolSpec => []SimulatorsAreBounded
<1>1. ASSUME PoolIInv PROVE SimulatorsAreBounded
  <2> DEFINE living == {c \in Calls : child[c] \in {"alive", "hangs"}}
  <2>1. living \subseteq Holders
    BY Zenon, <1>1 DEF PoolIInv, CallInv, Alive, Holders, Holding
  <2>2. Cardinality(living) <= Cardinality(Holders) /\ Cardinality(living) \in Nat /\ Cardinality(Holders) \in Nat
    BY SMTT(30), <2>1, HoldersFinite, FS_Subset, FS_CardinalityType
  <2>3. permits = Cardinality(Holders) /\ permits <= Permits /\ Permits \in Nat
    BY SMTT(30), <1>1, PermitsType DEF PoolIInv, PermitInv
  <2>4. Cardinality(living) <= Permits
    BY SMTT(30), <2>2, <2>3
  <2> QED BY Zenon, <2>3, <2>4 DEF SimulatorsAreBounded, Holders, Holding
<1> QED BY <1>1, PoolInvariant, PTL

(* The trace of a call is the one its own simulator wrote                    *)
(* (process_executor.go:112-150).                                            *)
THEOREM TraceAlwaysOwn == PoolSpec => []TraceIsOwn
<1>1. PoolIInv => TraceIsOwn
  BY Zenon DEF PoolIInv, CallInv, TraceIsOwn
<1> QED BY <1>1, PoolInvariant, PTL
=============================================================================
