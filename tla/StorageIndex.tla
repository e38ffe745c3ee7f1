---------------------------- MODULE StorageIndex ----------------------------
(* One call of BrowserCoordinator.StartIndex (application/storage/service.go) *)
(* on any tree, under any policy: the recursive walk is a stack of           *)
(* directories with the entries that are left in each.                       *)
EXTENDS Integers, Sequences, FiniteSets

CONSTANTS
    Names,         \* 1..n, in the order in which a directory lists them; 0 is the root
    Trees,         \* [in : the directory of each name, type : what each name is]
    Policies,      \* [limit, depth, roots, exclude, include]
    BrowseRoots,   \* the roots if the policy has none
    DefaultLimit, MaxLimit, DefaultDepth,
    BrowseLimit    \* entries of the one page that is read of a directory

ASSUME IndexAssumption ==
    /\ IsFiniteSet(Names) /\ Names = 1..Cardinality(Names)
    /\ DefaultLimit \in Nat \ {0} /\ MaxLimit \in Nat /\ DefaultDepth \in Nat
    /\ Trees # {} /\ Policies # {}
    /\ \A t \in Trees :
         /\ t.in \in [Names -> Names \cup {0}] /\ \A p \in Names : t.in[p] < p
         /\ \A p \in Names : t.in[p] # 0 => t.type[t.in[p]] = "directory"
    /\ \A p \in Policies : p.limit \in Int /\ p.depth \in Int /\ p.roots \in Seq(Nat)
    /\ BrowseRoots \in Seq(Nat)

VARIABLES
    storageTree, indexPolicy,   \* of the call
    indexing,                   \* where the call is: "idle", "walking", "over"
    rootAt,                     \* the root it is at, of its list of roots
    walking,                    \* the calls of walk that have not returned: dir and the entries left
    indexed,                    \* the counter they share
    counted,                    \* history: what was counted, <<root, name>>
    indexRun                    \* the row of the call
walkVars == <<rootAt, walking, indexed, counted>>
indexVars == <<storageTree, indexPolicy, indexing, walkVars, indexRun>>

IndexInit ==
    /\ storageTree = CHOOSE t \in Trees : TRUE
    /\ indexPolicy = CHOOSE p \in Policies : TRUE
    /\ indexing = "idle"
    /\ rootAt = 1 /\ walking = <<>> /\ indexed = 0 /\ counted = {}
    /\ indexRun = [status |-> "none", entries |-> 0]

IndexLimit == IF indexPolicy.limit \in 1..MaxLimit THEN indexPolicy.limit ELSE DefaultLimit
IndexDepth == IF indexPolicy.depth > 0 THEN indexPolicy.depth ELSE DefaultDepth
IndexRoots == IF indexPolicy.roots # <<>> THEN indexPolicy.roots ELSE BrowseRoots

IsDirectory(p) == p = 0 \/ (p \in Names /\ storageTree.type[p] = "directory")
ChildrenOf(dir) == {p \in Names : storageTree.in[p] = dir}
FirstPage(dir) == {p \in ChildrenOf(dir) : Cardinality({q \in ChildrenOf(dir) : q < p}) < BrowseLimit}

excluded(p) == p \in indexPolicy.exclude
included(p) == p \in indexPolicy.include

\* The row of the start is saved, or not: nobody looks at the error.
StartIndex ==
    /\ indexing = "idle" /\ indexing' = "walking"
    /\ storageTree' \in Trees /\ indexPolicy' \in Policies
    /\ indexRun' \in {[indexRun EXCEPT !.status = "running"], indexRun}
    /\ UNCHANGED walkVars

TopCall == walking[Len(walking)]
Calls == SubSeq(walking, 1, Len(walking) - 1)
Call(dir) == [dir |-> dir, left |-> FirstPage(dir)]

\* The next root, unless the limit is reached
WalkRoot ==
    /\ indexing = "walking" /\ walking = <<>> /\ rootAt <= Len(IndexRoots)
    /\ \/ /\ indexed >= IndexLimit
          /\ rootAt' = rootAt + 1 /\ UNCHANGED walking
       \/ /\ indexed < IndexLimit /\ IsDirectory(IndexRoots[rootAt])
          /\ walking' = <<Call(IndexRoots[rootAt])>> /\ UNCHANGED rootAt
    /\ UNCHANGED <<storageTree, indexPolicy, indexing, indexed, counted, indexRun>>

\* A level more than the policy allows
Descends_TooDeep(x) == storageTree.type[x] = "directory" /\ Len(walking) - 1 <= IndexDepth
Descends(x) == storageTree.type[x] = "directory" /\ Len(walking) - 1 < IndexDepth

\* The next entry of a directory, in the order of the listing: it is skipped,
\* or counted and, if it is a directory, walked.  At the limit, all calls return.
WalkEntry ==
    /\ indexing = "walking" /\ walking # <<>>
    /\ \E x \in TopCall.left :
         LET rest == Append(Calls, [TopCall EXCEPT !.left = @ \ {x}]) IN
         /\ \A y \in TopCall.left : x <= y
         /\ \/ /\ excluded(x) \/ (storageTree.type[x] # "directory" /\ ~included(x))
               /\ walking' = rest /\ UNCHANGED <<rootAt, indexed, counted>>
            \/ /\ ~excluded(x) /\ (storageTree.type[x] = "directory" \/ included(x))
               /\ indexed' = indexed + 1
               /\ counted' = counted \cup {<<rootAt, x>>}
               /\ IF indexed' >= IndexLimit THEN walking' = <<>> /\ rootAt' = rootAt + 1
                  ELSE /\ walking' = IF Descends(x) THEN Append(rest, Call(x)) ELSE rest
                       /\ UNCHANGED rootAt
    /\ UNCHANGED <<storageTree, indexPolicy, indexing, indexRun>>

WalkReturn ==
    /\ indexing = "walking" /\ walking # <<>> /\ TopCall.left = {}
    /\ walking' = Calls
    /\ rootAt' = IF Calls = <<>> THEN rootAt + 1 ELSE rootAt
    /\ UNCHANGED <<storageTree, indexPolicy, indexing, indexed, counted, indexRun>>

\* The outcome is saved, or not.
SaveIndexRun(status) ==
    /\ indexing' = "over"
    /\ indexRun' \in {[status |-> status, entries |-> indexed], indexRun}
    /\ UNCHANGED <<storageTree, indexPolicy, walkVars>>

CompleteIndex ==
    /\ indexing = "walking" /\ walking = <<>> /\ rootAt > Len(IndexRoots)
    /\ SaveIndexRun("completed")

\* A root that is no directory, a driver that fails, or the time is up.
FailIndex == indexing = "walking" /\ SaveIndexRun("failed")

IndexNext == StartIndex \/ WalkRoot \/ WalkEntry \/ WalkReturn \/ CompleteIndex \/ FailIndex
IndexSpec == IndexInit /\ [][IndexNext]_indexVars

-----------------------------------------------------------------------------
(* Properties *)

\* The directories above each entry, and above the root none
DirectoriesAbove(parent) ==
    LET up[q \in DOMAIN parent \cup {0}] == IF q = 0 THEN {} ELSE {parent[q]} \cup up[parent[q]]
    IN  up

\* The names from p up to, and without, the root r; empty if p is not below r
Path(p, r) ==
    LET above == DirectoriesAbove(storageTree.in)
    IN  {q \in Names : (q = p \/ q \in above[p]) /\ r \in above[q]}

\* What a walk from r has to count: neither it nor a directory above it is
\* excluded, a file is included, and no more than IndexDepth directories lie between.
Indexable(r) ==
    {p \in Names :
        /\ Path(p, r) # {} /\ Cardinality(Path(p, r)) <= IndexDepth + 1
        /\ \A q \in Path(p, r) : ~excluded(q)
        /\ IsDirectory(p) \/ included(p)}

AllIndexable == {x \in (DOMAIN IndexRoots) \X Names : x[2] \in Indexable(IndexRoots[x[1]])}

(* The depth-first walk with its shared counter and early returns counts     *)
(* what is below each root, a name once per root it is below, up to the      *)
(* limit, on trees whose directories fit on a page.                          *)
IndexCounts ==
    /\ indexRun.entries <= IndexLimit
    /\ indexRun.status = "completed" /\ (\A dir \in Names \cup {0} : ChildrenOf(dir) = FirstPage(dir)) =>
          indexRun.entries = IF Cardinality(AllIndexable) <= IndexLimit THEN Cardinality(AllIndexable)
                             ELSE IndexLimit
=============================================================================
