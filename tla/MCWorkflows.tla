---------------------------- MODULE MCWorkflows ----------------------------
(* Instance of Workflows for TLC.                                            *)
EXTENDS Workflows, TLC

\* Workflows: names with one identifier, shared activities, circles, and
\* documents that are refused for one reason each
Act(n, d) == [name |-> n, dependsOn |-> d, good |-> TRUE]
MCDocuments == {
  [name |-> "W", namespace |-> "n", activities |-> {Act("Fetch", {}), Act("Sort", {"Fetch"})}],
  [name |-> "X", namespace |-> "n", activities |-> {Act("Merge", {"Plot"}), Act("Plot", {"Merge"})}],
  [name |-> "X", namespace |-> "m", activities |-> {}],
  [name |-> "Y", namespace |-> "n", activities |-> {Act("fetch", {}), Act("Load", {"fetch"})}],
  [name |-> "Y", namespace |-> "m", activities |-> {Act("Plot", {"Plot"})}],
  [name |-> "Z", namespace |-> "n", activities |-> {Act("Load", {}), Act("load", {"Load"})}],
  [name |-> "Z", namespace |-> "n", activities |-> {Act("Load", {}), Act("Load", {"Load"})}],
  [name |-> "Z", namespace |-> "k", activities |-> {[Act("Load", {}) EXCEPT !.good = FALSE]}],
  [name |-> "Z", namespace |-> "", activities |-> {Act("Load", {})}],
  [name |-> "Z", namespace |-> "m", activities |-> {Act("Merge", {"Sort"})}] }
MCSlug ==
  "W" :> "w" @@ "X" :> "x" @@ "Y" :> "y" @@ "Z" :> "z" @@ "C" :> "c" @@ "D" :> "d" @@ "--" :> "" @@
  "Fetch" :> "fetch" @@ "fetch" :> "fetch" @@ "Sort" :> "sort" @@ "Load" :> "load" @@ "load" :> "load" @@
  "Merge" :> "merge" @@ "Plot" :> "plot"
=============================================================================
