---------------------------- MODULE PlanCompiler ----------------------------
(***************************************************************************)
(* Plan compilation: the fold of a parsed plan with its checks CE-02 and   *)
(* CE-04 to CE-09 (compile.rs), the engine's own checks and wave           *)
(* construction (engine.rs), Kahn levels and the search that names the     *)
(* cycle of CE-03 (waves.rs).                                              *)
(*                                                                         *)
(* A plan is what these tell apart: stage ids, edges by where they were    *)
(* written, routers, the declared pattern, and whether profiles, task,     *)
(* flow grammar and budget are well formed.  The seeded order inside a     *)
(* wave is any order, and the search visits nodes in any order, so nothing *)
(* here depends on the seed or on how ids sort.                            *)
(***************************************************************************)
EXTENDS Integers, FiniteSets, Functions, WaveOrder

CONSTANTS
  Names,      \* the names a plan may mention
  RawPlans    \* the parsed plans of an instance

Patterns == {"sequential", "parallel", "swarm", "graph"}

(* RawPlan: what YAML parsing hands to fold.  unprofiled, routers and the  *)
(* second halves of depends are stages, the other names may be anything.   *)
RawPlan ==
  [ids : Seq(Names), unprofiled : SUBSET Names, routers : SUBSET Names, task : BOOLEAN,
   depends : SUBSET (Names \X Names), flow : SUBSET (Names \X Names), flowOk : BOOLEAN,
   edges : SUBSET (Names \X Names), budgetOk : BOOLEAN, pattern : Patterns \cup {"none"}]

ASSUME PlansAssumption ==
  /\ IsFiniteSet(Names)
  /\ RawPlans \subseteq RawPlan
  /\ \A r \in RawPlans :
       r.unprofiled \cup r.routers \cup {e[2] : e \in r.depends} \subseteq Members(r.ids)

(* The canonical plan; nodes is the set the engine makes of the ids. *)
Plan ==
  [ids : Seq(Names), nodes : SUBSET Names, edges : SUBSET (Names \X Names),
   routers : SUBSET Names, task : BOOLEAN, pattern : Patterns]

VARIABLES
  pc,       \* fold, compile, waves, search or done
  raw,      \* the parsed plan
  plan,     \* the canonical plan, once folded
  result,   \* "none" while compiling, then "ok" or an error code
  waves,    \* build_waves: the waves so far
  built,    \* build_waves: the nodes in them (its set done)
  starts,   \* extract_cycle: start nodes not tried yet
  color,    \* dfs: color of each node
  path,     \* dfs: the nodes being visited, outermost first
  todo,     \* dfs: for each of them, the successors not tried yet
  cycle     \* the path that CE-03 reports

vars == <<pc, raw, plan, result, waves, built, starts, color, path, todo, cycle>>
waveVars == <<waves, built>>
searchVars == <<starts, color, path, todo, cycle>>

NoPlan == [ids |-> <<>>, nodes |-> {}, edges |-> {}, routers |-> {}, task |-> FALSE,
           pattern |-> "graph"]

Init ==
  /\ pc = "fold"
  /\ raw \in RawPlans
  /\ plan = NoPlan
  /\ result = "none"
  /\ waves = <<>> /\ built = {}
  /\ starts = {} /\ color = [n \in Names |-> "white"]
  /\ path = <<>> /\ todo = <<>> /\ cycle = <<>>

-----------------------------------------------------------------------------
(* The shape of a plan. *)

Duplicates(ids) == \E i, j \in 1..Len(ids) : i # j /\ ids[i] = ids[j]

Preds(edges, n) == {e[1] : e \in {f \in edges : f[2] = n}}
Succs(edges, n) == {e[2] : e \in {f \in edges : f[1] = n}}

(* No node has two predecessors or two successors, and there is one edge   *)
(* less than nodes.                                                        *)
Linear(nodes, edges) ==
  /\ \A n \in nodes : Cardinality(Preds(edges, n)) <= 1 /\ Cardinality(Succs(edges, n)) <= 1
  /\ Cardinality(edges) + 1 = Cardinality(nodes)

(* check_pattern. *)
Fits(pattern, nodes, edges, routers) ==
  CASE pattern = "sequential" ->
         /\ Linear(nodes, edges)
         /\ Cardinality({n \in nodes : Preds(edges, n) = {}}) = 1
    [] pattern = "parallel"   -> edges = {}
    [] pattern = "swarm"      -> routers \cap nodes # {}
    [] pattern = "graph"      -> TRUE

(* Mutant: any plan with one edge less than nodes is taken for a path. *)
HastyInferred(nodes, edges, routers) ==
  IF edges = {} THEN "parallel"
  ELSE IF Cardinality(edges) + 1 = Cardinality(nodes) THEN "sequential"
  ELSE IF routers \cap nodes # {} THEN "swarm"
  ELSE "graph"

(* infer_pattern: the most specific template that fits. *)
Inferred(nodes, edges, routers) ==
  IF edges = {} THEN "parallel"
  ELSE IF Linear(nodes, edges) THEN "sequential"
  ELSE IF routers \cap nodes # {} THEN "swarm"
  ELSE "graph"

(* The edge union of fold. *)
AllEdges(r) == r.edges \cup r.depends \cup r.flow

Dangling(nodes, edges) == \E e \in edges : e[1] \notin nodes \/ e[2] \notin nodes

(* fold: its checks in their fixed order, the first error wins. *)
FoldError(r) ==
  LET nodes == Members(r.ids) IN
  IF Duplicates(r.ids) THEN "CE-08"
  ELSE IF nodes \cap r.unprofiled # {} THEN "CE-06"
  ELSE IF ~r.task THEN "CE-05"
  ELSE IF ~r.flowOk THEN "CE-04"
  ELSE IF Dangling(nodes, AllEdges(r)) THEN "CE-02"
  ELSE IF ~r.budgetOk THEN "CE-09"
  ELSE IF r.pattern # "none" /\ ~Fits(r.pattern, nodes, AllEdges(r), r.routers) THEN "CE-07"
  ELSE "none"

(* fold: the canonical plan of a raw plan without errors. *)
Folded(r) ==
  LET nodes == Members(r.ids) IN
  [ids |-> r.ids, nodes |-> nodes, edges |-> AllEdges(r), routers |-> r.routers,
   task |-> r.task,
   pattern |-> IF r.pattern = "none" THEN Inferred(nodes, AllEdges(r), r.routers)
               ELSE r.pattern]

(* DeterministicEngine::compile: its own checks, in its own order. *)
CompileError(p) ==
  IF ~p.task THEN "CE-05"
  ELSE IF Duplicates(p.ids) THEN "CE-08"
  ELSE IF Dangling(p.nodes, p.edges) THEN "CE-02"
  ELSE IF ~Fits(p.pattern, p.nodes, p.edges, p.routers) THEN "CE-07"
  ELSE "none"

-----------------------------------------------------------------------------

Answer(r) == pc' = "done" /\ result' = r

Fold ==
  /\ pc = "fold"
  /\ \/ /\ FoldError(raw) # "none"
        /\ Answer(FoldError(raw))
        /\ UNCHANGED plan
     \/ /\ FoldError(raw) = "none"
        /\ plan' = Folded(raw)
        /\ pc' = "compile"
        /\ UNCHANGED result
  /\ UNCHANGED <<raw, waveVars, searchVars>>

Compile ==
  /\ pc = "compile"
  /\ IF CompileError(plan) # "none" THEN Answer(CompileError(plan))
     ELSE pc' = "waves" /\ UNCHANGED result
  /\ UNCHANGED <<raw, plan, waveVars, searchVars>>

Remaining == plan.nodes \ built

(* Mutant: a node is ready as soon as one predecessor is done. *)
EagerLevel ==
  {n \in Remaining : Preds(plan.edges, n) = {} \/ Preds(plan.edges, n) \cap built # {}}

(* Level: every remaining node whose predecessors are all done. *)
Level == {n \in Remaining : Preds(plan.edges, n) \subseteq built}

(* The draws of the seeded PRNG and the sort by (draw, id): some order. *)
Orders(S) == Bijection(1..Cardinality(S), S)

(* build_waves, one turn of its loop. *)
BuildWave ==
  /\ pc = "waves" /\ Level # {}
  /\ \E order \in Orders(Level) : waves' = Append(waves, order)
  /\ built' = built \cup Level
  /\ UNCHANGED <<pc, raw, plan, result, searchVars>>

WavesBuilt ==
  /\ pc = "waves" /\ Remaining = {}
  /\ Answer("ok")
  /\ UNCHANGED <<raw, plan, waveVars, searchVars>>

(* No level although nodes remain: extract_cycle starts over all nodes. *)
NoLevel ==
  /\ pc = "waves" /\ Remaining # {} /\ Level = {}
  /\ pc' = "search"
  /\ starts' = plan.nodes
  /\ UNCHANGED <<raw, plan, result, waveVars, color, path, todo, cycle>>

-----------------------------------------------------------------------------
(* dfs, with its recursion as the stack path / todo. *)

Top == path[Len(path)]
Untried == todo[Len(todo)]

Visit(n) ==
  /\ color' = [color EXCEPT ![n] = "in_progress"]
  /\ path' = Append(path, n)

(* extract_cycle: the next start; dfs returns at once on a DONE one. *)
Start(n) ==
  /\ pc = "search" /\ path = <<>> /\ n \in starts
  /\ starts' = starts \ {n}
  /\ IF color[n] = "done" THEN UNCHANGED <<color, path, todo>>
     ELSE Visit(n) /\ todo' = <<Succs(plan.edges, n)>>
  /\ UNCHANGED <<pc, raw, plan, result, waveVars, cycle>>

(* The next successor of the innermost node: skip it, or descend. *)
Try(n) ==
  LET rest == [todo EXCEPT ![Len(todo)] = @ \ {n}] IN
  /\ pc = "search" /\ path # <<>> /\ n \in Untried
  /\ color[n] # "in_progress"
  /\ IF color[n] = "done" THEN todo' = rest /\ UNCHANGED <<color, path>>
     ELSE Visit(n) /\ todo' = Append(rest, Succs(plan.edges, n))
  /\ UNCHANGED <<pc, raw, plan, result, waveVars, starts, cycle>>

(* Mutant: the whole path is reported, with the way into the cycle. *)
UntrimmedFrom(n) == path

(* The path, trimmed so that it starts at n. *)
From(n) ==
  LET pos == CHOOSE i \in 1..Len(path) : path[i] = n /\ \A j \in 1..(i - 1) : path[j] # n
  IN  SubSeq(path, pos, Len(path))

(* A successor that is in progress closes a cycle. *)
Close(n) ==
  /\ pc = "search" /\ path # <<>> /\ n \in Untried
  /\ color[n] = "in_progress"
  /\ cycle' = From(n)
  /\ Answer("CE-03")
  /\ UNCHANGED <<raw, plan, waveVars, starts, color, path, todo>>

(* Every successor of the innermost node was tried in vain. *)
Leave ==
  /\ pc = "search" /\ path # <<>> /\ Untried = {}
  /\ color' = [color EXCEPT ![Top] = "done"]
  /\ path' = SubSeq(path, 1, Len(path) - 1)
  /\ todo' = SubSeq(todo, 1, Len(todo) - 1)
  /\ UNCHANGED <<pc, raw, plan, result, waveVars, starts, cycle>>

(* "<cycle detected but path extraction failed>": no start found a cycle.  *)
(* ChecksAgree says that the engine never gets here.                       *)
Exhausted == pc = "search" /\ path = <<>> /\ starts = {}

Next ==
  \/ Fold \/ Compile \/ BuildWave \/ WavesBuilt \/ NoLevel
  \/ \E n \in Names : Start(n) \/ Try(n) \/ Close(n)
  \/ Leave

Spec == Init /\ [][Next]_vars

-----------------------------------------------------------------------------

TypeOK ==
  /\ pc \in {"fold", "compile", "waves", "search", "done"}
  /\ raw \in RawPlan
  /\ plan \in Plan
  /\ result \in {"none", "ok", "CE-02", "CE-03", "CE-04", "CE-05", "CE-06", "CE-07", "CE-08",
                 "CE-09"}
  /\ waves \in Seq(Seq(Names))
  /\ built \subseteq Names /\ starts \subseteq Names
  /\ color \in [Names -> {"white", "in_progress", "done"}]
  /\ path \in Seq(Names) /\ todo \in Seq(SUBSET Names) /\ cycle \in Seq(Names)

(* A plan that compiles has sound waves, whatever the seed: they place     *)
(* every node once and every edge leads to a later wave, which is what     *)
(* SessionRunner assumes.                                                  *)
WavesSound == result = "ok" => SoundWaves(waves, plan.nodes, plan.edges)

(* CE-03 names a real cycle: each node of the reported path leads to the   *)
(* next and the last one back to the first, with no node of the way in.    *)
CycleReal ==
  result = "CE-03" =>
    /\ cycle # <<>>
    /\ \A i \in 1..Len(cycle) :
         <<cycle[i], cycle[IF i = Len(cycle) THEN 1 ELSE i + 1]>> \in plan.edges
    /\ \A i, j \in 1..Len(cycle) : cycle[i] = cycle[j] => i = j

(* The checks agree with each other and with what runs: the engine rejects *)
(* a folded plan for a cycle only, and the search then always finds one,   *)
(* so "path extraction failed" is never said; a plan without a pattern     *)
(* never fails CE-07, because the inferred one always fits (infer_pattern  *)
(* does not count the roots, check_pattern does); and the template is the  *)
(* shape of the waves, one node each when sequential, at most one wave     *)
(* when parallel.                                                          *)
ChecksAgree ==
  /\ plan # NoPlan => result \in {"none", "ok", "CE-03"}
  /\ ~Exhausted
  /\ raw.pattern = "none" => result # "CE-07"
  /\ result = "ok" /\ plan.pattern = "sequential" => \A w \in 1..Len(waves) : Len(waves[w]) = 1
  /\ result = "ok" /\ plan.pattern = "parallel" => Len(waves) <= 1

=============================================================================
