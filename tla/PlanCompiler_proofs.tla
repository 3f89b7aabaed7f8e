------------------------ MODULE PlanCompiler_proofs ------------------------
(***************************************************************************)
(* For every plan: what build_waves returns is sound, and what CE-03 names *)
(* is a cycle.  The waves are sound for the nodes built so far because the *)
(* predecessors of a built node are built; the path of the search is a     *)
(* path of the plan because each node on it is in progress and its untried *)
(* successors are successors.  The search finds its cycle because the      *)
(* nodes it has left hold none, and the nodes without a level hold one.    *)
(***************************************************************************)
EXTENDS PlanCompiler, FiniteSetTheorems, SequenceTheorems, TLAPS

(* build_waves, at the head of its loop. *)
WaveInv ==
  /\ built \subseteq plan.nodes
  /\ SoundWaves(waves, built, plan.edges)
  /\ \A n \in built : Preds(plan.edges, n) \subseteq built
  /\ pc \in {"fold", "compile"} => waves = <<>> /\ built = {}
  /\ result = "ok" => built = plan.nodes

(* dfs, between two successors. *)
SearchInv ==
  /\ Len(path) = Len(todo)
  /\ pc \in {"fold", "compile", "waves"} => path = <<>>
  /\ \A n \in Names : color[n] = "in_progress" <=> \E i \in 1..Len(path) : path[i] = n
  /\ \A i, j \in 1..Len(path) : path[i] = path[j] => i = j
  /\ \A i \in 1..(Len(path) - 1) : <<path[i], path[i + 1]>> \in plan.edges
  /\ \A i \in 1..Len(path) : todo[i] \subseteq Succs(plan.edges, path[i])
  /\ pc # "done" => result = "none"

IInv == TypeOK /\ WaveInv /\ SearchInv /\ CycleReal

-----------------------------------------------------------------------------

LEMMA MembersType ==
  ASSUME NEW S, NEW s \in Seq(S)
  PROVE  Members(s) \subseteq S
  BY DEF Members

(* No waves are sound waves of no nodes. *)
LEMMA EmptyWaves == ASSUME NEW edges PROVE SoundWaves(<<>>, {}, edges)
  BY DEF SoundWaves

(* A nonempty order of a finite set of new nodes, appended to sound waves, *)
(* leaves them sound, when no edge leads from a new node to an old or to   *)
(* another new one.                                                        *)
LEMMA AppendWave ==
  ASSUME NEW ws, NEW old, NEW new, NEW edges, NEW order,
         SoundWaves(ws, old, edges),
         IsFiniteSet(new), new # {}, new \cap old = {},
         order \in Orders(new),
         \A x \in new, y \in old \cup new : <<x, y>> \notin edges
  PROVE  SoundWaves(Append(ws, order), old \cup new, edges)
  <1> DEFINE all == old \cup new
             ws2 == Append(ws, order)
             last == Len(ws) + 1
  <1>1. Cardinality(new) \in Nat /\ Cardinality(new) > 0
    BY FS_CardinalityType, FS_EmptySet
  <1>2. /\ order \in [1..Cardinality(new) -> new]
        /\ \A i, j \in 1..Cardinality(new) : order[i] = order[j] => i = j
        /\ \A n \in new : \E i \in 1..Cardinality(new) : order[i] = n
    BY DEF Orders, Bijection, Injection, Surjection, IsInjective
  <1>3. order \in Seq(new) /\ Len(order) = Cardinality(new)
    BY <1>1, <1>2
  <1>4. order \in Seq(all) /\ \A i \in 1..Len(order) : order[i] \in new
    BY <1>2, <1>3
  <1>5. /\ ws \in Seq(Seq(old)) /\ ws \in Seq(Seq(all))
        /\ \A w \in 1..Len(ws) : ws[w] \in Seq(old)
    <2>1. ws \in Seq(Seq(old))
      BY DEF SoundWaves
    <2>2. \A w \in 1..Len(ws) : ws[w] \in Seq(old)
      BY <2>1
    <2>3. ASSUME NEW s \in Seq(old) PROVE s \in Seq(all)
      <3>1. Len(s) \in Nat /\ s \in [1..Len(s) -> all]
        OBVIOUS
      <3> QED
        BY <3>1
    <2>4. \A w \in 1..Len(ws) : ws[w] \in Seq(all)
      BY <2>2, <2>3
    <2>5. Len(ws) \in Nat /\ ws \in [1..Len(ws) -> Seq(all)]
      BY <2>1, <2>4
    <2> QED
      BY <2>1, <2>2, <2>5
  <1>6. /\ ws2 \in Seq(Seq(all))
        /\ Len(ws2) = last /\ Len(ws) \in Nat
        /\ \A w \in 1..Len(ws) : ws2[w] = ws[w]
        /\ ws2[last] = order
    BY <1>4, <1>5, AppendProperties
  <1>7. \A w \in 1..Len(ws2) : w \in 1..Len(ws) \/ w = last
    BY <1>6
  <1>8. \A w \in 1..Len(ws) : \A i \in 1..Len(ws2[w]) : ws2[w][i] \in old
    BY <1>5, <1>6
  <1>9. \A i \in 1..Len(ws2[last]) : ws2[last][i] \in new
    BY <1>4, <1>6
  <1> HIDE DEF ws2, last, all
  <1>10. \A w \in 1..Len(ws2) : Len(ws2[w]) > 0
    BY <1>1, <1>3, <1>6, <1>7 DEF SoundWaves
  <1>11. ASSUME NEW n \in all PROVE \E w \in 1..Len(ws2) : n \in Members(ws2[w])
    <2>1. CASE n \in old
      <3>1. PICK w \in 1..Len(ws) : n \in Members(ws[w])
        BY <2>1 DEF SoundWaves
      <3>2. w \in 1..Len(ws2) /\ ws2[w] = ws[w]
        BY <1>6 DEF last
      <3> QED
        BY <3>1, <3>2
    <2>2. CASE n \in new
      <3>1. n \in Members(order)
        BY <2>2, <1>2, <1>3 DEF Members
      <3>2. last \in 1..Len(ws2)
        BY <1>6 DEF last
      <3> QED
        BY <3>1, <3>2, <1>6
    <2> QED
      BY <2>1, <2>2 DEF all
  <1>12. ASSUME NEW v \in 1..Len(ws2), NEW w \in 1..Len(ws2),
                NEW i \in 1..Len(ws2[v]), NEW j \in 1..Len(ws2[w])
         PROVE  /\ ws2[v][i] = ws2[w][j] => v = w /\ i = j
                /\ <<ws2[v][i], ws2[w][j]>> \in edges => v < w
    <2>1. CASE v \in 1..Len(ws) /\ w \in 1..Len(ws)
      <3>1. ws2[v] = ws[v] /\ ws2[w] = ws[w]
        BY <2>1, <1>6
      <3>2. i \in 1..Len(ws[v]) /\ j \in 1..Len(ws[w])
        BY <3>1
      <3>3. /\ ws[v][i] = ws[w][j] => v = w /\ i = j
            /\ <<ws[v][i], ws[w][j]>> \in edges => v < w
        BY <2>1, <3>2 DEF SoundWaves
      <3> QED
        BY <3>1, <3>3
    <2>2. CASE v \in 1..Len(ws) /\ w = last
      <3>1. ws2[v][i] \in old /\ ws2[w][j] \in new
        BY <2>2, <1>8, <1>9
      <3>2. v < w
        BY <2>2, <1>6 DEF last
      <3> QED
        BY <3>1, <3>2
    <2>3. CASE v = last /\ w \in 1..Len(ws)
      <3>1. ws2[v][i] \in new /\ ws2[w][j] \in old
        BY <2>3, <1>8, <1>9
      <3> QED
        BY <3>1
    <2>4. CASE v = last /\ w = last
      <3>1. ws2[v][i] \in new /\ ws2[w][j] \in new
        BY <2>4, <1>9
      <3>2. ws2[v][i] = ws2[w][j] => i = j
        BY <2>4, <1>2, <1>3, <1>6
      <3> QED
        BY <3>1, <3>2, <2>4
    <2> QED
      BY <1>7, <2>1, <2>2, <2>3, <2>4
  <1> DEFINE Same(v, w, i, j) == ws2[v][i] = ws2[w][j] => v = w /\ i = j
  <1> DEFINE Later(v, w, i, j) == <<ws2[v][i], ws2[w][j]>> \in edges => v < w
  <1>13. ASSUME NEW v \in 1..Len(ws2), NEW w \in 1..Len(ws2),
                NEW i \in 1..Len(ws2[v]), NEW j \in 1..Len(ws2[w])
         PROVE  Same(v, w, i, j) /\ Later(v, w, i, j)
    BY <1>12, Zenon
  <1> HIDE DEF Same, Later
  <1>14. \A v, w \in 1..Len(ws2) : \A i \in 1..Len(ws2[v]), j \in 1..Len(ws2[w]) :
           Same(v, w, i, j)
    BY <1>13, Zenon
  <1>15. \A v, w \in 1..Len(ws2) : \A i \in 1..Len(ws2[v]), j \in 1..Len(ws2[w]) :
           Later(v, w, i, j)
    BY <1>13, Zenon
  <1>16. SoundWaves(ws2, all, edges)
    BY <1>6, <1>10, <1>11, <1>14, <1>15 DEF SoundWaves, Same, Later
  <1> QED
    BY <1>16 DEF ws2, all

(* The plan that fold makes has the type of a plan. *)
LEMMA FoldedType == ASSUME NEW r \in RawPlan PROVE Folded(r) \in Plan
  <1>1. Members(r.ids) \subseteq Names
    BY MembersType DEF RawPlan
  <1>2. AllEdges(r) \subseteq Names \X Names
    BY DEF RawPlan, AllEdges
  <1>3. ASSUME NEW n, NEW e, NEW ro PROVE Inferred(n, e, ro) \in Patterns
    BY DEF Inferred, Patterns
  <1> QED
    BY <1>1, <1>2, <1>3 DEF Folded, Plan, RawPlan

LEMMA InitIInv == Init => IInv
  <1> SUFFICES ASSUME Init PROVE IInv
    OBVIOUS
  <1> USE DEF Init
  <1>1. NoPlan \in Plan
    BY DEF NoPlan, Plan, Patterns
  <1>2. TypeOK
    BY <1>1, PlansAssumption DEF TypeOK
  <1>3. WaveInv
    BY EmptyWaves DEF WaveInv, NoPlan
  <1>4. SearchInv
    BY DEF SearchInv
  <1>5. CycleReal
    BY DEF CycleReal
  <1> QED
    BY <1>2, <1>3, <1>4, <1>5 DEF IInv

LEMMA FoldIInv == ASSUME IInv, Fold PROVE IInv'
  <1> USE DEF IInv
  <1>1. raw \in RawPlan /\ Folded(raw) \in Plan
    BY FoldedType DEF TypeOK
  <1>2. /\ waves = <<>> /\ built = {} /\ path = <<>> /\ todo \in Seq(SUBSET Names)
        /\ Len(todo) = 0 /\ result = "none"
    BY DEF Fold, WaveInv, SearchInv, TypeOK
  <1>3. UNCHANGED <<raw, waves, built, starts, color, path, todo, cycle>>
    BY DEF Fold, waveVars, searchVars
  <1>4. plan' \in Plan /\ pc' \in {"compile", "done"}
    BY <1>1 DEF Fold, Answer, TypeOK
  <1>5. result' \in {"none", "CE-02", "CE-04", "CE-05", "CE-06", "CE-07", "CE-08", "CE-09"}
        /\ (pc' = "compile" => result' = "none")
    BY <1>2 DEF Fold, Answer, FoldError
  <1>6. TypeOK'
    BY <1>3, <1>4, <1>5 DEF TypeOK
  <1>7. WaveInv'
    BY <1>2, <1>3, <1>5, EmptyWaves DEF WaveInv
  <1>8. SearchInv'
    BY <1>2, <1>3, <1>4, <1>5 DEF SearchInv
  <1>9. CycleReal'
    BY <1>5 DEF CycleReal
  <1> QED
    BY <1>6, <1>7, <1>8, <1>9

LEMMA CompileIInv == ASSUME IInv, Compile PROVE IInv'
  <1> USE DEF IInv
  <1>1. UNCHANGED <<raw, plan, waves, built, starts, color, path, todo, cycle>>
    BY DEF Compile, waveVars, searchVars
  <1>2. /\ result' \in {"none", "CE-02", "CE-05", "CE-07", "CE-08"}
        /\ pc' \in {"waves", "done"}
        /\ pc' = "waves" => result' = "none"
    BY DEF Compile, Answer, CompileError, SearchInv
  <1>3. TypeOK'
    BY <1>1, <1>2 DEF TypeOK
  <1>4. WaveInv'
    BY <1>1, <1>2 DEF WaveInv
  <1>5. SearchInv'
    <2>1. path = <<>>
      BY DEF Compile, SearchInv
    <2> QED
      BY <1>1, <1>2, <2>1 DEF SearchInv
  <1>6. CycleReal'
    BY <1>2 DEF CycleReal
  <1> QED
    BY <1>3, <1>4, <1>5, <1>6

(* A level has no edge into what is built or into itself. *)
LEMMA BuildWaveIInv == ASSUME IInv, BuildWave PROVE IInv'
  <1> USE DEF IInv
  <1>1. UNCHANGED <<pc, raw, plan, result, starts, color, path, todo, cycle>>
    BY DEF BuildWave, searchVars
  <1>2. PICK order \in Orders(Level) : waves' = Append(waves, order)
    BY DEF BuildWave
  <1>3. pc = "waves" /\ Level # {} /\ built' = built \cup Level /\ result = "none"
    BY DEF BuildWave, SearchInv
  <1>4. /\ Level \subseteq plan.nodes /\ Level \cap built = {}
        /\ plan.nodes \subseteq Names /\ IsFiniteSet(Level)
    <2>1. plan.nodes \subseteq Names
      BY DEF TypeOK, Plan
    <2>2. Level \subseteq plan.nodes /\ Level \cap built = {}
      BY DEF Level, Remaining
    <2> QED
      BY <2>1, <2>2, PlansAssumption, FS_Subset
  <1>5. ASSUME NEW x \in Level, NEW y \in built \cup Level
        PROVE  <<x, y>> \notin plan.edges
    <2>1. Preds(plan.edges, y) \subseteq built
      BY DEF WaveInv, Level
    <2>2. <<x, y>> \in plan.edges => x \in Preds(plan.edges, y)
      BY DEF Preds
    <2> QED
      BY <2>1, <2>2, <1>4
  <1>6. SoundWaves(waves', built', plan.edges)
    BY <1>2, <1>3, <1>4, <1>5, AppendWave DEF WaveInv
  <1>7. WaveInv'
    <2>1. \A n \in built' : Preds(plan.edges, n) \subseteq built'
      BY <1>3 DEF WaveInv, Level
    <2> QED
      BY <1>1, <1>3, <1>4, <1>6, <2>1 DEF WaveInv
  <1>8. TypeOK'
    <2>1. waves' \in Seq(Seq(Names))
      <3>1. order \in Seq(Names)
        <4>1. Cardinality(Level) \in Nat
          BY <1>4, FS_CardinalityType
        <4>2. order \in [1..Cardinality(Level) -> Names]
          BY <1>2, <1>4 DEF Orders, Bijection, Injection
        <4> QED
          BY <4>1, <4>2
      <3> QED
        BY <1>2, <3>1 DEF TypeOK
    <2> QED
      BY <1>1, <1>3, <1>4, <2>1 DEF TypeOK
  <1>9. SearchInv' /\ CycleReal'
    BY <1>1 DEF SearchInv, CycleReal
  <1> QED
    BY <1>7, <1>8, <1>9

LEMMA WavesBuiltIInv == ASSUME IInv, WavesBuilt PROVE IInv'
  <1> USE DEF IInv
  <1>1. /\ UNCHANGED <<raw, plan, waves, built, starts, color, path, todo, cycle>>
        /\ pc' = "done" /\ result' = "ok" /\ plan.nodes \subseteq built
    BY DEF WavesBuilt, waveVars, searchVars, Answer, Remaining
  <1>2. TypeOK'
    BY <1>1 DEF TypeOK
  <1>3. WaveInv'
    BY <1>1 DEF WaveInv
  <1>4. SearchInv' /\ CycleReal'
    BY <1>1 DEF SearchInv, CycleReal
  <1> QED
    BY <1>2, <1>3, <1>4

LEMMA NoLevelIInv == ASSUME IInv, NoLevel PROVE IInv'
  <1> USE DEF IInv
  <1>1. /\ UNCHANGED <<raw, plan, result, waves, built, color, path, todo, cycle>>
        /\ pc = "waves" /\ pc' = "search" /\ starts' = plan.nodes
    BY DEF NoLevel, waveVars
  <1>2. TypeOK'
    BY <1>1 DEF TypeOK, Plan
  <1>3. WaveInv'
    BY <1>1 DEF WaveInv
  <1>4. SearchInv' /\ CycleReal'
    BY <1>1 DEF SearchInv, CycleReal
  <1> QED
    BY <1>2, <1>3, <1>4

(* A successor is reached by an edge of the plan. *)
LEMMA SuccEdge ==
  ASSUME NEW edges \in SUBSET (Names \X Names), NEW n, NEW m \in Succs(edges, n)
  PROVE  <<n, m>> \in edges /\ m \in Names
  <1>1. PICK e \in edges : e[1] = n /\ e[2] = m
    BY DEF Succs
  <1>2. e = <<e[1], e[2]>> /\ e[2] \in Names
    BY <1>1
  <1> QED
    BY <1>1, <1>2

(* What a search step may rely on while a node is being visited. *)
LEMMA Visiting ==
  ASSUME IInv, path # <<>>
  PROVE  /\ Len(path) \in Nat /\ Len(path) > 0 /\ Len(todo) = Len(path)
         /\ path \in Seq(Names) /\ todo \in Seq(SUBSET Names)
         /\ Top = path[Len(path)] /\ Top \in Names /\ Untried \in SUBSET Names
         /\ \A n \in Untried : n \in Names /\ <<Top, n>> \in plan.edges
  <1>1. /\ path \in Seq(Names) /\ todo \in Seq(SUBSET Names) /\ Len(todo) = Len(path)
        /\ plan.edges \in SUBSET (Names \X Names)
    BY DEF IInv, TypeOK, SearchInv, Plan
  <1>2. Len(path) \in Nat /\ Len(path) > 0
    BY <1>1
  <1>3. /\ Top = path[Len(path)] /\ Top \in Names
        /\ Untried = todo[Len(path)] /\ Untried \in SUBSET Names
    BY <1>1, <1>2 DEF Top, Untried
  <1>4. Untried \subseteq Succs(plan.edges, Top)
    BY <1>2, <1>3 DEF IInv, SearchInv
  <1> QED
    BY <1>1, <1>2, <1>3, <1>4, SuccEdge

LEMMA StartIInv == ASSUME IInv, NEW n \in Names, Start(n) PROVE IInv'
  <1> USE DEF IInv
  <1>1. /\ UNCHANGED <<pc, raw, plan, result, waves, built, cycle>>
        /\ starts' = starts \ {n} /\ path = <<>> /\ pc = "search"
    BY DEF Start, waveVars
  <1>2. WaveInv' /\ CycleReal'
    BY <1>1 DEF WaveInv, CycleReal
  <1>3. CASE color[n] = "done"
    <2>1. UNCHANGED <<color, path, todo>>
      BY <1>3 DEF Start
    <2> QED
      BY <1>1, <1>2, <2>1 DEF TypeOK, SearchInv
  <1>4. CASE color[n] # "done"
    <2> DEFINE succs == Succs(plan.edges, n)
    <2>1. /\ color' = [color EXCEPT ![n] = "in_progress"]
          /\ path' = <<n>> /\ todo' = <<succs>>
      BY <1>1, <1>4 DEF Start, Visit
    <2>2. succs \subseteq Names
      BY SuccEdge DEF TypeOK, Plan
    <2>3. TypeOK'
      BY <1>1, <2>1, <2>2 DEF TypeOK
    <2>4. Len(path') = 1 /\ Len(todo') = 1 /\ path'[1] = n /\ todo'[1] = succs
      BY <2>1
    <2>5. \A m \in Names : color'[m] = "in_progress" <=> \E i \in 1..Len(path') : path'[i] = m
      BY <1>1, <2>1, <2>4 DEF SearchInv, TypeOK
    <2>6. SearchInv'
      BY <1>1, <2>4, <2>5 DEF SearchInv
    <2> QED
      BY <1>2, <2>3, <2>6
  <1> QED
    BY <1>3, <1>4

LEMMA TryIInv == ASSUME IInv, NEW n \in Names, Try(n) PROVE IInv'
  <1> USE DEF IInv
  <1> DEFINE top == Len(path)
             rest == [todo EXCEPT ![Len(todo)] = @ \ {n}]
  <1>1. /\ UNCHANGED <<pc, raw, plan, result, waves, built, starts, cycle>>
        /\ path # <<>> /\ pc = "search" /\ n \in Untried /\ color[n] # "in_progress"
    BY DEF Try, waveVars
  <1>2. WaveInv' /\ CycleReal'
    BY <1>1 DEF WaveInv, CycleReal
  <1>3. /\ top \in Nat /\ top > 0 /\ Len(todo) = top
        /\ path \in Seq(Names) /\ todo \in Seq(SUBSET Names)
        /\ path[top] = Top /\ <<path[top], n>> \in plan.edges
    BY <1>1, Visiting
  <1>4. /\ rest \in Seq(SUBSET Names) /\ Len(rest) = top
        /\ \A i \in 1..top : rest[i] \subseteq todo[i]
    BY <1>3
  <1>5. \A i \in 1..top : rest[i] \subseteq Succs(plan.edges, path[i])
    BY <1>3, <1>4 DEF SearchInv
  <1> HIDE DEF rest, top
  <1>6. CASE color[n] = "done"
    <2>1. todo' = rest /\ UNCHANGED <<color, path>>
      BY <1>6 DEF Try, rest
    <2>2. TypeOK'
      BY <1>1, <1>4, <2>1 DEF TypeOK
    <2>3. SearchInv'
      BY <1>1, <1>3, <1>4, <1>5, <2>1 DEF SearchInv, top
    <2> QED
      BY <1>2, <2>2, <2>3
  <1>7. CASE color[n] # "done"
    <2> DEFINE succs == Succs(plan.edges, n)
    <2>1. /\ color' = [color EXCEPT ![n] = "in_progress"]
          /\ path' = Append(path, n) /\ todo' = Append(rest, succs)
      BY <1>7 DEF Try, Visit, rest
    <2>2. succs \in SUBSET Names
      BY SuccEdge DEF TypeOK, Plan
    <2>3. /\ path' \in Seq(Names) /\ Len(path') = top + 1 /\ path'[top + 1] = n
          /\ \A i \in 1..top : path'[i] = path[i]
      BY <1>3, <2>1 DEF top
    <2>4. /\ todo' \in Seq(SUBSET Names) /\ Len(todo') = top + 1 /\ todo'[top + 1] = succs
          /\ \A i \in 1..top : todo'[i] = rest[i]
      BY <1>4, <2>1, <2>2, AppendProperties
    <2>5. TypeOK'
      BY <1>1, <2>1, <2>3, <2>4 DEF TypeOK
    <2>6. \A i \in 1..top : path[i] # n
      BY <1>1 DEF SearchInv, top
    <2>7. \A i \in 1..(top + 1) : i \in 1..top \/ i = top + 1
      BY <1>3
    <2>8. \A m \in Names : color'[m] = "in_progress" <=> \E i \in 1..(top + 1) : path'[i] = m
      <3> SUFFICES ASSUME NEW m \in Names
                   PROVE  color'[m] = "in_progress" <=> \E i \in 1..(top + 1) : path'[i] = m
        OBVIOUS
      <3>0. top + 1 \in 1..(top + 1) /\ \A i \in 1..top : i \in 1..(top + 1)
        BY <1>3
      <3>1. CASE m = n
        BY <3>1, <2>1, <2>3, <3>0 DEF TypeOK
      <3>2. CASE m # n
        <4>1. color'[m] = color[m]
          BY <3>2, <2>1 DEF TypeOK
        <4>2. color[m] = "in_progress" <=> \E i \in 1..top : path[i] = m
          BY DEF SearchInv, top
        <4> QED
          BY <4>1, <4>2, <3>2, <2>3, <2>7, <3>0
      <3> QED
        BY <3>1, <3>2
    <2>9. ASSUME NEW i \in 1..(top + 1), NEW j \in 1..(top + 1), path'[i] = path'[j]
          PROVE  i = j
      <3>1. \A k, l \in 1..top : path[k] = path[l] => k = l
        BY DEF SearchInv, top
      <3> QED
        BY <2>3, <2>6, <2>7, <2>9, <3>1
    <2>10. ASSUME NEW i \in 1..top PROVE <<path'[i], path'[i + 1]>> \in plan.edges
      <3>1. CASE i = top
        BY <3>1, <1>3, <2>3
      <3>2. CASE i \in 1..(top - 1)
        <4>1. i \in 1..top /\ i + 1 \in 1..top
          BY <3>2, <1>3
        <4>2. <<path[i], path[i + 1]>> \in plan.edges
          BY <3>2 DEF SearchInv, top
        <4> QED
          BY <4>1, <4>2, <2>3
      <3> QED
        BY <3>1, <3>2, <1>3
    <2>11. ASSUME NEW i \in 1..(top + 1) PROVE todo'[i] \subseteq Succs(plan.edges, path'[i])
      BY <1>5, <2>3, <2>4, <2>7
    <2>12. SearchInv'
      <3>1. Len(path') = top + 1 /\ Len(todo') = top + 1 /\ Len(path') - 1 = top
        BY <1>3, <2>3, <2>4
      <3> QED
        BY <1>1, <2>8, <2>9, <2>10, <2>11, <3>1 DEF SearchInv
    <2> QED
      BY <1>2, <2>5, <2>12
  <1> QED
    BY <1>6, <1>7

LEMMA LeaveIInv == ASSUME IInv, Leave PROVE IInv'
  <1> USE DEF IInv
  <1> DEFINE top == Len(path)
  <1>1. /\ UNCHANGED <<pc, raw, plan, result, waves, built, starts, cycle>>
        /\ path # <<>> /\ pc = "search"
        /\ color' = [color EXCEPT ![Top] = "done"]
        /\ path' = SubSeq(path, 1, top - 1)
        /\ todo' = SubSeq(todo, 1, Len(todo) - 1)
    BY DEF Leave, waveVars
  <1>2. WaveInv' /\ CycleReal'
    BY <1>1 DEF WaveInv, CycleReal
  <1>3. /\ top \in Nat /\ top > 0 /\ Len(todo) = top
        /\ path \in Seq(Names) /\ todo \in Seq(SUBSET Names)
        /\ path[top] = Top /\ Top \in Names
    BY <1>1, Visiting
  <1>4. /\ path' \in Seq(Names) /\ Len(path') = top - 1
        /\ \A i \in 1..(top - 1) : path'[i] = path[i]
    BY <1>1, <1>3
  <1>5. /\ todo' \in Seq(SUBSET Names) /\ Len(todo') = top - 1
        /\ \A i \in 1..(top - 1) : todo'[i] = todo[i]
    BY <1>1, <1>3
  <1> HIDE DEF top
  <1>6. TypeOK'
    BY <1>1, <1>3, <1>4, <1>5 DEF TypeOK
  <1>7. \A i \in 1..(top - 1) : i \in 1..top /\ i # top
    BY <1>3
  <1>8. \A i \in 1..top : i \in 1..(top - 1) \/ i = top
    BY <1>3
  <1>9. \A k, l \in 1..top : path[k] = path[l] => k = l
    BY DEF SearchInv, top
  <1>10. \A m \in Names : color'[m] = "in_progress" <=> \E i \in 1..(top - 1) : path'[i] = m
    <2> SUFFICES ASSUME NEW m \in Names
                 PROVE  color'[m] = "in_progress" <=> \E i \in 1..(top - 1) : path'[i] = m
      OBVIOUS
    <2>1. color[m] = "in_progress" <=> \E i \in 1..top : path[i] = m
      BY DEF SearchInv, top
    <2>2. CASE m = Top
      <3>1. color'[m] = "done"
        BY <2>2, <1>1 DEF TypeOK
      <3>2. top \in 1..top
        BY <1>3
      <3> QED
        BY <3>1, <3>2, <2>2, <1>3, <1>4, <1>7, <1>9
    <2>3. CASE m # Top
      <3>1. color'[m] = color[m]
        BY <2>3, <1>1 DEF TypeOK
      <3> QED
        BY <3>1, <2>1, <2>3, <1>3, <1>4, <1>7, <1>8
    <2> QED
      BY <2>2, <2>3
  <1>11. \A i, j \in 1..(top - 1) : path'[i] = path'[j] => i = j
    BY <1>4, <1>7, <1>9
  <1>12. \A i \in 1..(top - 1) : todo'[i] \subseteq Succs(plan.edges, path'[i])
    BY <1>4, <1>5, <1>7 DEF SearchInv, top
  <1>13. ASSUME NEW i \in 1..((top - 1) - 1) PROVE <<path'[i], path'[i + 1]>> \in plan.edges
    <2>1. i \in 1..(top - 1) /\ i + 1 \in 1..(top - 1)
      BY <1>3
    <2>2. <<path[i], path[i + 1]>> \in plan.edges
      BY <2>1 DEF SearchInv, top
    <2> QED
      BY <2>1, <2>2, <1>4
  <1>14. SearchInv'
    BY <1>1, <1>4, <1>5, <1>10, <1>11, <1>12, <1>13 DEF SearchInv
  <1> QED
    BY <1>2, <1>6, <1>14

(* The path from the first occurrence of n on is a cycle: the edges of the *)
(* path, and the one that led back to n.                                   *)
LEMMA CloseIInv == ASSUME IInv, NEW n \in Names, Close(n) PROVE IInv'
  <1> USE DEF IInv
  <1> DEFINE top == Len(path)
             First(i) == path[i] = n /\ \A j \in 1..(i - 1) : path[j] # n
             pos == CHOOSE i \in 1..Len(path) : First(i)
  <1>1. /\ UNCHANGED <<raw, plan, waves, built, starts, color, path, todo>>
        /\ path # <<>> /\ n \in Untried /\ color[n] = "in_progress"
        /\ cycle' = From(n) /\ pc' = "done" /\ result' = "CE-03"
    BY DEF Close, waveVars, Answer
  <1>2. /\ top \in Nat /\ top > 0 /\ path \in Seq(Names)
        /\ <<path[top], n>> \in plan.edges
    BY <1>1, Visiting
  <1>3. PICK k \in 1..top : path[k] = n
    BY <1>1 DEF SearchInv
  <1>4. \A i, j \in 1..top : path[i] = path[j] => i = j
    BY DEF SearchInv
  <1>5. First(k)
    BY <1>2, <1>3, <1>4
  <1>6. pos \in 1..top /\ path[pos] = n
    <2> HIDE DEF First
    <2>1. pos \in 1..top /\ First(pos)
      BY <1>5
    <2> QED
      BY <2>1 DEF First
  <1>7. cycle' = SubSeq(path, pos, top)
    BY <1>1 DEF From
  <1> HIDE DEF pos, top, First
  <1>8. /\ cycle' \in Seq(Names) /\ Len(cycle') = top - pos + 1
        /\ \A i \in 1..(top - pos + 1) : cycle'[i] = path[pos + i - 1]
    BY <1>2, <1>6, <1>7 DEF top
  <1>9. CycleReal'
    <2>1. cycle' # <<>>
      BY <1>2, <1>6, <1>8
    <2>2. ASSUME NEW i \in 1..Len(cycle')
          PROVE  <<cycle'[i], cycle'[IF i = Len(cycle') THEN 1 ELSE i + 1]>> \in plan.edges
      <3>1. CASE i = Len(cycle')
        <4>1. /\ i = top - pos + 1 /\ pos + i - 1 = top
              /\ 1 \in 1..(top - pos + 1) /\ pos + 1 - 1 = pos
          BY <3>1, <1>2, <1>6, <1>8
        <4>2. cycle'[i] = path[top] /\ cycle'[1] = path[pos]
          BY <4>1, <1>8
        <4> QED
          BY <3>1, <4>2, <1>2, <1>6
      <3>2. CASE i # Len(cycle')
        <4>1. /\ i \in 1..(top - pos + 1) /\ i + 1 \in 1..(top - pos + 1)
              /\ pos + i - 1 \in 1..(top - 1) /\ pos + (i + 1) - 1 = (pos + i - 1) + 1
          BY <3>2, <1>2, <1>6, <1>8
        <4>2. cycle'[i] = path[pos + i - 1] /\ cycle'[i + 1] = path[(pos + i - 1) + 1]
          BY <4>1, <1>8
        <4>3. <<path[pos + i - 1], path[(pos + i - 1) + 1]>> \in plan.edges
          BY <4>1 DEF SearchInv, top
        <4> QED
          BY <3>2, <4>2, <4>3
      <3> QED
        BY <3>1, <3>2
    <2>3. ASSUME NEW i \in 1..Len(cycle'), NEW j \in 1..Len(cycle'), cycle'[i] = cycle'[j]
          PROVE  i = j
      <3>1. /\ i \in 1..(top - pos + 1) /\ j \in 1..(top - pos + 1)
            /\ pos + i - 1 \in 1..top /\ pos + j - 1 \in 1..top
        BY <1>2, <1>6, <1>8
      <3>2. pos + i - 1 = pos + j - 1
        BY <2>3, <3>1, <1>4, <1>8
      <3> QED
        BY <3>1, <3>2, <1>6
    <2> QED
      BY <1>1, <2>1, <2>2, <2>3 DEF CycleReal
  <1>10. TypeOK'
    BY <1>1, <1>8 DEF TypeOK
  <1>11. WaveInv' /\ SearchInv'
    BY <1>1 DEF WaveInv, SearchInv
  <1> QED
    BY <1>9, <1>10, <1>11

-----------------------------------------------------------------------------

LEMMA NextIInv == IInv /\ [Next]_vars => IInv'
  <1> SUFFICES ASSUME IInv, [Next]_vars PROVE IInv'
    OBVIOUS
  <1>1. CASE UNCHANGED vars
    <2>1. TypeOK'
      BY <1>1 DEF vars, IInv, TypeOK
    <2>2. WaveInv'
      BY <1>1 DEF vars, IInv, WaveInv
    <2>3. SearchInv' /\ CycleReal'
      BY <1>1 DEF vars, IInv, SearchInv, CycleReal
    <2> QED
      BY <2>1, <2>2, <2>3 DEF IInv
  <1>2. CASE Next
    <2>1. CASE Fold \/ Compile
      BY <2>1, FoldIInv, CompileIInv
    <2>2. CASE BuildWave \/ WavesBuilt \/ NoLevel
      BY <2>2, BuildWaveIInv, WavesBuiltIInv, NoLevelIInv
    <2>3. CASE \E n \in Names : Start(n) \/ Try(n) \/ Close(n)
      BY <2>3, StartIInv, TryIInv, CloseIInv
    <2>4. CASE Leave
      BY <2>4, LeaveIInv
    <2> QED
      BY <1>2, <2>1, <2>2, <2>3, <2>4 DEF Next
  <1> QED
    BY <1>1, <1>2

(* The invariant holds in every compilation. *)
THEOREM CompilerInvariant == Spec => []IInv
  BY InitIInv, NextIInv, PTL DEF Spec

(* The compiler's state always has its type: in particular the search      *)
(* stack of dfs and the seeded waves hold names of the plan only.          *)
THEOREM CompilerTypes == Spec => []TypeOK
  <1>1. IInv => TypeOK
    BY DEF IInv
  <1> QED
    BY <1>1, CompilerInvariant, PTL

(* Every plan that compiles has sound waves, under every seed              *)
(* (build_waves): the assumption SessionRunner makes of its plan.          *)
THEOREM CompiledWavesSound == Spec => []WavesSound
  <1>1. IInv => WavesSound
    BY DEF IInv, WaveInv, WavesSound
  <1> QED
    BY <1>1, CompilerInvariant, PTL

(* Whatever path CE-03 reports is a simple cycle of the plan               *)
(* (extract_cycle, dfs).                                                   *)
THEOREM ReportedCycleReal == Spec => []CycleReal
  <1>1. IInv => CycleReal
    BY DEF IInv
  <1> QED
    BY <1>1, CompilerInvariant, PTL

-----------------------------------------------------------------------------
(* The plan that fold accepted. *)
Accepted == plan = Folded(raw) /\ FoldError(raw) = "none"

(* What fold accepts, the engine's own checks accept. *)
Fitting ==
  /\ pc = "fold" => plan = NoPlan
  /\ pc \in {"compile", "waves", "search"} => Accepted
  /\ plan # NoPlan => result \in {"none", "ok", "CE-03"}
  /\ raw.pattern = "none" => result # "CE-07"

(* The shape of the waves under the two templates that have one. *)
Layered ==
  /\ plan.pattern = "sequential" /\ pc = "waves" => \A x, y \in Level : x = y
  /\ plan.pattern = "sequential" => \A w \in 1..Len(waves) : Len(waves[w]) = 1
  /\ plan.pattern = "parallel" => waves = <<>> \/ (Len(waves) = 1 /\ Remaining = {})

(* No node of S is without a predecessor in it. *)
Knotted(S) == \A n \in S : Preds(plan.edges, n) \cap S # {}

(* The nodes that dfs has left are closed under successors and hold no     *)
(* cycle, what it has tried of the others leads there or to the next node  *)
(* on the path, and it will try them all; but the nodes without a level    *)
(* hold a cycle.                                                           *)
Searched ==
  /\ pc \in {"fold", "compile", "waves"} => \A n \in Names : color[n] = "white"
  /\ \A n \in Names : color[n] = "done" => \A m \in Succs(plan.edges, n) : color[m] = "done"
  /\ \A S \in SUBSET Names : (\A n \in S : color[n] = "done") /\ Knotted(S) => S = {}
  /\ \A i \in 1..Len(path) : \A m \in Succs(plan.edges, path[i]) :
       m \in todo[i] \/ color[m] = "done" \/ (i < Len(path) /\ m = path[i + 1])
  /\ pc = "search" => \A n \in plan.nodes : n \in starts \/ color[n] # "white"
  /\ pc = "search" => Remaining # {} /\ Knotted(Remaining)

AInv == Fitting /\ Layered /\ Searched

(* A set of at most one element, and one of exactly one. *)
LEMMA OneMember ==
  ASSUME NEW S, IsFiniteSet(S), Cardinality(S) <= 1, NEW x \in S, NEW y \in S
  PROVE  x = y
<1>1. Cardinality(S) \in Nat /\ Cardinality(S) # 0
  BY FS_CardinalityType, FS_EmptySet
<1>2. Cardinality(S) = 1
  BY <1>1
<1>3. PICK z : S = {z}
  BY <1>2, FS_Singleton
<1> QED  BY <1>3

(* The predecessors and successors of a node of a plan. *)
LEMMA Neighbours ==
  ASSUME NEW nodes, IsFiniteSet(nodes), NEW edges \in SUBSET (nodes \X nodes), NEW n
  PROVE  /\ Preds(edges, n) \subseteq nodes /\ IsFiniteSet(Preds(edges, n))
         /\ Succs(edges, n) \subseteq nodes /\ IsFiniteSet(Succs(edges, n))
         /\ \A m : m \in Preds(edges, n) <=> <<m, n>> \in edges
         /\ \A m : m \in Succs(edges, n) <=> <<n, m>> \in edges
<1>1. \A m : m \in Preds(edges, n) <=> <<m, n>> \in edges
  <2>1. ASSUME NEW m, <<m, n>> \in edges PROVE m \in Preds(edges, n)
    <3>1. <<m, n>>[1] = m /\ <<m, n>>[2] = n
      OBVIOUS
    <3> QED  BY <2>1, <3>1 DEF Preds
  <2>2. ASSUME NEW m \in Preds(edges, n) PROVE <<m, n>> \in edges
    <3>1. PICK e \in edges : e[1] = m /\ e[2] = n
      BY DEF Preds
    <3>2. e = <<e[1], e[2]>>
      OBVIOUS
    <3> QED  BY <3>1, <3>2
  <2> QED  BY <2>1, <2>2
<1>2. \A m : m \in Succs(edges, n) <=> <<n, m>> \in edges
  <2>1. ASSUME NEW m, <<n, m>> \in edges PROVE m \in Succs(edges, n)
    <3>1. <<n, m>>[1] = n /\ <<n, m>>[2] = m
      OBVIOUS
    <3> QED  BY <2>1, <3>1 DEF Succs
  <2>2. ASSUME NEW m \in Succs(edges, n) PROVE <<n, m>> \in edges
    <3>1. PICK e \in edges : e[1] = n /\ e[2] = m
      BY DEF Succs
    <3>2. e = <<e[1], e[2]>>
      OBVIOUS
    <3> QED  BY <3>1, <3>2
  <2> QED  BY <2>1, <2>2
<1>3. \A a, b : <<a, b>> \in edges => a \in nodes /\ b \in nodes
  OBVIOUS
<1>4. Preds(edges, n) \subseteq nodes /\ Succs(edges, n) \subseteq nodes
  BY <1>1, <1>2, <1>3
<1> QED  BY <1>1, <1>2, <1>4, FS_Subset

(* A path has one root: every edge leads to a node of its own, and there   *)
(* is one edge less than nodes (check_pattern counts the roots,            *)
(* infer_pattern does not).                                                *)
LEMMA LinearRoot ==
  ASSUME NEW nodes, IsFiniteSet(nodes), NEW edges \in SUBSET (nodes \X nodes), Linear(nodes, edges)
  PROVE  Cardinality({n \in nodes : Preds(edges, n) = {}}) = 1
<1> DEFINE heads == {n \in nodes : Preds(edges, n) # {}}
           roots == {n \in nodes : Preds(edges, n) = {}}
           to == [e \in edges |-> e[2]]
<1>1. IsFiniteSet(edges) /\ IsFiniteSet(heads) /\ IsFiniteSet(roots)
  <2>1. IsFiniteSet(nodes \X nodes)
    BY FS_Product
  <2>2. heads \in SUBSET nodes /\ roots \in SUBSET nodes
    OBVIOUS
  <2> QED  BY <2>1, <2>2, FS_Subset
<1>2. \A e \in edges : e = <<e[1], e[2]>> /\ e[1] \in nodes /\ e[2] \in nodes
  OBVIOUS
<1>3. \A e \in edges : e[1] \in Preds(edges, e[2]) /\ e[2] \in heads
  <2> SUFFICES ASSUME NEW e \in edges PROVE e[1] \in Preds(edges, e[2]) /\ e[2] \in heads
    OBVIOUS
  <2>1. <<e[1], e[2]>> \in edges /\ e[2] \in nodes
    BY <1>2
  <2>2. e[1] \in Preds(edges, e[2])
    BY <2>1, Neighbours
  <2> QED  BY <2>1, <2>2
<1>4. ASSUME NEW e \in edges, NEW f \in edges, e[2] = f[2] PROVE e = f
  <2>1. e[1] \in Preds(edges, e[2]) /\ f[1] \in Preds(edges, e[2])
    BY <1>3, <1>4
  <2>2. IsFiniteSet(Preds(edges, e[2])) /\ Cardinality(Preds(edges, e[2])) <= 1
    BY <1>2, Neighbours DEF Linear
  <2>3. e[1] = f[1]
    BY <2>1, <2>2, OneMember
  <2> QED  BY <1>2, <1>4, <2>3
<1>5. ASSUME NEW n \in heads PROVE \E e \in edges : e[2] = n
  <2>1. PICK m : m \in Preds(edges, n)
    OBVIOUS
  <2>2. <<m, n>> \in edges
    BY <2>1, Neighbours
  <2>3. <<m, n>>[2] = n
    OBVIOUS
  <2> QED  BY <2>2, <2>3
<1>6. to \in Surjection(edges, heads) /\ to \in Injection(edges, heads)
  <2> HIDE DEF heads
  <2>1. to \in [edges -> heads]
    BY <1>3
  <2>2. \A e, f \in edges : to[e] = to[f] => e = f
    BY <1>4
  <2>3. \A n \in heads : \E e \in edges : to[e] = n
    BY <1>5
  <2> HIDE DEF to
  <2> QED  BY <2>1, <2>2, <2>3 DEF Surjection, Injection, IsInjective
<1> HIDE DEF to, heads, roots
<1>7. Cardinality(heads) = Cardinality(edges)
  BY <1>1, <1>6, FS_Surjection
<1>8. Cardinality(nodes) = Cardinality(edges) + 1
  BY DEF Linear
<1>9. roots = nodes \ heads /\ nodes \cap heads = heads
  BY DEF roots, heads
<1>10. Cardinality(roots) = Cardinality(nodes) - Cardinality(heads)
  <2>1. Cardinality(nodes \ heads) = Cardinality(nodes) - Cardinality(nodes \cap heads)
    BY FS_Difference
  <2> QED  BY <1>9, <2>1
<1>11. Cardinality(edges) \in Nat
  BY <1>1, FS_CardinalityType
<1> QED  BY <1>7, <1>8, <1>10, <1>11 DEF roots

(* What is known of a plan that fold accepted. *)
LEMMA AcceptedPlan ==
  ASSUME IInv, Accepted
  PROVE  /\ IsFiniteSet(plan.nodes) /\ plan.edges \in SUBSET (plan.nodes \X plan.nodes)
         /\ plan.pattern = "sequential" =>
              /\ Linear(plan.nodes, plan.edges)
              /\ Cardinality({n \in plan.nodes : Preds(plan.edges, n) = {}}) = 1
         /\ plan.pattern = "parallel" => plan.edges = {}
         /\ Fits(plan.pattern, plan.nodes, plan.edges, plan.routers)
         /\ CompileError(plan) = "none"
<1> DEFINE nodes == Members(raw.ids)
           edges == AllEdges(raw)
<1>1. /\ plan.nodes = nodes /\ plan.edges = edges /\ plan.ids = raw.ids
      /\ plan.routers = raw.routers /\ plan.task = raw.task
      /\ plan.pattern = IF raw.pattern = "none" THEN Inferred(nodes, edges, raw.routers)
                        ELSE raw.pattern
  BY DEF Accepted, Folded
<1>2. /\ ~Duplicates(raw.ids) /\ raw.task /\ ~Dangling(nodes, edges)
      /\ raw.pattern # "none" => Fits(raw.pattern, nodes, edges, raw.routers)
  BY DEF Accepted, FoldError
<1>3. raw \in RawPlan
  BY DEF IInv, TypeOK
<1>4. nodes \subseteq Names /\ edges \subseteq Names \X Names
  BY <1>3, MembersType DEF RawPlan, AllEdges
<1>5. IsFiniteSet(nodes)
  BY <1>4, PlansAssumption, FS_Subset
<1>6. edges \in SUBSET (nodes \X nodes)
  <2>1. ASSUME NEW e \in edges PROVE e \in nodes \X nodes
    <3>1. e = <<e[1], e[2]>>
      BY <1>4
    <3>2. e[1] \in nodes /\ e[2] \in nodes
      BY <1>2 DEF Dangling
    <3> QED  BY <3>1, <3>2
  <2> QED  BY <2>1
<1> HIDE DEF nodes, edges
<1>7. Fits(plan.pattern, nodes, edges, raw.routers)
  <2>1. CASE raw.pattern # "none"
    BY <1>1, <1>2, <2>1
  <2>2. CASE raw.pattern = "none"
    <3>1. plan.pattern = Inferred(nodes, edges, raw.routers)
      BY <1>1, <2>2
    <3>2. CASE edges = {}
      BY <3>1, <3>2 DEF Inferred, Fits
    <3>3. CASE edges # {} /\ Linear(nodes, edges)
      <4>1. Cardinality({n \in nodes : Preds(edges, n) = {}}) = 1
        BY <1>5, <1>6, <3>3, LinearRoot
      <4> QED  BY <3>1, <3>3, <4>1 DEF Inferred, Fits
    <3>4. CASE edges # {} /\ ~Linear(nodes, edges)
      BY <3>1, <3>4 DEF Inferred, Fits
    <3> QED  BY <3>2, <3>3, <3>4
  <2> QED  BY <2>1, <2>2
<1>8. CompileError(plan) = "none"
  BY <1>1, <1>2, <1>7 DEF CompileError
<1>9. /\ plan.pattern = "sequential" =>
           /\ Linear(nodes, edges)
           /\ Cardinality({n \in nodes : Preds(edges, n) = {}}) = 1
      /\ plan.pattern = "parallel" => edges = {}
  BY <1>7 DEF Fits
<1> QED  BY <1>1, <1>5, <1>6, <1>7, <1>8, <1>9

(* Init has folded nothing and visited nothing. *)
LEMMA InitAInv == ASSUME Init PROVE AInv
<1>1. plan = NoPlan /\ pc = "fold" /\ result = "none" /\ waves = <<>> /\ path = <<>> /\ Len(path) = 0
  BY DEF Init
<1>2. \A n \in Names : color[n] = "white"
  BY DEF Init
<1>3. plan.pattern = "graph"
  BY <1>1 DEF NoPlan
<1>4. Fitting
  BY <1>1 DEF Fitting
<1>5. Layered
  BY <1>1, <1>3 DEF Layered
<1>6. \A S \in SUBSET Names : (\A n \in S : color[n] = "done") => S = {}
  BY <1>2
<1>7. Searched
  BY <1>1, <1>2, <1>6 DEF Searched
<1> QED  BY <1>4, <1>5, <1>7 DEF AInv

(* A plan that was folded is checked by the engine with the same result. *)
LEMMA FittingStep == ASSUME IInv, [Next]_vars, Fitting PROVE Fitting'
<1>1. pc # "done" => result = "none"
  BY DEF IInv, SearchInv
<1>2. CASE Fold
  <2>1. pc = "fold" /\ plan = NoPlan /\ raw' = raw /\ result = "none"
    BY <1>1, <1>2 DEF Fold, Fitting
  <2>2. CASE FoldError(raw) # "none"
    <3>1. pc' = "done" /\ plan' = plan /\ result' = FoldError(raw)
      BY <1>2, <2>2 DEF Fold, Answer
    <3>2. raw.pattern = "none" => FoldError(raw) # "CE-07"
      BY DEF FoldError
    <3> QED  BY <2>1, <3>1, <3>2 DEF Fitting
  <2>3. CASE FoldError(raw) = "none"
    <3>1. pc' = "compile" /\ plan' = Folded(raw) /\ result' = "none"
      BY <1>2, <2>1, <2>3 DEF Fold
    <3>2. Accepted'
      BY <2>1, <2>3, <3>1 DEF Accepted
    <3> QED  BY <2>1, <3>1, <3>2 DEF Fitting
  <2> QED  BY <2>2, <2>3
<1>3. CASE Compile
  <2>1. Accepted /\ pc = "compile" /\ UNCHANGED <<raw, plan>>
    BY <1>3 DEF Compile, Fitting
  <2>2. pc' = "waves" /\ result' = "none"
    BY <1>1, <1>3, <2>1, AcceptedPlan DEF Compile
  <2>3. Accepted'
    BY <2>1 DEF Accepted
  <2> QED  BY <2>1, <2>2, <2>3 DEF Fitting
<1>4. CASE BuildWave \/ WavesBuilt \/ NoLevel \/ Leave
           \/ \E n \in Names : Start(n) \/ Try(n) \/ Close(n)
  <2>1. /\ UNCHANGED <<raw, plan>> /\ pc \in {"waves", "search"}
        /\ pc' \in {"waves", "search", "done"}
        /\ result' = result \/ result' \in {"ok", "CE-03"}
    BY <1>4 DEF BuildWave, WavesBuilt, NoLevel, Leave, Start, Try, Close, Answer
  <2>2. Accepted /\ result = "none"
    BY <1>1, <2>1 DEF Fitting
  <2>3. Accepted'
    BY <2>1, <2>2 DEF Accepted
  <2> QED  BY <2>1, <2>2, <2>3 DEF Fitting
<1>5. CASE UNCHANGED vars
  BY <1>5 DEF vars, Fitting, Accepted
<1> QED  BY <1>2, <1>3, <1>4, <1>5 DEF Next

(* The root of a path is the one node of its first level. *)
LEMMA RootLevel ==
  ASSUME IInv, Accepted, plan.pattern = "sequential", built = {}
  PROVE  \A x, y \in Level : x = y
<1> DEFINE roots == {n \in plan.nodes : Preds(plan.edges, n) = {}}
<1>1. Cardinality(roots) = 1 /\ IsFiniteSet(roots)
  <2>1. IsFiniteSet(plan.nodes) /\ Cardinality(roots) = 1
    BY AcceptedPlan
  <2>2. roots \in SUBSET plan.nodes
    OBVIOUS
  <2> QED  BY <2>1, <2>2, FS_Subset
<1>2. \A x \in Level : x \in roots
  BY DEF Level, Remaining
<1> HIDE DEF roots
<1> QED  BY <1>1, <1>2, OneMember

(* On a path, the level after x is x's successor. *)
LEMMA NextLevel ==
  ASSUME IInv, Accepted, plan.pattern = "sequential", plan' = plan, built' = built \cup Level,
         Level # {}, \A x, y \in Level : x = y
  PROVE  \A x, y \in Level' : x = y
<1>1. PICK x : Level = {x}
  OBVIOUS
<1>2. x \in plan.nodes
  BY <1>1 DEF Level, Remaining
<1>3. /\ IsFiniteSet(plan.nodes) /\ plan.edges \in SUBSET (plan.nodes \X plan.nodes)
      /\ Linear(plan.nodes, plan.edges)
  BY AcceptedPlan
<1> DEFINE nodes == plan.nodes
           edges == plan.edges
<1>4. IsFiniteSet(nodes) /\ edges \in SUBSET (nodes \X nodes) /\ x \in nodes /\ Linear(nodes, edges)
  BY <1>2, <1>3
<1>5. ASSUME NEW n \in Level'
      PROVE  n \in nodes /\ n \notin built /\ n \notin Level /\ Preds(edges, n) \subseteq built \cup {x}
  BY <1>1, <1>5 DEF Level, Remaining
<1>6. ASSUME NEW n \in Level' PROVE x \in Preds(edges, n)
  <2>1. ~(Preds(edges, n) \subseteq built)
    BY <1>5, <1>6 DEF Level, Remaining
  <2> QED  BY <1>5, <2>1
<1> HIDE DEF nodes, edges
<1>7. IsFiniteSet(Succs(edges, x)) /\ \A m : m \in Succs(edges, x) <=> <<x, m>> \in edges
  BY <1>4, Neighbours
<1>8. Cardinality(Succs(edges, x)) <= 1
  BY <1>4 DEF Linear
<1>9. ASSUME NEW n \in Level' PROVE n \in Succs(edges, x)
  <2>1. <<x, n>> \in edges
    BY <1>4, <1>6, Neighbours
  <2> QED  BY <1>7, <2>1
<1> QED  BY <1>7, <1>8, <1>9, OneMember

(* Waves have the shape of the template. *)
LEMMA LayeredStep == ASSUME IInv, [Next]_vars, Fitting, Layered PROVE Layered'
<1>1. CASE Fold
  <2>1. waves' = <<>> /\ pc' # "waves"
    BY <1>1 DEF Fold, Answer, waveVars, IInv, WaveInv
  <2> QED  BY <2>1 DEF Layered
<1>2. CASE Compile
  <2>1. /\ waves' = <<>> /\ built = {} /\ UNCHANGED <<plan, built>> /\ Accepted
    BY <1>2 DEF Compile, waveVars, IInv, WaveInv, Fitting
  <2>2. Level' = Level
    BY <2>1 DEF Level, Remaining
  <2>3. plan'.pattern = "sequential" => \A x, y \in Level' : x = y
    BY <2>1, <2>2, RootLevel
  <2> QED  BY <2>1, <2>3 DEF Layered
<1>3. CASE BuildWave
  <2>1. /\ pc = "waves" /\ pc' = "waves" /\ Level # {} /\ plan' = plan /\ built' = built \cup Level
        /\ Accepted /\ waves \in Seq(Seq(Names))
    BY <1>3 DEF BuildWave, Fitting, IInv, TypeOK
  <2>2. PICK order \in Orders(Level) : waves' = Append(waves, order)
    BY <1>3 DEF BuildWave
  <2>3. IsFiniteSet(Level) /\ Level \subseteq plan.nodes
    <3>1. Level \subseteq plan.nodes /\ IsFiniteSet(plan.nodes)
      BY <2>1, AcceptedPlan DEF Level, Remaining
    <3> QED  BY <3>1, FS_Subset
  <2>4. /\ order \in [1..Cardinality(Level) -> Level] /\ Cardinality(Level) \in Nat
    BY <2>2, <2>3, FS_CardinalityType DEF Orders, Bijection, Injection
  <2>5. Len(order) = Cardinality(Level) /\ order \in Seq(Names)
    <3>1. order \in Seq(Level)
      BY <2>4
    <3>2. Level \subseteq Names
      BY <2>3 DEF IInv, TypeOK, Plan
    <3>3. order \in [1..Cardinality(Level) -> Names]
      BY <2>4, <3>2
    <3> QED  BY <2>4, <3>1, <3>3
  <2>6. /\ Len(waves) \in Nat /\ Len(waves') = Len(waves) + 1
        /\ \A w \in 1..Len(waves) : waves'[w] = waves[w]
        /\ waves'[Len(waves) + 1] = order
    BY <2>1, <2>2, <2>5, AppendProperties
  <2>7. ASSUME plan.pattern = "sequential"
        PROVE  /\ \A x, y \in Level' : x = y
               /\ \A w \in 1..Len(waves') : Len(waves'[w]) = 1
    <3>1. \A x, y \in Level : x = y
      BY <2>1, <2>7 DEF Layered
    <3>2. \A x, y \in Level' : x = y
      BY <2>1, <2>7, <3>1, NextLevel
    <3>3. Cardinality(Level) = 1
      <4>1. \E x : Level = {x}
        BY <2>1, <3>1
      <4> QED  BY <4>1, FS_Singleton
    <3>4. \A w \in 1..Len(waves) : Len(waves[w]) = 1
      BY <2>7 DEF Layered
    <3>5. \A w \in 1..Len(waves') : w \in 1..Len(waves) \/ w = Len(waves) + 1
      BY <2>6
    <3> QED  BY <2>5, <2>6, <3>2, <3>3, <3>4, <3>5
  <2>8. ASSUME plan.pattern = "parallel" PROVE Len(waves') = 1 /\ Remaining' = {}
    <3>1. plan.edges = {}
      BY <2>1, <2>8, AcceptedPlan
    <3>2. \A n : Preds(plan.edges, n) = {}
      BY <3>1 DEF Preds
    <3>3. Level = Remaining
      BY <3>2 DEF Level
    <3>4. waves = <<>>
      BY <2>1, <2>8, <3>3 DEF Layered
    <3>5. Remaining' = {}
      BY <2>1, <3>3 DEF Remaining
    <3> QED  BY <2>6, <3>4, <3>5
  <2> QED  BY <2>1, <2>7, <2>8 DEF Layered
<1>4. CASE WavesBuilt \/ NoLevel \/ Leave \/ \E n \in Names : Start(n) \/ Try(n) \/ Close(n)
  <2>1. UNCHANGED <<plan, waves, built>> /\ pc' # "waves"
    BY <1>4 DEF WavesBuilt, NoLevel, Leave, Start, Try, Close, Answer, waveVars
  <2>2. Remaining' = Remaining
    BY <2>1 DEF Remaining
  <2> QED  BY <2>1, <2>2 DEF Layered
<1>5. CASE UNCHANGED vars
  <2>1. Remaining' = Remaining /\ Level' = Level
    BY <1>5 DEF vars, Remaining, Level
  <2> QED  BY <1>5, <2>1 DEF vars, Layered
<1> QED  BY <1>1, <1>2, <1>3, <1>4, <1>5 DEF Next

(* Predecessors and successors are the two ends of the plan's edges. *)
LEMMA SuccsOf ==
  ASSUME IInv
  PROVE  /\ plan.edges \in SUBSET (Names \X Names)
         /\ \A n \in Names : Succs(plan.edges, n) \subseteq Names
         /\ \A n, m \in Names : m \in Preds(plan.edges, n) <=> n \in Succs(plan.edges, m)
<1>1. plan.edges \in SUBSET (Names \X Names) /\ IsFiniteSet(Names)
  BY PlansAssumption DEF IInv, TypeOK, Plan
<1> DEFINE edges == plan.edges
<1> HIDE DEF edges
<1>2. \A n : /\ Succs(edges, n) \subseteq Names
             /\ \A m : m \in Preds(edges, n) <=> <<m, n>> \in edges
             /\ \A m : m \in Succs(edges, n) <=> <<n, m>> \in edges
  BY <1>1, Neighbours DEF edges
<1> QED  BY <1>1, <1>2 DEF edges

(* When no level is left, each remaining node waits for a remaining one. *)
LEMMA NoLevelKnotted ==
  ASSUME IInv, Accepted, Level = {}
  PROVE  Knotted(Remaining)
<1>1. IsFiniteSet(plan.nodes) /\ plan.edges \in SUBSET (plan.nodes \X plan.nodes)
  BY AcceptedPlan
<1>2. ASSUME NEW n \in Remaining PROVE Preds(plan.edges, n) \cap Remaining # {}
  <2>1. ~(Preds(plan.edges, n) \subseteq built)
    BY <1>2 DEF Level
  <2>2. Preds(plan.edges, n) \subseteq plan.nodes
    BY <1>1, Neighbours
  <2> QED  BY <2>1, <2>2 DEF Remaining
<1> QED  BY <1>2 DEF Knotted

(* The steps before the search, and the one that ends it. *)
LEMMA SearchedElsewhere ==
  ASSUME IInv, Fitting, Searched,
         Fold \/ Compile \/ BuildWave \/ WavesBuilt \/ NoLevel \/ UNCHANGED vars
           \/ \E n \in Names : Close(n)
  PROVE  Searched'
<1>1. CASE Fold \/ Compile \/ BuildWave \/ WavesBuilt
  <2>1. /\ pc \in {"fold", "compile", "waves"} /\ pc' # "search"
        /\ UNCHANGED <<color, path, todo>>
    BY <1>1 DEF Fold, Compile, BuildWave, WavesBuilt, Answer, searchVars
  <2>2. path' = <<>> /\ Len(path') = 0 /\ \A n \in Names : color'[n] = "white"
    BY <2>1 DEF IInv, SearchInv, Searched
  <2>3. \A S \in SUBSET Names : (\A n \in S : color'[n] = "done") => S = {}
    BY <2>2
  <2> QED  BY <2>1, <2>2, <2>3 DEF Searched
<1>2. CASE NoLevel
  <2>1. /\ pc = "waves" /\ pc' = "search" /\ UNCHANGED <<plan, built, color, path, todo>>
        /\ starts' = plan.nodes /\ Remaining # {} /\ Level = {} /\ Accepted
    BY <1>2 DEF NoLevel, waveVars, Fitting
  <2>2. path' = <<>> /\ Len(path') = 0 /\ \A n \in Names : color'[n] = "white"
    BY <2>1 DEF IInv, SearchInv, Searched
  <2>3. \A S \in SUBSET Names : (\A n \in S : color'[n] = "done") => S = {}
    BY <2>2
  <2>4. Remaining' = Remaining /\ Knotted(Remaining)
    BY <2>1, NoLevelKnotted DEF Remaining
  <2>5. Knotted(Remaining)' /\ Remaining' # {}
    BY <2>1, <2>4 DEF Knotted
  <2> QED  BY <2>1, <2>2, <2>3, <2>5 DEF Searched
<1>3. CASE UNCHANGED vars \/ \E n \in Names : Close(n)
  <2>1. /\ UNCHANGED <<plan, built, starts, color, path, todo>>
        /\ pc' = pc \/ pc' = "done"
    BY <1>3 DEF vars, Close, Answer, waveVars
  <2>2. Remaining' = Remaining
    BY <2>1 DEF Remaining
  <2> QED  BY <2>1, <2>2 DEF Searched, Knotted
<1> QED  BY <1>1, <1>2, <1>3

(* The next start is skipped when done, or begins a path of its own.       *)
LEMMA StartSearched ==
  ASSUME IInv, Searched, NEW n \in Names, Start(n)
  PROVE  Searched'
<1>1. /\ UNCHANGED <<pc, plan, built>> /\ pc = "search" /\ path = <<>> /\ Len(path) = 0
      /\ starts' = starts \ {n}
  BY DEF Start, waveVars
<1>2. Remaining' = Remaining /\ \A S : Knotted(S)' <=> Knotted(S)
  BY <1>1 DEF Remaining, Knotted
<1>3. color \in [Names -> {"white", "in_progress", "done"}] /\ plan.nodes \subseteq Names
  BY DEF IInv, TypeOK, Plan
<1>4. CASE color[n] = "done"
  <2>1. UNCHANGED <<color, path, todo>>
    BY <1>4 DEF Start
  <2>2. \A m \in plan.nodes : m \in starts' \/ color'[m] # "white"
    BY <1>1, <1>4, <2>1 DEF Searched
  <2> QED  BY <1>1, <1>2, <2>1, <2>2 DEF Searched
<1>5. CASE color[n] # "done"
  <2>1. /\ color' = [color EXCEPT ![n] = "in_progress"]
        /\ path' = <<n>> /\ todo' = <<Succs(plan.edges, n)>>
    BY <1>1, <1>5 DEF Start, Visit
  <2>2. \A m \in Names : color'[m] = "done" <=> color[m] = "done"
    BY <1>3, <1>5, <2>1
  <2>3. \A m \in plan.nodes : m \in starts' \/ color'[m] # "white"
    BY <1>1, <1>3, <2>1 DEF Searched
  <2>4. Len(path') = 1 /\ path'[1] = n /\ todo'[1] = Succs(plan.edges, n)
    BY <2>1
  <2>5. \A i \in 1..Len(path') : \A m \in Succs(plan.edges, path'[i]) : m \in todo'[i]
    BY <2>4
  <2>6. \A k \in Names : color'[k] = "done" => \A m \in Succs(plan.edges, k) : color'[m] = "done"
    <3>1. \A k \in Names : Succs(plan.edges, k) \subseteq Names
      BY SuccsOf
    <3> QED  BY <2>2, <3>1 DEF Searched
  <2>7. \A S \in SUBSET Names : (\A k \in S : color'[k] = "done") /\ Knotted(S) => S = {}
    BY <2>2 DEF Searched
  <2> QED  BY <1>1, <1>2, <2>3, <2>5, <2>6, <2>7 DEF Searched
<1> QED  BY <1>4, <1>5

(* Trying a successor: it is done already, or the next on the path. *)
LEMMA TrySearched ==
  ASSUME IInv, Searched, NEW n \in Names, Try(n)
  PROVE  Searched'
<1> DEFINE top == Len(path)
           rest == [todo EXCEPT ![Len(todo)] = @ \ {n}]
<1>1. /\ UNCHANGED <<pc, plan, built, starts>> /\ pc = "search" /\ path # <<>>
      /\ n \in Untried /\ color[n] # "in_progress"
  BY DEF Try, waveVars
<1>2. Remaining' = Remaining /\ \A S : Knotted(S)' <=> Knotted(S)
  BY <1>1 DEF Remaining, Knotted
<1>3. color \in [Names -> {"white", "in_progress", "done"}] /\ plan.nodes \subseteq Names
  BY DEF IInv, TypeOK, Plan
<1>4. /\ top \in Nat /\ top > 0 /\ Len(todo) = top
      /\ path \in Seq(Names) /\ todo \in Seq(SUBSET Names)
  BY <1>1, Visiting
<1>5. /\ rest \in Seq(SUBSET Names) /\ Len(rest) = top
      /\ \A i \in 1..top : rest[i] = IF i = top THEN todo[i] \ {n} ELSE todo[i]
  <2>1. rest \in Seq(SUBSET Names) /\ Len(rest) = top
    BY <1>4
  <2>2. ASSUME NEW i \in 1..top PROVE rest[i] = IF i = top THEN todo[i] \ {n} ELSE todo[i]
    <3>1. i \in DOMAIN todo
      BY <1>4
    <3> QED  BY <1>4, <3>1
  <2> QED  BY <2>1, <2>2
<1>6. \A k \in Names : Succs(plan.edges, k) \subseteq Names
  BY SuccsOf
<1>7. \A i \in 1..top : \A m \in Succs(plan.edges, path[i]) :
        m \in todo[i] \/ color[m] = "done" \/ (i < top /\ m = path[i + 1])
  BY DEF Searched
<1>8. \A i \in 1..top : path[i] \in Names
  BY <1>4
<1> HIDE DEF rest, top
<1>9. CASE color[n] = "done"
  <2>1. todo' = rest /\ UNCHANGED <<color, path>>
    BY <1>9 DEF Try, rest
  <2>2. \A i \in 1..top : \A m \in Succs(plan.edges, path'[i]) :
          m \in todo'[i] \/ color'[m] = "done" \/ (i < top /\ m = path'[i + 1])
    BY <1>5, <1>7, <1>9, <2>1
  <2> QED  BY <1>1, <1>2, <2>1, <2>2 DEF Searched, top
<1>10. CASE color[n] # "done"
  <2> DEFINE succs == Succs(plan.edges, n)
  <2>1. /\ color' = [color EXCEPT ![n] = "in_progress"]
        /\ path' = Append(path, n) /\ todo' = Append(rest, succs)
    BY <1>10 DEF Try, Visit, rest
  <2>2. /\ Len(path') = top + 1 /\ path'[top + 1] = n
        /\ \A i \in 1..top : path'[i] = path[i]
    BY <1>4, <2>1 DEF top
  <2>3. /\ todo'[top + 1] = succs /\ \A i \in 1..top : todo'[i] = rest[i]
    <3>1. succs \in SUBSET Names
      BY <1>6
    <3> QED  BY <1>5, <2>1, <3>1, AppendProperties
  <2>4. \A m \in Names : color'[m] = "done" <=> color[m] = "done"
    BY <1>3, <1>10, <2>1
  <2>5. \A m \in plan.nodes : m \in starts' \/ color'[m] # "white"
    BY <1>1, <1>3, <2>1 DEF Searched
  <2>6. \A k \in Names : color'[k] = "done" => \A m \in Succs(plan.edges, k) : color'[m] = "done"
    BY <1>6, <2>4 DEF Searched
  <2>7. \A S \in SUBSET Names : (\A k \in S : color'[k] = "done") /\ Knotted(S) => S = {}
    BY <2>4 DEF Searched
  <2>8. ASSUME NEW i \in 1..(top + 1), NEW m \in Succs(plan.edges, path'[i])
        PROVE  m \in todo'[i] \/ color'[m] = "done" \/ (i < top + 1 /\ m = path'[i + 1])
    <3>1. CASE i = top + 1
      BY <2>2, <2>3, <2>8, <3>1
    <3>2. CASE i \in 1..top
      <4>1. m \in Succs(plan.edges, path[i]) /\ m \in Names
        BY <1>6, <1>8, <2>2, <2>8, <3>2
      <4>2. m \in todo[i] \/ color[m] = "done" \/ (i < top /\ m = path[i + 1])
        BY <1>7, <3>2, <4>1
      <4>3. CASE m \in todo[i]
        <5>1. m \in rest[i] \/ (i = top /\ m = n)
          BY <1>5, <3>2, <4>3
        <5>2. i = top /\ m = n => i < top + 1 /\ m = path'[i + 1]
          BY <1>4, <2>2
        <5> QED  BY <2>3, <3>2, <5>1, <5>2
      <4>4. CASE color[m] = "done"
        BY <2>4, <4>1, <4>4
      <4>5. CASE i < top /\ m = path[i + 1]
        <5>1. i + 1 \in 1..top /\ i < top + 1
          BY <1>4, <3>2, <4>5
        <5> QED  BY <2>2, <4>5, <5>1
      <4> QED  BY <4>2, <4>3, <4>4, <4>5
    <3> QED  BY <1>4, <3>1, <3>2
  <2> QED  BY <1>1, <1>2, <2>2, <2>5, <2>6, <2>7, <2>8 DEF Searched
<1> QED  BY <1>9, <1>10

(* A node that is left has tried every successor and found it done, so it  *)
(* closes no cycle with the nodes that were left before it.                *)
LEMMA LeaveSearched ==
  ASSUME IInv, Searched, Leave
  PROVE  Searched'
<1> DEFINE top == Len(path)
<1>1. /\ UNCHANGED <<pc, plan, built, starts>> /\ pc = "search" /\ path # <<>> /\ Untried = {}
      /\ color' = [color EXCEPT ![Top] = "done"]
      /\ path' = SubSeq(path, 1, top - 1)
      /\ todo' = SubSeq(todo, 1, Len(todo) - 1)
  BY DEF Leave, waveVars
<1>2. Remaining' = Remaining /\ \A S : Knotted(S)' <=> Knotted(S)
  BY <1>1 DEF Remaining, Knotted
<1>3. color \in [Names -> {"white", "in_progress", "done"}] /\ plan.nodes \subseteq Names
  BY DEF IInv, TypeOK, Plan
<1>4. /\ top \in Nat /\ top > 0 /\ Len(todo) = top
      /\ path \in Seq(Names) /\ todo \in Seq(SUBSET Names)
      /\ path[top] = Top /\ Top \in Names
  BY <1>1, Visiting
<1>5. todo[top] = {}
  BY <1>1, <1>4 DEF Untried
<1>6. /\ Len(path') = top - 1
      /\ \A i \in 1..(top - 1) : path'[i] = path[i] /\ todo'[i] = todo[i]
  BY <1>1, <1>4
<1>7. \A i \in 1..top : \A m \in Succs(plan.edges, path[i]) :
        m \in todo[i] \/ color[m] = "done" \/ (i < top /\ m = path[i + 1])
  BY DEF Searched
<1>8. color[Top] = "in_progress"
  <2>1. top \in 1..Len(path)
    BY <1>4
  <2> QED  BY <1>4, <2>1 DEF IInv, SearchInv
<1> HIDE DEF top
<1>9. /\ \A n \in Names : Succs(plan.edges, n) \subseteq Names
      /\ \A n, m \in Names : m \in Preds(plan.edges, n) <=> n \in Succs(plan.edges, m)
  BY SuccsOf
<1>10. \A m \in Succs(plan.edges, Top) : color[m] = "done"
  <2>1. top \in 1..top /\ ~(top < top)
    BY <1>4
  <2> QED  BY <1>4, <1>5, <1>7, <2>1
<1>11. \A m \in Names : color'[m] = "done" <=> color[m] = "done" \/ m = Top
  BY <1>1, <1>3, <1>4
<1>12. \A m \in plan.nodes : m \in starts' \/ color'[m] # "white"
  BY <1>1, <1>3, <1>4 DEF Searched
<1>13. \A k \in Names : color'[k] = "done" => \A m \in Succs(plan.edges, k) : color'[m] = "done"
  <2> SUFFICES ASSUME NEW k \in Names, color'[k] = "done", NEW m \in Succs(plan.edges, k)
               PROVE  color'[m] = "done"
    OBVIOUS
  <2>1. color[m] = "done"
    BY <1>10, <1>11 DEF Searched
  <2>2. m \in Names
    BY <1>9
  <2> QED  BY <1>11, <2>1, <2>2
<1>14. ASSUME NEW S \in SUBSET Names, \A k \in S : color'[k] = "done", Knotted(S)
       PROVE  S = {}
  <2>1. CASE Top \notin S
    <3>1. \A k \in S : color[k] = "done"
      BY <1>11, <1>14, <2>1
    <3> QED  BY <1>14, <3>1 DEF Searched
  <2>2. CASE Top \in S
    <3>1. PICK p \in S : p \in Preds(plan.edges, Top)
      BY <1>14, <2>2 DEF Knotted
    <3>2. p \in Names /\ Top \in Succs(plan.edges, p)
      BY <1>4, <1>9, <3>1
    <3>3. color[p] = "done" \/ p = Top
      BY <1>11, <1>14, <3>1, <3>2
    <3>4. color[Top] = "done"
      BY <1>10, <3>2, <3>3 DEF Searched
    <3> QED  BY <1>8, <3>4
  <2> QED  BY <2>1, <2>2
<1>15. ASSUME NEW i \in 1..(top - 1), NEW m \in Succs(plan.edges, path'[i])
       PROVE  m \in todo'[i] \/ color'[m] = "done" \/ (i < top - 1 /\ m = path'[i + 1])
  <2>1. i \in 1..top /\ path'[i] = path[i] /\ todo'[i] = todo[i] /\ path[i] \in Names
    BY <1>4, <1>6 DEF top
  <2>2. m \in todo[i] \/ color[m] = "done" \/ (i < top /\ m = path[i + 1])
    BY <1>7, <1>15, <2>1
  <2>3. m \in Names
    BY <1>9, <1>15, <2>1
  <2>4. CASE i < top /\ m = path[i + 1]
    <3>1. i + 1 = top \/ (i < top - 1 /\ i + 1 \in 1..(top - 1))
      BY <1>4
    <3>2. CASE i + 1 = top
      BY <1>4, <1>11, <2>4, <3>2
    <3>3. CASE i < top - 1 /\ i + 1 \in 1..(top - 1)
      BY <1>6, <2>4, <3>3
    <3> QED  BY <3>1, <3>2, <3>3
  <2> QED  BY <1>11, <2>1, <2>2, <2>3, <2>4
<1>16. \A S \in SUBSET Names : (\A k \in S : color'[k] = "done") /\ Knotted(S) => S = {}
  BY <1>14
<1>17. \A i \in 1..Len(path') : \A m \in Succs(plan.edges, path'[i]) :
         m \in todo'[i] \/ color'[m] = "done" \/ (i < Len(path') /\ m = path'[i + 1])
  BY <1>6, <1>15
<1>18. Remaining # {} /\ Knotted(Remaining)
  BY <1>1 DEF Searched
<1> QED  BY <1>1, <1>2, <1>12, <1>13, <1>16, <1>17, <1>18 DEF Searched

(* What the checks rely on holds in every compilation. *)
LEMMA NextAInv == IInv /\ AInv /\ [Next]_vars => AInv'
<1> SUFFICES ASSUME IInv, AInv, [Next]_vars PROVE AInv'
  OBVIOUS
<1>1. Fitting /\ Layered /\ Searched
  BY DEF AInv
<1>2. Fitting' /\ Layered'
  BY <1>1, FittingStep, LayeredStep
<1>3. CASE \/ Fold \/ Compile \/ BuildWave \/ WavesBuilt \/ NoLevel \/ UNCHANGED vars
           \/ \E n \in Names : Close(n)
  BY <1>1, <1>2, <1>3, SearchedElsewhere DEF AInv
<1>4. CASE \E n \in Names : Start(n) \/ Try(n)
  BY <1>1, <1>2, <1>4, StartSearched, TrySearched DEF AInv
<1>5. CASE Leave
  BY <1>1, <1>2, <1>5, LeaveSearched DEF AInv
<1> QED  BY <1>3, <1>4, <1>5 DEF Next

(* A search that has tried every start from an empty path has found every  *)
(* remaining node done, although the remaining nodes hold a cycle.         *)
LEMMA NeverExhausted == ASSUME IInv, AInv PROVE ~Exhausted
<1> SUFFICES ASSUME Exhausted PROVE FALSE
  OBVIOUS
<1>1. pc = "search" /\ path = <<>> /\ Len(path) = 0 /\ starts = {}
  BY DEF Exhausted
<1>2. Remaining \in SUBSET Names /\ Remaining \subseteq plan.nodes
  BY DEF IInv, TypeOK, Plan, Remaining
<1>3. \A n \in Names : color[n] # "in_progress"
  BY <1>1 DEF IInv, SearchInv
<1>4. \A n \in Remaining : color[n] = "done"
  <2>1. color \in [Names -> {"white", "in_progress", "done"}]
    BY DEF IInv, TypeOK
  <2>2. \A n \in plan.nodes : color[n] # "white"
    BY <1>1 DEF AInv, Searched
  <2> QED  BY <1>2, <1>3, <2>1, <2>2
<1> QED  BY <1>1, <1>2, <1>4 DEF AInv, Searched

(* Every plan is treated alike by every check (fold, check_pattern,        *)
(* infer_pattern, compile, build_waves, extract_cycle): the engine rejects *)
(* a folded plan for a cycle only, which its search always finds; an       *)
(* inferred pattern fits, as a path has one root; and the waves have the   *)
(* shape of the pattern.                                                   *)
THEOREM ChecksAlwaysAgree == Spec => []ChecksAgree
<1>1. IInv /\ AInv => ChecksAgree
  <2> SUFFICES ASSUME IInv, AInv PROVE ChecksAgree
    OBVIOUS
  <2>1. ~Exhausted
    BY NeverExhausted
  <2>2. /\ plan # NoPlan => result \in {"none", "ok", "CE-03"}
        /\ raw.pattern = "none" => result # "CE-07"
    BY DEF AInv, Fitting
  <2>3. plan.pattern = "sequential" => \A w \in 1..Len(waves) : Len(waves[w]) = 1
    BY DEF AInv, Layered
  <2>4. plan.pattern = "parallel" => Len(waves) <= 1
    <3>1. waves = <<>> => Len(waves) = 0
      OBVIOUS
    <3>2. plan.pattern = "parallel" => waves = <<>> \/ Len(waves) = 1
      BY DEF AInv, Layered
    <3>3. 0 <= 1 /\ 1 <= 1
      OBVIOUS
    <3> QED  BY <3>1, <3>2, <3>3
  <2> QED  BY <2>1, <2>2, <2>3, <2>4 DEF ChecksAgree
<1>2. Init => AInv
  BY InitAInv
<1>3. Spec => []AInv
  BY <1>2, CompilerInvariant, NextAInv, PTL DEF Spec
<1> QED  BY <1>1, <1>3, CompilerInvariant, PTL

=============================================================================
