----------------------------- MODULE WaveOrder -----------------------------
(***************************************************************************)
(* What a compiled plan's waves promise to whoever runs them: the contract *)
(* between PlanCompiler, which proves it of build_waves, and               *)
(* SessionRunner, which assumes it of its constant Waves.                  *)
(***************************************************************************)
EXTENDS Naturals, Sequences

(* The values a sequence holds. *)
Members(s) == {s[i] : i \in 1..Len(s)}

(* Every wave is a nonempty list of nodes, every node stands in exactly    *)
(* one place, and an edge leads to a later wave.                           *)
SoundWaves(waves, nodes, edges) ==
  /\ waves \in Seq(Seq(nodes))
  /\ \A w \in 1..Len(waves) : Len(waves[w]) > 0
  /\ \A n \in nodes : \E w \in 1..Len(waves) : n \in Members(waves[w])
  /\ \A v, w \in 1..Len(waves) : \A i \in 1..Len(waves[v]), j \in 1..Len(waves[w]) :
       waves[v][i] = waves[w][j] => v = w /\ i = j
  /\ \A v, w \in 1..Len(waves) : \A i \in 1..Len(waves[v]), j \in 1..Len(waves[w]) :
       <<waves[v][i], waves[w][j]>> \in edges => v < w

=============================================================================
