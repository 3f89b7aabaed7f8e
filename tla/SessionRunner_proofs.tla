------------------------ MODULE SessionRunner_proofs ------------------------
(***************************************************************************)
(* For every compiled plan, policy, budget and environment: the runner's   *)
(* types, the commit order, the session's promise, and what the trace, the *)
(* rows and the response files show of each other and to the readers.      *)
(*                                                                         *)
(* IInv is about the runner alone: it says where the wave loop stands      *)
(* relative to the engine's cursor at every program point (Position), that *)
(* the rows are exactly the nodes placed before the cursor (Rows), and how *)
(* the session's row and its verdict follow the program point (Life).      *)
(*                                                                         *)
(* The evidence is proved in three layers.  Step catalogs what a step can  *)
(* do to a boundary: every step of the runner, of the signal and of a      *)
(* crash has one of its shapes (Shapes), which say no more of the state    *)
(* than the proofs need.  TInv joins fourteen invariants of the run, and   *)
(* RInv four more that say what the readers of the evidence (TraceReaders) *)
(* rely on; each is about one promise, and a lemma of its own carries it   *)
(* over a Step.  The theorems read the properties off TInv and RInv.       *)
(*                                                                         *)
(* The router comes first, for every sequence of contracts that an         *)
(* environment may offer it (RouterEnv): EnvInv ties its state to the      *)
(* history.  total counts the accepted handoffs and latches at the cap,    *)
(* window is the tail of that history, and grants never outrun the retry   *)
(* counter.                                                                *)
(***************************************************************************)
EXTENDS RouterEnv, SessionRunner, TraceReaders, TraceFolds, FiniteSetTheorems, SequenceTheorems

-----------------------------------------------------------------------------
(* The router under any environment. *)

(* total counts the accepted handoffs, and the cap latches a halt. *)
CapInv ==
  /\ total = Len(accepted)
  /\ total <= MaxHandoffs
  /\ total > 0 /\ total = MaxHandoffs => halted # "none"

(* A grant has cost its sender a retry. *)
GrantInv == \A n \in Nodes : granted[n] <= retries[n] /\ granted[n] <= BoundedRetry

(* window holds the last pairs of the history, as many as it may. *)
WindowInv ==
  /\ Len(window) <= Len(accepted) /\ Len(window) <= PingPongWindow
  /\ Len(window) = PingPongWindow \/ Len(window) = Len(accepted)
  /\ \A i \in 1..Len(window) : window[i] = accepted[Len(accepted) - Len(window) + i]

EnvInv == EnvTypeOK /\ CapInv /\ GrantInv /\ WindowInv /\ NoPingPong

-----------------------------------------------------------------------------

(* The router starts with empty histories. *)
LEMMA InitEnvInv == EnvInit => EnvInv
  <1> SUFFICES ASSUME EnvInit PROVE EnvInv
    OBVIOUS
  <1> USE RouterAssumption DEF EnvInit, RouterInit
  <1>1. EnvTypeOK
    BY DEF EnvTypeOK, RouterTypeOK
  <1>2. CapInv
    BY DEF CapInv
  <1>3. GrantInv
    <2> SUFFICES ASSUME NEW n \in Nodes
                 PROVE  granted[n] <= retries[n] /\ granted[n] <= BoundedRetry
      BY DEF GrantInv
    <2>1. granted[n] = 0 /\ retries[n] = 0
      OBVIOUS
    <2> QED
      BY <2>1
  <1>4. WindowInv
    BY DEF WindowInv
  <1>5. NoPingPong
    BY DEF NoPingPong
  <1> QED
    BY <1>1, <1>2, <1>3, <1>4, <1>5 DEF EnvInv

(* An accepted handoff: record appends the pair to the window and to the   *)
(* history, and Evaluate answered "none" before.                           *)
LEMMA AcceptStep ==
  ASSUME EnvInv, NEW from \in Nodes, NEW to \in Nodes,
         Evaluate(from, to) = "none",
         Record(from, to), UNCHANGED <<retries, granted>>,
         accepted' = Append(accepted, <<from, to>>), offers' \in Nat
  PROVE  EnvInv'
  <1> USE RouterAssumption
  <1> DEFINE old == IF Len(window) >= PingPongWindow THEN Tail(window) ELSE window
  <1> HIDE DEF old
  <1>1. /\ window \in Seq(Nodes \X Nodes) /\ accepted \in Seq(Nodes \X Nodes)
        /\ total \in Nat /\ halted \in HaltReasons \cup {"none"}
    BY DEF EnvInv, EnvTypeOK, RouterTypeOK
  <1>2. halted = "none" /\ total < MaxHandoffs /\ ~Repeated(from, to)
    BY <1>1 DEF Evaluate, HaltReasons
  <1>3. /\ accepted' \in Seq(Nodes \X Nodes)
        /\ Len(accepted') = Len(accepted) + 1
        /\ \A i \in 1..Len(accepted) : accepted'[i] = accepted[i]
        /\ accepted'[Len(accepted) + 1] = <<from, to>>
    BY <1>1
  <1>4. CASE PingPongWindow = 0
    <2>1. window' = window /\ total' = total + 1
          /\ halted' = (IF total + 1 >= MaxHandoffs THEN "MAX_HANDOFFS" ELSE halted)
      BY <1>2, <1>4 DEF Record
    <2>2. EnvTypeOK'
      BY <1>1, <1>3, <2>1 DEF EnvInv, EnvTypeOK, RouterTypeOK, HaltReasons
    <2>3. CapInv'
      BY <1>1, <1>2, <1>3, <2>1 DEF EnvInv, CapInv
    <2>4. GrantInv'
      BY DEF EnvInv, GrantInv
    <2>5. WindowInv'
      BY <1>1, <1>3, <1>4, <2>1 DEF EnvInv, WindowInv
    <2>6. NoPingPong'
      BY <1>3, <1>4, <1>1 DEF NoPingPong
    <2> QED
      BY <2>2, <2>3, <2>4, <2>5, <2>6 DEF EnvInv
  <1>5. CASE PingPongWindow # 0
    <2>1. window' = Append(old, <<from, to>>) /\ total' = total + 1
          /\ halted' = (IF total + 1 >= MaxHandoffs THEN "MAX_HANDOFFS" ELSE halted)
      BY <1>2, <1>5 DEF Record, old
    <2>2. old \in Seq(Nodes \X Nodes)
          /\ Len(old) = (IF Len(window) >= PingPongWindow THEN Len(window) - 1 ELSE Len(window))
          /\ \A i \in 1..Len(old) :
               old[i] = accepted[Len(accepted) - Len(old) + i]
      <3>1. WindowInv /\ Len(window) \in Nat /\ Len(accepted) \in Nat
        BY <1>1 DEF EnvInv
      <3>2. CASE Len(window) >= PingPongWindow
        <4>1. window # <<>> /\ old = Tail(window)
          BY <1>1, <1>5, <3>1, <3>2 DEF old
        <4>2. /\ old \in Seq(Nodes \X Nodes)
              /\ Len(old) = Len(window) - 1
              /\ \A i \in 1..Len(old) : old[i] = window[i + 1]
          BY <1>1, <4>1
        <4>3. ASSUME NEW i \in 1..Len(old)
              PROVE  old[i] = accepted[Len(accepted) - Len(old) + i]
          <5>1. i + 1 \in 1..Len(window)
            BY <4>2, <3>1
          <5>2. window[i + 1] = accepted[Len(accepted) - Len(window) + (i + 1)]
            BY <5>1, <3>1 DEF WindowInv
          <5>3. Len(accepted) - Len(window) + (i + 1) = Len(accepted) - Len(old) + i
            BY <4>2, <3>1
          <5> QED
            BY <5>2, <5>3, <4>2
        <4> QED
          BY <4>2, <4>3, <3>2
      <3>3. CASE ~(Len(window) >= PingPongWindow)
        BY <3>1, <3>3, <1>1 DEF WindowInv, old
      <3> QED
        BY <3>2, <3>3
    <2>3. window' \in Seq(Nodes \X Nodes) /\ Len(window') = Len(old) + 1
          /\ (\A i \in 1..Len(old) : window'[i] = old[i])
          /\ window'[Len(old) + 1] = <<from, to>>
      BY <2>1, <2>2
    <2>4. EnvTypeOK'
      BY <1>1, <1>3, <2>1, <2>3 DEF EnvInv, EnvTypeOK, RouterTypeOK, HaltReasons
    <2>5. CapInv'
      BY <1>1, <1>2, <1>3, <2>1 DEF EnvInv, CapInv
    <2>6. GrantInv'
      BY DEF EnvInv, GrantInv
    <2>7. WindowInv'
      <3>1. Len(window') <= Len(accepted') /\ Len(window') <= PingPongWindow
            /\ (Len(window') = PingPongWindow \/ Len(window') = Len(accepted'))
        BY <1>1, <1>3, <1>5, <2>2, <2>3 DEF EnvInv, WindowInv
      <3>2. ASSUME NEW i \in 1..Len(window')
            PROVE  window'[i] = accepted'[Len(accepted') - Len(window') + i]
        <4>0. /\ Len(old) \in Nat /\ Len(accepted) \in Nat
              /\ Len(accepted') - Len(window') + i = Len(accepted) - Len(old) + i
          BY <1>1, <1>3, <2>2, <2>3
        <4>1. CASE i = Len(old) + 1
          <5>1. Len(accepted) - Len(old) + i = Len(accepted) + 1
            BY <4>0, <4>1
          <5> QED
            BY <4>0, <4>1, <5>1, <1>3, <2>3
        <4>2. CASE i \in 1..Len(old)
          <5>1. Len(accepted) - Len(old) + i \in 1..Len(accepted)
            BY <4>0, <4>2, <1>3, <2>3, <3>1
          <5>2. accepted'[Len(accepted) - Len(old) + i] = accepted[Len(accepted) - Len(old) + i]
            BY <5>1, <1>3
          <5>3. window'[i] = old[i] /\ old[i] = accepted[Len(accepted) - Len(old) + i]
            BY <4>2, <2>2, <2>3
          <5> QED
            BY <4>0, <5>2, <5>3
        <4>3. i = Len(old) + 1 \/ i \in 1..Len(old)
          BY <4>0, <2>3
        <4> QED
          BY <4>1, <4>2, <4>3
      <3> QED
        BY <3>1, <3>2 DEF WindowInv
    <2>8. NoPingPong'
      <3> SUFFICES ASSUME NEW i \in 1..Len(accepted'), NEW j \in 1..Len(accepted'),
                          i < j, j - i <= PingPongWindow
                   PROVE  accepted'[j] \notin {accepted'[i],
                                               <<accepted'[i][2], accepted'[i][1]>>}
        BY DEF NoPingPong
      <3>1. CASE j <= Len(accepted)
        BY <3>1, <1>1, <1>3 DEF EnvInv, NoPingPong
      <3>2. CASE j = Len(accepted) + 1
        <4> DEFINE k == i - (Len(accepted) - Len(window))
        <4>1. k \in 1..Len(window) /\ window[k] = accepted[i] /\ accepted'[i] = accepted[i]
          BY <3>2, <1>1, <1>3 DEF EnvInv, WindowInv
        <4>2. window[k] # <<from, to>> /\ window[k] # <<to, from>>
          BY <4>1, <1>2 DEF Repeated
        <4>3. window[k] \in Nodes \X Nodes
          BY <4>1, <1>1
        <4> QED
          BY <4>1, <4>2, <4>3, <3>2, <1>3
      <3> QED
        BY <3>1, <3>2, <1>1, <1>3
    <2> QED
      BY <2>4, <2>5, <2>6, <2>7, <2>8 DEF EnvInv
  <1> QED
    BY <1>4, <1>5

(* One offered contract preserves the invariant, whatever its judgment. *)
LEMMA OfferEnvInv ==
  ASSUME EnvInv, NEW from \in Nodes, NEW to \in Nodes, NEW j \in Judgments, Offer(from, to, j)
  PROVE  EnvInv'
  <1> USE RouterAssumption
  <1>0. /\ offers' \in Nat
        /\ retries \in [Nodes -> Nat] /\ granted \in [Nodes -> Nat]
    BY DEF Offer, EnvInv, EnvTypeOK, RouterTypeOK
  <1>1. CASE j = "reject"
    <2>1. UNCHANGED <<window, total, halted, retries, accepted, granted>>
      BY <1>1 DEF Offer, Route, RouteDecision, routerVars
    <2> QED
      BY <1>0, <2>1 DEF EnvInv, EnvTypeOK, RouterTypeOK, CapInv, GrantInv, WindowInv, NoPingPong
  <1>2. CASE j = "bounded_retry"
    <2>1. /\ UNCHANGED <<window, total, halted, accepted>>
          /\ retries' = [retries EXCEPT ![from] = @ + 1]
          /\ granted' = IF retries[from] < BoundedRetry
                        THEN [granted EXCEPT ![from] = @ + 1] ELSE granted
      BY <1>2 DEF Offer, Route, RouteDecision
    <2>2. retries' \in [Nodes -> Nat] /\ granted' \in [Nodes -> Nat]
      BY <1>0, <2>1
    <2>3. EnvTypeOK'
      BY <1>0, <2>1, <2>2 DEF EnvInv, EnvTypeOK, RouterTypeOK
    <2>4. GrantInv'
      BY <1>0, <2>1 DEF EnvInv, GrantInv
    <2> QED
      BY <2>1, <2>3, <2>4 DEF EnvInv, CapInv, WindowInv, NoPingPong
  <1>3. CASE j = "accept" /\ Evaluate(from, to) # "none"
    <2>1. /\ UNCHANGED <<window, total, retries, accepted, granted>>
          /\ halted' = Evaluate(from, to)
      BY <1>3 DEF Offer, Route, RouteDecision
    <2>2. halted' \in HaltReasons
      BY <1>3, <2>1 DEF Evaluate, EnvInv, EnvTypeOK, RouterTypeOK, HaltReasons
    <2>3. EnvTypeOK' /\ CapInv'
      BY <1>0, <2>1, <2>2 DEF EnvInv, EnvTypeOK, RouterTypeOK, CapInv, HaltReasons
    <2> QED
      BY <2>1, <2>3 DEF EnvInv, GrantInv, WindowInv, NoPingPong
  <1>4. CASE j = "accept" /\ Evaluate(from, to) = "none"
    <2>1. /\ Record(from, to)
          /\ UNCHANGED <<retries, granted>>
          /\ accepted' = Append(accepted, <<from, to>>)
      BY <1>4 DEF Offer, Route, RouteDecision
    <2> QED
      BY <1>0, <1>4, <2>1, AcceptStep
  <1> QED
    BY <1>1, <1>2, <1>3, <1>4 DEF Judgments

LEMMA NextEnvInv == EnvInv /\ [EnvNext]_envVars => EnvInv'
  <1> SUFFICES ASSUME EnvInv, [EnvNext]_envVars PROVE EnvInv'
    OBVIOUS
  <1>1. CASE EnvNext
    BY <1>1, OfferEnvInv DEF EnvNext
  <1>2. CASE UNCHANGED envVars
    BY <1>2 DEF envVars, EnvInv, EnvTypeOK, RouterTypeOK, CapInv, GrantInv, WindowInv, NoPingPong
  <1> QED
    BY <1>1, <1>2

(* The invariant holds in every behaviour of the router. *)
THEOREM RouterInvariant == EnvSpec => []EnvInv
  BY InitEnvInv, NextEnvInv, PTL DEF EnvSpec

(* The router's state always has its type (LoopGuardState). *)
THEOREM RouterTypes == EnvSpec => []EnvTypeOK
  <1>1. EnvInv => EnvTypeOK
    BY DEF EnvInv
  <1> QED
    BY <1>1, RouterInvariant, PTL

(* For every policy, no more than max_handoffs handoffs are accepted, and  *)
(* reaching the cap has latched the halt (LoopGuardState::record).         *)
THEOREM HandoffsCapped == EnvSpec => []HandoffCap
  <1>1. EnvInv => HandoffCap
    BY RouterAssumption DEF EnvInv, CapInv, HandoffCap
  <1> QED
    BY <1>1, RouterInvariant, PTL

(* For every window size, no pair recurs within the window, in either      *)
(* direction (LoopGuardState::evaluate and record).                        *)
THEOREM RouterNoPingPong == EnvSpec => []NoPingPong
  <1>1. EnvInv => NoPingPong
    BY DEF EnvInv
  <1> QED
    BY <1>1, RouterInvariant, PTL

(* A sender is never granted more than bounded_retry route retries         *)
(* (LoopGuardRouter::route).                                               *)
THEOREM RetriesBudgeted == EnvSpec => []RetryBudget
  <1>1. EnvInv => RetryBudget
    BY DEF EnvInv, GrantInv, RetryBudget
  <1> QED
    BY <1>1, RouterInvariant, PTL

(* Once latched, the halt never changes and no handoff is accepted         *)
(* (LoopGuardState::evaluate: the latch dominates).                        *)
THEOREM HaltLatched == EnvSpec => HaltIsFinal
  <1> DEFINE Keep == halted # "none" => (halted' = halted /\ accepted' = accepted)
  <1>1. ASSUME [EnvNext]_envVars PROVE [Keep]_envVars
    <2> SUFFICES ASSUME halted # "none", EnvNext PROVE halted' = halted /\ accepted' = accepted
      BY <1>1
    <2>1. PICK from \in Nodes, to \in Nodes, j \in Judgments : Offer(from, to, j)
      BY DEF EnvNext
    <2>2. Evaluate(from, to) = halted
      BY DEF Evaluate
    <2> QED
      BY <2>1, <2>2 DEF Offer, Route, RouteDecision, routerVars, Judgments
  <1> QED
    BY <1>1, PTL DEF EnvSpec, HaltIsFinal

-----------------------------------------------------------------------------
(* The runner. *)

(* The parts of TypeOK, by what changes together. *)
CtlOK ==
  /\ pc \in PCs
  /\ wave \in 1..(Len(Waves) + 1) /\ idx \in Nat \ {0}
  /\ loc \in Locals
  /\ end \in [state : TerminalStates \cup {"none"}, reason : Reasons]

MemOK ==
  /\ attempts \in [Nodes -> Nat]
  /\ routedIn \in [Nodes -> Nodes \cup {"none"}]
  /\ outputs \in [Nodes -> {"none", "clean", "tainted"}]
  /\ concerns \in Nat
  /\ state \in {"INIT", "RUNNING"} \cup TerminalStates

LogOK == log \in Seq(LoggedEvent)

DiskOK ==
  /\ walState \in {"NONE", "INIT", "RUNNING"} \cup TerminalStates
  /\ wal \in Seq(CheckpointRow)
  /\ responses \in [DOMAIN responses -> Turn] /\ DOMAIN responses \subseteq Nat

FlagOK == interrupt \in BOOLEAN /\ interruptAt \in Nat

(* The engine's cursor points into a wave, or past the last one. *)
EngineOK ==
  /\ cursor \in 1..(Len(Waves) + 1) /\ wavePos \in Nat
  /\ cursor <= Len(Waves) => wavePos < Len(Waves[cursor])
  /\ cursor = Len(Waves) + 1 => wavePos = 0

(* The wave loop is at the node the engine expects next. *)
AtNode ==
  /\ cursor <= Len(Waves) /\ wave = cursor
  /\ idx = wavePos + 1 /\ idx <= Len(Waves[wave])

InWave == wave \in 1..Len(Waves) /\ idx \in 1..Len(Waves[wave])

(* The engine has committed the loop's node. *)
Passed ==
  /\ InWave
  /\ idx = Len(Waves[wave]) => cursor = wave + 1 /\ wavePos = 0
  /\ idx # Len(Waves[wave]) => cursor = wave /\ wavePos = idx

(* The program points of a boundary before its commit. *)
Fresh == {"start", "pre", "attempt", "exec", "call", "meter", "warn", "post", "escalate",
          "route", "decide"}

Position ==
  /\ pc \in OpenPCs \cup {"wave"} => wavePos = 0
  /\ pc = "node" => AtNode \/ (wave \in 1..Len(Waves) /\ idx > Len(Waves[wave]) /\ wavePos = 0)
  /\ pc \in Fresh => AtNode
  /\ pc \in {"respond", "settle"} => Passed
  /\ pc = "suspend" => InWave
  /\ pc = "stop" => InWave /\ (end = NoEnd => Passed)

(* Gate and edge indices are in range where they are used. *)
Indices ==
  /\ pc = "pre" => loc.gate \in 1..Len(PreGates[node])
  /\ pc \in {"exec", "call", "meter", "warn"} => loc.gate = 1
  /\ pc \in {"post", "escalate"} => loc.gate \in 1..Len(PostGates[node])
  /\ pc = "decide" => loc.edge \in 1..Len(Succs[node])

Running == PCs \ (OpenPCs \cup {"close", "done", "dead"})

(* The session's row and its verdict. *)
Life ==
  /\ pc = "open" => walState = "NONE"
  /\ pc \in OpenPCs \ {"open"} => walState = "INIT"
  /\ pc \in Running => walState = "RUNNING"
  /\ pc \in PCs \ {"stop", "finish", "close", "done", "dead"} => end = NoEnd
  /\ pc = "stop" => end = NoEnd \/ end.state \in {"SUSPENDED", "HALTED", "FAILED"}
  /\ pc = "finish" => end.state \in TerminalStates
  /\ pc = "close" => state \in TerminalStates
  /\ pc = "finish" /\ end.state = "COMPLETED" => cursor = Len(Waves) + 1

(* The nodes placed before position p + 1 of wave c. *)
Placed(c, p) ==
  {n \in Nodes : \E v \in 1..Len(Waves) : \E i \in 1..Len(Waves[v]) :
     Waves[v][i] = n /\ (v < c \/ (v = c /\ i <= p))}

Rows == Committed = Placed(cursor, wavePos) /\ CommitOrder

(* What a step that only emits an event leaves alone. *)
Quiet ==
  /\ EngineOK /\ MemOK /\ DiskOK /\ FlagOK /\ Rows
  /\ RouterTypeOK /\ BudgetTypeOK

IInv == CtlOK /\ LogOK /\ Quiet /\ Position /\ Indices /\ Life

-----------------------------------------------------------------------------
(* Facts about the plan. *)

LEMMA WavesFacts ==
  /\ Waves \in Seq(Seq(Nodes)) /\ Len(Waves) \in Nat
  /\ \A w \in 1..Len(Waves) :
       Waves[w] \in Seq(Nodes) /\ Len(Waves[w]) \in Nat /\ Len(Waves[w]) > 0
  <1>1. Waves \in Seq(Seq(Nodes)) /\ \A w \in 1..Len(Waves) : Len(Waves[w]) > 0
    BY WavesAssumption DEF SoundWaves
  <1>2. \A w \in 1..Len(Waves) : Waves[w] \in Seq(Nodes)
    BY <1>1
  <1> QED
    BY <1>1, <1>2

LEMMA WavePlaces ==
  ASSUME NEW v \in 1..Len(Waves), NEW i \in 1..Len(Waves[v])
  PROVE  Waves[v][i] \in Nodes
  BY WavesFacts

(* A node stands in one place, and its predecessors in earlier waves. *)
LEMMA OnePlace ==
  ASSUME NEW v \in 1..Len(Waves), NEW i \in 1..Len(Waves[v]),
         NEW w \in 1..Len(Waves), NEW j \in 1..Len(Waves[w])
  PROVE  /\ Waves[v][i] = Waves[w][j] => v = w /\ i = j
         /\ <<Waves[v][i], Waves[w][j]>> \in PlanEdges => v < w
  <1>1. \A a, b \in 1..Len(Waves) : \A k \in 1..Len(Waves[a]), l \in 1..Len(Waves[b]) :
          Waves[a][k] = Waves[b][l] => a = b /\ k = l
    BY WavesAssumption, Zenon DEF SoundWaves
  <1>2. \A a, b \in 1..Len(Waves) : \A k \in 1..Len(Waves[a]), l \in 1..Len(Waves[b]) :
          <<Waves[a][k], Waves[b][l]>> \in PlanEdges => a < b
    BY WavesAssumption, Zenon DEF SoundWaves
  <1>3. Waves[v][i] = Waves[w][j] => v = w /\ i = j
    BY <1>1
  <1>4. <<Waves[v][i], Waves[w][j]>> \in PlanEdges => v < w
    BY <1>2
  <1> QED
    BY <1>3, <1>4

LEMMA EveryNodePlaced ==
  ASSUME NEW n \in Nodes
  PROVE  \E v \in 1..Len(Waves) : \E i \in 1..Len(Waves[v]) : Waves[v][i] = n
  <1>1. PICK v \in 1..Len(Waves) : n \in Members(Waves[v])
    BY WavesAssumption DEF SoundWaves
  <1> QED
    BY <1>1 DEF Members

LEMMA NodeType == ASSUME InWave PROVE node \in Nodes
  BY WavePlaces DEF InWave, node

LEMMA AtNodeInWave == ASSUME CtlOK, EngineOK, AtNode PROVE InWave
  BY WavesFacts DEF CtlOK, EngineOK, AtNode, InWave

(* Inside a boundary the loop stands on a node of the plan. *)
LEMMA FreshNode == ASSUME IInv, pc \in Fresh PROVE AtNode /\ InWave /\ node \in Nodes
  BY AtNodeInWave, NodeType DEF IInv, Quiet, Position

-----------------------------------------------------------------------------
(* Steps that share a shape. *)

LEMMA TypeParts ==
  TypeOK <=> /\ CtlOK /\ MemOK /\ LogOK /\ DiskOK /\ FlagOK /\ RouterTypeOK /\ BudgetTypeOK
             /\ cursor \in 1..(Len(Waves) + 1) /\ wavePos \in Nat
  BY DEF TypeOK, CtlOK, MemOK, LogOK, DiskOK, FlagOK

(* Emitting an event of a node, or of the session. *)
LEMMA EmitType ==
  ASSUME LogOK, NEW kind \in EventKinds, NEW n \in Nodes \cup {"session"},
         NEW at \in Nodes \cup EventNotes, NEW tok \in Nat,
         log' = Append(log, Event(kind, n, at, tok, "none"))
  PROVE  LogOK'
  <1>1. Event(kind, n, at, tok, "none") \in LoggedEvent
    BY DEF Event, LoggedEvent, Reasons
  <1> QED
    BY <1>1 DEF LogOK

(* Emitting a gate.fail. *)
LEMMA FailType ==
  ASSUME LogOK, node \in Nodes, NEW by \in EventNotes, NEW r \in Reasons, EmitFail(by, r)
  PROVE  LogOK'
  <1>1. Event("gate.fail", node, by, 0, r) \in LoggedEvent
    BY DEF Event, LoggedEvent, EventKinds
  <1> QED
    BY <1>1 DEF LogOK, EmitFail

(* Rows depends on the rows and the cursor only. *)
LEMMA SameRows == ASSUME Rows, UNCHANGED <<wal, cursor, wavePos>> PROVE Rows'
  <1>1. Committed' = Committed
    BY DEF Committed
  <1>2. CommitOrder'
    <2>1. CommitOrder /\ wal' = wal
      BY DEF Rows
    <2>2. \A k : CommittedBefore(k)' = CommittedBefore(k)
      BY <2>1 DEF CommittedBefore
    <2> QED
      BY <2>1, <2>2 DEF CommitOrder, Before
  <1> QED
    BY <1>1, <1>2 DEF Rows, Placed

LEMMA QuietStep == ASSUME Quiet, TraceOnly PROVE Quiet'
  <1> USE DEF TraceOnly, Quiet
  <1>1. EngineOK' /\ FlagOK'
    BY DEF EngineOK, engineVars, FlagOK, intVars
  <1>2. MemOK' /\ DiskOK'
    BY DEF MemOK, memVars, DiskOK
  <1>3. RouterTypeOK' /\ BudgetTypeOK'
    BY DEF RouterTypeOK, routerVars, BudgetTypeOK, budgetVars
  <1>4. UNCHANGED <<wal, cursor, wavePos>>
    BY DEF engineVars
  <1>5. Rows'
    BY <1>4, SameRows
  <1> QED
    BY <1>1, <1>2, <1>3, <1>5

(* A jump from one point of a boundary to another, before its commit. *)
LEMMA FreshStep ==
  ASSUME IInv, pc \in Fresh, pc' \in Fresh,
         UNCHANGED <<wave, idx, end, cursor, wavePos, walState>>
  PROVE  Position' /\ Life' /\ node' = node
  <1>1. AtNode /\ end = NoEnd /\ walState = "RUNNING"
    BY DEF IInv, Position, Life, Fresh, PCs, OpenPCs, Running
  <1>2. AtNode'
    BY <1>1 DEF AtNode
  <1>3. Position'
    BY <1>2 DEF Position, Fresh, OpenPCs
  <1>4. Life'
    BY <1>1 DEF Life, Fresh, PCs, OpenPCs, Running
  <1> QED
    BY <1>3, <1>4 DEF node

(* A boundary that is being stopped, and the session with it. *)
LEMMA StopStep ==
  ASSUME IInv, InWave, pc \in Running, NEW kind \in {"reject", "escalate"},
         NEW s \in {"SUSPENDED", "HALTED", "FAILED"}, NEW r \in Reasons,
         StopWith(kind, End(s, r)), walState' = walState
  PROVE  CtlOK' /\ Position' /\ Indices' /\ Life'
  <1>1. /\ pc' = "stop" /\ end' = End(s, r) /\ end'.state = s
        /\ end' # NoEnd /\ wave' = wave /\ idx' = idx /\ walState = "RUNNING"
        /\ loc' = [loc EXCEPT !.stop = kind]
    BY DEF StopWith, End, NoEnd, IInv, Life
  <1>2. loc' \in Locals
    BY <1>1 DEF IInv, CtlOK, Locals
  <1>3. CtlOK'
    BY <1>1, <1>2 DEF IInv, CtlOK, PCs, OpenPCs, End, TerminalStates
  <1>4. InWave'
    BY <1>1 DEF InWave
  <1>5. Position' /\ Indices'
    BY <1>1, <1>4 DEF Position, Indices, OpenPCs, Fresh
  <1>6. Life'
    BY <1>1 DEF Life, OpenPCs, Running, PCs
  <1> QED
    BY <1>3, <1>5, <1>6

-----------------------------------------------------------------------------

LEMMA InitIInv == Init => IInv
  <1> SUFFICES ASSUME Init PROVE IInv
    OBVIOUS
  <1> USE DEF Init
  <1>1. NoTurn \in Turn
    BY DEF NoTurn, Turn, Payloads
  <1>2. NoLocals \in Locals
    BY <1>1 DEF NoLocals, Locals
  <1>3. CtlOK
    BY <1>2, WavesFacts DEF CtlOK, PCs, OpenPCs, NoEnd, End, Reasons
  <1>4. LogOK
    BY DEF LogOK
  <1>5. FlagOK
    BY DEF FlagOK
  <1>6. MemOK
    BY DEF MemOK
  <1>7. DiskOK
    BY DEF DiskOK
  <1>8. EngineOK
    BY WavesFacts DEF EngineOK
  <1>9. RouterTypeOK
    BY DEF RouterTypeOK, RouterInit, HaltReasons
  <1>10. BudgetTypeOK
    BY DEF BudgetTypeOK, BudgetInit
  <1>11. Rows
    <2>1. Committed = {}
      BY DEF Committed
    <2>2. Placed(cursor, wavePos) = {}
      BY WavesFacts DEF Placed
    <2>3. CommitOrder
      BY DEF CommitOrder
    <2> QED
      BY <2>1, <2>2, <2>3 DEF Rows
  <1>12. Position /\ Indices /\ Life
    BY DEF Position, Indices, Life, OpenPCs, Running, PCs, Fresh
  <1> QED
    BY <1>3, <1>4, <1>5, <1>6, <1>7, <1>8, <1>9, <1>10, <1>11, <1>12
       DEF IInv, Quiet

-----------------------------------------------------------------------------
(* Opening, the loops and closing. *)

LEMMA OpenSteps ==
  ASSUME IInv, EmitSessionOpen \/ EmitPlanCompiled
  PROVE  IInv'
  <1>1. /\ pc \in {"opened", "compiled"} /\ pc' \in {"compiled", "activate"}
        /\ UNCHANGED <<wave, idx, loc, end>> /\ TraceOnly
    BY DEF EmitSessionOpen, EmitPlanCompiled, Goto
  <1>2. LogOK'
    <2>1. "session.open" \in EventKinds /\ "plan.compiled" \in EventKinds /\ "" \in EventNotes
      BY DEF EventKinds, EventNotes
    <2> QED
      BY <2>1, EmitType DEF IInv, EmitSessionOpen, EmitPlanCompiled, EmitSession
  <1>3. CtlOK'
    BY <1>1 DEF IInv, CtlOK, PCs, OpenPCs
  <1>4. UNCHANGED <<cursor, wavePos, walState>>
    BY <1>1 DEF TraceOnly, engineVars
  <1>5. Position' /\ Indices'
    BY <1>1, <1>4 DEF IInv, Position, Indices, OpenPCs, Fresh
  <1>6. Life'
    BY <1>1, <1>4 DEF IInv, Life, OpenPCs, Running, PCs
  <1> QED
    BY <1>1, <1>2, <1>3, <1>5, <1>6, QuietStep DEF IInv

(* The steps that write the sessions row. *)
LEMMA RowSteps ==
  ASSUME IInv, OpenSession \/ Activate \/ Finish
  PROVE  IInv'
  <1>1. /\ UNCHANGED <<wave, idx, loc, end, cursor, wavePos, log, wal, responses>>
        /\ UNCHANGED <<attempts, routedIn, outputs, concerns, intVars, routerVars, budgetVars>>
    BY DEF OpenSession, Activate, Finish, Goto, engineVars, memVars
  <1>2. \/ pc = "open" /\ pc' = "opened" /\ walState' = "INIT" /\ state' = state
        \/ pc = "activate" /\ pc' = "wave" /\ walState' = "RUNNING" /\ state' = "RUNNING"
        \/ pc = "finish" /\ pc' = "close" /\ walState' = end.state /\ state' = end.state
    BY DEF OpenSession, Activate, Finish, Goto, memVars
  <1>3. pc = "finish" => end.state \in TerminalStates
    BY DEF IInv, Life
  <1>4. CtlOK' /\ LogOK'
    BY <1>1, <1>2 DEF IInv, CtlOK, LogOK, PCs, OpenPCs
  <1>5. MemOK' /\ DiskOK' /\ FlagOK'
    <2>1. MemOK'
      BY <1>1, <1>2, <1>3 DEF IInv, Quiet, MemOK
    <2>2. DiskOK'
      BY <1>1, <1>2, <1>3 DEF IInv, Quiet, DiskOK
    <2>3. FlagOK'
      BY <1>1 DEF IInv, Quiet, FlagOK, intVars
    <2> QED
      BY <2>1, <2>2, <2>3
  <1>6. EngineOK' /\ RouterTypeOK' /\ BudgetTypeOK'
    BY <1>1 DEF IInv, Quiet, EngineOK, RouterTypeOK, routerVars, BudgetTypeOK, budgetVars
  <1>7. Rows'
    BY <1>1, SameRows DEF IInv, Quiet
  <1>8. Position' /\ Indices'
    BY <1>1, <1>2 DEF IInv, Position, Indices, OpenPCs, Fresh
  <1>9. Life'
    BY <1>1, <1>2 DEF IInv, Life, OpenPCs, Running, PCs
  <1> QED
    BY <1>4, <1>5, <1>6, <1>7, <1>8, <1>9 DEF IInv, Quiet

LEMMA NextWaveIInv == ASSUME IInv, NextWave PROVE IInv'
  <1>1. /\ pc = "wave" /\ UNCHANGED <<log, cursor, wavePos, walState>> /\ TraceOnly
        /\ loc' = loc
    BY DEF NextWave, ControlOnly, TraceOnly, engineVars, LeaveLoop
  <1>2. LogOK' /\ Quiet' /\ end = NoEnd /\ walState = "RUNNING" /\ wavePos = 0
    BY <1>1, QuietStep DEF IInv, LogOK, Life, Position, PCs, OpenPCs, Running
  <1>3. /\ cursor \in 1..(Len(Waves) + 1) /\ Len(Waves) \in Nat
        /\ \A w \in 1..Len(Waves) : Len(Waves[w]) \in Nat /\ Len(Waves[w]) > 0
    BY WavesFacts DEF IInv, Quiet, EngineOK
  <1>4. CASE pc' = "finish"
    <2>1. /\ wave' = wave /\ idx' = idx
          /\ \/ cursor > Len(Waves) /\ end' = End("COMPLETED", "none")
             \/ end' = Interrupted
      BY <1>1, <1>4 DEF NextWave, LeaveLoop
    <2>2. /\ end'.state \in {"COMPLETED", "SUSPENDED"} /\ end'.reason = "none"
          /\ end' \in [state : TerminalStates \cup {"none"}, reason : Reasons]
          /\ end'.state = "COMPLETED" => cursor = Len(Waves) + 1
      BY <1>3, <2>1 DEF End, Interrupted, TerminalStates, Reasons
    <2>3. CtlOK'
      BY <1>1, <1>4, <2>1, <2>2 DEF IInv, CtlOK, PCs
    <2>4. Position' /\ Indices'
      BY <1>4 DEF Position, Indices, OpenPCs, Fresh
    <2>5. Life'
      BY <1>1, <1>2, <1>4, <2>2 DEF Life, OpenPCs, Running, PCs, TerminalStates
    <2> QED
      BY <1>2, <2>3, <2>4, <2>5 DEF IInv
  <1>5. CASE pc' # "finish"
    <2>1. cursor <= Len(Waves) /\ pc' = "node" /\ wave' = cursor /\ idx' = 1 /\ end' = end
      BY <1>5 DEF NextWave, LeaveLoop
    <2>2. CtlOK'
      BY <1>1, <1>3, <2>1 DEF IInv, CtlOK, PCs
    <2>3. AtNode'
      BY <1>1, <1>2, <1>3, <2>1 DEF AtNode
    <2>4. Position' /\ Indices'
      BY <2>1, <2>3 DEF Position, Indices, OpenPCs, Fresh
    <2>5. Life'
      BY <1>1, <1>2, <2>1 DEF Life, OpenPCs, Running, PCs
    <2> QED
      BY <1>2, <2>2, <2>4, <2>5 DEF IInv
  <1> QED
    BY <1>4, <1>5

LEMMA NextNodeIInv == ASSUME IInv, NextNode PROVE IInv'
  <1>1. /\ pc = "node" /\ UNCHANGED <<log, cursor, wavePos, walState>> /\ TraceOnly
        /\ loc' = loc /\ wave' = wave /\ idx' = idx
    BY DEF NextNode, ControlOnly, TraceOnly, engineVars, LeaveLoop, Goto
  <1>2. LogOK' /\ Quiet' /\ end = NoEnd /\ walState = "RUNNING"
    BY <1>1, QuietStep DEF IInv, LogOK, Life, PCs, OpenPCs, Running
  <1>3. \/ pc' = "wave" /\ idx > Len(Waves[wave]) /\ end' = end
        \/ pc' = "finish" /\ end' = Interrupted
        \/ pc' = "start" /\ idx <= Len(Waves[wave]) /\ end' = end
    BY DEF NextNode, LeaveLoop, Goto
  <1>4. /\ Interrupted \in [state : TerminalStates \cup {"none"}, reason : Reasons]
        /\ Interrupted.state = "SUSPENDED"
    BY DEF Interrupted, End, TerminalStates, Reasons
  <1>5. CtlOK'
    BY <1>1, <1>3, <1>4 DEF IInv, CtlOK, PCs, OpenPCs
  <1>6. /\ AtNode \/ (wave \in 1..Len(Waves) /\ idx > Len(Waves[wave]) /\ wavePos = 0)
        /\ wave \in 1..Len(Waves) /\ Len(Waves[wave]) \in Nat /\ idx \in Nat
    BY <1>1, AtNodeInWave, WavesFacts DEF IInv, Quiet, Position, InWave, CtlOK
  <1>7. AtNode' <=> AtNode
    BY <1>1 DEF AtNode
  <1>8. pc' = "start" => AtNode
    BY <1>3, <1>6
  <1>9. pc' = "wave" => wavePos = 0
    BY <1>3, <1>6 DEF AtNode
  <1>10. Position' /\ Indices'
    BY <1>1, <1>3, <1>7, <1>8, <1>9 DEF Position, Indices, OpenPCs, Fresh
  <1>11. Life'
    BY <1>1, <1>2, <1>3, <1>4 DEF Life, OpenPCs, Running, PCs, TerminalStates
  <1> QED
    BY <1>2, <1>5, <1>10, <1>11 DEF IInv

LEMMA StopNodeIInv == ASSUME IInv, StopNode PROVE IInv'
  <1>1. /\ pc = "stop" /\ UNCHANGED <<cursor, wavePos, walState>> /\ TraceOnly
        /\ loc' = loc /\ wave' = wave /\ end' = end
        /\ Emit("node.stop", loc.stop)
    BY DEF StopNode, TraceOnly, engineVars, Goto
  <1>2. /\ walState = "RUNNING" /\ InWave /\ node \in Nodes
        /\ end = NoEnd => Passed
        /\ end # NoEnd => end.state \in {"SUSPENDED", "HALTED", "FAILED"}
    BY <1>1, NodeType DEF IInv, Life, Position, PCs, OpenPCs, Running
  <1>3. LogOK'
    <2>1. "node.stop" \in EventKinds /\ loc.stop \in EventNotes
      BY DEF IInv, CtlOK, Locals, EventKinds, EventNotes
    <2> QED
      BY <1>1, <1>2, <2>1, EmitType DEF Emit, IInv
  <1>4. Quiet'
    BY <1>1, QuietStep DEF IInv
  <1>5. CASE end = NoEnd
    <2>1. pc' = "node" /\ idx' = idx + 1
      BY <1>5 DEF StopNode
    <2>2. CtlOK'
      BY <1>1, <2>1 DEF IInv, CtlOK, PCs
    <2>3. Passed /\ wave \in 1..Len(Waves) /\ idx \in 1..Len(Waves[wave])
          /\ Len(Waves[wave]) \in Nat /\ Len(Waves) \in Nat
      BY <1>2, <1>5, WavesFacts DEF InWave
    <2>4. AtNode' \/ (wave' \in 1..Len(Waves) /\ idx' > Len(Waves[wave']) /\ wavePos' = 0)
      BY <1>1, <2>1, <2>3 DEF Passed, AtNode
    <2>5. Position' /\ Indices'
      BY <2>1, <2>4 DEF Position, Indices, OpenPCs, Fresh
    <2>6. Life'
      BY <1>1, <1>2, <1>5, <2>1 DEF Life, OpenPCs, Running, PCs
    <2> QED
      BY <1>3, <1>4, <2>2, <2>5, <2>6 DEF IInv
  <1>6. CASE end # NoEnd
    <2>1. pc' = "finish" /\ idx' = idx
      BY <1>6 DEF StopNode, Goto
    <2>2. CtlOK'
      BY <1>1, <2>1 DEF IInv, CtlOK, PCs
    <2>3. Position' /\ Indices'
      BY <2>1 DEF Position, Indices, OpenPCs, Fresh
    <2>4. Life'
      BY <1>1, <1>2, <1>6, <2>1 DEF Life, OpenPCs, Running, PCs, TerminalStates
    <2> QED
      BY <1>3, <1>4, <2>2, <2>3, <2>4 DEF IInv
  <1> QED
    BY <1>5, <1>6

LEMMA CloseSessionIInv == ASSUME IInv, CloseSession PROVE IInv'
  <1>1. /\ pc = "close" /\ pc' = "done" /\ UNCHANGED <<wave, idx, loc, end>> /\ TraceOnly
        /\ EmitSession("session.close", state)
    BY DEF CloseSession, Goto
  <1>2. LogOK'
    <2>1. "session.close" \in EventKinds /\ state \in EventNotes
      BY <1>1 DEF IInv, Life, EventKinds, EventNotes
    <2> QED
      BY <1>1, <2>1, EmitType DEF EmitSession, IInv
  <1>3. CtlOK' /\ Position' /\ Indices'
    BY <1>1 DEF IInv, CtlOK, PCs, OpenPCs, Position, Indices, Fresh
  <1>4. Life'
    BY <1>1 DEF Life, OpenPCs, Running, PCs
  <1> QED
    BY <1>1, <1>2, <1>3, <1>4, QuietStep DEF IInv

(* A process that dies, or panics on a pre-gate's retry verdict. *)
LEMMA DeadStep ==
  ASSUME IInv, LogOK', pc' = "dead", UNCHANGED <<wave, idx, loc, end>>, TraceOnly
  PROVE  IInv'
  <1>1. CtlOK' /\ Position' /\ Indices'
    BY DEF IInv, CtlOK, PCs, OpenPCs, Position, Indices, Fresh
  <1>2. Life'
    BY DEF Life, OpenPCs, Running, PCs
  <1> QED
    BY <1>1, <1>2, QuietStep DEF IInv

(* A signal changes its flag only. *)
LEMMA InterruptIInv == ASSUME IInv, Interrupt PROVE IInv'
  <1>1. /\ UNCHANGED <<ctlVars, engineVars, memVars, diskVars, routerVars, budgetVars>>
        /\ interrupt' = TRUE /\ interruptAt' = Len(log)
    BY DEF Interrupt
  <1>2. /\ UNCHANGED <<pc, wave, idx, loc, end, cursor, wavePos>>
        /\ UNCHANGED <<attempts, routedIn, outputs, concerns, state>>
        /\ UNCHANGED <<log, wal, walState, responses>>
    BY <1>1 DEF ctlVars, engineVars, memVars, diskVars
  <1>3. CtlOK' /\ LogOK' /\ MemOK' /\ DiskOK' /\ EngineOK'
    BY <1>2 DEF IInv, Quiet, CtlOK, LogOK, MemOK, DiskOK, EngineOK
  <1>4. FlagOK' /\ RouterTypeOK' /\ BudgetTypeOK'
    BY <1>1 DEF IInv, Quiet, FlagOK, LogOK, RouterTypeOK, routerVars, BudgetTypeOK, budgetVars
  <1>5. Rows'
    BY <1>2, SameRows DEF IInv, Quiet
  <1>6. Position' /\ Indices' /\ Life'
    BY <1>2 DEF IInv, Position, Indices, Life, AtNode, InWave, Passed, node
  <1> QED
    BY <1>3, <1>4, <1>5, <1>6 DEF IInv, Quiet

-----------------------------------------------------------------------------
(* The boundary of a node, up to routing. *)

(* Gate lists are not empty. *)
LEMMA GateLists ==
  ASSUME NEW n \in Nodes
  PROVE  /\ PreGates[n] \in Seq(GateIds) /\ 1 \in 1..Len(PreGates[n])
         /\ PostGates[n] \in Seq(GateIds) /\ 1 \in 1..Len(PostGates[n])
  <1>1. PreGates[n] \in Seq(GateIds) /\ PostGates[n] \in Seq(GateIds)
    BY InstanceAssumption
  <1>2. "G0" \in Members(PreGates[n]) /\ "schema" \in Members(PostGates[n])
    BY InstanceAssumption
  <1>3. (\E i \in 1..Len(PreGates[n]) : TRUE) /\ (\E i \in 1..Len(PostGates[n]) : TRUE)
    BY <1>2 DEF Members
  <1> QED
    BY <1>1, <1>3

LEMMA StartNodeIInv == ASSUME IInv, StartNode PROVE IInv'
  <1>1. PICK f \in Transfers :
          loc' = [NoLocals EXCEPT !.from = routedIn[node], !.fits = f,
                                  !.taint = InputTaint(node)]
    BY DEF StartNode, GotoWith
  <1>2. /\ pc = "start" /\ pc' = "pre" /\ UNCHANGED <<wave, idx, end>> /\ TraceOnly
        /\ Emit("node.start", "")
        /\ UNCHANGED <<cursor, wavePos, walState>>
    BY DEF StartNode, GotoWith, TraceOnly, engineVars
  <1>3. pc \in Fresh /\ pc' \in Fresh
    BY <1>2 DEF Fresh
  <1>4. node \in Nodes /\ node' = node /\ Position' /\ Life'
    BY <1>2, <1>3, FreshNode, FreshStep
  <1>5. LogOK'
    <2>1. "node.start" \in EventKinds /\ "" \in EventNotes
      BY DEF EventKinds, EventNotes
    <2> QED
      BY <1>2, <1>4, <2>1, EmitType DEF Emit, IInv
  <1>6. loc' \in Locals /\ loc'.gate = 1
    <2>1. routedIn[node] \in Nodes \cup {"none"} /\ f \in BOOLEAN
      BY <1>4, InstanceAssumption DEF IInv, Quiet, MemOK
    <2>2. InputTaint(node) \in BOOLEAN
      BY DEF InputTaint
    <2>3. NoTurn \in Turn
      BY DEF NoTurn, Turn, Payloads
    <2>4. NoLocals \in Locals /\ NoLocals.gate = 1
      BY <2>3 DEF NoLocals, Locals
    <2> QED
      BY <1>1, <2>1, <2>2, <2>4 DEF Locals
  <1>7. CtlOK'
    BY <1>2, <1>6 DEF IInv, CtlOK, PCs
  <1>8. Indices'
    BY <1>2, <1>4, <1>6, GateLists DEF Indices
  <1> QED
    BY <1>2, <1>4, <1>5, <1>7, <1>8, QuietStep DEF IInv

(* A gate leaves an event of its node. *)
LEMMA GateEvent ==
  ASSUME LogOK, node \in Nodes, NEW g \in GateIds, NEW v, EmitGate(g, v)
  PROVE  LogOK'
  <1>1. "gate.pass" \in EventKinds /\ g \in EventNotes /\ FailReason(g) \in Reasons
    BY DEF EventKinds, EventNotes, FailReason, Reasons
  <1>2. CASE v = "pass"
    BY <1>1, <1>2, EmitType DEF EmitGate, Emit
  <1>3. CASE v # "pass"
    BY <1>1, <1>3, FailType DEF EmitGate
  <1> QED
    BY <1>2, <1>3

(* The session's reasons to stop a boundary. *)
LEMMA Endings ==
  /\ Rejected = End("FAILED", "GATE_REJECT") /\ "GATE_REJECT" \in Reasons
  /\ OverBudget = End("SUSPENDED", "BUDGET_EXCEEDED") /\ "BUDGET_EXCEEDED" \in Reasons
  /\ Interrupted = End("SUSPENDED", "none") /\ "none" \in Reasons
  /\ "PROVIDER_FAILURE" \in Reasons /\ "TIMEOUT" \in Reasons
  BY DEF Rejected, OverBudget, Interrupted, Reasons

LEMMA FreshRuns == Fresh \subseteq Running
  BY DEF Fresh, Running, PCs, OpenPCs

LEMMA PreGateIInv == ASSUME IInv, PreGate PROVE IInv'
  <1>1. /\ pc = "pre" /\ TraceOnly /\ UNCHANGED <<cursor, wavePos, walState>>
        /\ EmitGate(PreGates[node][loc.gate], PreVerdict)
    BY DEF PreGate, TraceOnly, engineVars
  <1>2. /\ pc \in Fresh /\ pc \in Running /\ InWave /\ node \in Nodes
        /\ loc.gate \in 1..Len(PreGates[node]) /\ walState = "RUNNING" /\ end = NoEnd
    BY <1>1, FreshNode, FreshRuns DEF Fresh, IInv, Indices, Life, PCs
  <1>3. PreGates[node][loc.gate] \in GateIds
    BY <1>2, GateLists
  <1>4. LogOK'
    BY <1>1, <1>2, <1>3, GateEvent DEF IInv
  <1>5. Quiet'
    BY <1>1, QuietStep DEF IInv
  <1>6. CASE PreVerdict = "pass" /\ loc.gate = Len(PreGates[node])
    <2>1. /\ pc' = "attempt" /\ loc' = [loc EXCEPT !.gate = 1]
          /\ UNCHANGED <<wave, idx, end>>
      BY <1>6 DEF PreGate, GotoWith
    <2>2. pc' \in Fresh /\ loc' \in Locals
      BY <2>1 DEF Fresh, IInv, CtlOK, Locals
    <2>3. CtlOK' /\ Indices'
      BY <2>1, <2>2 DEF IInv, CtlOK, PCs, Indices
    <2> QED
      BY <1>1, <1>2, <1>4, <1>5, <2>1, <2>2, <2>3, FreshStep DEF IInv
  <1>7. CASE PreVerdict = "pass" /\ loc.gate # Len(PreGates[node])
    <2>1. /\ pc' = "pre" /\ loc' = [loc EXCEPT !.gate = @ + 1]
          /\ UNCHANGED <<wave, idx, end>>
      BY <1>7 DEF PreGate, GotoWith
    <2>2. pc' \in Fresh /\ loc' \in Locals /\ loc'.gate = loc.gate + 1
      BY <2>1 DEF Fresh, IInv, CtlOK, Locals
    <2>3. Position' /\ Life' /\ node' = node
      BY <1>1, <1>2, <2>1, <2>2, FreshStep
    <2>4. loc.gate + 1 \in 1..Len(PreGates[node])
      BY <1>2, <1>7, GateLists
    <2>5. CtlOK' /\ Indices'
      BY <2>1, <2>2, <2>3, <2>4 DEF IInv, CtlOK, PCs, Indices
    <2> QED
      BY <1>4, <1>5, <2>3, <2>5 DEF IInv
  <1>8. CASE PreVerdict = "exceeded"
    <2>1. pc' = "suspend" /\ UNCHANGED <<wave, idx, loc, end>>
      BY <1>8 DEF PreGate, Goto
    <2>2. CtlOK' /\ Indices'
      BY <2>1 DEF IInv, CtlOK, PCs, Indices
    <2>3. Position'
      BY <1>2, <2>1 DEF Position, OpenPCs, Fresh, InWave
    <2>4. Life'
      BY <1>1, <1>2, <2>1 DEF Life, OpenPCs, Running, PCs
    <2> QED
      BY <1>4, <1>5, <2>2, <2>3, <2>4 DEF IInv
  <1>9. CASE PreVerdict = "reject"
    <2>1. StopWith("reject", Rejected)
      BY <1>9 DEF PreGate
    <2> QED
      BY <1>1, <1>2, <1>4, <1>5, <2>1, StopStep, Endings DEF IInv
  <1>10. CASE PreVerdict = "retry"
    BY <1>1, <1>4, <1>10, DeadStep DEF PreGate, Goto
  <1> QED
    BY <1>6, <1>7, <1>8, <1>9, <1>10 DEF PreGate

LEMMA EmitSuspendIInv == ASSUME IInv, EmitSuspend PROVE IInv'
  <1>1. /\ pc = "suspend" /\ TraceOnly /\ walState' = walState
        /\ StopWith("escalate", OverBudget) /\ EmitSession("budget.event", "suspend")
    BY DEF EmitSuspend, TraceOnly
  <1>2. pc \in Running /\ InWave
    BY <1>1 DEF IInv, Position, Running, PCs, OpenPCs
  <1>3. LogOK'
    <2>1. "budget.event" \in EventKinds /\ "suspend" \in EventNotes
      BY DEF EventKinds, EventNotes
    <2> QED
      BY <1>1, <2>1, EmitType DEF EmitSession, IInv
  <1> QED
    BY <1>1, <1>2, <1>3, StopStep, Endings, QuietStep DEF IInv

LEMMA BeginAttemptIInv == ASSUME IInv, BeginAttempt PROVE IInv'
  <1>1. /\ pc = "attempt" /\ TraceOnly /\ log' = log
        /\ UNCHANGED <<cursor, wavePos, walState>>
    BY DEF BeginAttempt, ControlOnly, TraceOnly, engineVars
  <1>2. pc \in Fresh /\ pc \in Running /\ InWave /\ Quiet' /\ LogOK'
    BY <1>1, FreshNode, FreshRuns, QuietStep DEF Fresh, IInv, LogOK
  <1>3. CASE interrupt
    <2>1. StopWith("escalate", Interrupted)
      BY <1>3 DEF BeginAttempt
    <2> QED
      BY <1>1, <1>2, <2>1, StopStep, Endings DEF IInv
  <1>4. CASE ~interrupt
    <2>1. /\ pc' = "exec" /\ loc' = [loc EXCEPT !.gate = 1, !.edge = 1]
          /\ UNCHANGED <<wave, idx, end>>
      BY <1>4 DEF BeginAttempt, GotoWith
    <2>2. pc' \in Fresh
      BY <2>1 DEF Fresh
    <2>3. loc' \in Locals /\ loc'.gate = 1
      <3>1. loc \in Locals
        BY DEF IInv, CtlOK
      <3> DEFINE first == [loc EXCEPT !.gate = 1]
      <3>2. first \in Locals /\ first.gate = 1
        BY <3>1 DEF Locals
      <3>3. loc' = [first EXCEPT !.edge = 1]
        BY <2>1, <3>1 DEF Locals
      <3> HIDE DEF first
      <3> QED
        BY <3>2, <3>3 DEF Locals
    <2>4. CtlOK' /\ Indices'
      BY <2>1, <2>3 DEF IInv, CtlOK, PCs, Indices
    <2> QED
      BY <1>1, <1>2, <2>1, <2>2, <2>4, FreshStep DEF IInv
  <1> QED
    BY <1>3, <1>4

(* A turn, cached or live, has the type of a turn. *)
LEMMA ExecuteIInv == ASSUME IInv, ExecuteCached \/ ExecuteLive PROVE IInv'
  <1>1. /\ pc = "exec" /\ pc' = "call" /\ TraceOnly /\ log' = log
        /\ UNCHANGED <<cursor, wavePos, walState, wave, idx, end>>
    BY DEF ExecuteCached, ExecuteLive, GotoWith, ControlOnly, TraceOnly, engineVars
  <1>2. pc \in Fresh /\ pc' \in Fresh /\ Quiet' /\ LogOK' /\ loc.gate = 1
    BY <1>1, QuietStep DEF Fresh, IInv, LogOK, Indices
  <1>3. loc \in Locals /\ loc.taint \in BOOLEAN
    BY DEF IInv, CtlOK, Locals
  <1>4. \E t \in Turn : loc' = [loc EXCEPT !.turn = t]
    <2>1. CASE ExecuteCached
      <3>1. OriginTurns[Len(wal) + 1] \in Turn
        BY <2>1, InstanceAssumption DEF ExecuteCached, Cached
      <3> QED
        BY <2>1, <3>1 DEF ExecuteCached, GotoWith
    <2>2. CASE ExecuteLive
      <3>1. PICK t \in Turns : loc' = [loc EXCEPT !.turn = [t EXCEPT !.taint = @ \/ loc.taint]]
        BY <2>2 DEF ExecuteLive, GotoWith
      <3>2. t \in Turn /\ t.taint \in BOOLEAN /\ (t.taint \/ loc.taint) \in BOOLEAN
        BY <1>3, InstanceAssumption DEF Turn
      <3>3. [t EXCEPT !.taint = @ \/ loc.taint] \in Turn
        BY <3>2 DEF Turn
      <3> QED
        BY <3>1, <3>3
    <2> QED
      BY <2>1, <2>2
  <1>5. loc' \in Locals /\ loc'.gate = loc.gate
    BY <1>3, <1>4 DEF Locals
  <1>6. CtlOK' /\ Indices'
    BY <1>1, <1>2, <1>5 DEF IInv, CtlOK, PCs, Indices
  <1> QED
    BY <1>1, <1>2, <1>6, FreshStep DEF IInv

(* Another attempt: the counter grows, the boundary goes back to its head. *)
LEMMA RetryStep ==
  ASSUME IInv, pc \in Fresh, RetryAttempt, LogOK', RouterTypeOK'
  PROVE  IInv'
  <1>1. /\ pc' = "attempt" /\ loc' = [loc EXCEPT !.retried = TRUE]
        /\ attempts' = [attempts EXCEPT ![node] = @ + 1]
        /\ UNCHANGED <<wave, idx, end, cursor, wavePos, wal, walState, responses>>
        /\ UNCHANGED <<routedIn, outputs, concerns, state, interrupt, interruptAt>>
        /\ UNCHANGED budgetVars
    BY DEF RetryAttempt, Bump, GotoWith, engineVars, intVars
  <1>2. pc' \in Fresh
    BY <1>1 DEF Fresh
  <1>3. loc' \in Locals
    <2>1. loc \in Locals
      BY DEF IInv, CtlOK
    <2> QED
      BY <1>1, <2>1 DEF Locals
  <1>4. CtlOK' /\ Indices'
    BY <1>1, <1>3 DEF IInv, CtlOK, PCs, Indices
  <1>5. MemOK'
    BY <1>1, FreshNode DEF IInv, Quiet, MemOK
  <1>6. DiskOK' /\ EngineOK'
    BY <1>1 DEF IInv, Quiet, DiskOK, EngineOK
  <1>7. FlagOK' /\ BudgetTypeOK'
    BY <1>1 DEF IInv, Quiet, FlagOK, BudgetTypeOK, budgetVars
  <1>8. Rows'
    BY <1>1, SameRows DEF IInv, Quiet
  <1> QED
    BY <1>1, <1>2, <1>4, <1>5, <1>6, <1>7, <1>8, FreshStep DEF IInv, Quiet

LEMMA ExecuteFailsIInv == ASSUME IInv, ExecuteFails PROVE IInv'
  <1>1. pc = "exec" /\ UNCHANGED <<log, routerVars>>
    BY DEF ExecuteFails
  <1>2. pc \in Fresh /\ pc \in Running /\ InWave
    BY <1>1, FreshNode, FreshRuns DEF Fresh
  <1>3. LogOK' /\ RouterTypeOK'
    BY <1>1 DEF IInv, Quiet, LogOK, RouterTypeOK, routerVars
  <1>4. CASE CanRetry
    BY <1>2, <1>3, <1>4, RetryStep DEF ExecuteFails
  <1>5. CASE ~CanRetry
    <2>1. PICK r \in ExecFaults : StopWith("escalate", End("HALTED", r)) /\ ControlOnly
      BY <1>5 DEF ExecuteFails
    <2>2. r \in Reasons
      BY InstanceAssumption, Endings
    <2>3. TraceOnly /\ walState' = walState
      BY <2>1 DEF ControlOnly, TraceOnly
    <2> QED
      BY <1>2, <1>3, <2>1, <2>2, <2>3, StopStep, QuietStep DEF IInv
  <1> QED
    BY <1>4, <1>5

LEMMA CacheViolationIInv == ASSUME IInv, CacheViolation PROVE IInv'
  <1>1. /\ pc = "exec" /\ TraceOnly /\ walState' = walState
        /\ StopWith("reject", Rejected) /\ EmitFail("cache", "GATE_REJECT")
    BY DEF CacheViolation, TraceOnly
  <1>2. pc \in Fresh /\ pc \in Running /\ InWave /\ node \in Nodes
    BY <1>1, FreshNode, FreshRuns DEF Fresh
  <1>3. LogOK'
    <2>1. "cache" \in EventNotes /\ "GATE_REJECT" \in Reasons
      BY DEF EventNotes, Reasons
    <2> QED
      BY <1>1, <1>2, <2>1, FailType DEF IInv
  <1> QED
    BY <1>1, <1>2, <1>3, StopStep, Endings, QuietStep DEF IInv

(* The call and its warning leave their events. *)
LEMMA CallSteps == ASSUME IInv, EmitLlmCall \/ EmitWarn PROVE IInv'
  <1>1. /\ pc \in {"call", "warn"} /\ pc' \in {"meter", "post"} /\ TraceOnly
        /\ UNCHANGED <<wave, idx, loc, end, cursor, wavePos, walState>>
    BY DEF EmitLlmCall, EmitWarn, Goto, TraceOnly, engineVars
  <1>2. /\ pc \in Fresh /\ pc' \in Fresh /\ node \in Nodes /\ loc.gate = 1
        /\ Position' /\ Life' /\ node' = node
    BY <1>1, FreshNode, FreshStep DEF Fresh, IInv, Indices
  <1>3. LogOK'
    <2>1. "llm.call" \in EventKinds /\ "budget.event" \in EventKinds
          /\ "" \in EventNotes /\ "warn" \in EventNotes /\ loc.turn.tok \in Nat
      BY DEF EventKinds, EventNotes, IInv, CtlOK, Locals, Turn
    <2> QED
      BY <1>2, <2>1, EmitType DEF EmitLlmCall, EmitWarn, EmitSession, IInv
  <1>4. CtlOK'
    BY <1>1 DEF IInv, CtlOK, PCs
  <1>5. Indices'
    BY <1>1, <1>2, GateLists DEF Indices
  <1> QED
    BY <1>1, <1>2, <1>3, <1>4, <1>5, QuietStep DEF IInv

(* Metering keeps the ledger's types. *)
LEMMA MeterTypes ==
  ASSUME BudgetTypeOK, NEW role \in Roles, NEW tok \in Nat, Meter(role, tok)
  PROVE  BudgetTypeOK'
  <1>1. /\ sessionSpent' = sessionSpent + tok /\ ledgerRows' = ledgerRows + 1
        /\ agentSpent' = [agentSpent EXCEPT ![role] = @ + tok]
        /\ teamSpent' = teamSpent + tok
    BY DEF Meter, RecordEntry
  <1>2. ASSUME NEW S PROVE FirstScope(S) \in Scopes
    BY DEF FirstScope, Scopes
  <1>3. warnFired' \subseteq Scopes
    BY <1>2 DEF Meter, RecordEntry, BudgetTypeOK
  <1>4. agentSpent' \in [Roles -> Nat]
    BY <1>1 DEF BudgetTypeOK
  <1> QED
    BY <1>1, <1>3, <1>4 DEF BudgetTypeOK

LEMMA MeterTurnIInv == ASSUME IInv, MeterTurn PROVE IInv'
  <1>1. /\ pc = "meter" /\ pc' \in {"warn", "post"}
        /\ UNCHANGED <<wave, idx, loc, end, cursor, wavePos, log, wal, walState, responses>>
        /\ UNCHANGED <<attempts, routedIn, outputs, concerns, state, interrupt, interruptAt>>
        /\ UNCHANGED routerVars
        /\ Meter(Role[node], loc.turn.tok)
    BY DEF MeterTurn, Goto, engineVars, memVars, diskVars, intVars
  <1>2. /\ pc \in Fresh /\ pc' \in Fresh /\ node \in Nodes /\ loc.gate = 1
        /\ Position' /\ Life' /\ node' = node
    BY <1>1, FreshNode, FreshStep DEF Fresh, IInv, Indices
  <1>3. BudgetTypeOK'
    <2>1. Role[node] \in Roles /\ loc.turn.tok \in Nat
      BY <1>2, InstanceAssumption DEF IInv, CtlOK, Locals, Turn
    <2> QED
      BY <1>1, <2>1, MeterTypes DEF IInv, Quiet
  <1>4. CtlOK' /\ LogOK'
    BY <1>1 DEF IInv, CtlOK, LogOK, PCs
  <1>5. Indices'
    BY <1>1, <1>2, GateLists DEF Indices
  <1>6. MemOK' /\ DiskOK' /\ EngineOK'
    BY <1>1 DEF IInv, Quiet, MemOK, DiskOK, EngineOK
  <1>7. FlagOK' /\ RouterTypeOK'
    BY <1>1 DEF IInv, Quiet, FlagOK, RouterTypeOK, routerVars
  <1>8. Rows'
    BY <1>1, SameRows DEF IInv, Quiet
  <1> QED
    BY <1>2, <1>3, <1>4, <1>5, <1>6, <1>7, <1>8 DEF IInv, Quiet

LEMMA PostGateIInv == ASSUME IInv, PostGate PROVE IInv'
  <1>1. /\ pc = "post" /\ UNCHANGED routerVars
        /\ EmitGate(PostGates[node][loc.gate], PostVerdict)
    BY DEF PostGate
  <1>2. /\ pc \in Fresh /\ pc \in Running /\ InWave /\ node \in Nodes
        /\ loc.gate \in 1..Len(PostGates[node])
    BY <1>1, FreshNode, FreshRuns DEF Fresh, IInv, Indices
  <1>3. LogOK'
    <2>1. PostGates[node][loc.gate] \in GateIds
      BY <1>2, GateLists
    <2> QED
      BY <1>1, <1>2, <2>1, GateEvent DEF IInv
  <1>4. ASSUME TraceOnly PROVE Quiet' /\ UNCHANGED <<cursor, wavePos, walState>>
    BY <1>4, QuietStep DEF IInv, TraceOnly, engineVars
  <1>5. CASE PostVerdict = "pass" /\ loc.gate = Len(PostGates[node])
    <2>1. pc' = "route" /\ UNCHANGED <<wave, idx, loc, end>> /\ TraceOnly
      BY <1>5 DEF PostGate, Goto
    <2>2. pc' \in Fresh /\ CtlOK' /\ Indices'
      BY <2>1 DEF Fresh, IInv, CtlOK, PCs, Indices
    <2> QED
      BY <1>2, <1>3, <1>4, <2>1, <2>2, FreshStep DEF IInv
  <1>6. CASE PostVerdict = "pass" /\ loc.gate # Len(PostGates[node])
    <2>1. /\ pc' = "post" /\ loc' = [loc EXCEPT !.gate = @ + 1]
          /\ UNCHANGED <<wave, idx, end>> /\ TraceOnly
      BY <1>6 DEF PostGate, GotoWith
    <2>2. pc' \in Fresh /\ loc' \in Locals /\ loc'.gate = loc.gate + 1
      BY <2>1 DEF Fresh, IInv, CtlOK, Locals
    <2>3. Position' /\ Life' /\ node' = node
      BY <1>2, <1>4, <2>1, <2>2, FreshStep
    <2>4. loc.gate + 1 \in 1..Len(PostGates[node])
      BY <1>2, <1>6, GateLists
    <2>5. CtlOK' /\ Indices'
      BY <2>1, <2>2, <2>3, <2>4 DEF IInv, CtlOK, PCs, Indices
    <2> QED
      BY <1>3, <1>4, <2>1, <2>3, <2>5 DEF IInv
  <1>7. CASE PostVerdict = "retry" /\ CanRetry
    <2>1. RetryAttempt
      BY <1>7 DEF PostGate
    <2>2. RouterTypeOK'
      BY <1>1 DEF IInv, Quiet, RouterTypeOK, routerVars
    <2> QED
      BY <1>2, <1>3, <2>1, <2>2, RetryStep
  <1>8. CASE PostVerdict = "retry" /\ ~CanRetry
    <2>1. pc' = "escalate" /\ UNCHANGED <<wave, idx, loc, end>> /\ TraceOnly
      BY <1>8 DEF PostGate, Goto
    <2>2. pc' \in Fresh /\ CtlOK'
      BY <2>1 DEF Fresh, IInv, CtlOK, PCs
    <2>3. Position' /\ Life' /\ node' = node
      BY <1>2, <1>4, <2>1, <2>2, FreshStep
    <2>4. Indices'
      BY <1>2, <2>1, <2>3 DEF Indices
    <2> QED
      BY <1>3, <1>4, <2>1, <2>2, <2>3, <2>4 DEF IInv
  <1>9. CASE PostVerdict = "exceeded" \/ PostVerdict = "reject"
    <2>1. TraceOnly /\ (StopWith("escalate", OverBudget) \/ StopWith("reject", Rejected))
      BY <1>9 DEF PostGate
    <2> QED
      BY <1>2, <1>3, <1>4, <2>1, StopStep, Endings DEF IInv
  <1> QED
    BY <1>5, <1>6, <1>7, <1>8, <1>9 DEF PostGate

LEMMA EscalateIInv == ASSUME IInv, Escalate PROVE IInv'
  <1>1. /\ pc = "escalate" /\ TraceOnly /\ walState' = walState
        /\ StopWith("reject", Rejected)
        /\ EmitGate(PostGates[node][loc.gate], PostVerdict)
    BY DEF Escalate, TraceOnly
  <1>2. /\ pc \in Fresh /\ pc \in Running /\ InWave /\ node \in Nodes
        /\ loc.gate \in 1..Len(PostGates[node])
    BY <1>1, FreshNode, FreshRuns DEF Fresh, IInv, Indices
  <1>3. LogOK'
    <2>1. PostGates[node][loc.gate] \in GateIds
      BY <1>2, GateLists
    <2> QED
      BY <1>1, <1>2, <2>1, GateEvent DEF IInv
  <1> QED
    BY <1>1, <1>2, <1>3, StopStep, Endings, QuietStep DEF IInv

-----------------------------------------------------------------------------
(* route_and_commit. *)

LEMMA SuccType ==
  ASSUME NEW n \in Nodes, NEW e \in 1..Len(Succs[n])
  PROVE  Succs[n][e] \in Nodes
  BY WavesAssumption

LEMMA RequestHandoffIInv == ASSUME IInv, RequestHandoff PROVE IInv'
  <1>1. /\ pc = "route" /\ pc' = "decide" /\ TraceOnly
        /\ UNCHANGED <<wave, idx, loc, end, cursor, wavePos, walState>>
        /\ loc.edge <= Len(Succs[node]) /\ Emit("handoff.request", Succs[node][loc.edge])
    BY DEF RequestHandoff, Goto, TraceOnly, engineVars
  <1>2. /\ pc \in Fresh /\ pc' \in Fresh /\ node \in Nodes
        /\ Position' /\ Life' /\ node' = node
    BY <1>1, FreshNode, FreshStep DEF Fresh
  <1>3. loc.edge \in 1..Len(Succs[node])
    <2>1. loc.edge \in Nat \ {0} /\ Len(Succs[node]) \in Nat
      BY <1>2, WavesAssumption DEF IInv, CtlOK, Locals
    <2> QED
      BY <1>1, <2>1
  <1>4. LogOK'
    <2>1. "handoff.request" \in EventKinds
      BY DEF EventKinds
    <2> QED
      BY <1>1, <1>2, <1>3, <2>1, SuccType, EmitType DEF Emit, IInv
  <1>5. CtlOK' /\ Indices'
    BY <1>1, <1>2, <1>3 DEF IInv, CtlOK, PCs, Indices
  <1> QED
    BY <1>1, <1>2, <1>4, <1>5, QuietStep DEF IInv

(* What the router may answer, and that routing keeps its types. *)
LEMMA RouteTypes ==
  ASSUME RouterTypeOK, NEW from \in Nodes, NEW to \in Nodes, NEW j, Route(from, to, j)
  PROVE  RouterTypeOK' /\ Evaluate(from, to) \in HaltReasons \cup {"none"}
  <1>1. Evaluate(from, to) \in HaltReasons \cup {"none"}
    BY DEF Evaluate, RouterTypeOK, HaltReasons
  <1>2. CASE UNCHANGED routerVars
    BY <1>1, <1>2 DEF RouterTypeOK, routerVars
  <1>3. CASE UNCHANGED <<window, total, halted>>
             /\ retries' = [retries EXCEPT ![from] = @ + 1]
    BY <1>1, <1>3 DEF RouterTypeOK
  <1>4. CASE UNCHANGED <<window, total, retries>> /\ halted' = Evaluate(from, to)
    BY <1>1, <1>4 DEF RouterTypeOK
  <1>5. CASE Record(from, to) /\ UNCHANGED retries
    <2>1. <<from, to>> \in Nodes \X Nodes /\ window \in Seq(Nodes \X Nodes)
      BY DEF RouterTypeOK
    <2>2. window' \in Seq(Nodes \X Nodes)
      <3>1. CASE PingPongWindow = 0
        BY <3>1, <1>5, <2>1 DEF Record
      <3>2. CASE PingPongWindow # 0 /\ Len(window) >= PingPongWindow
        <4>1. window # <<>> /\ Tail(window) \in Seq(Nodes \X Nodes)
          BY <3>2, <2>1, RouterAssumption
        <4>2. window' = Append(Tail(window), <<from, to>>)
          BY <3>2, <1>5 DEF Record
        <4> QED
          BY <4>1, <4>2, <2>1
      <3>3. CASE PingPongWindow # 0 /\ ~(Len(window) >= PingPongWindow)
        <4>1. window' = Append(window, <<from, to>>)
          BY <3>3, <1>5 DEF Record
        <4> QED
          BY <4>1, <2>1
      <3> QED
        BY <3>1, <3>2, <3>3
    <2>3. total' \in Nat /\ halted' \in HaltReasons \cup {"none"}
      BY <1>5 DEF Record, RouterTypeOK, HaltReasons
    <2> QED
      BY <1>1, <1>5, <2>2, <2>3 DEF RouterTypeOK
  <1> QED
    BY <1>2, <1>3, <1>4, <1>5 DEF Route

LEMMA DecideHandoffIInv == ASSUME IInv, DecideHandoff PROVE IInv'
  <1> DEFINE to == Succs[node][loc.edge]
             j == Judgment(HandoffContract(node, to, loc.turn.conf))
             d == RouteDecision(node, to, j)
  <1>1. pc = "decide" /\ Route(node, to, j)
    BY DEF DecideHandoff
  <1>2. /\ pc \in Fresh /\ pc \in Running /\ InWave /\ node \in Nodes
        /\ to \in Nodes
    BY <1>1, FreshNode, FreshRuns, SuccType DEF Fresh, IInv, Indices
  <1>3. RouterTypeOK' /\ Evaluate(node, to) \in Reasons
    BY <1>1, <1>2, RouteTypes DEF IInv, Quiet, Reasons, HaltReasons
  <1>4. /\ "handoff.accept" \in EventKinds /\ "router.v1" \in EventNotes
        /\ "GATE_REJECT" \in Reasons
    BY DEF EventKinds, EventNotes, Reasons
  <1>5. CASE d = "accept"
    <2>1. /\ pc' = "route" /\ loc' = [loc EXCEPT !.edge = @ + 1]
          /\ Emit("handoff.accept", to)
          /\ routedIn' = [routedIn EXCEPT ![to] = node]
          /\ UNCHANGED <<wave, idx, end, cursor, wavePos, wal, walState, responses>>
          /\ UNCHANGED <<attempts, outputs, concerns, state, interrupt, interruptAt>>
          /\ UNCHANGED budgetVars
      BY <1>5 DEF DecideHandoff, GotoWith, RouteInto, engineVars, intVars, RouteDecision
    <2>2. LogOK'
      BY <1>2, <1>4, <2>1, EmitType DEF Emit, IInv
    <2>3. pc' \in Fresh /\ loc' \in Locals
      BY <2>1 DEF Fresh, IInv, CtlOK, Locals
    <2>4. CtlOK' /\ Indices'
      BY <2>1, <2>3 DEF IInv, CtlOK, PCs, Indices
    <2>5. MemOK'
      BY <1>2, <2>1 DEF IInv, Quiet, MemOK
    <2>6. DiskOK' /\ EngineOK'
      BY <2>1 DEF IInv, Quiet, DiskOK, EngineOK
    <2>7. FlagOK' /\ BudgetTypeOK'
      BY <2>1 DEF IInv, Quiet, FlagOK, BudgetTypeOK, budgetVars
    <2>8. Rows'
      BY <2>1, SameRows DEF IInv, Quiet
    <2>9. Position' /\ Life'
      BY <1>2, <2>1, <2>3, FreshStep
    <2> QED
      BY <1>3, <2>2, <2>4, <2>5, <2>6, <2>7, <2>8, <2>9 DEF IInv, Quiet
  <1>6. CASE d = "retry_bounded"
    <2>1. UNCHANGED log /\ RetryAttempt
      BY <1>6 DEF DecideHandoff
    <2>2. LogOK'
      BY <2>1 DEF IInv, LogOK
    <2> QED
      BY <1>2, <1>3, <2>1, <2>2, RetryStep
  <1>7. CASE d \in {"return_to_sender", "halt"}
    <2>1. /\ EmitFail("router.v1", "GATE_REJECT") \/ EmitFail("router.v1", Evaluate(node, to))
          /\ \/ StopWith("reject", Rejected)
             \/ StopWith("escalate", End("HALTED", Evaluate(node, to)))
          /\ UNCHANGED <<engineVars, memVars, wal, walState, responses, intVars, budgetVars>>
      BY <1>7 DEF DecideHandoff
    <2>2. LogOK'
      BY <1>2, <1>3, <1>4, <2>1, FailType DEF IInv
    <2>3. CtlOK' /\ Position' /\ Indices' /\ Life'
      BY <1>2, <1>3, <2>1, StopStep, Endings
    <2>4. MemOK' /\ DiskOK'
      BY <2>1 DEF IInv, Quiet, MemOK, DiskOK, memVars
    <2>5. EngineOK' /\ FlagOK' /\ BudgetTypeOK'
      BY <2>1 DEF IInv, Quiet, EngineOK, FlagOK, BudgetTypeOK, engineVars, intVars, budgetVars
    <2>6. Rows'
      BY <2>1, SameRows DEF IInv, Quiet, engineVars
    <2> QED
      BY <1>3, <2>2, <2>3, <2>4, <2>5, <2>6 DEF IInv, Quiet
  <1> QED
    BY <1>5, <1>6, <1>7 DEF DecideHandoff

-----------------------------------------------------------------------------
(* The commit. *)

(* The nodes before position p + 1 of wave c are those before the node     *)
(* that stands there, and that node is not among them.                     *)
LEMMA PlacedBefore ==
  ASSUME NEW c \in 1..Len(Waves), NEW p \in Nat, p + 1 \in 1..Len(Waves[c])
  PROVE  /\ Before(Waves[c][p + 1]) = Placed(c, p)
         /\ Waves[c][p + 1] \notin Placed(c, p)
  <1> DEFINE n == Waves[c][p + 1]
  <1>1. ASSUME NEW m \in Before(n) PROVE m \in Placed(c, p)
    <2>1. PICK v \in 1..Len(Waves), w \in 1..Len(Waves) :
            \E i \in 1..Len(Waves[v]), j \in 1..Len(Waves[w]) :
              Waves[v][i] = m /\ Waves[w][j] = n /\ (v < w \/ (v = w /\ i < j))
      BY DEF Before
    <2>2. PICK i \in 1..Len(Waves[v]), j \in 1..Len(Waves[w]) :
            Waves[v][i] = m /\ Waves[w][j] = n /\ (v < w \/ (v = w /\ i < j))
      BY <2>1
    <2>3. w = c /\ j = p + 1
      BY <2>2, OnePlace
    <2>4. v < c \/ (v = c /\ i <= p)
      BY <2>2, <2>3, WavesFacts
    <2> QED
      BY <2>2, <2>4 DEF Placed, Before
  <1>2. ASSUME NEW m \in Placed(c, p) PROVE m \in Before(n)
    <2>1. PICK v \in 1..Len(Waves) : \E i \in 1..Len(Waves[v]) :
            Waves[v][i] = m /\ (v < c \/ (v = c /\ i <= p))
      BY DEF Placed
    <2>2. PICK i \in 1..Len(Waves[v]) : Waves[v][i] = m /\ (v < c \/ (v = c /\ i <= p))
      BY <2>1
    <2>3. v < c \/ (v = c /\ i < p + 1)
      BY <2>2, WavesFacts
    <2>4. m \in Nodes
      BY DEF Placed
    <2> QED
      BY <2>2, <2>3, <2>4 DEF Before
  <1>3. ASSUME n \in Placed(c, p) PROVE FALSE
    <2>1. PICK v \in 1..Len(Waves) : \E i \in 1..Len(Waves[v]) :
            Waves[v][i] = n /\ (v < c \/ (v = c /\ i <= p))
      BY <1>3 DEF Placed
    <2>2. PICK i \in 1..Len(Waves[v]) : Waves[v][i] = n /\ (v < c \/ (v = c /\ i <= p))
      BY <2>1
    <2>3. v = c /\ i = p + 1
      BY <2>2, OnePlace
    <2> QED
      BY <2>2, <2>3
  <1> QED
    BY <1>1, <1>2, <1>3

(* Where a node stands decides whether it is placed before a position. *)
LEMMA PlacedAt ==
  ASSUME NEW v \in 1..Len(Waves), NEW i \in 1..Len(Waves[v]), NEW b \in Nat, NEW q \in Nat
  PROVE  Waves[v][i] \in Placed(b, q) <=> v < b \/ (v = b /\ i <= q)
  <1>1. ASSUME v < b \/ (v = b /\ i <= q) PROVE Waves[v][i] \in Placed(b, q)
    BY <1>1, WavePlaces DEF Placed
  <1>2. ASSUME Waves[v][i] \in Placed(b, q) PROVE v < b \/ (v = b /\ i <= q)
    <2>1. PICK w \in 1..Len(Waves) : \E j \in 1..Len(Waves[w]) :
            Waves[w][j] = Waves[v][i] /\ (w < b \/ (w = b /\ j <= q))
      BY <1>2 DEF Placed
    <2>2. PICK j \in 1..Len(Waves[w]) :
            Waves[w][j] = Waves[v][i] /\ (w < b \/ (w = b /\ j <= q))
      BY <2>1
    <2>3. w = v /\ j = i
      BY <2>2, OnePlace
    <2> QED
      BY <2>2, <2>3
  <1> QED
    BY <1>1, <1>2

(* One more place: the next position of the wave, or the next wave. *)
LEMMA PlacedNext ==
  ASSUME NEW c \in 1..Len(Waves), NEW p \in Nat, p + 1 \in 1..Len(Waves[c])
  PROVE  /\ Placed(c, p + 1) = Placed(c, p) \cup {Waves[c][p + 1]}
         /\ p + 1 = Len(Waves[c]) => Placed(c + 1, 0) = Placed(c, p + 1)
  <1>1. Waves[c][p + 1] \in Nodes
    BY WavePlaces
  <1>2. ASSUME NEW n \in Nodes
        PROVE  n \in Placed(c, p + 1) <=> n \in Placed(c, p) \/ n = Waves[c][p + 1]
    <2>1. PICK v \in 1..Len(Waves) : \E i \in 1..Len(Waves[v]) : Waves[v][i] = n
      BY EveryNodePlaced
    <2>2. PICK i \in 1..Len(Waves[v]) : Waves[v][i] = n
      BY <2>1
    <2>3. ASSUME NEW q \in Nat
          PROVE  n \in Placed(c, q) <=> v < c \/ (v = c /\ i <= q)
      <3>1. c \in Nat
        OBVIOUS
      <3>2. Waves[v][i] \in Placed(c, q) <=> v < c \/ (v = c /\ i <= q)
        BY <3>1, PlacedAt, Zenon
      <3> QED
        BY <2>2, <3>2, Zenon
    <2>4. n = Waves[c][p + 1] <=> v = c /\ i = p + 1
      BY <2>2, OnePlace
    <2>5. i \in Nat /\ v \in Nat /\ c \in Nat
      BY WavesFacts
    <2> QED
      BY <2>3, <2>4, <2>5
  <1>3. ASSUME NEW n \in Nodes, p + 1 = Len(Waves[c])
        PROVE  n \in Placed(c + 1, 0) <=> n \in Placed(c, p + 1)
    <2>1. PICK v \in 1..Len(Waves) : \E i \in 1..Len(Waves[v]) : Waves[v][i] = n
      BY EveryNodePlaced
    <2>2. PICK i \in 1..Len(Waves[v]) : Waves[v][i] = n
      BY <2>1
    <2>3. ASSUME NEW b \in Nat, NEW q \in Nat
          PROVE  n \in Placed(b, q) <=> v < b \/ (v = b /\ i <= q)
      <3>1. Waves[v][i] \in Placed(b, q) <=> v < b \/ (v = b /\ i <= q)
        BY PlacedAt, Zenon
      <3> QED
        BY <2>2, <3>1, Zenon
    <2>4. i \in Nat /\ i > 0 /\ v \in Nat /\ c \in Nat /\ (v = c => i <= p + 1)
      BY <1>3, WavesFacts
    <2> QED
      BY <2>3, <2>4
  <1> QED
    BY <1>1, <1>2, <1>3 DEF Placed

(* The new row is the next node of the wave order. *)
LEMMA CommitPointIInv == ASSUME IInv, CommitPoint PROVE IInv'
  <1> DEFINE row == [node |-> node, from |-> loc.from, taint |-> loc.turn.taint]
  <1>1. /\ pc = "route" /\ pc' = "respond" /\ UNCHANGED <<wave, idx, loc, end>>
        /\ wal' = Append(wal, row) /\ Advance
        /\ UNCHANGED <<log, walState, responses>>
        /\ UNCHANGED <<attempts, routedIn, outputs, concerns, state, interrupt, interruptAt>>
        /\ UNCHANGED <<routerVars, budgetVars>>
    BY DEF CommitPoint, Goto, memVars, intVars
  <1>2. pc \in Fresh /\ AtNode /\ InWave /\ node \in Nodes /\ end = NoEnd
        /\ walState = "RUNNING"
    BY <1>1, FreshNode DEF Fresh, IInv, Life, PCs, OpenPCs, Running
  <1>3. /\ cursor \in 1..Len(Waves) /\ wavePos \in Nat /\ Len(Waves) \in Nat
        /\ Len(Waves[cursor]) \in Nat /\ Len(Waves[cursor]) > 0
        /\ wavePos + 1 \in 1..Len(Waves[cursor])
        /\ wave = cursor /\ idx = wavePos + 1 /\ node = Waves[cursor][wavePos + 1]
        /\ \A w \in 1..Len(Waves) : Len(Waves[w]) \in Nat /\ Len(Waves[w]) > 0
    BY <1>2, WavesFacts DEF AtNode, InWave, node, IInv, Quiet, EngineOK
  <1>4. \/ /\ wavePos + 1 = Len(Waves[cursor]) /\ cursor' = cursor + 1 /\ wavePos' = 0
        \/ /\ wavePos + 1 # Len(Waves[cursor]) /\ cursor' = cursor /\ wavePos' = wavePos + 1
    BY <1>1 DEF Advance
  <1>5. EngineOK'
    BY <1>3, <1>4 DEF EngineOK
  <1>6. Passed'
    BY <1>1, <1>2, <1>3, <1>4 DEF Passed, InWave
  <1>7. row \in CheckpointRow
    <2>1. loc.from \in Nodes \cup {"none"} /\ loc.turn.taint \in BOOLEAN
      BY DEF IInv, CtlOK, Locals, Turn
    <2> QED
      BY <1>2, <2>1 DEF CheckpointRow
  <1>8. /\ wal \in Seq(CheckpointRow) /\ wal' \in Seq(CheckpointRow)
        /\ Len(wal) \in Nat /\ Len(wal') = Len(wal) + 1
        /\ \A k \in 1..Len(wal) : wal'[k] = wal[k]
        /\ wal'[Len(wal) + 1] = row
    <2>1. wal \in Seq(CheckpointRow)
      BY DEF IInv, Quiet, DiskOK
    <2> HIDE DEF row
    <2> QED
      BY <1>1, <1>7, <2>1
  <1>9. Committed' = Committed \cup {node}
    <2>1. row.node = node
      OBVIOUS
    <2> HIDE DEF row
    <2>2. Committed' = {wal'[k].node : k \in 1..(Len(wal) + 1)}
      BY <1>8 DEF Committed
    <2>3. \A k \in 1..(Len(wal) + 1) : k \in 1..Len(wal) \/ k = Len(wal) + 1
      BY <1>8
    <2>4. Len(wal) + 1 \in 1..(Len(wal) + 1) /\ \A k \in 1..Len(wal) : k \in 1..(Len(wal) + 1)
      BY <1>8
    <2> QED
      BY <1>8, <2>1, <2>2, <2>3, <2>4 DEF Committed
  <1>10. Rows'
    <2>1. Committed = Placed(cursor, wavePos) /\ CommitOrder
      BY DEF IInv, Quiet, Rows
    <2>2. Committed' = Placed(cursor', wavePos')
      BY <1>3, <1>4, <1>9, <2>1, PlacedNext
    <2>3. ASSUME NEW k \in 1..Len(wal')
          PROVE  CommittedBefore(k)' = Before(wal'[k].node)
      <3>1. CommittedBefore(k)' = CommittedBefore(k)
        <4>1. \A i \in 1..(k - 1) : i \in 1..Len(wal)
          BY <1>8
        <4> QED
          BY <1>8, <4>1 DEF CommittedBefore
      <3>2. CASE k \in 1..Len(wal)
        BY <1>8, <2>1, <3>1, <3>2 DEF CommitOrder
      <3>3. CASE k = Len(wal) + 1
        <4>1. CommittedBefore(k) = Committed
          BY <1>8, <3>3 DEF CommittedBefore, Committed
        <4>2. wal'[k].node = node
          BY <1>8, <3>3
        <4>3. Before(node) = Placed(cursor, wavePos)
          BY <1>3, PlacedBefore
        <4> QED
          BY <2>1, <3>1, <4>1, <4>2, <4>3
      <3> QED
        BY <1>8, <3>2, <3>3
    <2>4. CommitOrder'
      BY <2>3 DEF CommitOrder
    <2> QED
      BY <2>2, <2>4 DEF Rows, Placed
  <1>11. CtlOK' /\ LogOK' /\ MemOK'
    BY <1>1 DEF IInv, Quiet, CtlOK, LogOK, MemOK, PCs
  <1>12. DiskOK'
    BY <1>1, <1>8 DEF IInv, Quiet, DiskOK
  <1>13. FlagOK' /\ RouterTypeOK' /\ BudgetTypeOK'
    BY <1>1 DEF IInv, Quiet, FlagOK, RouterTypeOK, routerVars, BudgetTypeOK, budgetVars
  <1>14. Position' /\ Indices'
    BY <1>1, <1>6 DEF Position, Indices, OpenPCs, Fresh
  <1>15. Life'
    BY <1>1, <1>2 DEF Life, OpenPCs, Running, PCs
  <1> QED
    BY <1>5, <1>10, <1>11, <1>12, <1>13, <1>14, <1>15 DEF IInv, Quiet

LEMMA WriteResponseIInv == ASSUME IInv, WriteResponse PROVE IInv'
  <1>1. /\ pc = "respond" /\ pc' = "settle"
        /\ UNCHANGED <<wave, idx, loc, end, cursor, wavePos, log, wal, walState>>
        /\ UNCHANGED <<attempts, routedIn, concerns, state, interrupt, interruptAt>>
        /\ UNCHANGED <<routerVars, budgetVars>>
        /\ responses' = WithResponse(Len(wal))
        /\ outputs' = [outputs EXCEPT ![node] = IF loc.turn.taint THEN "tainted" ELSE "clean"]
    BY DEF WriteResponse, Goto, engineVars, intVars
  <1>2. Passed /\ InWave /\ node \in Nodes /\ end = NoEnd /\ walState = "RUNNING"
    BY <1>1, NodeType DEF IInv, Position, Passed, Life, PCs, OpenPCs, Running
  <1>3. MemOK'
    BY <1>1, <1>2 DEF IInv, Quiet, MemOK
  <1>4. DiskOK'
    <2>1. /\ responses \in [DOMAIN responses -> Turn] /\ DOMAIN responses \subseteq Nat
          /\ Len(wal) \in Nat /\ loc.turn \in Turn
      BY DEF IInv, Quiet, DiskOK, CtlOK, Locals
    <2>2. /\ responses' \in [DOMAIN responses \cup {Len(wal)} -> Turn]
      BY <1>1, <2>1 DEF WithResponse
    <2>3. DOMAIN responses' = DOMAIN responses \cup {Len(wal)}
      BY <2>2
    <2> QED
      BY <1>1, <2>1, <2>2, <2>3 DEF IInv, Quiet, DiskOK
  <1>5. CtlOK' /\ LogOK' /\ EngineOK'
    BY <1>1 DEF IInv, Quiet, CtlOK, LogOK, EngineOK, PCs
  <1>6. FlagOK' /\ RouterTypeOK' /\ BudgetTypeOK'
    BY <1>1 DEF IInv, Quiet, FlagOK, RouterTypeOK, routerVars, BudgetTypeOK, budgetVars
  <1>7. Rows'
    BY <1>1, SameRows DEF IInv, Quiet
  <1>8. Position' /\ Indices'
    BY <1>1, <1>2 DEF Position, Indices, OpenPCs, Fresh, Passed, InWave
  <1>9. Life'
    BY <1>1, <1>2 DEF Life, OpenPCs, Running, PCs
  <1> QED
    BY <1>3, <1>4, <1>5, <1>6, <1>7, <1>8, <1>9 DEF IInv, Quiet

LEMMA SettleIInv == ASSUME IInv, Settle PROVE IInv'
  <1>1. /\ pc = "settle" /\ Meter(Role[node], 0)
        /\ UNCHANGED <<wave, idx, cursor, wavePos, log, wal, walState, responses>>
        /\ UNCHANGED <<attempts, routedIn, outputs, state, interrupt, interruptAt>>
        /\ UNCHANGED routerVars
    BY DEF Settle, StopWith, Goto, engineVars, diskVars, intVars
  <1>2. Passed /\ InWave /\ node \in Nodes /\ end = NoEnd /\ walState = "RUNNING"
    BY <1>1, NodeType DEF IInv, Position, Passed, Life, PCs, OpenPCs, Running
  <1>3. BudgetTypeOK'
    BY <1>1, <1>2, InstanceAssumption, MeterTypes DEF IInv, Quiet
  <1>4. /\ pc' \in {"suspend", "stop"} /\ end' = NoEnd /\ loc' \in Locals
        /\ concerns' \in {concerns, concerns + 1}
    <2>1. loc \in Locals
      BY DEF IInv, CtlOK
    <2>2. [loc EXCEPT !.stop = "done"] \in Locals
      BY <2>1 DEF Locals
    <2> QED
      BY <1>2, <2>1, <2>2 DEF Settle, StopWith, Goto
  <1>5. CtlOK'
    BY <1>1, <1>2, <1>4 DEF IInv, CtlOK, PCs
  <1>6. MemOK' /\ LogOK' /\ EngineOK'
    BY <1>1, <1>4 DEF IInv, Quiet, MemOK, LogOK, EngineOK
  <1>7. DiskOK' /\ FlagOK' /\ RouterTypeOK'
    BY <1>1 DEF IInv, Quiet, DiskOK, FlagOK, RouterTypeOK, routerVars
  <1>8. Rows'
    BY <1>1, SameRows DEF IInv, Quiet
  <1>9. Passed' /\ InWave'
    BY <1>1, <1>2 DEF Passed, InWave
  <1>10. Position' /\ Indices'
    BY <1>4, <1>9 DEF Position, Indices, OpenPCs, Fresh
  <1>11. Life'
    BY <1>1, <1>2, <1>4 DEF Life, OpenPCs, Running, PCs
  <1> QED
    BY <1>3, <1>5, <1>6, <1>7, <1>8, <1>10, <1>11 DEF IInv, Quiet

-----------------------------------------------------------------------------

LEMMA NextIInv == IInv /\ [Next]_vars => IInv'
  <1> SUFFICES ASSUME IInv, [Next]_vars PROVE IInv'
    OBVIOUS
  <1>1. CASE UNCHANGED vars
    <2>1. /\ UNCHANGED <<pc, wave, idx, loc, end, log, cursor, wavePos, walState, state>>
          /\ TraceOnly
      BY <1>1 DEF vars, ctlVars, engineVars, memVars, diskVars, TraceOnly
    <2>2. CtlOK' /\ LogOK' /\ Quiet'
      BY <2>1, QuietStep DEF IInv, CtlOK, LogOK
    <2>3. Position' /\ Indices' /\ Life'
      BY <2>1 DEF IInv, Position, Indices, Life, AtNode, InWave, Passed, node
    <2> QED
      BY <2>2, <2>3 DEF IInv
  <1>2. CASE OpenSession \/ EmitSessionOpen \/ EmitPlanCompiled \/ Activate \/ Finish
    BY <1>2, OpenSteps, RowSteps
  <1>3. CASE NextWave \/ NextNode \/ StopNode \/ CloseSession
    BY <1>3, NextWaveIInv, NextNodeIInv, StopNodeIInv, CloseSessionIInv
  <1>4. CASE StartNode \/ PreGate \/ EmitSuspend \/ BeginAttempt
    BY <1>4, StartNodeIInv, PreGateIInv, EmitSuspendIInv, BeginAttemptIInv
  <1>5. CASE ExecuteCached \/ ExecuteLive \/ ExecuteFails \/ CacheViolation
    BY <1>5, ExecuteIInv, ExecuteFailsIInv, CacheViolationIInv
  <1>6. CASE EmitLlmCall \/ MeterTurn \/ EmitWarn \/ PostGate \/ Escalate
    BY <1>6, CallSteps, MeterTurnIInv, PostGateIInv, EscalateIInv
  <1>7. CASE RequestHandoff \/ DecideHandoff \/ CommitPoint \/ WriteResponse \/ Settle
    BY <1>7, RequestHandoffIInv, DecideHandoffIInv, CommitPointIInv, WriteResponseIInv,
       SettleIInv
  <1>8. CASE Interrupt
    BY <1>8, InterruptIInv
  <1>9. CASE Crash
    <2>1. /\ pc' = "dead" /\ UNCHANGED <<wave, idx, loc, end>> /\ TraceOnly /\ log' = log
      BY <1>9 DEF Crash, Goto, ControlOnly
    <2> QED
      BY <2>1, DeadStep DEF IInv, LogOK
  <1> QED
    BY <1>1, <1>2, <1>3, <1>4, <1>5, <1>6, <1>7, <1>8, <1>9 DEF Next, RunnerStep

(* The invariant holds in every session. *)
THEOREM RunnerInvariant == Spec => []IInv
  BY InitIInv, NextIInv, PTL DEF Spec

(* The runner's state has its type in every session, whatever the plan and *)
(* the environment: gate and edge indices stay in range (Indices), so no   *)
(* lookup of run_node or route_and_commit panics.                          *)
THEOREM RunnerTypes == Spec => []TypeOK
  <1>1. IInv => TypeOK
    BY TypeParts DEF IInv, Quiet, EngineOK
  <1> QED
    BY <1>1, RunnerInvariant, PTL

(* The "commit order violation" assertion of DeterministicEngine::commit   *)
(* never fires, for every compiled plan.                                   *)
THEOREM EngineNeverViolated == Spec => []EngineInStep
  <1>1. IInv => EngineInStep
    <2> SUFFICES ASSUME IInv, pc = "route"
                 PROVE  /\ cursor <= Len(Waves) /\ wavePos < Len(Waves[cursor])
                        /\ Waves[cursor][wavePos + 1] = node
      BY DEF EngineInStep
    <2>1. AtNode /\ InWave
      BY FreshNode DEF Fresh
    <2>2. cursor <= Len(Waves) /\ wavePos < Len(Waves[cursor])
      BY <2>1 DEF AtNode, IInv, Quiet, EngineOK
    <2> QED
      BY <2>1, <2>2 DEF AtNode, node
  <1> QED
    BY <1>1, RunnerInvariant, PTL

(* The checkpoint rows are a prefix of the wave order, through every       *)
(* retry, interrupt, suspension and crash (persist_commit).                *)
THEOREM RowsInWaveOrder == Spec => []CommitOrder
  <1>1. IInv => CommitOrder
    BY DEF IInv, Quiet, Rows
  <1> QED
    BY <1>1, RunnerInvariant, PTL

-----------------------------------------------------------------------------
(* The promise. *)

LEMMA InitPromise == Init => Promise!Init
  <1> SUFFICES ASSUME Init PROVE Promise!Init
    OBVIOUS
  <1>1. walState = "NONE" /\ Committed = {}
    BY DEF Init, Committed
  <1> QED
    BY <1>1 DEF Promise!Init

(* A commit is a checkpoint of a new node whose predecessors are done. *)
LEMMA CommitPromise == ASSUME IInv, CommitPoint PROVE \E n \in Nodes : Promise!Checkpoint(n)
  <1>1. /\ pc = "route" /\ walState' = walState
        /\ wal' = Append(wal, [node |-> node, from |-> loc.from, taint |-> loc.turn.taint])
    BY DEF CommitPoint
  <1>2. AtNode /\ InWave /\ node \in Nodes /\ walState = "RUNNING"
    BY <1>1, FreshNode DEF Fresh, IInv, Life, PCs, OpenPCs, Running
  <1>3. /\ cursor \in 1..Len(Waves) /\ wavePos \in Nat
        /\ wavePos + 1 \in 1..Len(Waves[cursor]) /\ node = Waves[cursor][wavePos + 1]
    BY <1>2, WavesFacts DEF AtNode, InWave, node, IInv, Quiet, EngineOK
  <1>4. Committed = Placed(cursor, wavePos) /\ node \notin Committed
    BY <1>3, PlacedBefore DEF IInv, Quiet, Rows
  <1>5. ASSUME NEW m \in Nodes, <<m, node>> \in PlanEdges PROVE m \in Committed
    <2>1. PICK v \in 1..Len(Waves) : \E i \in 1..Len(Waves[v]) : Waves[v][i] = m
      BY EveryNodePlaced
    <2>2. PICK i \in 1..Len(Waves[v]) : Waves[v][i] = m
      BY <2>1
    <2>3. v < cursor
      BY <1>3, <1>5, <2>2, OnePlace
    <2>4. cursor \in Nat
      BY <1>3
    <2>5. Waves[v][i] \in Placed(cursor, wavePos)
      BY <1>3, <2>3, <2>4, PlacedAt
    <2> QED
      BY <1>4, <2>2, <2>5
  <1>6. Committed' = Committed \cup {node}
    <2> DEFINE row == [node |-> node, from |-> loc.from, taint |-> loc.turn.taint]
    <2>1. row.node = node /\ wal' = Append(wal, row)
      BY <1>1
    <2>2. row \in CheckpointRow
      <3>1. loc.from \in Nodes \cup {"none"} /\ loc.turn.taint \in BOOLEAN
        BY DEF IInv, CtlOK, Locals, Turn
      <3> QED
        BY <1>2, <3>1 DEF CheckpointRow
    <2> HIDE DEF row
    <2>3. /\ Len(wal) \in Nat /\ Len(wal') = Len(wal) + 1
          /\ \A k \in 1..Len(wal) : wal'[k] = wal[k]
          /\ wal'[Len(wal) + 1] = row
      BY <2>1, <2>2 DEF IInv, Quiet, DiskOK
    <2>4. Committed' = {wal'[k].node : k \in 1..(Len(wal) + 1)}
      BY <2>3 DEF Committed
    <2>5. /\ \A k \in 1..(Len(wal) + 1) : k \in 1..Len(wal) \/ k = Len(wal) + 1
          /\ Len(wal) + 1 \in 1..(Len(wal) + 1)
          /\ \A k \in 1..Len(wal) : k \in 1..(Len(wal) + 1)
      BY <2>3
    <2> QED
      BY <2>1, <2>3, <2>4, <2>5 DEF Committed
  <1>7. Promise!Checkpoint(node)
    BY <1>1, <1>2, <1>4, <1>5, <1>6 DEF Promise!Checkpoint
  <1> QED
    BY <1>2, <1>7

(* A final state is written once, from RUNNING, and COMPLETED only when    *)
(* every node is placed before the cursor.                                 *)
LEMMA FinishPromise ==
  ASSUME IInv, Finish
  PROVE  \E s \in {"COMPLETED", "SUSPENDED", "HALTED", "FAILED"} : Promise!Finish(s)
  <1>1. pc = "finish" /\ walState' = end.state /\ wal' = wal
    BY DEF Finish
  <1>2. walState = "RUNNING" /\ end.state \in {"COMPLETED", "SUSPENDED", "HALTED", "FAILED"}
        /\ (end.state = "COMPLETED" => cursor = Len(Waves) + 1)
    BY <1>1 DEF IInv, Life, PCs, OpenPCs, Running, TerminalStates
  <1>3. ASSUME cursor = Len(Waves) + 1 PROVE Committed = Nodes
    <2>1. Committed = Placed(cursor, wavePos) /\ wavePos \in Nat
      BY DEF IInv, Quiet, Rows, EngineOK
    <2>2. ASSUME NEW n \in Nodes PROVE n \in Placed(cursor, wavePos)
      <3>1. PICK v \in 1..Len(Waves) : \E i \in 1..Len(Waves[v]) : Waves[v][i] = n
        BY EveryNodePlaced
      <3>2. PICK i \in 1..Len(Waves[v]) : Waves[v][i] = n
        BY <3>1
      <3>3. cursor \in Nat /\ v < cursor
        BY <1>3, WavesFacts
      <3> QED
        BY <2>1, <3>2, <3>3, PlacedAt
    <2> QED
      BY <2>1, <2>2 DEF Placed
  <1>4. Committed' = Committed
    BY <1>1 DEF Committed
  <1>5. Promise!Finish(end.state)
    BY <1>1, <1>2, <1>3, <1>4 DEF Promise!Finish
  <1> QED
    BY <1>2, <1>5

LEMMA StepPromise == IInv /\ [Next]_vars => [Promise!Next]_(Promise!sessionVars)
  <1> SUFFICES ASSUME IInv, [Next]_vars
               PROVE  Promise!Next \/ UNCHANGED <<walState, Committed>>
    BY DEF Promise!sessionVars
  <1>1. CASE UNCHANGED <<wal, walState>>
    BY <1>1 DEF Committed
  <1>2. CASE OpenSession
    <2>1. walState = "NONE" /\ walState' = "INIT" /\ wal' = wal
      BY <1>2 DEF OpenSession, IInv, Life
    <2> QED
      BY <2>1 DEF Promise!Next, Promise!Create, Committed
  <1>3. CASE Activate
    <2>1. walState = "INIT" /\ walState' = "RUNNING" /\ wal' = wal
      BY <1>3 DEF Activate, IInv, Life, OpenPCs
    <2> QED
      BY <2>1 DEF Promise!Next, Promise!Activate, Committed
  <1>4. CASE CommitPoint
    BY <1>4, CommitPromise DEF Promise!Next
  <1>5. CASE Finish
    BY <1>5, FinishPromise DEF Promise!Next
  <1>6. CASE EmitSessionOpen \/ EmitPlanCompiled \/ NextWave \/ NextNode \/ StopNode
             \/ CloseSession \/ StartNode \/ PreGate \/ EmitSuspend \/ BeginAttempt
             \/ ExecuteCached \/ ExecuteLive \/ CacheViolation \/ EmitLlmCall \/ EmitWarn
             \/ Escalate \/ RequestHandoff \/ Crash
    <2>1. TraceOnly
      BY <1>6 DEF EmitSessionOpen, EmitPlanCompiled, NextWave, NextNode, StopNode, CloseSession,
         StartNode, PreGate, EmitSuspend, BeginAttempt, ExecuteCached, ExecuteLive,
         CacheViolation, EmitLlmCall, EmitWarn, Escalate, RequestHandoff, Crash, ControlOnly
    <2> QED
      BY <1>1, <2>1 DEF TraceOnly
  <1>7. CASE ExecuteFails \/ PostGate
    <2>1. TraceOnly \/ RetryAttempt
      BY <1>7 DEF ExecuteFails, PostGate, ControlOnly
    <2> QED
      BY <1>1, <2>1 DEF TraceOnly, RetryAttempt
  <1>8. CASE MeterTurn \/ DecideHandoff \/ WriteResponse \/ Settle \/ Interrupt
    <2>1. UNCHANGED <<wal, walState>>
      BY <1>8 DEF MeterTurn, DecideHandoff, RetryAttempt, WriteResponse, Settle, Interrupt,
         diskVars
    <2> QED
      BY <1>1, <2>1
  <1>9. CASE UNCHANGED vars
    BY <1>1, <1>9 DEF vars, diskVars
  <1> QED
    BY <1>2, <1>3, <1>4, <1>5, <1>6, <1>7, <1>8, <1>9 DEF Next, RunnerStep

(* The runner implements SessionSpec: for every compiled plan, policy and  *)
(* environment, checkpoint.db takes steps of the session's life only, and  *)
(* COMPLETED means that every node was checkpointed.                       *)
THEOREM RunnerKeepsPromise == Spec => KeepsPromise
  BY InitPromise, StepPromise, RunnerInvariant, PTL DEF Spec, KeepsPromise, Promise!Spec

-----------------------------------------------------------------------------
(* From here on, the evidence. *)

(* The positions of the events of a kind and a node in a trace. *)
Where(t, kind, n) == {i \in 1..Len(t) : t[i].kind = kind /\ t[i].node = n}

(* The program points after node.start and before the boundary's verdict. *)
Boundary == (Fresh \ {"start"}) \cup {"respond", "settle"}

(* The program points that hold a turn. *)
TurnPCs == {"call", "meter", "warn", "post", "escalate", "route", "decide"}

(* The wave loop goes on after this boundary, as far as is known. *)
Going == pc \in OpenPCs \cup {"wave", "node", "start"} \cup Boundary \/ (pc = "stop" /\ end = NoEnd)

-----------------------------------------------------------------------------
(* The response files. *)

(* The files are the rows', but for the newest row while it waits for its  *)
(* own; a crash may fix that gap for ever.                                 *)
Answered ==
  /\ pc \notin {"respond", "dead"} => DOMAIN responses = 1..Len(wal)
  /\ pc = "respond" => DOMAIN responses = 1..(Len(wal) - 1)
  /\ pc \in {"respond", "settle"} => wal # <<>> /\ wal[Len(wal)].node = node
  /\ pc = "respond" => wal[Len(wal)].taint = loc.turn.taint
  /\ ResponseWindow

(* Seq k is replayed from the origin. *)
InReplay(k) == k <= ForkAt /\ k \in DOMAIN OriginTurns

(* A turn of the replay window is the origin's, from the executor to the   *)
(* row and the file.                                                       *)
Replayed ==
  /\ pc \in TurnPCs /\ InReplay(Len(wal) + 1) => loc.turn = OriginTurns[Len(wal) + 1]
  /\ pc = "respond" /\ InReplay(Len(wal)) => loc.turn = OriginTurns[Len(wal)]
  /\ \A k \in 1..Len(wal) : InReplay(k) => wal[k].taint = OriginTurns[k].taint
  /\ \A k \in DOMAIN responses : InReplay(k) => responses[k] = OriginTurns[k]

(* Taint reaches the outputs, from there the input of a boundary, and from *)
(* there the turn.                                                         *)
Tainted ==
  /\ pc # "dead" =>
       \A k \in 1..Len(wal) : wal[k].taint /\ (pc = "respond" => k < Len(wal))
                                => outputs[wal[k].node] = "tainted"
  /\ pc \in Fresh \ {"start"} => (InputTaint(node) => loc.taint)
  /\ pc \in TurnPCs /\ ~InReplay(Len(wal) + 1) => (loc.taint => loc.turn.taint)
  /\ TaintFlows

-----------------------------------------------------------------------------
(* The events of a boundary. *)

(* The nodes whose boundary is still to come. *)
Ahead == {n \in Nodes \ Committed : pc \in Boundary => n # node}

(* A node ahead has left nothing, in the trace or in the counters. *)
Untouched ==
  Going => \A n \in Ahead : /\ attempts[n] = 0 /\ retries[n] = 0
                            /\ \A i \in 1..Len(log) : log[i].node # n

(* Retries and calls: a boundary that has not called yet in this attempt   *)
(* still owes one.                                                         *)
Counted ==
  /\ \A n \in Nodes :
       /\ attempts[n] <= BoundedRetry + retries[n] /\ attempts[n] <= 2 * BoundedRetry
       /\ Cardinality(Where(log, "llm.call", n)) <= attempts[n] + 1
  /\ pc \in {"start", "pre", "attempt", "exec", "call"} =>
       Cardinality(Where(log, "llm.call", node)) <= attempts[node]

(* The concerns are the settled boundaries that retried. *)
Concerned ==
  /\ Going => concerns = Cardinality({n \in Nodes : attempts[n] > 0 /\ (pc \in Boundary => n # node)})
  /\ pc \in Boundary => (loc.retried <=> attempts[node] > 0)

(* COMPLETED and session.close. *)
Completed ==
  /\ end.state = "COMPLETED" =>
       /\ pc \in {"finish", "close", "done", "dead"} /\ cursor = Len(Waves) + 1
       /\ DOMAIN responses = 1..Len(wal)
       /\ concerns = Cardinality({n \in Nodes : attempts[n] > 0})
  /\ walState = "COMPLETED" => end.state = "COMPLETED"
  /\ pc = "close" => state = walState
  /\ pc # "done" => Where(log, "session.close", "session") = {}
  /\ \A i \in Where(log, "session.close", "session") : log[i].at = walState /\ i = Len(log)

(* The points at which the boundary of node is open in the trace. *)
Inside == Boundary \cup {"suspend", "stop"}

(* The boundary of n in a trace: one start; nothing of n after its stop,   *)
(* and only session.close when that was not "done"; no event of another    *)
(* node between the two.                                                   *)
Bracket(t, n) ==
  /\ \A i, j \in Where(t, "node.start", n) : i = j
  /\ \A i \in Where(t, "node.stop", n) : \A j \in (i + 1)..Len(t) :
       t[j].node # n /\ (t[i].at # "done" => t[j].kind = "session.close")
  /\ \A i \in Where(t, "node.start", n) : \A j \in (i + 1)..Len(t) :
       t[j].node \in Nodes \ {n} => \E k \in Where(t, "node.stop", n) : i < k /\ k < j

(* The boundaries in the trace: the one that is open has no stop yet, the  *)
(* ones that were left have one, and a stop's kind agrees with the rows    *)
(* and with how the loop goes on.                                          *)
Bracketed ==
  /\ pc = "stop" => /\ loc.stop = "done" <=> end = NoEnd
                    /\ loc.stop = "done" => node \in Committed
                    /\ loc.stop = "reject" => node \notin Committed
  /\ pc \in Inside => Where(log, "node.stop", node) = {}
  /\ pc \notin {"finish", "close", "done", "dead"} =>
       /\ \A n \in Nodes : \A i \in Where(log, "node.stop", n) : log[i].at = "done"
       /\ \A n \in Nodes : (pc \in Inside => n # node) =>
            \A i \in Where(log, "node.start", n) : \E k \in Where(log, "node.stop", n) : i < k
  /\ \A n \in Nodes : \A i \in Where(log, "node.stop", n) :
       /\ log[i].at = "done" => n \in Committed
       /\ log[i].at = "reject" => n \notin Committed
  /\ \A n \in Nodes : Bracket(log, n)

-----------------------------------------------------------------------------
(* What backs a row. *)

(* The gates of n that passed, and the nodes n handed over to, in a        *)
(* stretch S of a trace.                                                   *)
Passes(t, n, S) == {t[i].at : i \in Where(t, "gate.pass", n) \cap S}
(* The nodes that n handed over to, in a stretch S of a trace. *)
Accepts(t, n, S) == {t[i].at : i \in Where(t, "handoff.accept", n) \cap S}

(* Since the last call of n, which all pre-gates precede, the post-gates   *)
(* before the g-th passed, the edges before the e-th were accepted and     *)
(* nothing failed.                                                         *)
Since(t, n, g, e, p) ==
  /\ \A q \in Where(t, "llm.call", n) : q <= p
  /\ Members(PreGates[n]) \subseteq Passes(t, n, 1..p)
  /\ \A h \in 1..Len(PostGates[n]) : h < g => PostGates[n][h] \in Passes(t, n, p..Len(t))
  /\ Accepts(t, n, p..Len(t)) = {Succs[n][d] : d \in {d \in 1..Len(Succs[n]) : d < e}}
  /\ Where(t, "gate.fail", n) \cap (p..Len(t)) = {}

(* There is such a call. *)
Progress(t, n, g, e) == \E p \in Where(t, "llm.call", n) : Since(t, n, g, e, p)

(* The boundary of n is done with every gate and every edge. *)
Backed(t, n) == Progress(t, n, Len(PostGates[n]) + 1, Len(Succs[n]) + 1)

(* What backs the rows, and the open boundary up to its program point: the *)
(* pre-gates passed so far, then the call and all that followed it.        *)
Backing ==
  /\ \A n \in Committed : Backed(log, n)
  /\ pc = "pre" => \A h \in 1..Len(PreGates[node]) : h < loc.gate =>
                     PreGates[node][h] \in Passes(log, node, 1..Len(log))
  /\ pc \in Fresh \ {"start", "pre"} =>
       Members(PreGates[node]) \subseteq Passes(log, node, 1..Len(log))
  /\ pc \in {"exec", "call", "meter", "warn", "post"} => loc.edge = 1
  /\ pc \in {"meter", "warn", "post"} => Progress(log, node, loc.gate, 1)
  /\ pc \in {"route", "decide"} => Progress(log, node, Len(PostGates[node]) + 1, loc.edge)

-----------------------------------------------------------------------------
(* The handoffs. *)

(* The nodes that handed over to n. *)
Senders(t, n) == {m \in Nodes : \E i \in Where(t, "handoff.accept", m) : t[i].at = n}

(* Every edge is accepted at most once and along the plan, so the pairs in *)
(* the router's window never recur; a boundary has handed over exactly     *)
(* along the edges before its own, and only with a turn whose confidence   *)
(* lets every edge pass.                                                   *)
Routed ==
  /\ halted # "REPETITIVE_HANDOFF"
  /\ \A n \in Nodes : \A i, j \in Where(log, "handoff.accept", n) : log[i].at = log[j].at => i = j
  /\ \A n \in Nodes : \A i \in Where(log, "handoff.accept", n) : log[i].at \in Members(Succs[n])
  /\ \A x \in 1..Len(window) : window[x][1] \in Senders(log, window[x][2])
  /\ pc \in Fresh \ {"route", "decide"} => Where(log, "handoff.accept", node) = {}
  /\ pc \in {"route", "decide"} =>
       /\ \A i \in Where(log, "handoff.accept", node) :
            \E d \in 1..Len(Succs[node]) : d < loc.edge /\ log[i].at = Succs[node][d]
       /\ loc.edge > 1 => loc.turn.conf # "low"

(* The contract a node holds is the one accepted last. *)
LastSender(t, n, m) ==
  IF Senders(t, n) = {} THEN m = "none"
  ELSE m \in Senders(t, n) /\ Senders(t, n) \ {m} \subseteq Before(m)

(* The contract of a node is that of its last sender, from the moment it   *)
(* is routed in to the row.                                                *)
Contracts ==
  /\ \A n \in Nodes : LastSender(log, n, routedIn[n])
  /\ pc \in Fresh \ {"start"} => loc.from = routedIn[node]
  /\ \A k \in 1..Len(wal) :
       LET n == wal[k].node IN
       IF Preds(n) = {} THEN wal[k].from = "none"
       ELSE wal[k].from \in Preds(n) /\ Preds(n) \ {wal[k].from} \subseteq Before(wal[k].from)

-----------------------------------------------------------------------------
(* The interrupt and the budget. *)

(* The starts and calls after the interrupt. *)
Late(t, from) == {i \in (from + 1)..Len(t) : t[i].kind \in {"node.start", "llm.call"}}

(* After the interrupt at most one start or call, and none while one is    *)
(* still to come.                                                          *)
Stopping ==
  /\ interruptAt <= Len(log)
  /\ interrupt => \A i, j \in Late(log, interruptAt) : i = j
  /\ interrupt /\ pc \in {"start", "exec", "call"} => Late(log, interruptAt) = {}

(* A boundary opens, and reaches its first call, under all suspend lines. *)
Limited ==
  /\ pc \in OpenPCs => wal = <<>>
  /\ pc \in {"wave", "node", "start"} \/ (pc = "stop" /\ end = NoEnd) =>
       (wal # <<>> => ~SuspendReached(Role[wal[Len(wal)].node]))
  /\ pc = "pre" => \A h \in 1..Len(PreGates[node]) : h < loc.gate =>
                     (PreGates[node][h] = "budget" => ~SuspendReached(Role[node]))
  /\ pc \in {"attempt", "exec", "call"} =>
       (Where(log, "llm.call", node) = {} => ~SuspendReached(Role[node]))
  /\ pc \in TurnPCs \ {"call"} => Where(log, "llm.call", node) # {}

(* The warnings in a trace. *)
Warns(t) == {i \in Where(t, "budget.event", "session") : t[i].at = "warn"}

(* The newest event is a call that the ledger lacks. *)
Unbooked ==
  log # <<>> /\ log[Len(log)].kind = "llm.call" /\ Booked(SubSeq(log, 1, Len(log) - 1))

(* Every sum is the trace's, but for the call not metered yet; a scope     *)
(* that fired has its warning, but for the one not emitted yet.            *)
Metered ==
  /\ pc \notin {"meter", "dead"} => Booked(log)
  /\ pc = "meter" => /\ Unbooked
                     /\ log[Len(log)].node = node /\ log[Len(log)].tok = loc.turn.tok
  /\ pc = "dead" => Booked(log) \/ Unbooked
  /\ Cardinality(Warns(log)) <= Cardinality(warnFired)
  /\ pc = "warn" => Cardinality(Warns(log)) + 1 <= Cardinality(warnFired)
-----------------------------------------------------------------------------
(* The steps of the runner, by what they do to a boundary. *)

(* The reason that an event of this step gives: the router's is the end's. *)
Given(kind, at) ==
  IF kind # "gate.fail" THEN "none" ELSE IF at = "router.v1" THEN end'.reason ELSE FailReason(at)

(* The event a step appends. *)
Adds(kind, n, at, tok) == log' = Append(log, Event(kind, n, at, tok, Given(kind, at)))

(* The boundary stays the same. *)
Stay == UNCHANGED <<wave, idx, end, node>>

(* A step of Runner::open. *)
Opens ==
  /\ pc \in OpenPCs /\ pc' \in OpenPCs \cup {"wave"} /\ Stay /\ loc' = loc
  /\ UNCHANGED <<cursor, wavePos, wal, responses, attempts, routedIn, outputs, concerns>>
  /\ UNCHANGED <<interrupt, interruptAt, routerVars, budgetVars>>
  /\ walState' \in {"INIT", "RUNNING"}
  /\ log' = log \/ Adds("session.open", "session", "", 0) \/ Adds("plan.compiled", "session", "", 0)

(* A step of the two loops. *)
Loops ==
  /\ pc \in {"wave", "node"} /\ loc' = loc /\ log' = log /\ TraceOnly
  /\ \/ pc' = "finish" /\ pc = "wave" /\ cursor = Len(Waves) + 1 /\ end' = End("COMPLETED", "none")
     \/ pc' = "finish" /\ end' = Interrupted
     \/ pc' \in {"wave", "node"} /\ end' = end
     \/ pc' = "start" /\ ~interrupt /\ Stay

(* node.start. *)
Starts ==
  /\ pc = "start" /\ pc' = "pre" /\ Stay /\ TraceOnly /\ Adds("node.start", node, "", 0)
  /\ loc'.gate = 1 /\ loc'.from = routedIn[node] /\ ~loc'.retried
  /\ loc'.taint = InputTaint(node)

(* Locals that a gate scan leaves alone. *)
SameTurn ==
  /\ loc'.edge = loc.edge /\ loc'.from = loc.from /\ loc'.turn = loc.turn
  /\ loc'.retried = loc.retried /\ loc'.taint = loc.taint

(* A pre-gate that passes. *)
PrePasses ==
  /\ pc = "pre" /\ Stay /\ TraceOnly /\ SameTurn /\ PreVerdict = "pass"
  /\ Adds("gate.pass", node, PreGates[node][loc.gate], 0)
  /\ \/ pc' = "pre" /\ loc'.gate = loc.gate + 1
     \/ pc' = "attempt" /\ loc.gate = Len(PreGates[node])

(* The budget pre-gate finds a line reached. *)
Suspends ==
  /\ pc = "pre" /\ pc' = "suspend" /\ Stay /\ loc' = loc /\ TraceOnly
  /\ Adds("gate.fail", node, "budget", 0)

(* The points from which a boundary can be given up. *)
Fallible == {"pre", "suspend", "attempt", "exec", "post", "escalate", "decide"}

(* What a gate.fail names, when it is not an exhausted budget: a gate, or  *)
(* what ends a boundary without being one.                                 *)
Judges == GateIds \ {"budget"}
Objections == Judges \cup {"cache", "router.v1"}

(* The ends that a gate or the router decided. *)
Refusals == {Rejected} \cup {End("HALTED", r) : r \in HaltReasons}

(* Why a boundary is given up, and the event that says so: none for a      *)
(* signal or a fault of the executor.  An escalated gate fails again.      *)
GivesUp ==
  \/ pc = "suspend" /\ end' = OverBudget /\ Adds("budget.event", "session", "suspend", 0)
  \/ /\ pc # "suspend"
     /\ \/ log' = log /\ end' \in {Interrupted} \cup {End("HALTED", r) : r \in ExecFaults}
        \/ end' = OverBudget /\ Adds("gate.fail", node, "budget", 0)
        \/ /\ end' \in Refusals
           /\ \E at \in Objections : /\ Adds("gate.fail", node, at, 0)
                                     /\ at # "router.v1" => end' = Rejected
        \/ pc = "escalate" /\ PostVerdict # "retry"

(* The boundary is given up, and the session with it. *)
Aborts ==
  /\ pc \in Fallible /\ pc' = "stop" /\ UNCHANGED <<wave, idx, node>>
  /\ end' # NoEnd /\ end'.state \notin {"COMPLETED", "none"}
  /\ loc'.stop \in {"reject", "escalate"} /\ (loc'.stop = "reject" => pc # "suspend")
  /\ UNCHANGED <<cursor, wavePos, wal, walState, responses, attempts, routedIn, outputs>>
  /\ UNCHANGED <<concerns, state, interrupt, interruptAt, window, total, budgetVars>>
  /\ retries' = retries \/ retries' = [retries EXCEPT ![node] = @ + 1]
  /\ \/ halted' = halted
     \/ pc = "decide" /\ halted' = Evaluate(node, Succs[node][loc.edge])
  /\ \/ log' = log
     \/ /\ pc \notin {"suspend", "attempt"}
        /\ \E at : Adds("gate.pass", node, at, 0) \/ Adds("gate.fail", node, at, 0)
     \/ pc = "suspend" /\ Adds("budget.event", "session", "suspend", 0)
  /\ GivesUp

(* Another attempt, of the runner's own budget or of the router's. *)
Retries ==
  /\ pc \in {"exec", "post", "decide"} /\ pc' = "attempt" /\ Stay /\ loc'.retried
  /\ loc'.from = loc.from /\ loc'.taint = loc.taint
  /\ attempts' = [attempts EXCEPT ![node] = @ + 1]
  /\ UNCHANGED <<cursor, wavePos, wal, walState, responses, routedIn, outputs, concerns, state>>
  /\ UNCHANGED <<interrupt, interruptAt, window, total, halted, budgetVars>>
  /\ \/ attempts[node] < BoundedRetry /\ retries' = retries /\ pc # "decide"
     \/ /\ pc = "decide" /\ loc.turn.conf = "low" /\ retries[node] < BoundedRetry
        /\ retries' = [retries EXCEPT ![node] = @ + 1]
  /\ \/ pc # "post" /\ log' = log
     \/ pc = "post" /\ \E at \in Judges : Adds("gate.fail", node, at, 0)

(* The attempt begins: no interrupt was pending. *)
Begins ==
  /\ pc = "attempt" /\ pc' = "exec" /\ Stay /\ TraceOnly /\ log' = log /\ ~interrupt
  /\ loc'.gate = 1 /\ loc'.edge = 1 /\ loc'.from = loc.from
  /\ loc'.retried = loc.retried /\ loc'.taint = loc.taint

(* A turn, replayed or live. *)
Executes ==
  /\ pc = "exec" /\ pc' = "call" /\ Stay /\ TraceOnly /\ log' = log
  /\ loc'.gate = loc.gate /\ loc'.edge = loc.edge /\ loc'.from = loc.from
  /\ loc'.retried = loc.retried /\ loc'.taint = loc.taint
  /\ \/ InReplay(Len(wal) + 1) /\ loc'.turn = OriginTurns[Len(wal) + 1]
     \/ ~InReplay(Len(wal) + 1) /\ (loc.taint => loc'.turn.taint)

(* llm.call. *)
Calls ==
  /\ pc = "call" /\ pc' = "meter" /\ Stay /\ loc' = loc /\ TraceOnly
  /\ Adds("llm.call", node, "", loc.turn.tok)

(* The turn's ledger row. *)
Meters ==
  /\ pc = "meter" /\ Stay /\ loc' = loc /\ Meter(Role[node], loc.turn.tok)
  /\ pc' = IF MeterVerdict(Role[node], loc.turn.tok) = "warn" THEN "warn" ELSE "post"
  /\ UNCHANGED <<cursor, wavePos, log, wal, walState, responses, attempts, routedIn, outputs>>
  /\ UNCHANGED <<concerns, state, interrupt, interruptAt, routerVars>>

(* The warning. *)
WarnsOnce ==
  /\ pc = "warn" /\ pc' = "post" /\ Stay /\ loc' = loc /\ TraceOnly
  /\ Adds("budget.event", "session", "warn", 0)

(* A post-gate that passes. *)
PostPasses ==
  /\ pc = "post" /\ Stay /\ TraceOnly /\ SameTurn
  /\ Adds("gate.pass", node, PostGates[node][loc.gate], 0)
  /\ \/ pc' = "post" /\ loc'.gate = loc.gate + 1
     \/ pc' = "route" /\ loc.gate = Len(PostGates[node])

(* A post-gate that wants a retry nobody grants. *)
Exhausts ==
  /\ pc = "post" /\ pc' = "escalate" /\ Stay /\ loc' = loc /\ TraceOnly
  /\ PostVerdict = "retry" /\ \E at \in Judges : Adds("gate.fail", node, at, 0)

(* handoff.request. *)
Requests ==
  /\ pc = "route" /\ pc' = "decide" /\ Stay /\ loc' = loc /\ TraceOnly
  /\ loc.edge <= Len(Succs[node]) /\ \E at : Adds("handoff.request", node, at, 0)

(* An accepted edge. *)
Hands ==
  /\ pc = "decide" /\ pc' = "route" /\ Stay
  /\ loc'.edge = loc.edge + 1 /\ loc'.gate = loc.gate /\ loc'.from = loc.from
  /\ loc'.turn = loc.turn /\ loc'.retried = loc.retried /\ loc'.taint = loc.taint
  /\ loc.turn.conf # "low" /\ Evaluate(node, Succs[node][loc.edge]) = "none"
  /\ Record(node, Succs[node][loc.edge])
  /\ routedIn' = [routedIn EXCEPT ![Succs[node][loc.edge]] = node]
  /\ Adds("handoff.accept", node, Succs[node][loc.edge], 0)
  /\ UNCHANGED <<cursor, wavePos, wal, walState, responses, attempts, outputs, concerns, state>>
  /\ UNCHANGED <<interrupt, interruptAt, retries, budgetVars>>

(* The checkpoint row. *)
Commits ==
  /\ pc = "route" /\ pc' = "respond" /\ Stay /\ loc' = loc /\ log' = log
  /\ loc.edge > Len(Succs[node])
  /\ wal' = Append(wal, [node |-> node, from |-> loc.from, taint |-> loc.turn.taint])
  /\ UNCHANGED <<walState, responses, attempts, routedIn, outputs, concerns, state>>
  /\ UNCHANGED <<interrupt, interruptAt, routerVars, budgetVars>>

(* The response file. *)
Responds ==
  /\ pc = "respond" /\ pc' = "settle" /\ Stay /\ loc' = loc /\ log' = log
  /\ responses' = WithResponse(Len(wal))
  /\ outputs' = [outputs EXCEPT ![node] = IF loc.turn.taint THEN "tainted" ELSE "clean"]
  /\ UNCHANGED <<cursor, wavePos, wal, walState, attempts, routedIn, concerns, state>>
  /\ UNCHANGED <<interrupt, interruptAt, routerVars, budgetVars>>

(* The post-commit check. *)
Settles ==
  /\ pc = "settle" /\ Stay /\ log' = log /\ Meter(Role[node], 0)
  /\ UNCHANGED <<cursor, wavePos, wal, walState, responses, attempts, routedIn, outputs, state>>
  /\ UNCHANGED <<interrupt, interruptAt, routerVars>>
  /\ \/ pc' = "suspend" /\ loc' = loc /\ concerns' = concerns
     \/ /\ pc' = "stop" /\ loc'.stop = "done" /\ MeterVerdict(Role[node], 0) # "exceeded"
        /\ concerns' = IF loc.retried THEN concerns + 1 ELSE concerns

(* node.stop. *)
Stops ==
  /\ pc = "stop" /\ UNCHANGED <<wave, loc, end>> /\ TraceOnly
  /\ Adds("node.stop", node, loc.stop, 0)
  /\ pc' = IF end = NoEnd THEN "node" ELSE "finish"

(* The final state. *)
Ends ==
  /\ pc = "finish" /\ pc' = "close" /\ Stay /\ loc' = loc /\ log' = log
  /\ state' = end.state /\ walState' = end.state
  /\ UNCHANGED <<cursor, wavePos, wal, responses, attempts, routedIn, outputs, concerns>>
  /\ UNCHANGED <<interrupt, interruptAt, routerVars, budgetVars>>

(* session.close. *)
Closes ==
  /\ pc = "close" /\ pc' = "done" /\ Stay /\ loc' = loc /\ TraceOnly
  /\ Adds("session.close", "session", state, 0)

(* SIGINT. *)
Signals ==
  /\ ~interrupt /\ interrupt' /\ interruptAt' = Len(log) /\ pc' = pc /\ Stay /\ loc' = loc
  /\ log' = log
  /\ UNCHANGED <<cursor, wavePos, wal, walState, responses, attempts, routedIn, outputs>>
  /\ UNCHANGED <<concerns, state, routerVars, budgetVars>>

(* The process ends; a gate that panics has left its event. *)
Dies ==
  /\ pc # "done" /\ pc' = "dead" /\ Stay /\ loc' = loc /\ TraceOnly
  /\ log' = log \/ (pc = "pre" /\ \E at \in Judges : Adds("gate.fail", node, at, 0))

(* Nothing that matters here changes. *)
Idles == pc' = pc /\ Stay /\ loc' = loc /\ log' = log /\ TraceOnly

(* Every step has one of these shapes. *)
Step ==
  \/ Opens \/ Loops \/ Starts \/ PrePasses \/ Suspends \/ Aborts \/ Retries \/ Begins
  \/ Executes \/ Calls \/ Meters \/ WarnsOnce \/ PostPasses \/ Exhausts \/ Requests \/ Hands
  \/ Commits \/ Responds \/ Settles \/ Stops \/ Ends \/ Closes \/ Signals \/ Dies \/ Idles

-----------------------------------------------------------------------------

(* The node of the boundary changes only with the loop's indices. *)
LEMMA SameNode == ASSUME UNCHANGED <<wave, idx>> PROVE node' = node
<1> QED  BY DEF node

(* The shapes of the actions, one lemma per action or group: opening, *)
LEMMA OpenShapes ==
  ASSUME IInv, OpenSession \/ EmitSessionOpen \/ EmitPlanCompiled \/ Activate
  PROVE  Opens
<1>1. Stay /\ loc' = loc
  <2>1. UNCHANGED <<wave, idx, loc, end>>
    BY DEF OpenSession, EmitSessionOpen, EmitPlanCompiled, Activate, Goto
  <2> QED  BY <2>1, SameNode DEF Stay
<1>2. pc \in OpenPCs /\ pc' \in OpenPCs \cup {"wave"}
  BY DEF OpenSession, EmitSessionOpen, EmitPlanCompiled, Activate, Goto, OpenPCs
<1>3. /\ UNCHANGED <<cursor, wavePos, wal, responses, attempts, routedIn, outputs, concerns>>
      /\ UNCHANGED <<interrupt, interruptAt, routerVars, budgetVars>>
  BY DEF OpenSession, EmitSessionOpen, EmitPlanCompiled, Activate, TraceOnly, engineVars,
     memVars, intVars
<1>4. walState' \in {"INIT", "RUNNING"}
  BY DEF OpenSession, EmitSessionOpen, EmitPlanCompiled, Activate, TraceOnly, IInv, Life, OpenPCs
<1>5. log' = log \/ Adds("session.open", "session", "", 0) \/ Adds("plan.compiled", "session", "", 0)
  BY DEF OpenSession, EmitSessionOpen, EmitPlanCompiled, Activate, EmitSession, Adds, Given
<1> QED  BY <1>1, <1>2, <1>3, <1>4, <1>5 DEF Opens

(* the heads of the two loops, *)
LEMMA LoopShapes == ASSUME IInv, NextWave \/ NextNode PROVE Loops
<1>1. pc \in {"wave", "node"} /\ loc' = loc /\ log' = log /\ TraceOnly
  BY DEF NextWave, NextNode, LeaveLoop, Goto, ControlOnly
<1>2. cursor \in 1..(Len(Waves) + 1) /\ Len(Waves) \in Nat
  BY WavesFacts DEF IInv, Quiet, EngineOK
<1>3. CASE NextWave
  <2>1. CASE cursor > Len(Waves)
    <3>1. cursor = Len(Waves) + 1
      BY <1>2, <2>1
    <3>2. pc' = "finish" /\ pc = "wave" /\ end' = End("COMPLETED", "none")
      BY <1>3, <1>2, <2>1 DEF NextWave, LeaveLoop
    <3> QED  BY <1>1, <3>1, <3>2 DEF Loops
  <2>2. CASE cursor <= Len(Waves)
    <3>1. \/ pc' = "finish" /\ end' = Interrupted
          \/ pc' = "node" /\ end' = end
      BY <1>3, <1>2, <2>2 DEF NextWave, LeaveLoop
    <3> QED  BY <1>1, <3>1 DEF Loops
  <2> QED  BY <1>2, <2>1, <2>2
<1>4. CASE NextNode
  <2>1. \/ pc' = "finish" /\ end' = Interrupted
        \/ pc' = "wave" /\ end' = end
        \/ pc' = "start" /\ ~interrupt /\ UNCHANGED <<wave, idx, end>>
    BY <1>4 DEF NextNode, LeaveLoop, Goto
  <2> QED  BY <1>1, <2>1, SameNode DEF Loops, Stay
<1> QED  BY <1>3, <1>4

(* the start of a boundary, *)
LEMMA StartShape == ASSUME IInv, StartNode PROVE Starts
<1>1. PICK f \in Transfers :
        GotoWith("pre", [NoLocals EXCEPT !.from = routedIn[node], !.fits = f,
                                         !.taint = InputTaint(node)])
  BY DEF StartNode
<1> DEFINE x == routedIn[node]
           y == InputTaint(node)
           l == [NoLocals EXCEPT !.from = x, !.fits = f, !.taint = y]
<1>2. l.gate = 1 /\ l.from = x /\ ~l.retried /\ l.taint = y
  BY DEF NoLocals
<1>3. pc' = "pre" /\ loc' = l /\ UNCHANGED <<wave, idx, end>>
  BY <1>1 DEF GotoWith
<1> HIDE DEF l
<1>4. pc = "start" /\ TraceOnly /\ Adds("node.start", node, "", 0)
  BY DEF StartNode, Emit, Adds, Given
<1> QED  BY <1>2, <1>3, <1>4, SameNode DEF Starts, Stay

(* A field of the locals is replaced, the others stay. *)
LEMMA LocFields ==
  ASSUME loc \in Locals, NEW v
  PROVE  /\ LET l == [loc EXCEPT !.gate = v] IN
            l.gate = v /\ l.edge = loc.edge /\ l.from = loc.from /\ l.turn = loc.turn
            /\ l.retried = loc.retried /\ l.taint = loc.taint /\ l.stop = loc.stop
         /\ LET l == [loc EXCEPT !.edge = v] IN
            l.gate = loc.gate /\ l.edge = v /\ l.from = loc.from /\ l.turn = loc.turn
            /\ l.retried = loc.retried /\ l.taint = loc.taint /\ l.stop = loc.stop
         /\ LET l == [loc EXCEPT !.turn = v] IN
            l.gate = loc.gate /\ l.edge = loc.edge /\ l.from = loc.from /\ l.turn = v
            /\ l.retried = loc.retried /\ l.taint = loc.taint /\ l.stop = loc.stop
         /\ LET l == [loc EXCEPT !.retried = v] IN
            l.gate = loc.gate /\ l.edge = loc.edge /\ l.from = loc.from /\ l.turn = loc.turn
            /\ l.retried = v /\ l.taint = loc.taint /\ l.stop = loc.stop
         /\ LET l == [loc EXCEPT !.stop = v] IN
            l.gate = loc.gate /\ l.edge = loc.edge /\ l.from = loc.from /\ l.turn = loc.turn
            /\ l.retried = loc.retried /\ l.taint = loc.taint /\ l.stop = v
<1> QED  BY DEF Locals

(* Giving up a boundary. *)
LEMMA AbortShape ==
  ASSUME IInv, pc \in Fallible, NEW kind \in {"reject", "escalate"},
         NEW s \in {"SUSPENDED", "HALTED", "FAILED"}, NEW r, StopWith(kind, End(s, r)),
         kind = "reject" => pc # "suspend",
         UNCHANGED <<cursor, wavePos, wal, walState, responses, attempts, routedIn, outputs>>,
         UNCHANGED <<concerns, state, interrupt, interruptAt, window, total, budgetVars>>,
         retries' = retries \/ retries' = [retries EXCEPT ![node] = @ + 1],
         halted' = halted \/ (pc = "decide" /\ halted' = Evaluate(node, Succs[node][loc.edge])),
         \/ log' = log
         \/ /\ pc \notin {"suspend", "attempt"}
            /\ \E at : Adds("gate.pass", node, at, 0) \/ Adds("gate.fail", node, at, 0)
         \/ pc = "suspend" /\ Adds("budget.event", "session", "suspend", 0),
         GivesUp
  PROVE  Aborts
<1>1. /\ pc' = "stop" /\ loc' = [loc EXCEPT !.stop = kind] /\ end' = End(s, r)
      /\ UNCHANGED <<wave, idx>>
  BY DEF StopWith
<1>2. loc'.stop = kind
  BY <1>1, LocFields DEF IInv, CtlOK
<1>3. end' # NoEnd /\ end'.state \notin {"COMPLETED", "none"}
  BY <1>1 DEF End, NoEnd
<1>4. node' = node
  BY <1>1, SameNode
<1>5. /\ UNCHANGED <<wave, idx, node>> /\ loc'.stop \in {"reject", "escalate"}
      /\ (loc'.stop = "reject" => pc # "suspend")
  BY <1>1, <1>2, <1>4
<1> QED  BY <1>1, <1>3, <1>5, Zenon DEF Aborts

(* The same, when the step is trace-only. *)
LEMMA PlainAbort ==
  ASSUME IInv, pc \in Fallible, TraceOnly,
         \/ StopWith("reject", Rejected) /\ pc # "suspend"
         \/ StopWith("escalate", OverBudget)
         \/ StopWith("escalate", Interrupted)
         \/ \E r : StopWith("escalate", End("HALTED", r)),
         \/ log' = log
         \/ /\ pc \notin {"suspend", "attempt"}
            /\ \E at : Adds("gate.pass", node, at, 0) \/ Adds("gate.fail", node, at, 0)
         \/ pc = "suspend" /\ Adds("budget.event", "session", "suspend", 0),
         GivesUp
  PROVE  Aborts
<1>1. /\ UNCHANGED <<cursor, wavePos, wal, walState, responses, attempts, routedIn, outputs>>
      /\ UNCHANGED <<concerns, state, interrupt, interruptAt, window, total, budgetVars>>
      /\ retries' = retries /\ halted' = halted
  BY DEF TraceOnly, engineVars, memVars, intVars, routerVars
<1>2. \E kind \in {"reject", "escalate"} : \E s \in {"SUSPENDED", "HALTED", "FAILED"} :
      \E r : StopWith(kind, End(s, r)) /\ (kind = "reject" => pc # "suspend")
  BY Endings
<1>3. PICK kind \in {"reject", "escalate"}, s \in {"SUSPENDED", "HALTED", "FAILED"} :
         \E r : StopWith(kind, End(s, r)) /\ (kind = "reject" => pc # "suspend")
  BY <1>2
<1>4. PICK r : StopWith(kind, End(s, r)) /\ (kind = "reject" => pc # "suspend")
  BY <1>3
<1> QED  BY <1>1, <1>4, AbortShape

(* A gate leaves a pass or a fail. *)
LEMMA GateAdds ==
  ASSUME NEW g \in GateIds, NEW v, EmitGate(g, v)
  PROVE  /\ v = "pass" => Adds("gate.pass", node, g, 0)
         /\ v # "pass" => Adds("gate.fail", node, g, 0)
<1>1. Given("gate.pass", g) = "none" /\ Given("gate.fail", g) = FailReason(g)
  BY DEF Given, GateIds
<1> HIDE DEF Given
<1> QED  BY <1>1 DEF EmitGate, Emit, EmitFail, Adds

(* The gates of a boundary are built-in gates. *)
LEMMA GateKnown ==
  ASSUME IInv
  PROVE  /\ pc = "pre" => PreGates[node][loc.gate] \in GateIds
         /\ pc \in {"post", "escalate"} => PostGates[node][loc.gate] \in GateIds
<1>1. ASSUME pc = "pre" PROVE PreGates[node][loc.gate] \in GateIds
  <2>1. node \in Nodes /\ loc.gate \in 1..Len(PreGates[node])
    BY <1>1, FreshNode DEF IInv, Indices, Fresh
  <2> QED  BY <2>1, InstanceAssumption
<1>2. ASSUME pc \in {"post", "escalate"} PROVE PostGates[node][loc.gate] \in GateIds
  <2>1. node \in Nodes /\ loc.gate \in 1..Len(PostGates[node])
    BY <1>2, FreshNode DEF IInv, Indices, Fresh
  <2> QED  BY <2>1, InstanceAssumption
<1> QED  BY <1>1, <1>2

(* Only the budget gate reports an exhausted budget, and it never objects. *)
LEMMA OnlyBudgetExceeds ==
  ASSUME NEW g \in GateIds, NEW c, NEW out, NEW fits, NEW spent
  PROVE  LET v == RunGate(g, c, out, fits, spent) IN
         /\ v = "exceeded" => g = "budget"
         /\ g = "budget" => v \in {"pass", "exceeded"}
<1>1. /\ G0Verdict(fits) # "exceeded" /\ PermissionVerdict(c) # "exceeded"
      /\ SchemaVerdict(out) # "exceeded" /\ ContractVerdict(c) # "exceeded"
      /\ DoneCriteriaVerdict(c, out) # "exceeded" /\ RubricVerdict(c, out) # "exceeded"
      /\ OverDelegationVerdict # "exceeded"
  <2>1. Judgment(c) \in {"accept", "bounded_retry", "reject"}
    BY DEF Judgment
  <2> QED  BY <2>1 DEF G0Verdict, PermissionVerdict, SchemaVerdict, ContractVerdict,
              DoneCriteriaVerdict, RubricVerdict, OverDelegationVerdict
<1>2. BudgetVerdict(spent) \in {"pass", "exceeded"}
  BY DEF BudgetVerdict
<1> QED  BY <1>1, <1>2 DEF RunGate, GateIds

(* The gates of a boundary are gates, and what they answer names them. *)
LEMMA GateNamed ==
  ASSUME IInv
  PROVE  /\ pc = "pre" =>
              LET g == PreGates[node][loc.gate] IN
              /\ PreVerdict = "exceeded" => g = "budget"
              /\ PreVerdict \in {"retry", "reject"} => g \in Judges
         /\ pc \in {"post", "escalate"} =>
              LET g == PostGates[node][loc.gate] IN
              /\ PostVerdict = "exceeded" => g = "budget"
              /\ PostVerdict \in {"retry", "reject"} => g \in Judges
<1>1. ASSUME pc = "pre"
      PROVE  LET g == PreGates[node][loc.gate] IN
             /\ PreVerdict = "exceeded" => g = "budget"
             /\ PreVerdict \in {"retry", "reject"} => g \in Judges
  <2>1. node \in Nodes /\ loc.gate \in 1..Len(PreGates[node])
    BY <1>1, FreshNode DEF IInv, Indices, Fresh
  <2>2. PreGates[node][loc.gate] \in GateIds
    BY <2>1, InstanceAssumption
  <2> QED  BY <2>2, OnlyBudgetExceeds DEF PreVerdict, Judges
<1>2. ASSUME pc \in {"post", "escalate"}
      PROVE  LET g == PostGates[node][loc.gate] IN
             /\ PostVerdict = "exceeded" => g = "budget"
             /\ PostVerdict \in {"retry", "reject"} => g \in Judges
  <2>1. node \in Nodes /\ loc.gate \in 1..Len(PostGates[node])
    BY <1>2, FreshNode DEF IInv, Indices, Fresh
  <2>2. PostGates[node][loc.gate] \in GateIds
    BY <2>1, InstanceAssumption
  <2> QED  BY <2>2, OnlyBudgetExceeds DEF PostVerdict, Judges
<1> QED  BY <1>1, <1>2

(* a pre-gate, *)
LEMMA PreGateShapes == ASSUME IInv, PreGate PROVE PrePasses \/ Suspends \/ Aborts \/ Dies
<1> DEFINE g == PreGates[node][loc.gate]
<1>1. pc = "pre" /\ TraceOnly /\ EmitGate(g, PreVerdict)
  BY DEF PreGate
<1>2. CASE PreVerdict = "pass"
  <2>1. Adds("gate.pass", node, g, 0)
    BY <1>1, <1>2, GateAdds, GateKnown
  <2>2. CASE loc.gate = Len(PreGates[node])
    <3>1. pc' = "attempt" /\ loc' = [loc EXCEPT !.gate = 1] /\ UNCHANGED <<wave, idx, end>>
      BY <1>2, <2>2 DEF PreGate, GotoWith
    <3>2. SameTurn
      BY <3>1, LocFields DEF SameTurn, IInv, CtlOK
    <3> QED  BY <1>1, <1>2, <2>1, <2>2, <3>1, <3>2, SameNode DEF PrePasses, Stay
  <2>3. CASE loc.gate # Len(PreGates[node])
    <3>1. pc' = "pre" /\ loc' = [loc EXCEPT !.gate = @ + 1] /\ UNCHANGED <<wave, idx, end>>
      BY <1>2, <2>3 DEF PreGate, GotoWith
    <3>2. loc' = [loc EXCEPT !.gate = loc.gate + 1]
      BY <3>1 DEF IInv, CtlOK, Locals
    <3>3. SameTurn /\ loc'.gate = loc.gate + 1
      BY <3>2, LocFields DEF SameTurn, IInv, CtlOK
    <3> QED  BY <1>1, <1>2, <2>1, <3>1, <3>3, SameNode DEF PrePasses, Stay
  <2> QED  BY <2>2, <2>3
<1>3. ASSUME PreVerdict # "pass" PROVE Adds("gate.fail", node, g, 0)
  BY <1>1, <1>3, GateAdds, GateKnown
<1>4. CASE PreVerdict = "exceeded"
  <2>1. pc' = "suspend" /\ UNCHANGED <<wave, idx, loc, end>>
    BY <1>4 DEF PreGate, Goto
  <2>2. g = "budget" /\ Adds("gate.fail", node, g, 0)
    BY <1>1, <1>3, <1>4, GateNamed
  <2> HIDE DEF g
  <2> QED  BY <1>1, <2>1, <2>2, SameNode DEF Suspends, Stay
<1>5. CASE PreVerdict = "reject"
  <2>1. StopWith("reject", Rejected)
    BY <1>5 DEF PreGate
  <2>2. g \in Judges /\ end' = Rejected
    BY <1>1, <1>5, <2>1, GateNamed DEF StopWith
  <2>3. GivesUp
    <3>1. g \in Objections /\ end' \in Refusals
      BY <2>2 DEF Objections, Refusals
    <3> HIDE DEF g
    <3> QED  BY <1>1, <1>3, <1>5, <2>2, <3>1 DEF GivesUp
  <2> QED  BY <1>1, <1>3, <1>5, <2>1, <2>3, PlainAbort DEF Fallible
<1>6. CASE PreVerdict = "retry"
  <2>1. pc' = "dead" /\ UNCHANGED <<wave, idx, loc, end>>
    BY <1>6 DEF PreGate, Goto
  <2>2. g \in Judges /\ Adds("gate.fail", node, g, 0)
    BY <1>1, <1>3, <1>6, GateNamed
  <2> QED  BY <1>1, <2>1, <2>2, SameNode DEF Dies, Stay
<1> QED  BY <1>2, <1>4, <1>5, <1>6 DEF PreGate

(* the head of an attempt, *)
LEMMA BeginShapes == ASSUME IInv, BeginAttempt PROVE Begins \/ Aborts
<1>1. pc = "attempt" /\ TraceOnly /\ log' = log /\ loc \in Locals
  BY DEF BeginAttempt, ControlOnly, IInv, CtlOK
<1>2. CASE interrupt
  <2>1. StopWith("escalate", Interrupted)
    BY <1>2 DEF BeginAttempt
  <2>2. GivesUp
    BY <1>1, <2>1 DEF GivesUp, StopWith
  <2> QED  BY <1>1, <2>1, <2>2, PlainAbort DEF Fallible
<1>3. CASE ~interrupt
  <2>1. /\ pc' = "exec" /\ loc' = [loc EXCEPT !.gate = 1, !.edge = 1]
        /\ UNCHANGED <<wave, idx, end>>
    BY <1>3 DEF BeginAttempt, GotoWith
  <2>2. /\ loc'.gate = 1 /\ loc'.edge = 1 /\ loc'.from = loc.from
        /\ loc'.retried = loc.retried /\ loc'.taint = loc.taint
    BY <1>1, <2>1 DEF Locals
  <2> QED  BY <1>1, <1>3, <2>1, <2>2, SameNode DEF Begins, Stay
<1> QED  BY <1>2, <1>3

(* a turn, from the cache or live, *)
LEMMA ExecuteShapes == ASSUME IInv, ExecuteCached \/ ExecuteLive PROVE Executes
<1>1. /\ pc = "exec" /\ pc' = "call" /\ TraceOnly /\ log' = log /\ UNCHANGED <<wave, idx, end>>
      /\ loc \in Locals
  BY DEF ExecuteCached, ExecuteLive, GotoWith, ControlOnly, IInv, CtlOK
<1>2. \E t : /\ loc' = [loc EXCEPT !.turn = t]
             /\ \/ InReplay(Len(wal) + 1) /\ t = OriginTurns[Len(wal) + 1]
                \/ ~InReplay(Len(wal) + 1) /\ (loc.taint => t.taint)
  <2>1. CASE ExecuteCached
    BY <2>1 DEF ExecuteCached, Cached, InReplay, GotoWith
  <2>2. CASE ExecuteLive
    <3>1. PICK t \in Turns : loc' = [loc EXCEPT !.turn = [t EXCEPT !.taint = @ \/ loc.taint]]
      BY <2>2 DEF ExecuteLive, GotoWith
    <3>2. t \in Turn /\ loc.taint \in BOOLEAN
      BY <1>1, InstanceAssumption DEF Locals
    <3>3. loc.taint => [t EXCEPT !.taint = @ \/ loc.taint].taint
      BY <3>2 DEF Turn
    <3>4. ~InReplay(Len(wal) + 1)
      BY <2>2 DEF ExecuteLive, Cached, InReplay
    <3> QED  BY <3>1, <3>3, <3>4
  <2> QED  BY <2>1, <2>2
<1>3. PICK t : /\ loc' = [loc EXCEPT !.turn = t]
               /\ \/ InReplay(Len(wal) + 1) /\ t = OriginTurns[Len(wal) + 1]
                  \/ ~InReplay(Len(wal) + 1) /\ (loc.taint => t.taint)
  BY <1>2
<1>4. /\ loc'.gate = loc.gate /\ loc'.edge = loc.edge /\ loc'.from = loc.from
      /\ loc'.retried = loc.retried /\ loc'.taint = loc.taint /\ loc'.turn = t
  BY <1>1, <1>3, LocFields
<1> QED  BY <1>1, <1>3, <1>4, SameNode DEF Executes, Stay

(* A retry. *)
LEMMA RetryShape ==
  ASSUME IInv, pc \in {"exec", "post", "decide"}, RetryAttempt,
         UNCHANGED <<window, total, halted>>,
         \/ attempts[node] < BoundedRetry /\ retries' = retries /\ pc # "decide"
         \/ /\ pc = "decide" /\ loc.turn.conf = "low" /\ retries[node] < BoundedRetry
            /\ retries' = [retries EXCEPT ![node] = @ + 1],
         \/ pc # "post" /\ log' = log
         \/ pc = "post" /\ \E at \in Judges : Adds("gate.fail", node, at, 0)
  PROVE  Retries
<1>1. /\ pc' = "attempt" /\ loc' = [loc EXCEPT !.retried = TRUE] /\ UNCHANGED <<wave, idx, end>>
      /\ attempts' = [attempts EXCEPT ![node] = @ + 1]
  BY DEF RetryAttempt, GotoWith, Bump
<1>2. loc'.retried /\ loc'.from = loc.from /\ loc'.taint = loc.taint
  BY <1>1, LocFields DEF IInv, CtlOK
<1>3. /\ UNCHANGED <<cursor, wavePos, wal, walState, responses, routedIn, outputs, concerns, state>>
      /\ UNCHANGED <<interrupt, interruptAt, window, total, halted, budgetVars>>
  BY DEF RetryAttempt, engineVars, intVars
<1>4. Stay
  BY <1>1, SameNode DEF Stay
<1> QED  BY <1>1, <1>2, <1>3, <1>4, Zenon DEF Retries

(* an executor that fails, *)
LEMMA FaultShapes == ASSUME IInv, ExecuteFails PROVE Retries \/ Aborts
<1>1. pc = "exec" /\ UNCHANGED <<log, window, total, halted, retries>>
  BY DEF ExecuteFails, routerVars
<1>2. CASE CanRetry
  <2>1. RetryAttempt /\ attempts[node] < BoundedRetry
    BY <1>2 DEF ExecuteFails, CanRetry
  <2> QED  BY <1>1, <2>1, RetryShape
<1>3. CASE ~CanRetry
  <2>1. PICK r \in ExecFaults : StopWith("escalate", End("HALTED", r)) /\ ControlOnly
    BY <1>3 DEF ExecuteFails
  <2>2. GivesUp
    BY <1>1, <2>1 DEF GivesUp, StopWith
  <2> QED  BY <1>1, <2>1, <2>2, PlainAbort DEF ControlOnly, Fallible
<1> QED  BY <1>2, <1>3

(* a post-gate, *)
LEMMA PostGateShapes ==
  ASSUME IInv, PostGate
  PROVE  PostPasses \/ Retries \/ Exhausts \/ Aborts
<1> DEFINE g == PostGates[node][loc.gate]
<1>1. pc = "post" /\ UNCHANGED <<window, total, halted, retries>> /\ EmitGate(g, PostVerdict)
  BY DEF PostGate, routerVars
<1>2. CASE PostVerdict = "pass"
  <2>1. Adds("gate.pass", node, g, 0) /\ TraceOnly
    BY <1>1, <1>2, GateAdds, GateKnown DEF PostGate
  <2>2. CASE loc.gate = Len(PostGates[node])
    <3>1. pc' = "route" /\ UNCHANGED <<wave, idx, loc, end>>
      BY <1>2, <2>2 DEF PostGate, Goto
    <3> QED  BY <1>1, <2>1, <2>2, <3>1, SameNode DEF PostPasses, Stay, SameTurn
  <2>3. CASE loc.gate # Len(PostGates[node])
    <3>1. pc' = "post" /\ loc' = [loc EXCEPT !.gate = @ + 1] /\ UNCHANGED <<wave, idx, end>>
      BY <1>2, <2>3 DEF PostGate, GotoWith
    <3>2. loc' = [loc EXCEPT !.gate = loc.gate + 1]
      BY <3>1 DEF IInv, CtlOK, Locals
    <3>3. SameTurn /\ loc'.gate = loc.gate + 1
      BY <3>2, LocFields DEF SameTurn, IInv, CtlOK
    <3> QED  BY <1>1, <2>1, <3>1, <3>3, SameNode DEF PostPasses, Stay
  <2> QED  BY <2>2, <2>3
<1>3. ASSUME PostVerdict # "pass" PROVE Adds("gate.fail", node, g, 0)
  BY <1>1, <1>3, GateAdds, GateKnown
<1>4. CASE PostVerdict = "retry" /\ CanRetry
  <2>1. RetryAttempt /\ attempts[node] < BoundedRetry
    BY <1>4 DEF PostGate, CanRetry
  <2>2. g \in Judges /\ Adds("gate.fail", node, g, 0)
    BY <1>1, <1>3, <1>4, GateNamed
  <2> QED  BY <1>1, <2>1, <2>2, RetryShape
<1>5. CASE PostVerdict = "retry" /\ ~CanRetry
  <2>1. pc' = "escalate" /\ UNCHANGED <<wave, idx, loc, end>> /\ TraceOnly
    BY <1>5 DEF PostGate, Goto
  <2>2. g \in Judges /\ Adds("gate.fail", node, g, 0)
    BY <1>1, <1>3, <1>5, GateNamed
  <2> QED  BY <1>1, <1>5, <2>1, <2>2, SameNode DEF Exhausts, Stay
<1>6. CASE PostVerdict = "exceeded"
  <2>1. TraceOnly /\ StopWith("escalate", OverBudget)
    BY <1>6 DEF PostGate
  <2>2. g = "budget" /\ Adds("gate.fail", node, g, 0)
    BY <1>1, <1>3, <1>6, GateNamed
  <2>3. GivesUp
    <3> HIDE DEF g
    <3> QED  BY <1>1, <2>1, <2>2 DEF GivesUp, StopWith
  <2> QED  BY <1>1, <2>1, <2>2, <2>3, PlainAbort DEF Fallible
<1>7. CASE PostVerdict = "reject"
  <2>1. TraceOnly /\ StopWith("reject", Rejected)
    BY <1>7 DEF PostGate
  <2>2. g \in Judges /\ Adds("gate.fail", node, g, 0)
    BY <1>1, <1>3, <1>7, GateNamed
  <2>3. GivesUp
    <3>1. g \in Objections /\ end' = Rejected /\ end' \in Refusals
      BY <2>1, <2>2 DEF Objections, Refusals, StopWith
    <3> HIDE DEF g
    <3> QED  BY <1>1, <2>2, <3>1 DEF GivesUp
  <2> QED  BY <1>1, <2>1, <2>2, <2>3, PlainAbort DEF Fallible
<1> QED  BY <1>2, <1>4, <1>5, <1>6, <1>7 DEF PostGate

(* the escalation of a gate, *)
LEMMA EscalateShape == ASSUME IInv, Escalate PROVE Aborts
<1> DEFINE g == PostGates[node][loc.gate]
<1>1. /\ pc = "escalate" /\ TraceOnly /\ StopWith("reject", Rejected)
      /\ EmitGate(g, PostVerdict)
  BY DEF Escalate
<1>2. Adds("gate.pass", node, g, 0) \/ Adds("gate.fail", node, g, 0)
  BY <1>1, GateAdds, GateKnown
<1>3. GivesUp
  <2>1. CASE PostVerdict = "retry"
    <3>1. g \in Judges /\ Adds("gate.fail", node, g, 0)
      BY <1>1, <2>1, GateAdds, GateKnown, GateNamed
    <3>2. g \in Objections /\ end' = Rejected /\ end' \in Refusals
      BY <1>1, <3>1 DEF Objections, Refusals, StopWith
    <3> HIDE DEF g
    <3> QED  BY <1>1, <3>1, <3>2 DEF GivesUp
  <2> QED  BY <1>1, <2>1 DEF GivesUp
<1> QED  BY <1>1, <1>2, <1>3, PlainAbort DEF Fallible

(* The judgment of the router's contract follows the turn's confidence. *)
LEMMA ConfidenceDecides ==
  ASSUME NEW from, NEW to, NEW conf \in {"ok", "low"}
  PROVE  LET j == Judgment(HandoffContract(from, to, conf)) IN
         (j = "accept" => conf # "low") /\ (j = "bounded_retry" => conf = "low")
<1> DEFINE c == HandoffContract(from, to, conf)
<1>1. c.confidence = conf
  BY DEF HandoffContract
<1> HIDE DEF c
<1>2. Validate(c) \in {"accept", "post_gate_fail", "warn_proceed"} => conf # "low"
  BY <1>1 DEF Validate
<1>3. Validate(c) = "bounded_retry" => conf = "low"
  BY <1>1 DEF Validate
<1>4. (Judgment(c) = "accept" => conf # "low") /\ (Judgment(c) = "bounded_retry" => conf = "low")
  BY <1>2, <1>3 DEF Judgment
<1> QED  BY <1>4 DEF c

(* the router's decision, *)
LEMMA DecideShapes == ASSUME IInv, DecideHandoff PROVE Hands \/ Retries \/ Aborts
<1> DEFINE to == Succs[node][loc.edge]
           j == Judgment(HandoffContract(node, to, loc.turn.conf))
           d == RouteDecision(node, to, j)
<1>1. pc = "decide" /\ Route(node, to, j)
  BY DEF DecideHandoff
<1>2. loc \in Locals /\ loc.turn.conf \in {"ok", "low"}
  BY DEF IInv, CtlOK, Locals, Turn
<1>3. (j = "accept" => loc.turn.conf # "low") /\ (j = "bounded_retry" => loc.turn.conf = "low")
  BY <1>2, ConfidenceDecides
<1>4. CASE d = "accept"
  <2>1. /\ pc' = "route" /\ loc' = [loc EXCEPT !.edge = @ + 1] /\ UNCHANGED <<wave, idx, end>>
        /\ Emit("handoff.accept", to) /\ routedIn' = [routedIn EXCEPT ![to] = node]
        /\ UNCHANGED <<cursor, wavePos, wal, walState, responses, attempts, outputs, concerns, state>>
        /\ UNCHANGED <<interrupt, interruptAt, budgetVars>>
    BY <1>4 DEF DecideHandoff, GotoWith, RouteInto, engineVars, intVars
  <2>2. loc' = [loc EXCEPT !.edge = loc.edge + 1]
    BY <1>2, <2>1 DEF Locals
  <2>3. /\ loc'.edge = loc.edge + 1 /\ loc'.gate = loc.gate /\ loc'.from = loc.from
        /\ loc'.turn = loc.turn /\ loc'.retried = loc.retried /\ loc'.taint = loc.taint
    BY <1>2, <2>2, LocFields
  <2>4. j = "accept" /\ Evaluate(node, to) = "none"
    <3>1. j \in {"accept", "bounded_retry", "reject"}
      BY DEF Judgment
    <3> HIDE DEF j
    <3> QED  BY <1>4, <3>1 DEF RouteDecision
  <2>5. Record(node, to) /\ UNCHANGED retries
    <3> HIDE DEF j
    <3> QED  BY <1>1, <2>4 DEF Route
  <2>6. Adds("handoff.accept", node, to, 0) /\ Stay
    BY <2>1, SameNode DEF Emit, Adds, Given, Stay
  <2>7. loc.turn.conf # "low"
    BY <1>3, <2>4
  <2> QED  BY <1>1, <2>1, <2>3, <2>4, <2>5, <2>6, <2>7 DEF Hands
<1>5. CASE d = "retry_bounded"
  <2>1. UNCHANGED log /\ RetryAttempt
    BY <1>5 DEF DecideHandoff
  <2>2. j = "bounded_retry" /\ retries[node] < BoundedRetry
    <3> HIDE DEF j
    <3> QED  BY <1>5 DEF RouteDecision
  <2>3. retries' = [retries EXCEPT ![node] = @ + 1] /\ UNCHANGED <<window, total, halted>>
    <3> HIDE DEF j
    <3> QED  BY <1>1, <2>2 DEF Route
  <2>4. loc.turn.conf = "low"
    BY <1>3, <2>2
  <2> QED  BY <1>1, <2>1, <2>2, <2>3, <2>4, RetryShape
<1>6. CASE d \in {"return_to_sender", "halt"}
  <2>1. /\ \/ StopWith("reject", Rejected) /\ EmitFail("router.v1", "GATE_REJECT")
           \/ /\ StopWith("escalate", End("HALTED", Evaluate(node, to)))
              /\ EmitFail("router.v1", Evaluate(node, to))
        /\ UNCHANGED <<engineVars, memVars, wal, walState, responses, intVars, budgetVars>>
    BY <1>6 DEF DecideHandoff
  <2>2. Adds("gate.fail", node, "router.v1", 0)
    <3>1. EmitFail("router.v1", end'.reason)
      BY <2>1 DEF StopWith, Rejected, End
    <3>2. Given("gate.fail", "router.v1") = end'.reason
      BY DEF Given
    <3> HIDE DEF Given
    <3> QED  BY <3>1, <3>2 DEF EmitFail, Adds
  <2>3. /\ UNCHANGED <<window, total>>
        /\ retries' = retries \/ retries' = [retries EXCEPT ![node] = @ + 1]
        /\ halted' = halted \/ halted' = Evaluate(node, to)
    <3>1. ~(j = "accept" /\ Evaluate(node, to) = "none")
      <4> HIDE DEF j
      <4> QED  BY <1>6 DEF RouteDecision
    <3> HIDE DEF j
    <3> QED  BY <1>1, <3>1 DEF Route, routerVars
  <2>4. /\ UNCHANGED <<cursor, wavePos, wal, walState, responses, attempts, routedIn, outputs>>
        /\ UNCHANGED <<concerns, state, interrupt, interruptAt, window, total, budgetVars>>
    BY <2>1, <2>3 DEF engineVars, memVars, intVars
  <2>5. /\ pc \in Fallible /\ pc # "suspend"
        /\ \E kind \in {"reject", "escalate"} : \E s \in {"SUSPENDED", "HALTED", "FAILED"} :
           \E r : StopWith(kind, End(s, r))
    BY <1>1, <2>1, Endings DEF Fallible
  <2>6. PICK kind \in {"reject", "escalate"}, s \in {"SUSPENDED", "HALTED", "FAILED"} :
          \E r : StopWith(kind, End(s, r))
    BY <2>5
  <2>7. PICK r : StopWith(kind, End(s, r))
    BY <2>6
  <2>8. GivesUp
    <3>1. end' = Rejected \/ end' = End("HALTED", Evaluate(node, to))
      BY <2>1 DEF StopWith
    <3>2. d = "halt" => Evaluate(node, to) \in HaltReasons
      <4>1. halted \in HaltReasons \cup {"none"}
        BY DEF IInv, Quiet, RouterTypeOK
      <4> QED  BY <4>1 DEF RouteDecision, Evaluate, HaltReasons
    <3>3. d # "halt" => end' = Rejected
      BY <1>6 DEF DecideHandoff, StopWith
    <3>4. end' \in Refusals
      <4> HIDE DEF d, to, j
      <4> QED  BY <3>1, <3>2, <3>3 DEF Refusals
    <3>5. pc # "suspend"
      BY <1>1
    <3> HIDE DEF d, to, j
    <3> QED  BY <2>2, <3>4, <3>5 DEF GivesUp, Objections
  <2> QED  BY <1>1, <2>2, <2>3, <2>4, <2>5, <2>7, <2>8, AbortShape
<1> QED  BY <1>4, <1>5, <1>6 DEF DecideHandoff

(* the other events and writes of a boundary, *)
LEMMA BoundaryShapes ==
  ASSUME IInv
  PROVE  /\ EmitSuspend => Aborts
         /\ CacheViolation => Aborts
         /\ EmitLlmCall => Calls
         /\ MeterTurn => Meters
         /\ EmitWarn => WarnsOnce
         /\ RequestHandoff => Requests
         /\ CommitPoint => Commits
         /\ WriteResponse => Responds
<1>1. ASSUME EmitSuspend PROVE Aborts
  <2>1. pc = "suspend" /\ TraceOnly /\ StopWith("escalate", OverBudget)
        /\ Adds("budget.event", "session", "suspend", 0)
    BY <1>1 DEF EmitSuspend, EmitSession, Adds, Given
  <2>2. GivesUp
    BY <2>1 DEF GivesUp, StopWith
  <2> QED  BY <2>1, <2>2, PlainAbort DEF Fallible
<1>2. ASSUME CacheViolation PROVE Aborts
  <2>1. pc = "exec" /\ TraceOnly /\ StopWith("reject", Rejected)
        /\ Adds("gate.fail", node, "cache", 0)
    BY <1>2 DEF CacheViolation, EmitFail, Adds, Given, FailReason
  <2>2. GivesUp
    BY <2>1 DEF GivesUp, StopWith, Refusals, Objections
  <2> QED  BY <2>1, <2>2, PlainAbort DEF Fallible
<1>3. ASSUME EmitLlmCall PROVE Calls
  BY <1>3, SameNode DEF EmitLlmCall, Goto, Calls, Adds, Given, Stay
<1>4. ASSUME MeterTurn PROVE Meters
  <2>1. UNCHANGED <<wave, idx, end, loc>>
    BY <1>4 DEF MeterTurn, Goto
  <2>2. Stay
    BY <2>1, SameNode DEF Stay
  <2> QED  BY <1>4, <2>1, <2>2 DEF MeterTurn, Goto, Meters, engineVars, memVars, diskVars, intVars
<1>5. ASSUME EmitWarn PROVE WarnsOnce
  BY <1>5, SameNode DEF EmitWarn, EmitSession, Goto, WarnsOnce, Adds, Given, Stay
<1>6. ASSUME RequestHandoff PROVE Requests
  BY <1>6, SameNode DEF RequestHandoff, Emit, Goto, Requests, Adds, Given, Stay
<1>7. ASSUME CommitPoint PROVE Commits
  BY <1>7, SameNode DEF CommitPoint, EdgesRouted, Goto, Commits, Stay, memVars, intVars
<1>8. ASSUME WriteResponse PROVE Responds
  BY <1>8, SameNode DEF WriteResponse, Goto, Responds, Stay, engineVars, intVars
<1> QED  BY <1>1, <1>2, <1>3, <1>4, <1>5, <1>6, <1>7, <1>8

(* the post-commit check, *)
LEMMA SettleShape == ASSUME IInv, Settle PROVE Settles
<1>1. /\ pc = "settle" /\ log' = log /\ Meter(Role[node], 0)
      /\ UNCHANGED <<cursor, wavePos, wal, walState, responses, attempts, routedIn, outputs, state>>
      /\ UNCHANGED <<interrupt, interruptAt, routerVars>>
  BY DEF Settle, engineVars, diskVars, intVars
<1>2. end = NoEnd
  BY <1>1 DEF IInv, Life, PCs
<1>3. CASE MeterVerdict(Role[node], 0) = "exceeded"
  <2>1. pc' = "suspend" /\ UNCHANGED <<wave, idx, loc, end, concerns>>
    BY <1>3 DEF Settle, Goto
  <2> QED  BY <1>1, <2>1, SameNode DEF Settles, Stay
<1>4. CASE MeterVerdict(Role[node], 0) # "exceeded"
  <2>1. /\ pc' = "stop" /\ loc' = [loc EXCEPT !.stop = "done"] /\ end' = NoEnd
        /\ UNCHANGED <<wave, idx>>
        /\ concerns' = IF loc.retried THEN concerns + 1 ELSE concerns
    BY <1>4 DEF Settle, StopWith
  <2>2. loc'.stop = "done"
    BY <2>1, LocFields DEF IInv, CtlOK
  <2>3. Stay
    BY <1>2, <2>1, SameNode DEF Stay
  <2> QED  BY <1>1, <1>4, <2>1, <2>2, <2>3 DEF Settles
<1> QED  BY <1>3, <1>4

(* the ends of a boundary and of the session, the signal and the crash. *)
LEMMA EndShapes ==
  ASSUME IInv
  PROVE  /\ StopNode => Stops
         /\ Finish => Ends
         /\ CloseSession => Closes
         /\ Interrupt => Signals
         /\ Crash => Dies
         /\ UNCHANGED vars => Idles
<1>1. ASSUME StopNode PROVE Stops
  BY <1>1 DEF StopNode, Emit, Goto, Stops, Adds, Given
<1>2. ASSUME Finish PROVE Ends
  BY <1>2, SameNode DEF Finish, Goto, Ends, Stay, engineVars, intVars
<1>3. ASSUME CloseSession PROVE Closes
  BY <1>3, SameNode DEF CloseSession, EmitSession, Goto, Closes, Adds, Given, Stay
<1>4. ASSUME Interrupt PROVE Signals
  BY <1>4, SameNode DEF Interrupt, Signals, Stay, ctlVars, engineVars, memVars, diskVars
<1>5. ASSUME Crash PROVE Dies
  BY <1>5, SameNode DEF Crash, Goto, ControlOnly, Dies, Stay
<1>6. ASSUME UNCHANGED vars PROVE Idles
  <2>1. UNCHANGED <<pc, wave, idx, loc, end, log>> /\ TraceOnly
    BY <1>6 DEF vars, ctlVars, engineVars, memVars, diskVars, TraceOnly
  <2> QED  BY <2>1, SameNode DEF Idles, Stay
<1> QED  BY <1>1, <1>2, <1>3, <1>4, <1>5, <1>6

(* Every step of the system has a shape of the catalog. *)
LEMMA Shapes == ASSUME IInv, [Next]_vars PROVE Step
<1>1. CASE OpenSession \/ EmitSessionOpen \/ EmitPlanCompiled \/ Activate
  BY <1>1, OpenShapes DEF Step
<1>2. CASE NextWave \/ NextNode
  BY <1>2, LoopShapes DEF Step
<1>3. CASE StartNode
  BY <1>3, StartShape DEF Step
<1>4. CASE PreGate
  BY <1>4, PreGateShapes DEF Step
<1>5. CASE BeginAttempt
  BY <1>5, BeginShapes DEF Step
<1>6. CASE ExecuteCached \/ ExecuteLive
  BY <1>6, ExecuteShapes DEF Step
<1>7. CASE ExecuteFails
  BY <1>7, FaultShapes DEF Step
<1>8. CASE PostGate
  BY <1>8, PostGateShapes DEF Step
<1>9. CASE Escalate
  BY <1>9, EscalateShape DEF Step
<1>10. CASE DecideHandoff
  BY <1>10, DecideShapes DEF Step
<1>11. CASE EmitSuspend \/ CacheViolation \/ EmitLlmCall \/ MeterTurn \/ EmitWarn
            \/ RequestHandoff \/ CommitPoint \/ WriteResponse
  BY <1>11, BoundaryShapes DEF Step
<1>12. CASE Settle
  BY <1>12, SettleShape DEF Step
<1>13. CASE StopNode \/ Finish \/ CloseSession \/ Interrupt \/ Crash \/ UNCHANGED vars
  BY <1>13, EndShapes DEF Step
<1> QED
  BY <1>1, <1>2, <1>3, <1>4, <1>5, <1>6, <1>7, <1>8, <1>9, <1>10, <1>11, <1>12, <1>13
     DEF Next, RunnerStep

-----------------------------------------------------------------------------
(* What all but a few steps leave alone. *)

(* The flag, the spends and the session's state each change in few shapes. *)
LEMMA RunFrames ==
  ASSUME Step
  PROVE  /\ Signals \/ UNCHANGED <<interrupt, interruptAt>>
         /\ Meters \/ Settles \/ UNCHANGED <<sessionSpent, agentSpent, teamSpent, warnFired>>
         /\ Opens \/ Ends \/ UNCHANGED <<walState, state>>
<1>1. Signals \/ UNCHANGED <<interrupt, interruptAt>>
  BY DEF Step, Opens, Loops, Starts, PrePasses, Suspends, Aborts, Retries, Begins, Executes,
     Calls, Meters, WarnsOnce, PostPasses, Exhausts, Requests, Hands, Commits, Responds, Settles,
     Stops, Ends, Closes, Dies, Idles, TraceOnly, intVars
<1>2. Meters \/ Settles \/ UNCHANGED <<sessionSpent, agentSpent, teamSpent, warnFired>>
  BY DEF Step, Opens, Loops, Starts, PrePasses, Suspends, Aborts, Retries, Begins, Executes,
     Calls, WarnsOnce, PostPasses, Exhausts, Requests, Hands, Commits, Responds, Stops, Ends,
     Closes, Signals, Dies, Idles, TraceOnly, budgetVars
<1>3. Opens \/ Ends \/ UNCHANGED <<walState, state>>
  BY DEF Step, Loops, Starts, PrePasses, Suspends, Aborts, Retries, Begins, Executes, Calls,
     Meters, WarnsOnce, PostPasses, Exhausts, Requests, Hands, Commits, Responds, Settles, Stops,
     Closes, Signals, Dies, Idles, TraceOnly, memVars
<1> QED  BY <1>1, <1>2, <1>3

(* So do rows, files, outputs, counters, contracts and the router's state. *)
LEMMA DiskFrames ==
  ASSUME Step
  PROVE  /\ Commits \/ UNCHANGED <<wal, cursor, wavePos>>
         /\ Responds \/ UNCHANGED <<responses, outputs>>
         /\ Retries \/ attempts' = attempts
         /\ Retries \/ Aborts \/ retries' = retries
         /\ Hands \/ UNCHANGED <<routedIn, window>>
         /\ Hands \/ Aborts \/ halted' = halted
         /\ Settles \/ concerns' = concerns
<1>1. Commits \/ UNCHANGED <<wal, cursor, wavePos>>
  BY DEF Step, Opens, Loops, Starts, PrePasses, Suspends, Aborts, Retries, Begins, Executes,
     Calls, Meters, WarnsOnce, PostPasses, Exhausts, Requests, Hands, Responds, Settles,
     Stops, Ends, Closes, Signals, Dies, Idles, TraceOnly, engineVars
<1>2. Responds \/ UNCHANGED <<responses, outputs>>
  BY DEF Step, Opens, Loops, Starts, PrePasses, Suspends, Aborts, Retries, Begins, Executes,
     Calls, Meters, WarnsOnce, PostPasses, Exhausts, Requests, Hands, Commits, Settles,
     Stops, Ends, Closes, Signals, Dies, Idles, TraceOnly, memVars
<1>3. Retries \/ attempts' = attempts
  BY DEF Step, Opens, Loops, Starts, PrePasses, Suspends, Aborts, Begins, Executes,
     Calls, Meters, WarnsOnce, PostPasses, Exhausts, Requests, Hands, Commits, Responds, Settles,
     Stops, Ends, Closes, Signals, Dies, Idles, TraceOnly, memVars
<1>4. Settles \/ concerns' = concerns
  BY DEF Step, Opens, Loops, Starts, PrePasses, Suspends, Aborts, Retries, Begins, Executes,
     Calls, Meters, WarnsOnce, PostPasses, Exhausts, Requests, Hands, Commits, Responds,
     Stops, Ends, Closes, Signals, Dies, Idles, TraceOnly, memVars
<1>5. /\ Retries \/ Aborts \/ retries' = retries
      /\ Hands \/ Aborts \/ halted' = halted
  BY DEF Step, Opens, Loops, Starts, PrePasses, Suspends, Retries, Begins, Executes,
     Calls, Meters, WarnsOnce, PostPasses, Exhausts, Requests, Hands, Commits, Responds, Settles,
     Stops, Ends, Closes, Signals, Dies, Idles, TraceOnly, routerVars
<1>6. Hands \/ UNCHANGED <<routedIn, window>>
  BY DEF Step, Opens, Loops, Starts, PrePasses, Suspends, Aborts, Retries, Begins, Executes,
     Calls, Meters, WarnsOnce, PostPasses, Exhausts, Requests, Commits, Responds, Settles,
     Stops, Ends, Closes, Signals, Dies, Idles, TraceOnly, memVars, routerVars
<1> QED  BY <1>1, <1>2, <1>3, <1>4, <1>5, <1>6

(* The event of a step, if it has one, by its kind. *)
Fits(k, n, at, tok) ==
  /\ \/ n = "session" /\ k \in {"session.open", "plan.compiled", "budget.event", "session.close"}
     \/ /\ n = node
        /\ k \in {"node.start", "gate.pass", "gate.fail", "llm.call", "handoff.request",
                  "handoff.accept", "node.stop"}
        /\ pc \in (Fresh \cup {"stop"}) \ {"attempt", "meter", "warn"}
  /\ (k = "node.start") <=> Starts
  /\ (k = "llm.call") <=> Calls
  /\ (k = "handoff.accept") <=> Hands
  /\ (k = "node.stop") <=> Stops
  /\ (k = "session.close") <=> Closes
  /\ k = "gate.fail" => pc' \in {"suspend", "stop", "attempt", "escalate", "dead"}
  /\ k = "budget.event" => (at = "warn" <=> WarnsOnce)
  /\ Calls \/ tok = 0

(* A step leaves the trace alone or appends one event that fits it. *)
LEMMA StepEvent ==
  ASSUME IInv, Step
  PROVE  \/ log' = log /\ ~Starts /\ ~Calls /\ ~Hands /\ ~Stops /\ ~Closes /\ ~WarnsOnce
         \/ \E k, n, at, tok : Adds(k, n, at, tok) /\ Fits(k, n, at, tok)

<1>1. CASE Opens
  <2>1. pc \in OpenPCs /\ pc' # "pre" /\ pc' # "meter" /\ pc' # "route" /\ pc' # "done"
    BY <1>1 DEF Opens, OpenPCs
  <2>2. ~Starts /\ ~Calls /\ ~Hands /\ ~Stops /\ ~Closes /\ ~WarnsOnce
    BY <2>1 DEF Starts, Calls, Hands, Stops, Closes, WarnsOnce, OpenPCs
  <2>3. CASE log' = log
    BY <2>2, <2>3
  <2>4. CASE Adds("session.open", "session", "", 0)
    <3>1. Fits("session.open", "session", "", 0)
      BY <2>2 DEF Fits
    <3> QED  BY <2>4, <3>1
  <2>5. CASE Adds("plan.compiled", "session", "", 0)
    <3>1. Fits("plan.compiled", "session", "", 0)
      BY <2>2 DEF Fits
    <3> QED  BY <2>5, <3>1
  <2> QED  BY <1>1, <2>3, <2>4, <2>5 DEF Opens
<1>2. CASE Loops \/ Begins \/ Executes \/ Meters \/ Commits \/ Responds \/ Settles \/ Ends \/ Idles
  <2>1. log' = log
    BY <1>2 DEF Loops, Begins, Executes, Meters, Commits, Responds, Settles, Ends, Idles
  <2>2. pc \in {"wave", "node", "attempt", "exec", "meter", "respond", "settle", "finish"}
        \/ (pc = "route" /\ pc' = "respond") \/ pc' = pc
    BY <1>2 DEF Loops, Begins, Executes, Meters, Commits, Responds, Settles, Ends, Idles
  <2>3. ~Starts /\ ~Calls /\ ~Hands /\ ~Stops /\ ~Closes /\ ~WarnsOnce
    BY <2>2 DEF Starts, Calls, Hands, Stops, Closes, WarnsOnce
  <2> QED  BY <2>1, <2>3
<1>3. CASE Starts
  <2>1. pc = "start" /\ pc' = "pre" /\ Adds("node.start", node, "", 0)
    BY <1>3 DEF Starts
  <2>2. ~Calls /\ ~Hands /\ ~Stops /\ ~Closes /\ ~WarnsOnce
    BY <2>1 DEF Calls, Hands, Stops, Closes, WarnsOnce
  <2>3. Fits("node.start", node, "", 0)
    BY <1>3, <2>1, <2>2 DEF Fits, Fresh
  <2> QED  BY <2>1, <2>3
<1>4. CASE PrePasses \/ PostPasses
  <2>1. PICK at : Adds("gate.pass", node, at, 0)
    BY <1>4 DEF PrePasses, PostPasses
  <2>2. pc \in {"pre", "post"} /\ pc' \in {"pre", "attempt", "post", "route"}
    BY <1>4 DEF PrePasses, PostPasses
  <2>3. ~Starts /\ ~Calls /\ ~Hands /\ ~Stops /\ ~Closes /\ ~WarnsOnce
    BY <2>2 DEF Starts, Calls, Hands, Stops, Closes, WarnsOnce
  <2>4. Fits("gate.pass", node, at, 0)
    BY <2>2, <2>3 DEF Fits, Fresh
  <2> QED  BY <2>1, <2>4
<1>5. CASE Suspends \/ Exhausts
  <2>1. PICK at : Adds("gate.fail", node, at, 0)
    BY <1>5 DEF Suspends, Exhausts
  <2>2. pc \in {"pre", "post"} /\ pc' \in {"suspend", "escalate"}
    BY <1>5 DEF Suspends, Exhausts
  <2>3. ~Starts /\ ~Calls /\ ~Hands /\ ~Stops /\ ~Closes /\ ~WarnsOnce
    BY <2>2 DEF Starts, Calls, Hands, Stops, Closes, WarnsOnce
  <2>4. Fits("gate.fail", node, at, 0)
    BY <2>2, <2>3 DEF Fits, Fresh
  <2> QED  BY <2>1, <2>4
<1>6. CASE Aborts \/ Retries \/ Dies \/ Signals
  <2>1. pc' \in {"stop", "attempt", "dead"} \/ (pc' = pc /\ log' = log)
    BY <1>6 DEF Aborts, Retries, Dies, Signals
  <2>2. ~Starts /\ ~Calls /\ ~Hands /\ ~Stops /\ ~Closes /\ ~WarnsOnce
    <3>1. ~(Stops /\ pc' \in {"stop", "attempt", "dead"}) /\ ~(Closes /\ pc' \in {"stop", "attempt", "dead"})
      BY DEF Stops, Closes
    <3> QED  BY <2>1, <3>1 DEF Starts, Calls, Hands, Stops, Closes, WarnsOnce
  <2>3. \/ log' = log
        \/ /\ pc \in {"pre", "exec", "post", "escalate", "decide"} /\ pc' \in {"stop", "attempt", "dead"}
           /\ \E at : Adds("gate.pass", node, at, 0) \/ Adds("gate.fail", node, at, 0)
        \/ Adds("budget.event", "session", "suspend", 0)
    BY <1>6 DEF Aborts, Retries, Dies, Signals, Fallible
  <2>4. CASE log' = log
    BY <2>2, <2>4
  <2>5. CASE /\ pc \in {"pre", "exec", "post", "escalate", "decide"} /\ pc' \in {"stop", "attempt", "dead"}
             /\ \E at : Adds("gate.pass", node, at, 0) \/ Adds("gate.fail", node, at, 0)
    <3>1. PICK at : Adds("gate.pass", node, at, 0) \/ Adds("gate.fail", node, at, 0)
      BY <2>5
    <3>2. Fits("gate.pass", node, at, 0) /\ Fits("gate.fail", node, at, 0)
      BY <2>2, <2>5 DEF Fits, Fresh
    <3> QED  BY <3>1, <3>2
  <2>6. CASE Adds("budget.event", "session", "suspend", 0)
    <3>1. Fits("budget.event", "session", "suspend", 0)
      BY <2>2 DEF Fits
    <3> QED  BY <2>6, <3>1
  <2> QED  BY <2>3, <2>4, <2>5, <2>6
<1>7. CASE Calls
  <2>1. pc = "call" /\ pc' = "meter" /\ Adds("llm.call", node, "", loc.turn.tok)
    BY <1>7 DEF Calls
  <2>2. ~Starts /\ ~Hands /\ ~Stops /\ ~Closes /\ ~WarnsOnce
    BY <2>1 DEF Starts, Hands, Stops, Closes, WarnsOnce
  <2>3. Fits("llm.call", node, "", loc.turn.tok)
    BY <1>7, <2>1, <2>2 DEF Fits, Fresh
  <2> QED  BY <2>1, <2>3
<1>8. CASE WarnsOnce
  <2>1. pc = "warn" /\ Adds("budget.event", "session", "warn", 0)
    BY <1>8 DEF WarnsOnce
  <2>2. ~Starts /\ ~Calls /\ ~Hands /\ ~Stops /\ ~Closes
    BY <2>1 DEF Starts, Calls, Hands, Stops, Closes
  <2>3. Fits("budget.event", "session", "warn", 0)
    BY <1>8, <2>1, <2>2 DEF Fits
  <2> QED  BY <2>1, <2>3
<1>9. CASE Requests
  <2>1. PICK at : Adds("handoff.request", node, at, 0)
    BY <1>9 DEF Requests
  <2>2. pc = "route"
    BY <1>9 DEF Requests
  <2>3. ~Starts /\ ~Calls /\ ~Hands /\ ~Stops /\ ~Closes /\ ~WarnsOnce
    BY <2>2 DEF Starts, Calls, Hands, Stops, Closes, WarnsOnce
  <2>4. Fits("handoff.request", node, at, 0)
    BY <2>2, <2>3 DEF Fits, Fresh
  <2> QED  BY <2>1, <2>4
<1>10. CASE Hands
  <2> DEFINE to == Succs[node][loc.edge]
  <2>1. pc = "decide" /\ Adds("handoff.accept", node, to, 0)
    BY <1>10 DEF Hands
  <2>2. ~Starts /\ ~Calls /\ ~Stops /\ ~Closes /\ ~WarnsOnce
    BY <2>1 DEF Starts, Calls, Stops, Closes, WarnsOnce
  <2>3. Fits("handoff.accept", node, to, 0)
    BY <1>10, <2>1, <2>2 DEF Fits, Fresh
  <2> QED  BY <2>1, <2>3
<1>11. CASE Stops
  <2>1. pc = "stop" /\ Adds("node.stop", node, loc.stop, 0)
    BY <1>11 DEF Stops
  <2>2. ~Starts /\ ~Calls /\ ~Hands /\ ~Closes /\ ~WarnsOnce
    BY <2>1 DEF Starts, Calls, Hands, Closes, WarnsOnce
  <2>3. Fits("node.stop", node, loc.stop, 0)
    BY <1>11, <2>1, <2>2 DEF Fits, Fresh
  <2> QED  BY <2>1, <2>3
<1>12. CASE Closes
  <2>1. pc = "close" /\ Adds("session.close", "session", state, 0)
    BY <1>12 DEF Closes
  <2>2. ~Starts /\ ~Calls /\ ~Hands /\ ~Stops /\ ~WarnsOnce
    BY <2>1 DEF Starts, Calls, Hands, Stops, WarnsOnce
  <2>3. Fits("session.close", "session", state, 0)
    BY <1>12, <2>1, <2>2 DEF Fits
  <2> QED  BY <2>1, <2>3
<1> QED
  BY <1>1, <1>2, <1>3, <1>4, <1>5, <1>6, <1>7, <1>8, <1>9, <1>10, <1>11, <1>12 DEF Step

(* What an appended event does to a trace. *)
LEMMA Grown ==
  ASSUME LogOK, LogOK', NEW k, NEW n, NEW at, NEW tok, Adds(k, n, at, tok)
  PROVE  /\ Len(log) \in Nat /\ Len(log') = Len(log) + 1
         /\ \A i \in 1..Len(log) : log'[i] = log[i]
         /\ log'[Len(log) + 1] = Event(k, n, at, tok, Given(k, at))
         /\ log'[Len(log) + 1].kind = k /\ log'[Len(log) + 1].node = n
         /\ log'[Len(log) + 1].at = at /\ log'[Len(log) + 1].tok = tok
         /\ log'[Len(log) + 1].reason = Given(k, at)
         /\ 1..Len(log') = 1..Len(log) \cup {Len(log) + 1}
<1> DEFINE e == Event(k, n, at, tok, Given(k, at))
<1>1. e.kind = k /\ e.node = n /\ e.at = at /\ e.tok = tok /\ e.reason = Given(k, at)
  BY DEF Event
<1>2. log' = Append(log, e) /\ log \in Seq(LoggedEvent) /\ Len(log) \in Nat
  BY DEF Adds, LogOK
<1> HIDE DEF e
<1>3. /\ Len(log') = Len(log) + 1 /\ log'[Len(log) + 1] = e
      /\ \A i \in 1..Len(log) : log'[i] = log[i]
  BY <1>2
<1>4. 1..Len(log') = 1..Len(log) \cup {Len(log) + 1}
  BY <1>2, <1>3
<1> QED  BY <1>1, <1>2, <1>3, <1>4 DEF e

(* ... and to the positions of a kind and a node. *)
LEMMA WhereGrows ==
  ASSUME LogOK, LogOK', NEW k, NEW n, NEW at, NEW tok, Adds(k, n, at, tok), NEW kind, NEW m
  PROVE  /\ Where(log', kind, m) = IF kind = k /\ m = n THEN Where(log, kind, m) \cup {Len(log) + 1}
                                   ELSE Where(log, kind, m)
         /\ Where(log, kind, m) \subseteq 1..Len(log)
<1> QED  BY Grown DEF Where

-----------------------------------------------------------------------------
(* The interrupt. *)

(* A start and a call poll the flag first, and the one that was past its   *)
(* poll uses up the allowance.                                             *)
LEMMA StoppingStep == ASSUME IInv, IInv', Step, Stopping PROVE Stopping'
<1>1. LogOK /\ LogOK' /\ interruptAt \in Nat /\ interrupt \in BOOLEAN /\ Len(log) \in Nat
  BY DEF IInv, LogOK, Quiet, FlagOK
<1>2. CASE Signals
  <2>1. interruptAt' = Len(log) /\ log' = log
    BY <1>2 DEF Signals
  <2>2. Late(log', interruptAt') = {}
    BY <1>1, <2>1 DEF Late
  <2> QED  BY <1>1, <2>1, <2>2 DEF Stopping
<1>3. CASE Starts \/ Calls
  <2>1. PICK k, n, at, tok : Adds(k, n, at, tok)
    BY <1>3 DEF Starts, Calls
  <2>2. Len(log') = Len(log) + 1 /\ \A i \in 1..Len(log) : log'[i] = log[i]
    BY <1>1, <2>1, Grown
  <2>3. UNCHANGED <<interrupt, interruptAt>> /\ pc \in {"start", "call"} /\ pc' \in {"pre", "meter"}
    BY <1>3 DEF Starts, Calls, TraceOnly, intVars
  <2>4. interrupt => Late(log', interruptAt) \subseteq {Len(log) + 1}
    <3> SUFFICES ASSUME interrupt, NEW i \in Late(log', interruptAt) PROVE i = Len(log) + 1
      OBVIOUS
    <3>1. Late(log, interruptAt) = {}
      BY <2>3 DEF Stopping
    <3>2. i \in (interruptAt + 1)..(Len(log) + 1) /\ log'[i].kind \in {"node.start", "llm.call"}
      BY <2>2 DEF Late
    <3>3. i # Len(log) + 1 => i \in 1..Len(log) /\ i \in (interruptAt + 1)..Len(log)
      BY <1>1, <3>2
    <3> QED  BY <2>2, <3>1, <3>2, <3>3 DEF Late
  <2> QED  BY <1>1, <2>2, <2>3, <2>4 DEF Stopping
<1>4. CASE ~Signals /\ ~Starts /\ ~Calls
  <2>1. UNCHANGED <<interrupt, interruptAt>>
    BY <1>4, RunFrames
  <2>2. Len(log') >= Len(log) /\ Late(log', interruptAt) = Late(log, interruptAt)
    <3>1. CASE log' = log
      BY <1>1, <3>1
    <3>2. CASE \E k, n, at, tok : Adds(k, n, at, tok) /\ Fits(k, n, at, tok)
      <4>1. PICK k, n, at, tok : Adds(k, n, at, tok) /\ Fits(k, n, at, tok)
        BY <3>2
      <4>2. k \notin {"node.start", "llm.call"}
        BY <1>4, <4>1 DEF Fits
      <4>3. /\ Len(log') = Len(log) + 1 /\ \A i \in 1..Len(log) : log'[i] = log[i]
            /\ log'[Len(log) + 1].kind = k
        BY <1>1, <4>1, Grown
      <4>4. \A i \in (interruptAt + 1)..(Len(log) + 1) :
              i = Len(log) + 1 \/ (i \in 1..Len(log) /\ i \in (interruptAt + 1)..Len(log))
        BY <1>1
      <4>5. \A i \in (interruptAt + 1)..Len(log) :
              i \in 1..Len(log) /\ i \in (interruptAt + 1)..(Len(log) + 1)
        BY <1>1
      <4> QED  BY <1>1, <4>2, <4>3, <4>4, <4>5 DEF Late
    <3> QED  BY <3>1, <3>2, StepEvent
  <2>3. pc' \in {"start", "exec", "call"} => ~interrupt \/ pc \in {"start", "exec", "call"}
    BY <1>4 DEF Step, Opens, Loops, PrePasses, Suspends, Aborts, Retries, Begins, Executes,
       Meters, WarnsOnce, PostPasses, Exhausts, Requests, Hands, Commits, Responds, Settles,
       Stops, Ends, Closes, Dies, Idles, OpenPCs
  <2> QED  BY <1>1, <2>1, <2>2, <2>3 DEF Stopping
<1> QED  BY <1>2, <1>3, <1>4

-----------------------------------------------------------------------------
(* The budget's lines. *)

(* The same spends reach the same lines. *)
LEMMA SameLines ==
  ASSUME UNCHANGED <<sessionSpent, agentSpent, teamSpent>>, NEW r
  PROVE  SuspendReached(r)' <=> SuspendReached(r)
<1> QED  BY DEF SuspendReached

(* A zero-token row that is not over a line leaves none reached. *)
LEMMA ClearedLines ==
  ASSUME BudgetTypeOK, NEW r \in Roles, Meter(r, 0), MeterVerdict(r, 0) # "exceeded"
  PROVE  ~SuspendReached(r)'
<1>1. /\ sessionSpent' = sessionSpent /\ agentSpent' = agentSpent /\ teamSpent' = teamSpent
      /\ sessionSpent + 0 = sessionSpent /\ teamSpent + 0 = teamSpent
      /\ agentSpent[r] + 0 = agentSpent[r]
  BY DEF Meter, RecordEntry, BudgetTypeOK
<1>2. ~\E sc \in Scopes :
         ScopeReached(sc, SuspendPct, r, sessionSpent, teamSpent, agentSpent[r])
  BY <1>1 DEF MeterVerdict, Evaluation
<1> QED  BY <1>1, <1>2 DEF SuspendReached

(* A budget pre-gate passes only below the lines. *)
LEMMA BudgetGatePasses ==
  ASSUME PreVerdict = "pass", PreGates[node][loc.gate] = "budget"
  PROVE  ~SuspendReached(Role[node])
<1> DEFINE x == SuspendReached(Role[node])
<1>1. PreVerdict = BudgetVerdict(x)
  BY DEF PreVerdict, RunGate
<1> HIDE DEF x
<1>2. ~x
  BY <1>1 DEF BudgetVerdict
<1> QED  BY <1>2 DEF x

(* The last pre-gate has been judged, the budget gate with it. *)
LEMMA BudgetGateJudged ==
  ASSUME IInv, Limited, PrePasses
  PROVE  /\ \A h \in 1..Len(PreGates[node]) : h < loc.gate + 1 =>
              (PreGates[node][h] = "budget" => ~SuspendReached(Role[node]))
         /\ loc.gate = Len(PreGates[node]) => ~SuspendReached(Role[node])
<1>1. pc = "pre" /\ PreVerdict = "pass" /\ node \in Nodes
  BY FreshNode DEF PrePasses, Fresh
<1>2. loc.gate \in 1..Len(PreGates[node]) /\ PreGates[node] \in Seq(GateIds)
  BY <1>1, InstanceAssumption DEF IInv, Indices
<1>3. \A h \in 1..Len(PreGates[node]) : h < loc.gate + 1 =>
        (PreGates[node][h] = "budget" => ~SuspendReached(Role[node]))
  <2> SUFFICES ASSUME NEW h \in 1..Len(PreGates[node]), h < loc.gate + 1,
                      PreGates[node][h] = "budget"
               PROVE  ~SuspendReached(Role[node])
    OBVIOUS
  <2>1. h < loc.gate \/ h = loc.gate
    BY <1>2
  <2> QED  BY <1>1, <2>1, BudgetGatePasses DEF Limited
<1>4. "budget" \in Members(PreGates[node])
  BY <1>1, InstanceAssumption
<1>5. PICK h \in 1..Len(PreGates[node]) : PreGates[node][h] = "budget"
  BY <1>4 DEF Members
<1>6. loc.gate = Len(PreGates[node]) => h < loc.gate + 1
  BY <1>2, <1>5
<1> QED  BY <1>3, <1>5, <1>6

(* The pre-gates judge the spends before the first call, and Settle judges *)
(* the committing role's before the next boundary; no spend changes in     *)
(* between.                                                                *)
LEMMA LimitedStep == ASSUME IInv, IInv', Step, Limited, Answered PROVE Limited'
<1>1. LogOK /\ LogOK' /\ wal \in Seq(CheckpointRow)
  BY DEF IInv, Quiet, DiskOK
<1>2. CASE Settles
  <2>1. pc = "settle" /\ node \in Nodes /\ wal' = wal /\ wal[Len(wal)].node = node
    BY <1>2, NodeType DEF Settles, IInv, Position, Passed, Answered
  <2>2. Role[node] \in Roles
    BY <2>1, InstanceAssumption
  <2>3. pc' = "stop" => ~SuspendReached(Role[node])'
    <3>1. PICK r \in Roles : r = Role[node]
      BY <2>2
    <3>2. node' = node
      BY <1>2 DEF Settles, Stay
    <3>3. pc' = "stop" => ~SuspendReached(r)'
      BY <1>2, <3>1, ClearedLines DEF Settles, IInv, Quiet
    <3> QED  BY <3>1, <3>2, <3>3 DEF SuspendReached
  <2>4. pc' = "suspend" \/ pc' = "stop"
    BY <1>2 DEF Settles
  <2>5. wal'[Len(wal')].node = node /\ node' = node
    BY <1>2, <2>1 DEF Settles, Stay
  <2> QED  BY <2>3, <2>4, <2>5 DEF Limited, OpenPCs, TurnPCs, SuspendReached
<1>3. CASE Meters
  <2>1. pc = "meter" /\ pc' \in {"warn", "post"} /\ log' = log /\ node' = node
    BY <1>3 DEF Meters, Stay
  <2> QED  BY <2>1 DEF Limited, OpenPCs, TurnPCs
<1>4. CASE Commits \/ Responds
  <2>1. pc' \in {"respond", "settle"}
    BY <1>4 DEF Commits, Responds
  <2> QED  BY <2>1 DEF Limited, OpenPCs, TurnPCs
<1>5. CASE ~Settles /\ ~Meters /\ ~Commits /\ ~Responds
  <2>1. UNCHANGED <<sessionSpent, agentSpent, teamSpent, wal>>
    BY <1>5, RunFrames, DiskFrames
  <2>2. \A r : SuspendReached(r)' <=> SuspendReached(r)
    BY <2>1 DEF SuspendReached
  <2>3. pc' \in OpenPCs => wal' = <<>>
    <3>1. pc' \in OpenPCs => pc \in OpenPCs
      BY <1>5 DEF Step, Opens, Loops, Starts, PrePasses, Suspends, Aborts, Retries, Begins,
         Executes, Calls, WarnsOnce, PostPasses, Exhausts, Requests, Hands, Stops, Ends, Closes,
         Signals, Dies, Idles, OpenPCs
    <3> QED  BY <2>1, <3>1 DEF Limited
  <2>4. (pc' \in {"wave", "node", "start"} \/ (pc' = "stop" /\ end' = NoEnd)) =>
          (wal' # <<>> => ~SuspendReached(Role[wal[Len(wal)].node]))
    <3>1. (pc' \in {"wave", "node", "start"} \/ (pc' = "stop" /\ end' = NoEnd)) =>
            pc \in OpenPCs \cup {"wave", "node", "start"} \/ (pc = "stop" /\ end = NoEnd)
      BY <1>5 DEF Step, Opens, Loops, Starts, PrePasses, Suspends, Aborts, Retries, Begins,
         Executes, Calls, WarnsOnce, PostPasses, Exhausts, Requests, Hands, Stops, Ends, Closes,
         Signals, Dies, Idles, OpenPCs, Stay
    <3> QED  BY <2>1, <3>1 DEF Limited
  <2>5. pc' = "pre" => \A h \in 1..Len(PreGates[node']) : h < loc'.gate =>
                         (PreGates[node'][h] = "budget" => ~SuspendReached(Role[node']))
    <3>1. CASE Starts
      <4>1. loc'.gate = 1 /\ node' = node /\ node \in Nodes
        BY <3>1, FreshNode DEF Starts, Stay, Fresh
      <4>2. \A h \in 1..Len(PreGates[node]) : ~(h < 1)
        BY <4>1, InstanceAssumption
      <4> QED  BY <4>1, <4>2
    <3>2. CASE PrePasses
      <4>1. node' = node /\ (pc' = "pre" => loc'.gate = loc.gate + 1)
        BY <3>2 DEF PrePasses, Stay
      <4> QED  BY <3>2, <4>1, BudgetGateJudged
    <3>3. CASE Signals \/ Idles
      <4>1. pc' = pc /\ loc' = loc /\ node' = node
        BY <3>3 DEF Signals, Idles, Stay
      <4> QED  BY <4>1 DEF Limited
    <3>4. CASE ~Starts /\ ~PrePasses /\ ~Signals /\ ~Idles
      <4>1. pc' # "pre"
        BY <1>5, <3>4 DEF Step, Opens, Loops, Suspends, Aborts, Retries, Begins,
           Executes, Calls, WarnsOnce, PostPasses, Exhausts, Requests, Hands, Stops, Ends, Closes,
           Dies, OpenPCs
      <4> QED  BY <4>1
    <3> QED  BY <3>1, <3>2, <3>3, <3>4
  <2>6. pc' \in {"attempt", "exec", "call"} =>
          (Where(log', "llm.call", node') = {} => ~SuspendReached(Role[node']))
    <3>1. CASE PrePasses
      <4>1. node' = node /\ (pc' = "attempt" => loc.gate = Len(PreGates[node]))
            /\ pc' \in {"pre", "attempt"}
        BY <3>1 DEF PrePasses, Stay
      <4> QED  BY <3>1, <4>1, BudgetGateJudged
    <3>2. CASE Retries
      <4>1. node' = node /\ pc \in {"exec", "post", "decide"}
        BY <3>2 DEF Retries, Stay
      <4>2. Where(log', "llm.call", node) = Where(log, "llm.call", node)
        <5>1. CASE log' = log
          BY <5>1
        <5>2. CASE \E at : Adds("gate.fail", node, at, 0)
          BY <1>1, <5>2, WhereGrows
        <5> QED  BY <3>2, <5>1, <5>2 DEF Retries
      <4> QED  BY <4>1, <4>2 DEF Limited, TurnPCs
    <3>3. CASE Begins \/ Executes \/ Signals \/ Idles
      <4>1. node' = node /\ log' = log
            /\ (pc' \in {"attempt", "exec", "call"} => pc \in {"attempt", "exec", "call"})
        BY <3>3 DEF Begins, Executes, Signals, Idles, Stay
      <4> QED  BY <4>1 DEF Limited
    <3>4. CASE ~PrePasses /\ ~Retries /\ ~Begins /\ ~Executes /\ ~Signals /\ ~Idles
      <4>1. pc' \notin {"attempt", "exec", "call"}
        BY <1>5, <3>4 DEF Step, Opens, Loops, Starts, Suspends, Aborts,
           Calls, WarnsOnce, PostPasses, Exhausts, Requests, Hands, Stops, Ends, Closes,
           Dies, OpenPCs
      <4> QED  BY <4>1
    <3> QED  BY <3>1, <3>2, <3>3, <3>4
  <2>7. pc' \in TurnPCs \ {"call"} => Where(log', "llm.call", node') # {}
    <3>1. CASE Calls
      <4>1. Adds("llm.call", node, "", loc.turn.tok) /\ node' = node
        BY <3>1 DEF Calls, Stay
      <4>2. Where(log', "llm.call", node) = Where(log, "llm.call", node) \cup {Len(log) + 1}
        BY <1>1, <4>1, WhereGrows
      <4> QED  BY <4>1, <4>2
    <3>2. CASE WarnsOnce \/ PostPasses \/ Exhausts \/ Requests \/ Hands \/ Signals \/ Idles
      <4>1. node' = node /\ (pc' \in TurnPCs \ {"call"} => pc \in TurnPCs \ {"call"})
        BY <3>2 DEF WarnsOnce, PostPasses, Exhausts, Requests, Hands, Signals, Idles, Stay, TurnPCs
      <4>2. log' = log \/ \E k, n, at, tok : Adds(k, n, at, tok)
        BY <3>2 DEF WarnsOnce, PostPasses, Exhausts, Requests, Hands, Signals, Idles
      <4>3. Where(log, "llm.call", node) \subseteq Where(log', "llm.call", node)
        BY <1>1, <4>2, WhereGrows
      <4> QED  BY <4>1, <4>3 DEF Limited
    <3>3. CASE ~(Calls \/ WarnsOnce \/ PostPasses \/ Exhausts \/ Requests \/ Hands \/ Signals \/ Idles)
      <4>1. pc' \notin TurnPCs \ {"call"}
        BY <1>5, <3>3 DEF Step, Opens, Loops, Starts, PrePasses, Suspends, Aborts, Retries,
           Begins, Executes, Stops, Ends, Closes, Dies, OpenPCs, TurnPCs
      <4> QED  BY <4>1
    <3> QED  BY <3>1, <3>2, <3>3
  <2>8. (wal' # <<>> => ~SuspendReached(Role[wal[Len(wal)].node])) =>
          (wal' # <<>> => ~SuspendReached(Role[wal[Len(wal)].node])')
    BY <2>1, <2>2 DEF SuspendReached
  <2>9. SuspendReached(Role[node])' <=> SuspendReached(Role[node'])
    BY <2>1 DEF SuspendReached
  <2> QED  BY <2>1, <2>3, <2>4, <2>5, <2>6, <2>7, <2>8, <2>9 DEF Limited, OpenPCs, TurnPCs
<1> QED  BY <1>2, <1>3, <1>4, <1>5

-----------------------------------------------------------------------------
(* The response files and the replay. *)

(* A checkpoint row more. *)
LEMMA RowAdded ==
  ASSUME IInv, Commits
  PROVE  /\ Len(wal) \in Nat /\ Len(wal') = Len(wal) + 1 /\ wal' # <<>>
         /\ \A k \in 1..Len(wal) : wal'[k] = wal[k] /\ k \in 1..Len(wal') /\ k # Len(wal')
         /\ wal'[Len(wal')].node = node /\ wal'[Len(wal')].from = loc.from
         /\ wal'[Len(wal')].taint = loc.turn.taint
<1> DEFINE r == [node |-> node, from |-> loc.from, taint |-> loc.turn.taint]
<1>1. r.node = node /\ r.from = loc.from /\ r.taint = loc.turn.taint
  OBVIOUS
<1>2. wal \in Seq(CheckpointRow) /\ wal' = Append(wal, r)
  BY DEF IInv, Quiet, DiskOK, Commits
<1> HIDE DEF r
<1>3. /\ Len(wal) \in Nat /\ Len(wal') = Len(wal) + 1 /\ wal'[Len(wal) + 1] = r
      /\ \A k \in 1..Len(wal) : wal'[k] = wal[k]
  BY <1>2
<1> QED  BY <1>1, <1>3

(* A step that is neither the row's nor the file's keeps the window. *)
LEMMA SamePoint ==
  ASSUME Step, ~Commits, ~Responds
  PROVE  /\ pc' = "respond" => pc = "respond" /\ loc' = loc /\ node' = node
         /\ pc' = "settle" => pc = "settle" /\ node' = node
         /\ pc' \notin {"respond", "dead"} => pc \notin {"respond", "dead"}
<1>1. /\ pc' = "respond" => pc = "respond" /\ loc' = loc /\ node' = node
      /\ pc' = "settle" => pc = "settle" /\ node' = node
  BY DEF Step, Opens, Loops, Starts, PrePasses, Suspends, Aborts, Retries, Begins, Executes,
     Calls, Meters, WarnsOnce, PostPasses, Exhausts, Requests, Hands, Settles, Stops, Ends,
     Closes, Signals, Dies, Idles, OpenPCs, Stay
<1>2. pc' \notin {"respond", "dead"} => pc \notin {"respond", "dead"}
  BY DEF Step, Opens, Loops, Starts, PrePasses, Suspends, Aborts, Retries, Begins, Executes,
     Calls, Meters, WarnsOnce, PostPasses, Exhausts, Requests, Hands, Settles, Stops, Ends,
     Closes, Signals, Dies, Idles, OpenPCs, Fallible
<1> QED  BY <1>1, <1>2

(* A row and its file follow each other, with no other row between. *)
LEMMA AnsweredStep == ASSUME IInv, IInv', Step, Answered PROVE Answered'
<1>1. CASE Commits
  <2>1. pc = "route" /\ pc' = "respond" /\ loc' = loc /\ node' = node /\ responses' = responses
    BY <1>1 DEF Commits, Stay
  <2>2. DOMAIN responses' = 1..(Len(wal') - 1)
    BY <1>1, <2>1, RowAdded DEF Answered
  <2> QED  BY <1>1, <2>1, <2>2, RowAdded DEF Answered, ResponseWindow
<1>2. CASE Responds
  <2>1. /\ pc = "respond" /\ pc' = "settle" /\ node' = node /\ wal' = wal
        /\ responses' = WithResponse(Len(wal))
    BY <1>2 DEF Responds, Stay
  <2>2. Len(wal) \in Nat /\ Len(wal) # 0
    BY <2>1 DEF Answered, IInv, Quiet, DiskOK
  <2>3. DOMAIN responses' = 1..Len(wal)
    <3>1. DOMAIN responses' = 1..(Len(wal) - 1) \cup {Len(wal)}
      BY <2>1 DEF WithResponse, Answered
    <3> QED  BY <2>2, <3>1
  <2> QED  BY <2>1, <2>3 DEF Answered, ResponseWindow
<1>3. CASE ~Commits /\ ~Responds
  <2>1. wal' = wal /\ responses' = responses
    BY <1>3, DiskFrames
  <2> QED  BY <1>3, <2>1, SamePoint DEF Answered, ResponseWindow
<1> QED  BY <1>1, <1>2, <1>3

(* The replay window is decided by the next seq alone, which no step of a  *)
(* boundary changes before its row.                                        *)
LEMMA ReplayedStep == ASSUME IInv, IInv', Step, Answered, Replayed PROVE Replayed'
<1>0. Len(wal) \in Nat /\ wal \in Seq(CheckpointRow)
  BY DEF IInv, Quiet, DiskOK
<1>1. CASE Commits
  <2>1. pc = "route" /\ pc' = "respond" /\ loc' = loc /\ responses' = responses
    BY <1>1 DEF Commits
  <2>2. InReplay(Len(wal')) => loc'.turn = OriginTurns[Len(wal')]
    BY <1>1, <2>1, RowAdded DEF Replayed, TurnPCs
  <2>3. \A k \in 1..Len(wal') : k = Len(wal') \/ k \in 1..Len(wal)
    BY <1>1, RowAdded
  <2>4. \A k \in 1..Len(wal') : InReplay(k) => wal'[k].taint = OriginTurns[k].taint
    BY <1>1, <2>1, <2>2, <2>3, RowAdded DEF Replayed
  <2> QED  BY <2>1, <2>2, <2>4 DEF Replayed, TurnPCs, InReplay
<1>2. CASE Responds
  <2>1. /\ pc = "respond" /\ pc' = "settle" /\ wal' = wal
        /\ responses' = WithResponse(Len(wal))
    BY <1>2 DEF Responds
  <2>2. \A k \in DOMAIN responses' : InReplay(k) => responses'[k] = OriginTurns[k]
    <3> SUFFICES ASSUME NEW k \in DOMAIN responses', InReplay(k)
                 PROVE  responses'[k] = OriginTurns[k]
      OBVIOUS
    <3>1. /\ k \in DOMAIN responses \cup {Len(wal)}
          /\ responses'[k] = IF k = Len(wal) THEN loc.turn ELSE responses[k]
      BY <2>1 DEF WithResponse
    <3> QED  BY <2>1, <3>1 DEF Replayed
  <2> QED  BY <2>1, <2>2 DEF Replayed, TurnPCs, InReplay
<1>3. CASE Executes
  <2>1. pc' = "call" /\ wal' = wal /\ responses' = responses
    BY <1>3, DiskFrames DEF Executes, Commits, Responds
  <2>2. InReplay(Len(wal) + 1) => loc'.turn = OriginTurns[Len(wal) + 1]
    BY <1>3 DEF Executes
  <2> QED  BY <2>1, <2>2 DEF Replayed, TurnPCs, InReplay
<1>4. CASE ~Commits /\ ~Responds /\ ~Executes
  <2>1. wal' = wal /\ responses' = responses
    BY <1>4, DiskFrames
  <2>2. pc' \in TurnPCs => pc \in TurnPCs /\ loc'.turn = loc.turn
    BY <1>4 DEF Step, Opens, Loops, Starts, PrePasses, Suspends, Aborts, Retries, Begins,
     Calls, Meters, WarnsOnce, PostPasses, Exhausts, Requests, Hands, Settles, Stops, Ends,
     Closes, Signals, Dies, Idles, OpenPCs, TurnPCs, SameTurn
  <2>3. pc' = "respond" => pc = "respond" /\ loc' = loc
    BY <1>4, SamePoint
  <2> QED  BY <2>1, <2>2, <2>3 DEF Replayed, InReplay, TurnPCs
<1> QED  BY <1>1, <1>2, <1>3, <1>4

-----------------------------------------------------------------------------
(* The plan's order and the rows. *)

(* The order of the plan: predecessors stand before, nobody before itself. *)
LEMMA PlanOrder ==
  ASSUME NEW n \in Nodes
  PROVE  Preds(n) \subseteq Before(n) /\ n \notin Before(n) /\ Before(n) \subseteq Nodes
<1>1. PICK w \in 1..Len(Waves) : \E j \in 1..Len(Waves[w]) : Waves[w][j] = n
  BY EveryNodePlaced
<1>2. PICK j \in 1..Len(Waves[w]) : Waves[w][j] = n
  BY <1>1
<1>3. ASSUME NEW m \in Preds(n) PROVE m \in Before(n)
  <2>1. m \in Nodes /\ <<m, n>> \in PlanEdges
    BY DEF Preds, PlanEdges
  <2>2. PICK v \in 1..Len(Waves) : \E i \in 1..Len(Waves[v]) : Waves[v][i] = m
    BY <2>1, EveryNodePlaced
  <2>3. PICK i \in 1..Len(Waves[v]) : Waves[v][i] = m
    BY <2>2
  <2>4. v < w
    BY <1>2, <2>1, <2>3, OnePlace
  <2> QED  BY <1>2, <2>1, <2>3, <2>4 DEF Before
<1>4. ASSUME n \in Before(n) PROVE FALSE
  <2>1. PICK a \in 1..Len(Waves), b \in 1..Len(Waves) :
          \E i \in 1..Len(Waves[a]), k \in 1..Len(Waves[b]) :
            Waves[a][i] = n /\ Waves[b][k] = n /\ (a < b \/ (a = b /\ i < k))
    BY <1>4 DEF Before
  <2>2. PICK i \in 1..Len(Waves[a]), k \in 1..Len(Waves[b]) :
          Waves[a][i] = n /\ Waves[b][k] = n /\ (a < b \/ (a = b /\ i < k))
    BY <2>1
  <2>3. a = b /\ i = k
    BY <2>2, OnePlace
  <2> QED  BY <2>2, <2>3, WavesFacts
<1> QED  BY <1>3, <1>4 DEF Before

(* Before its commit, exactly the nodes before the boundary's are          *)
(* committed.                                                              *)
LEMMA BoundaryRows ==
  ASSUME IInv, pc \in Fresh
  PROVE  node \in Nodes /\ node \notin Committed /\ Committed = Before(node)
<1>1. AtNode /\ InWave /\ node \in Nodes
  BY FreshNode
<1>2. /\ cursor \in 1..Len(Waves) /\ wavePos \in Nat
      /\ wavePos + 1 \in 1..Len(Waves[cursor]) /\ node = Waves[cursor][wavePos + 1]
  BY <1>1, WavesFacts DEF AtNode, InWave, node, IInv, Quiet, EngineOK
<1> QED  BY <1>1, <1>2, PlacedBefore DEF IInv, Quiet, Rows

(* No node has two rows. *)
LEMMA RowsDistinct ==
  ASSUME IInv
  PROVE  /\ Len(wal) \in Nat /\ \A k \in 1..Len(wal) : wal[k].node \in Nodes
         /\ \A j, k \in 1..Len(wal) : j < k => wal[j].node # wal[k].node
         /\ \A j, k \in 1..Len(wal) : wal[j].node = wal[k].node => j = k
<1>1. wal \in Seq(CheckpointRow) /\ Len(wal) \in Nat
  BY DEF IInv, Quiet, DiskOK
<1>2. \A k \in 1..Len(wal) : wal[k].node \in Nodes
  <2>1. \A k \in 1..Len(wal) : wal[k] \in CheckpointRow
    BY <1>1
  <2> QED  BY <2>1 DEF CheckpointRow
<1>3. ASSUME NEW j \in 1..Len(wal), NEW k \in 1..Len(wal), j < k
      PROVE  wal[j].node # wal[k].node
  <2>1. j \in 1..(k - 1)
    BY <1>1, <1>3
  <2>2. wal[j].node \in CommittedBefore(k)
    BY <2>1 DEF CommittedBefore
  <2>3. CommittedBefore(k) = Before(wal[k].node)
    BY DEF IInv, Quiet, Rows, CommitOrder
  <2> QED  BY <1>2, <2>2, <2>3, PlanOrder
<1>4. \A j, k \in 1..Len(wal) : wal[j].node = wal[k].node => j = k
  <2> SUFFICES ASSUME NEW j \in 1..Len(wal), NEW k \in 1..Len(wal), wal[j].node = wal[k].node
               PROVE  j = k
    OBVIOUS
  <2>1. j < k \/ k < j \/ j = k
    BY <1>1
  <2> QED  BY <1>3, <2>1
<1> QED  BY <1>1, <1>2, <1>3, <1>4

-----------------------------------------------------------------------------
(* Taint. *)

(* A row of the replay window has a tainted predecessor only in an origin  *)
(* whose row was tainted too.                                              *)
LEMMA OriginFlows ==
  ASSUME IInv, Replayed, NEW m, m = Len(wal) + 1, InReplay(m), pc \in Fresh,
         NEW j \in 1..Len(wal), wal[j].node \in Preds(node), wal[j].taint
  PROVE  OriginTurns[m].taint
<1>0. Len(wal) \in Nat /\ m \in Nat /\ m \in DOMAIN OriginTurns /\ m <= ForkAt /\ ForkAt \in Nat
  BY RowsDistinct, InstanceAssumption DEF InReplay
<1> DEFINE rows == [k \in 1..m |-> IF k = m THEN node ELSE wal[k].node]
<1>1. node \in Nodes /\ Committed = Before(node)
  BY BoundaryRows
<1>2. \A k \in 1..m : k # m => k \in 1..Len(wal)
  BY <1>0
<1>3. rows \in [1..m -> Nodes]
  BY <1>1, <1>2, RowsDistinct
<1>4. ASSUME NEW k \in 1..m PROVE {rows[i] : i \in 1..(k - 1)} = Before(rows[k])
  <2>1. \A i \in 1..(k - 1) : i \in 1..m /\ i # m /\ i \in 1..Len(wal) /\ rows[i] = wal[i].node
    BY <1>0
  <2>2. CASE k = m
    <3>1. rows[k] = node /\ k - 1 = Len(wal)
      BY <1>0, <2>2
    <3>2. {rows[i] : i \in 1..(k - 1)} = Committed
      BY <2>1, <3>1 DEF Committed
    <3> QED  BY <1>1, <3>1, <3>2
  <2>3. CASE k # m
    <3>1. k \in 1..Len(wal) /\ rows[k] = wal[k].node
      BY <1>2, <2>3
    <3>2. {rows[i] : i \in 1..(k - 1)} = CommittedBefore(k)
      BY <2>1 DEF CommittedBefore
    <3>3. CommittedBefore(k) = Before(wal[k].node)
      BY <3>1 DEF IInv, Quiet, Rows, CommitOrder
    <3> QED  BY <3>1, <3>2, <3>3
  <2> QED  BY <2>2, <2>3
<1>5. j \in 1..m /\ m \in 1..m /\ rows[j] = wal[j].node /\ rows[m] = node
  BY <1>0
<1> HIDE DEF rows
<1>6. \A a, b \in 1..m : rows[a] \in Preds(rows[b]) /\ OriginTurns[a].taint => OriginTurns[b].taint
  BY <1>0, <1>3, <1>4, OriginAssumption
<1>7. InReplay(j)
  BY <1>0, <1>5, OriginAssumption DEF InReplay
<1>8. OriginTurns[j].taint
  BY <1>7 DEF Replayed
<1> QED  BY <1>5, <1>6, <1>8

(* A row's taint comes from its turn, that from the boundary's input, that *)
(* from the outputs of the predecessors, that from their rows; in the      *)
(* replay window OriginFlows takes the place of the middle steps.          *)
LEMMA TaintedStep == ASSUME IInv, IInv', Step, Answered, Replayed, Tainted PROVE Tainted'
<1>0. Len(wal) \in Nat /\ outputs \in [Nodes -> {"none", "clean", "tainted"}]
  BY DEF IInv, Quiet, DiskOK, MemOK
<1>1. CASE Commits
  <2>1. pc = "route" /\ pc' = "respond" /\ outputs' = outputs /\ pc \in Fresh
    BY <1>1 DEF Commits, Fresh
  <2>2. \A k \in 1..Len(wal') : k = Len(wal') \/ (k \in 1..Len(wal) /\ wal'[k] = wal[k])
    <3>1. /\ Len(wal) \in Nat /\ Len(wal') = Len(wal) + 1
          /\ \A k \in 1..Len(wal) : wal'[k] = wal[k]
      BY <1>1, RowAdded
    <3> QED  BY <3>1
  <2>3. \A k \in 1..Len(wal') : wal'[k].taint /\ k < Len(wal') => outputs'[wal'[k].node] = "tainted"
    <3> SUFFICES ASSUME NEW k \in 1..Len(wal'), wal'[k].taint, k < Len(wal')
                 PROVE  outputs'[wal'[k].node] = "tainted"
      OBVIOUS
    <3>1. k \in 1..Len(wal) /\ wal'[k] = wal[k]
      BY <1>1, RowAdded
    <3> QED  BY <2>1, <3>1 DEF Tainted
  <2>4. TaintFlows'
    <3> SUFFICES ASSUME NEW j \in 1..Len(wal'), NEW k \in 1..Len(wal'),
                        wal'[j].node \in Preds(wal'[k].node), wal'[j].taint
                 PROVE  wal'[k].taint
      BY DEF TaintFlows, Preds
    <3>1. CASE j = k
      BY <3>1
    <3>2. CASE j \in 1..Len(wal) /\ k \in 1..Len(wal)
      BY <1>1, <3>2, RowAdded DEF Tainted, TaintFlows
    <3>3. CASE j = Len(wal') /\ k \in 1..Len(wal)
      <4>1. node \in Preds(wal[k].node) /\ wal[k].node \in Nodes
        BY <1>1, <3>3, RowAdded, RowsDistinct
      <4>2. node \in CommittedBefore(k)
        BY <3>3, <4>1, PlanOrder DEF IInv, Quiet, Rows, CommitOrder
      <4>3. \A i \in 1..(k - 1) : i \in 1..Len(wal)
        BY <1>0, <3>3
      <4>4. node \in Committed
        BY <4>2, <4>3 DEF Committed, CommittedBefore
      <4> QED  BY <2>1, <4>4, BoundaryRows
    <3>4. CASE j \in 1..Len(wal) /\ k = Len(wal')
      <4>1. wal[j].node \in Preds(node) /\ wal[j].taint /\ wal'[k].taint = loc.turn.taint
        BY <1>1, <3>4, RowAdded
      <4>2. CASE InReplay(Len(wal) + 1)
        <5>1. loc.turn = OriginTurns[Len(wal) + 1]
          BY <2>1, <4>2 DEF Replayed, TurnPCs
        <5>2. OriginTurns[Len(wal) + 1].taint
          BY <2>1, <3>4, <4>1, <4>2, OriginFlows
        <5> QED  BY <4>1, <5>1, <5>2
      <4>3. CASE ~InReplay(Len(wal) + 1)
        <5>1. outputs[wal[j].node] = "tainted"
          BY <2>1, <3>4, <4>1 DEF Tainted
        <5>2. loc.taint
          BY <2>1, <4>1, <5>1 DEF Tainted, InputTaint
        <5> QED  BY <2>1, <4>1, <4>3, <5>2 DEF Tainted, TurnPCs
      <4> QED  BY <4>2, <4>3
    <3> QED  BY <2>2, <3>1, <3>2, <3>3, <3>4
  <2> QED  BY <2>1, <2>3, <2>4 DEF Tainted, Fresh, TurnPCs
<1>2. CASE Responds
  <2>1. /\ pc = "respond" /\ pc' = "settle" /\ wal' = wal
        /\ outputs' = [outputs EXCEPT ![node] = IF loc.turn.taint THEN "tainted" ELSE "clean"]
    BY <1>2 DEF Responds
  <2>2. wal # <<>> /\ wal[Len(wal)].node = node /\ wal[Len(wal)].taint = loc.turn.taint
    BY <2>1 DEF Answered
  <2>3. \A k \in 1..Len(wal) : wal[k].taint => outputs'[wal[k].node] = "tainted"
    <3> SUFFICES ASSUME NEW k \in 1..Len(wal), wal[k].taint
                 PROVE  outputs'[wal[k].node] = "tainted"
      OBVIOUS
    <3>1. Len(wal) \in 1..Len(wal) /\ wal[k].node \in Nodes
      BY <1>0, RowsDistinct
    <3>2. CASE k = Len(wal)
      BY <1>0, <2>1, <2>2, <3>1, <3>2
    <3>3. CASE k # Len(wal)
      <4>1. k < Len(wal)
        BY <1>0, <3>3
      <4>2. wal[k].node # node
        BY <2>2, <3>1, <4>1, RowsDistinct
      <4>3. outputs[wal[k].node] = "tainted"
        BY <2>1, <4>1 DEF Tainted
      <4> QED  BY <1>0, <2>1, <3>1, <4>2, <4>3
    <3> QED  BY <3>2, <3>3
  <2>4. TaintFlows'
    BY <2>1 DEF Tainted, TaintFlows, Preds
  <2> QED  BY <2>1, <2>3, <2>4 DEF Tainted, Fresh, TurnPCs
<1>3. CASE ~Commits /\ ~Responds
  <2>1. wal' = wal /\ outputs' = outputs
    BY <1>3, DiskFrames
  <2>2. TaintFlows'
    BY <2>1 DEF Tainted, TaintFlows, Preds
  <2>3. pc' # "dead" => pc # "dead" /\ (pc = "respond" <=> pc' = "respond")
    <3>1. pc' # "dead" => pc # "dead"
      BY <1>3 DEF Step, Opens, Loops, Starts, PrePasses, Suspends, Aborts, Retries, Begins, Executes,
         Calls, Meters, WarnsOnce, PostPasses, Exhausts, Requests, Hands, Settles, Stops, Ends,
         Closes, Signals, Dies, Idles, OpenPCs, Fallible
    <3> QED  BY <1>3, <3>1, SamePoint
  <2>4. pc' \in Fresh \ {"start"} => (InputTaint(node)' => loc'.taint)
    <3>1. CASE Starts
      <4>1. node' = node /\ loc'.taint = InputTaint(node)
        BY <3>1 DEF Starts, Stay, node
      <4> QED  BY <2>1, <4>1 DEF InputTaint
    <3>2. CASE ~Starts
      <4>1. pc' \in Fresh \ {"start"} =>
              pc \in Fresh \ {"start"} /\ loc'.taint = loc.taint /\ UNCHANGED <<wave, idx>>
        BY <1>3, <3>2 DEF Step, Opens, Loops, PrePasses, Suspends, Aborts, Retries, Begins,
           Executes, Calls, Meters, WarnsOnce, PostPasses, Exhausts, Requests, Hands, Settles,
           Stops, Ends, Closes, Signals, Dies, Idles, OpenPCs, Fresh, SameTurn, Stay
      <4>2. pc' \in Fresh \ {"start"} => node' = node
        BY <4>1 DEF node
      <4> QED  BY <2>1, <4>1, <4>2 DEF Tainted, InputTaint
    <3> QED  BY <3>1, <3>2
  <2>5. pc' \in TurnPCs /\ ~InReplay(Len(wal) + 1) => (loc'.taint => loc'.turn.taint)
    <3>1. CASE Executes
      BY <3>1 DEF Executes
    <3>2. CASE ~Executes
      <4>1. pc' \in TurnPCs => pc \in TurnPCs /\ loc'.taint = loc.taint /\ loc'.turn = loc.turn
        BY <1>3, <3>2 DEF Step, Opens, Loops, Starts, PrePasses, Suspends, Aborts, Retries, Begins,
           Calls, Meters, WarnsOnce, PostPasses, Exhausts, Requests, Hands, Settles,
           Stops, Ends, Closes, Signals, Dies, Idles, OpenPCs, TurnPCs, SameTurn
      <4> QED  BY <4>1 DEF Tainted
    <3> QED  BY <3>1, <3>2
  <2>6. pc' # "dead" =>
          \A k \in 1..Len(wal') : wal'[k].taint /\ (pc' = "respond" => k < Len(wal'))
                                    => outputs'[wal'[k].node] = "tainted"
    BY <2>1, <2>3 DEF Tainted
  <2> QED  BY <2>1, <2>2, <2>4, <2>5, <2>6 DEF Tainted, InReplay, Fresh, TurnPCs
<1> QED  BY <1>1, <1>2, <1>3

-----------------------------------------------------------------------------
(* The nodes ahead. *)

(* A node the engine has passed is committed. *)
LEMMA PassedCommitted == ASSUME IInv, Passed PROVE node \in Committed
<1>1. /\ wave \in 1..Len(Waves) /\ idx \in 1..Len(Waves[wave]) /\ node = Waves[wave][idx]
      /\ cursor \in Nat /\ wavePos \in Nat
  BY DEF Passed, InWave, node, IInv, Quiet, EngineOK
<1>2. wave < cursor \/ (wave = cursor /\ idx <= wavePos)
  BY <1>1 DEF Passed
<1>3. node \in Placed(cursor, wavePos)
  BY <1>1, <1>2, PlacedAt
<1> QED  BY <1>3 DEF IInv, Quiet, Rows

(* The wave loop's node is not committed while the engine expects it. *)
LEMMA AtNodeRows ==
  ASSUME IInv, AtNode
  PROVE  node \in Nodes /\ node \notin Committed /\ Committed = Before(node)
<1>1. AtNode /\ InWave /\ node \in Nodes
  BY AtNodeInWave, NodeType DEF IInv, Quiet
<1>2. /\ cursor \in 1..Len(Waves) /\ wavePos \in Nat
      /\ wavePos + 1 \in 1..Len(Waves[cursor]) /\ node = Waves[cursor][wavePos + 1]
  BY <1>1, WavesFacts DEF AtNode, InWave, node, IInv, Quiet, EngineOK
<1> QED  BY <1>1, <1>2, PlacedBefore DEF IInv, Quiet, Rows

(* Rows are only added, and only the boundary's. *)
LEMMA CommittedGrows ==
  ASSUME IInv, Step
  PROVE  Committed' = Committed \/ (Commits /\ Committed' = Committed \cup {node})
<1>1. CASE Commits
  <2>1. \A k \in 1..Len(wal') : k \in 1..Len(wal) \/ k = Len(wal')
    BY <1>1, RowAdded
  <2>2. Len(wal') \in 1..Len(wal')
    BY <1>1, RowAdded
  <2>3. Committed' = Committed \cup {node}
    BY <1>1, <2>1, <2>2, RowAdded DEF Committed
  <2> QED  BY <1>1, <2>3
<1>2. CASE ~Commits
  BY <1>2, DiskFrames DEF Committed
<1> QED  BY <1>1, <1>2

(* How a run that goes on has moved between boundaries. *)
LEMMA GoingStep ==
  ASSUME IInv, IInv', Step, Going'
  PROVE  /\ Going /\ ~Aborts
         /\ pc \in Boundary => node' = node /\ (pc' \in Boundary \/ (Settles /\ pc' = "stop"))
         /\ pc' \in Boundary => pc \in Boundary \/ Starts
         /\ pc \in Boundary /\ pc' \notin Boundary => node \in Committed
         /\ Stops => node \in Committed
<1>1. /\ Going /\ ~Aborts
      /\ pc \in Boundary => UNCHANGED <<wave, idx>> /\ (pc' \in Boundary \/ (Settles /\ pc' = "stop"))
      /\ pc' \in Boundary => pc \in Boundary \/ Starts
  BY DEF Step, Opens, Loops, Starts, PrePasses, Suspends, Aborts, Retries, Begins, Executes,
     Calls, Meters, WarnsOnce, PostPasses, Exhausts, Requests, Hands, Commits, Responds, Settles,
     Stops, Ends, Closes, Signals, Dies, Idles, OpenPCs, Fallible, Going, Boundary, Fresh, NoEnd, Stay
<1>2. pc \in Boundary /\ pc' \notin Boundary => pc = "settle"
  BY <1>1 DEF Settles
<1>3. pc = "settle" => node \in Committed
  BY PassedCommitted DEF IInv, Position
<1>4. Stops => pc = "stop" /\ end = NoEnd
  BY <1>1 DEF Stops, Going, Boundary, Fresh, OpenPCs
<1>5. Stops => node \in Committed
  BY <1>4, PassedCommitted DEF IInv, Position
<1> QED  BY <1>1, <1>2, <1>3, <1>5 DEF node

(* A node that is ahead stays untouched until its boundary starts. *)
LEMMA UntouchedStep == ASSUME IInv, IInv', Step, Untouched PROVE Untouched'
<1> SUFFICES ASSUME Going', NEW n \in Nodes, n \notin Committed', pc' \in Boundary => n # node'
             PROVE  /\ attempts'[n] = 0 /\ retries'[n] = 0
                    /\ \A i \in 1..Len(log') : log'[i].node # n
  BY DEF Untouched, Ahead
<1>1. LogOK /\ LogOK' /\ n # "session"
  BY InstanceAssumption DEF IInv
<1>2. n \notin Committed
  BY CommittedGrows
<1>3. pc \in Boundary => n # node
  BY <1>2, GoingStep
<1>4. /\ attempts[n] = 0 /\ retries[n] = 0
      /\ \A i \in 1..Len(log) : log[i].node # n
  BY <1>2, <1>3, GoingStep DEF Untouched, Ahead
<1>5. attempts'[n] = 0
  <2>1. CASE Retries
    <3>1. pc \in Boundary /\ attempts' = [attempts EXCEPT ![node] = @ + 1]
      BY <2>1 DEF Retries, Boundary, Fresh
    <3> QED  BY <1>3, <1>4, <3>1 DEF IInv, Quiet, MemOK
  <2> QED  BY <1>4, <2>1, DiskFrames
<1>6. retries'[n] = 0
  <2>1. CASE Retries
    <3>1. /\ pc \in Boundary
          /\ retries' = retries \/ retries' = [retries EXCEPT ![node] = @ + 1]
      BY <2>1 DEF Retries, Boundary, Fresh
    <3> QED  BY <1>3, <1>4, <3>1 DEF IInv, Quiet, RouterTypeOK
  <2> QED  BY <1>4, <2>1, DiskFrames, GoingStep
<1>7. ASSUME NEW i \in 1..Len(log') PROVE log'[i].node # n
  <2>1. CASE log' = log
    BY <1>4, <2>1
  <2>2. CASE \E k, m, at, tok : Adds(k, m, at, tok) /\ Fits(k, m, at, tok)
    <3>1. PICK k, m, at, tok : Adds(k, m, at, tok) /\ Fits(k, m, at, tok)
      BY <2>2
    <3>2. m # n
      <4>1. CASE m = "session"
        BY <1>1, <4>1
      <4>2. CASE m = node /\ pc \in (Fresh \cup {"stop"}) \ {"attempt", "meter", "warn"}
        <5>1. pc = "start" => Starts
          <6>1. pc = "start" => Starts \/ log' = log
            BY DEF Step, Opens, Loops, Starts, PrePasses, Suspends, Aborts, Retries, Begins,
               Executes, Calls, Meters, WarnsOnce, PostPasses, Exhausts, Requests, Hands, Commits,
               Responds, Settles, Stops, Ends, Closes, Signals, Dies, Idles, OpenPCs, Fallible
          <6>2. Len(log') # Len(log)
            BY <1>1, <3>1, Grown
          <6> QED  BY <6>1, <6>2
        <5>2. pc = "stop" => Stops
          <6>1. pc = "stop" => Stops \/ log' = log
            BY DEF Step, Opens, Loops, Starts, PrePasses, Suspends, Aborts, Retries, Begins,
               Executes, Calls, Meters, WarnsOnce, PostPasses, Exhausts, Requests, Hands, Commits,
               Responds, Settles, Stops, Ends, Closes, Signals, Dies, Idles, OpenPCs, Fallible
          <6>2. Len(log') # Len(log)
            BY <1>1, <3>1, Grown
          <6> QED  BY <6>1, <6>2
        <5>3. CASE pc = "start"
          <6>1. pc' = "pre" /\ node' = node
            BY <5>1, <5>3 DEF Starts, Stay, node
          <6> QED  BY <4>2, <6>1 DEF Boundary, Fresh
        <5>4. CASE pc = "stop"
          BY <1>2, <4>2, <5>2, <5>4, GoingStep
        <5>5. CASE pc \in Fresh \ {"start"}
          BY <1>3, <4>2, <5>5 DEF Boundary
        <5> QED  BY <4>2, <5>3, <5>4, <5>5
      <4> QED  BY <3>1, <4>1, <4>2 DEF Fits
    <3>3. i \in 1..Len(log) \/ i = Len(log) + 1
      BY <1>1, <3>1, Grown
    <3> QED  BY <1>1, <1>4, <3>1, <3>2, <3>3, Grown
  <2> QED  BY <2>1, <2>2, StepEvent
<1> QED  BY <1>5, <1>6, <1>7

-----------------------------------------------------------------------------
(* The counters. *)

(* The events of a kind and a node can be counted. *)
LEMMA WhereFinite ==
  ASSUME LogOK, NEW k, NEW n
  PROVE  IsFiniteSet(Where(log, k, n)) /\ Cardinality(Where(log, k, n)) \in Nat
<1>1. Len(log) \in Int /\ 1 \in Int
  BY DEF LogOK
<1>2. IsFiniteSet(1..Len(log))
  BY <1>1, FS_Interval
<1>3. Where(log, k, n) \in SUBSET (1..Len(log))
  BY DEF Where
<1>4. IsFiniteSet(Where(log, k, n))
  BY <1>2, <1>3, FS_Subset
<1> QED  BY <1>4, FS_CardinalityType

(* A step counts a call, or leaves the calls alone. *)
LEMMA CallCount ==
  ASSUME IInv, IInv', Step, NEW n
  PROVE  /\ Cardinality(Where(log, "llm.call", n)) \in Nat
         /\ IF Calls /\ n = node
            THEN Cardinality(Where(log', "llm.call", n)) = Cardinality(Where(log, "llm.call", n)) + 1
            ELSE Where(log', "llm.call", n) = Where(log, "llm.call", n)
<1>1. LogOK /\ LogOK'
  BY DEF IInv
<1>2. /\ IsFiniteSet(Where(log, "llm.call", n)) /\ Cardinality(Where(log, "llm.call", n)) \in Nat
      /\ Len(log) \in Nat
  BY <1>1, WhereFinite DEF LogOK
<1>3. CASE log' = log /\ ~Calls
  BY <1>2, <1>3
<1>4. CASE \E k, m, at, tok : Adds(k, m, at, tok) /\ Fits(k, m, at, tok)
  <2>1. PICK k, m, at, tok : Adds(k, m, at, tok) /\ Fits(k, m, at, tok)
    BY <1>4
  <2>2. k = "llm.call" => m = node /\ Calls
    BY <2>1 DEF Fits
  <2>3. Calls => k = "llm.call"
    BY <2>1 DEF Fits
  <2>4. CASE k = "llm.call" /\ m = n
    <3>1. /\ Where(log', "llm.call", n) = Where(log, "llm.call", n) \cup {Len(log) + 1}
          /\ Where(log, "llm.call", n) \subseteq 1..Len(log)
      BY <1>1, <2>1, <2>4, WhereGrows
    <3>2. Len(log) + 1 \notin Where(log, "llm.call", n)
      BY <1>2, <3>1
    <3> QED  BY <1>2, <2>2, <2>4, <3>1, <3>2, FS_AddElement
  <2>5. CASE ~(k = "llm.call" /\ m = n)
    <3>1. Where(log', "llm.call", n) = Where(log, "llm.call", n)
      BY <1>1, <2>1, <2>5, WhereGrows
    <3> QED  BY <1>2, <2>2, <2>3, <2>5, <3>1
  <2> QED  BY <2>4, <2>5
<1> QED  BY <1>3, <1>4, StepEvent

(* A call needs an attempt that has none yet; a retry is counted before    *)
(* the next call, against one of the two budgets.                          *)
LEMMA CountedStep == ASSUME IInv, IInv', Step, Untouched, Counted PROVE Counted'
<1>0. BoundedRetry \in Nat /\ attempts \in [Nodes -> Nat] /\ retries \in [Nodes -> Nat]
  BY RouterAssumption DEF IInv, Quiet, MemOK, RouterTypeOK
<1>1. CASE Retries
  <2>1. /\ pc \in Fresh /\ pc' = "attempt" /\ node' = node
        /\ attempts' = [attempts EXCEPT ![node] = @ + 1]
        /\ \/ attempts[node] < BoundedRetry /\ retries' = retries
           \/ retries[node] < BoundedRetry /\ retries' = [retries EXCEPT ![node] = @ + 1]
    BY <1>1 DEF Retries, Stay, Fresh, node
  <2>2. node \in Nodes
    BY <2>1, FreshNode
  <2>3. ~Calls
    BY <1>1 DEF Retries, Calls
  <2>4. ASSUME NEW n \in Nodes
        PROVE  /\ attempts'[n] <= BoundedRetry + retries'[n] /\ attempts'[n] <= 2 * BoundedRetry
               /\ Cardinality(Where(log', "llm.call", n)) <= attempts'[n] + 1
    <3>1. /\ attempts[n] <= BoundedRetry + retries[n] /\ attempts[n] <= 2 * BoundedRetry
          /\ Cardinality(Where(log, "llm.call", n)) <= attempts[n] + 1
          /\ Cardinality(Where(log, "llm.call", n)) \in Nat
          /\ Where(log', "llm.call", n) = Where(log, "llm.call", n)
      BY <2>3, CallCount DEF Counted
    <3>2. CASE n = node
      <4>1. attempts'[n] = attempts[n] + 1
        BY <1>0, <2>1, <3>2
      <4>2. \/ attempts[n] < BoundedRetry /\ retries'[n] = retries[n]
            \/ retries[n] < BoundedRetry /\ retries'[n] = retries[n] + 1
        BY <1>0, <2>1, <3>2
      <4>3. attempts[n] \in Nat /\ retries[n] \in Nat
        BY <1>0
      <4> QED  BY <1>0, <3>1, <4>1, <4>2, <4>3
    <3>3. CASE n # node
      <4>1. attempts'[n] = attempts[n] /\ retries'[n] = retries[n]
        BY <1>0, <2>1, <3>3
      <4> QED  BY <3>1, <4>1
    <3> QED  BY <3>2, <3>3
  <2>5. Cardinality(Where(log', "llm.call", node)) <= attempts'[node]
    <3>1. /\ Cardinality(Where(log, "llm.call", node)) <= attempts[node] + 1
          /\ Where(log', "llm.call", node) = Where(log, "llm.call", node)
      BY <2>2, <2>3, CallCount DEF Counted
    <3>2. attempts'[node] = attempts[node] + 1
      BY <1>0, <2>1, <2>2
    <3> QED  BY <3>1, <3>2
  <2> QED  BY <2>1, <2>4, <2>5 DEF Counted
<1>2. CASE ~Retries
  <2>1. attempts' = attempts
    BY <1>2, DiskFrames
  <2>2. \A n \in Nodes : retries[n] <= retries'[n]
    <3>1. retries' = retries \/ retries' = [retries EXCEPT ![node] = @ + 1]
      BY <1>2, DiskFrames DEF Aborts
    <3> QED  BY <1>0, <3>1
  <2>3. Calls => pc = "call" /\ pc' = "meter"
    BY DEF Calls
  <2>4. ASSUME NEW n \in Nodes
        PROVE  /\ attempts'[n] <= BoundedRetry + retries'[n] /\ attempts'[n] <= 2 * BoundedRetry
               /\ Cardinality(Where(log', "llm.call", n)) <= attempts'[n] + 1
    <3>1. /\ attempts[n] <= BoundedRetry + retries[n] /\ attempts[n] <= 2 * BoundedRetry
          /\ Cardinality(Where(log, "llm.call", n)) <= attempts[n] + 1
          /\ Calls /\ n = node => Cardinality(Where(log, "llm.call", n)) <= attempts[n]
      BY <2>3 DEF Counted
    <3>2. attempts[n] \in Nat /\ retries[n] \in Nat /\ retries'[n] \in Nat
      <4>1. retries' \in [Nodes -> Nat]
        BY DEF IInv, Quiet, RouterTypeOK
      <4> QED  BY <1>0, <4>1
    <3>3. Cardinality(Where(log', "llm.call", n)) <= attempts[n] + 1
      BY <3>1, <3>2, CallCount
    <3>4. retries[n] <= retries'[n]
      BY <2>2
    <3> QED  BY <1>0, <2>1, <3>1, <3>2, <3>3, <3>4
  <2>5. pc' \in {"start", "pre", "attempt", "exec", "call"} =>
          Cardinality(Where(log', "llm.call", node')) <= attempts'[node']
    <3> SUFFICES ASSUME pc' \in {"start", "pre", "attempt", "exec", "call"}
                 PROVE  Cardinality(Where(log', "llm.call", node')) <= attempts'[node']
      OBVIOUS
    <3>1. /\ UNCHANGED <<wave, idx>>
          /\ pc \in {"start", "pre", "attempt", "exec", "call"} \/ (pc \in {"wave", "node"} /\ pc' = "start")
      <4>1. ~Stops /\ ~Aborts /\ ~Opens
        BY DEF Stops, Aborts, Opens, OpenPCs
      <4>2. Loops => pc \in {"wave", "node"} /\ pc' = "start" /\ UNCHANGED <<wave, idx>>
        BY DEF Loops, Stay
      <4> QED
        BY <1>2, <4>1, <4>2 DEF Step, Starts, PrePasses, Suspends, Begins, Executes,
           Calls, Meters, WarnsOnce, PostPasses, Exhausts, Requests, Hands, Commits, Responds,
           Settles, Ends, Closes, Signals, Dies, Idles, Stay
    <3>2. node' = node /\ ~Calls
      BY <2>3, <3>1 DEF node
    <3>3. Where(log', "llm.call", node) = Where(log, "llm.call", node)
      BY <3>2, CallCount
    <3>4. CASE pc \in {"start", "pre", "attempt", "exec", "call"}
      BY <2>1, <3>2, <3>3, <3>4 DEF Counted
    <3>5. CASE pc \in {"wave", "node"} /\ pc' = "start"
      <4>1. AtNode' /\ UNCHANGED <<wave, idx, cursor, wavePos>>
        BY <3>1, <3>5, DiskFrames DEF IInv, Position, Fresh, Commits
      <4>2. AtNode
        BY <4>1 DEF AtNode
      <4>3. node \in Nodes /\ node \notin Committed
        BY <4>2, AtNodeRows
      <4>4. attempts[node] = 0 /\ \A i \in 1..Len(log) : log[i].node # node
        BY <3>5, <4>3 DEF Untouched, Ahead, Going, Boundary, Fresh
      <4>5. Where(log, "llm.call", node) = {}
        BY <4>4 DEF Where
      <4>6. Cardinality(Where(log', "llm.call", node)) = 0
        BY <3>3, <4>5, FS_EmptySet
      <4> QED  BY <2>1, <3>2, <4>4, <4>6
    <3> QED  BY <3>1, <3>4, <3>5
  <2> QED  BY <2>4, <2>5 DEF Counted
<1> QED  BY <1>1, <1>2

-----------------------------------------------------------------------------
(* The concerns, and COMPLETED. *)

(* A plan is finite. *)
LEMMA FiniteNodes == IsFiniteSet(Nodes)
<1> DEFINE F == [w \in 1..Len(Waves) |-> Members(Waves[w])]
<1> DEFINE R == {Members(Waves[w]) : w \in 1..Len(Waves)}
<1>1. IsFiniteSet(1..Len(Waves))
  BY WavesFacts, FS_Interval
<1>2. F \in Surjection(1..Len(Waves), R)
  BY DEF Surjection
<1>3. IsFiniteSet(R)
  BY <1>1, <1>2, FS_Surjection
<1>4. ASSUME NEW T \in R PROVE IsFiniteSet(T)
  <2>1. PICK w \in 1..Len(Waves) : T = Members(Waves[w])
    BY <1>4
  <2> DEFINE g == [i \in 1..Len(Waves[w]) |-> Waves[w][i]]
  <2>2. Len(Waves[w]) \in Int /\ 1 \in Int
    BY WavesFacts
  <2>3. IsFiniteSet(1..Len(Waves[w]))
    BY <2>2, FS_Interval
  <2>4. g \in Surjection(1..Len(Waves[w]), T)
    BY <2>1 DEF Surjection, Members
  <2> QED  BY <2>3, <2>4, FS_Surjection
<1>5. IsFiniteSet(UNION R)
  BY <1>3, <1>4, FS_UNION
<1>6. Nodes \subseteq UNION R
  <2> SUFFICES ASSUME NEW n \in Nodes PROVE n \in UNION R
    OBVIOUS
  <2>1. PICK w \in 1..Len(Waves) : n \in Members(Waves[w])
    BY WavesAssumption DEF SoundWaves
  <2> QED  BY <2>1
<1> QED  BY <1>5, <1>6, FS_Subset

(* A concern is counted when a retried boundary settles, once. *)
LEMMA ConcernedStep == ASSUME IInv, IInv', Step, Untouched, Concerned PROVE Concerned'
<1> DEFINE S == {n \in Nodes : attempts[n] > 0 /\ (pc \in Boundary => n # node)}
<1> DEFINE T == {n \in Nodes : attempts'[n] > 0 /\ (pc' \in Boundary => n # node')}
<1>0. attempts \in [Nodes -> Nat] /\ concerns \in Nat
  BY DEF IInv, Quiet, MemOK
<1>1. pc' \in Boundary => Going'
  BY DEF Going
<1>2. Starts => node \in Nodes /\ attempts[node] = 0
  <2> SUFFICES ASSUME Starts PROVE node \in Nodes /\ attempts[node] = 0
    OBVIOUS
  <2>1. pc = "start" /\ pc \in Fresh /\ pc \notin Boundary
    BY DEF Starts, Fresh, Boundary
  <2>2. node \in Nodes /\ node \notin Committed
    BY <2>1, BoundaryRows
  <2> QED  BY <2>1, <2>2 DEF Untouched, Ahead, Going
<1>3. pc' \in Boundary => (loc'.retried <=> attempts'[node'] > 0)
  <2> SUFFICES ASSUME pc' \in Boundary PROVE loc'.retried <=> attempts'[node'] > 0
    OBVIOUS
  <2>1. CASE Starts
    <3>1. ~loc'.retried /\ node' = node /\ attempts' = attempts
      BY <2>1 DEF Starts, Stay, node, TraceOnly, memVars
    <3> QED  BY <1>2, <2>1, <3>1
  <2>2. CASE Retries
    <3>1. loc'.retried /\ node' = node /\ attempts' = [attempts EXCEPT ![node] = @ + 1] /\ pc \in Fresh
      BY <2>2 DEF Retries, Stay, node, Fresh
    <3>2. node \in Nodes
      BY <3>1, FreshNode
    <3>3. attempts'[node] = attempts[node] + 1 /\ attempts[node] \in Nat
      BY <1>0, <3>1, <3>2
    <3> QED  BY <3>1, <3>3
  <2>3. CASE ~Starts /\ ~Retries
    <3>1. attempts' = attempts /\ pc \in Boundary /\ node' = node
      BY <1>1, <2>3, DiskFrames, GoingStep
    <3>2. loc'.retried = loc.retried
      BY <2>3, <3>1 DEF Step, Opens, Loops, PrePasses, Suspends, Aborts, Begins, Executes,
         Calls, Meters, WarnsOnce, PostPasses, Exhausts, Requests, Hands, Commits, Responds,
         Settles, Stops, Ends, Closes, Signals, Dies, Idles, Boundary, Fresh, SameTurn
    <3> QED  BY <3>1, <3>2 DEF Concerned
  <2> QED  BY <2>1, <2>2, <2>3
<1>4. Going' => concerns' = Cardinality(T)
  <2> SUFFICES ASSUME Going' PROVE concerns' = Cardinality(T)
    OBVIOUS
  <2>1. concerns = Cardinality(S)
    BY GoingStep DEF Concerned
  <2>2. CASE Settles
    <3>1. /\ pc = "settle" /\ pc' = "stop" /\ attempts' = attempts
          /\ concerns' = IF loc.retried THEN concerns + 1 ELSE concerns
      BY <2>2 DEF Settles, Going, Boundary, Fresh, OpenPCs
    <3>2. pc \in Boundary /\ pc' \notin Boundary
      BY <3>1 DEF Boundary, Fresh
    <3>3. node \in Nodes
      BY <3>1, NodeType DEF IInv, Position, Passed
    <3>4. IF attempts[node] > 0 THEN T = S \cup {node} ELSE T = S
      BY <3>1, <3>2, <3>3
    <3>5. node \notin S /\ IsFiniteSet(S)
      BY <3>2, FiniteNodes, FS_Subset
    <3>6. loc.retried <=> attempts[node] > 0
      BY <3>2 DEF Concerned
    <3> HIDE DEF S, T
    <3>7. Cardinality(S \cup {node}) = Cardinality(S) + 1
      BY <3>5, FS_AddElement
    <3> QED  BY <2>1, <3>1, <3>4, <3>6, <3>7
  <2>3. CASE Retries
    <3>1. /\ pc \in Boundary /\ pc' \in Boundary /\ UNCHANGED <<wave, idx>>
          /\ attempts' = [attempts EXCEPT ![node] = @ + 1]
      BY <2>3 DEF Retries, Boundary, Fresh, Stay
    <3>2. node' = node
      BY <3>1 DEF node
    <3>3. concerns' = concerns
      BY <2>3 DEF Retries
    <3>4. T = S
      BY <1>0, <3>1, <3>2
    <3> HIDE DEF S, T
    <3> QED  BY <2>1, <3>3, <3>4
  <2>4. CASE Starts
    <3>1. pc \notin Boundary /\ pc' \in Boundary /\ UNCHANGED <<wave, idx, concerns, attempts>>
      BY <2>4 DEF Starts, Boundary, Fresh, Stay, TraceOnly, memVars
    <3>2. node' = node
      BY <3>1 DEF node
    <3>3. T = S
      BY <1>2, <2>4, <3>1, <3>2
    <3> HIDE DEF S, T
    <3> QED  BY <2>1, <3>1, <3>3
  <2>5. CASE ~Settles /\ ~Retries /\ ~Starts
    <3>1. concerns' = concerns /\ attempts' = attempts
      BY <2>5, DiskFrames
    <3>2. pc' \in Boundary <=> pc \in Boundary
      BY <2>5, GoingStep
    <3>3. pc \in Boundary => node' = node
      BY GoingStep
    <3>4. T = S
      BY <3>1, <3>2, <3>3
    <3> HIDE DEF S, T
    <3> QED  BY <2>1, <3>1, <3>4
  <2> QED  BY <2>2, <2>3, <2>4, <2>5
<1> QED  BY <1>3, <1>4 DEF Concerned

(* Nothing but the end of the session happens once it has completed. *)
LEMMA Over ==
  ASSUME Step, pc \in {"finish", "close", "done", "dead"}
  PROVE  /\ pc' \in {"finish", "close", "done", "dead"} /\ end' = end
         /\ UNCHANGED <<cursor, responses, wal, concerns, attempts>>
<1>1. Ends \/ Closes \/ Signals \/ Dies \/ Idles
  BY DEF Step, Opens, Loops, Starts, PrePasses, Suspends, Aborts, Retries, Begins, Executes,
     Calls, Meters, WarnsOnce, PostPasses, Exhausts, Requests, Hands, Commits, Responds,
     Settles, Stops, OpenPCs, Fallible
<1> QED
  BY <1>1 DEF Ends, Closes, Signals, Dies, Idles, Stay, TraceOnly, engineVars, memVars

(* COMPLETED is decided at the head of the loop, where every row has its   *)
(* file and every concern is counted, and nothing changes after it.        *)
LEMMA CompletedStep ==
  ASSUME IInv, IInv', Step, Answered, Concerned, Completed
  PROVE  Completed'
<1>0. LogOK /\ LogOK' /\ Len(log) \in Nat
  BY DEF IInv, LogOK
<1>1. end'.state = "COMPLETED" =>
        /\ pc' \in {"finish", "close", "done", "dead"} /\ cursor' = Len(Waves) + 1
        /\ DOMAIN responses' = 1..Len(wal')
        /\ concerns' = Cardinality({n \in Nodes : attempts'[n] > 0})
  <2> SUFFICES ASSUME end'.state = "COMPLETED"
               PROVE  /\ pc' \in {"finish", "close", "done", "dead"} /\ cursor' = Len(Waves) + 1
                      /\ DOMAIN responses' = 1..Len(wal')
                      /\ concerns' = Cardinality({n \in Nodes : attempts'[n] > 0})
    OBVIOUS
  <2>1. CASE end' = end
    <3>1. UNCHANGED <<cursor, responses, wal, concerns, attempts>>
          /\ pc' \in {"finish", "close", "done", "dead"}
      BY <2>1, Over DEF Completed
    <3> QED  BY <2>1, <3>1 DEF Completed
  <2>2. CASE end' # end
    <3>1. Loops \/ Aborts
      BY <2>2 DEF Step, Opens, Starts, PrePasses, Suspends, Retries, Begins, Executes,
         Calls, Meters, WarnsOnce, PostPasses, Exhausts, Requests, Hands, Commits, Responds,
         Settles, Stops, Ends, Closes, Signals, Dies, Idles, Stay
    <3>2. Loops /\ pc = "wave" /\ pc' = "finish" /\ cursor = Len(Waves) + 1
      BY <2>2, <3>1 DEF Loops, Aborts, Interrupted, End, Stay
    <3>3. UNCHANGED <<cursor, responses, wal, concerns, attempts>>
      BY <3>2 DEF Loops, TraceOnly, engineVars, memVars
    <3>4. pc \notin Boundary /\ Going
      BY <3>2 DEF Boundary, Fresh, Going
    <3>5. concerns = Cardinality({n \in Nodes : attempts[n] > 0})
      <4>1. {n \in Nodes : attempts[n] > 0 /\ (pc \in Boundary => n # node)}
              = {n \in Nodes : attempts[n] > 0}
        BY <3>4
      <4>2. concerns = Cardinality({n \in Nodes : attempts[n] > 0 /\ (pc \in Boundary => n # node)})
        BY <3>4 DEF Concerned
      <4> QED  BY <4>1, <4>2
    <3>6. DOMAIN responses = 1..Len(wal)
      BY <3>2 DEF Answered
    <3> QED  BY <3>2, <3>3, <3>5, <3>6
  <2> QED  BY <2>1, <2>2
<1>2. walState' = "COMPLETED" => end'.state = "COMPLETED"
  <2>1. CASE Ends
    BY <2>1 DEF Ends, Stay
  <2>2. CASE Opens
    BY <2>2 DEF Opens
  <2>3. CASE ~Ends /\ ~Opens
    <3>1. walState' = walState
      BY <2>3, RunFrames
    <3> QED  BY <3>1, Over DEF Completed
  <2> QED  BY <2>1, <2>2, <2>3
<1>3. pc' = "close" => state' = walState'
  <2>1. CASE Ends
    BY <2>1 DEF Ends
  <2>2. CASE ~Ends
    <3>1. pc' = "close" => pc = "close"
      BY <2>2 DEF Step, Opens, Loops, Starts, PrePasses, Suspends, Aborts, Retries, Begins,
         Executes, Calls, Meters, WarnsOnce, PostPasses, Exhausts, Requests, Hands, Commits,
         Responds, Settles, Stops, Closes, Signals, Dies, Idles, OpenPCs
    <3>2. pc' = "close" => ~Opens
      BY DEF Opens, OpenPCs
    <3> QED  BY <2>2, <3>1, <3>2, RunFrames DEF Completed
  <2> QED  BY <2>1, <2>2
<1> DEFINE C == Where(log, "session.close", "session")
<1> DEFINE D == Where(log', "session.close", "session")
<1>4. (Closes /\ pc = "close" /\ pc' = "done" /\ D = C \cup {Len(log) + 1} /\ log'[Len(log) + 1].at = state
         /\ Len(log') = Len(log) + 1)
      \/ (~Closes /\ D = C)
  <2>1. CASE log' = log /\ ~Closes
    BY <2>1
  <2>2. CASE \E k, n, at, tok : Adds(k, n, at, tok) /\ Fits(k, n, at, tok)
    <3>1. PICK k, n, at, tok : Adds(k, n, at, tok) /\ Fits(k, n, at, tok)
      BY <2>2
    <3>2. CASE Closes
      <4>1. pc = "close" /\ pc' = "done" /\ Adds("session.close", "session", state, 0)
        BY <3>2 DEF Closes
      <4> QED  BY <1>0, <3>2, <4>1, WhereGrows, Grown
    <3>3. CASE ~Closes
      <4>1. k # "session.close"
        BY <3>1, <3>3 DEF Fits
      <4> QED  BY <1>0, <3>1, <3>3, <4>1, WhereGrows
    <3> QED  BY <3>2, <3>3
  <2> QED  BY <2>1, <2>2, StepEvent
<1>5. pc' # "done" => D = {}
  <2>1. pc' # "done" => pc # "done"
    BY DEF Step, Opens, Loops, Starts, PrePasses, Suspends, Aborts, Retries, Begins, Executes,
       Calls, Meters, WarnsOnce, PostPasses, Exhausts, Requests, Hands, Commits, Responds,
       Settles, Stops, Ends, Closes, Signals, Dies, Idles, OpenPCs, Fallible
  <2> QED  BY <1>4, <2>1 DEF Completed
<1>6. \A i \in D : log'[i].at = walState' /\ i = Len(log')
  <2>1. CASE Closes
    <3>1. /\ pc = "close" /\ D = C \cup {Len(log) + 1} /\ log'[Len(log) + 1].at = state
          /\ Len(log') = Len(log) + 1
      BY <1>4, <2>1
    <3>2. walState' = walState
      BY <2>1 DEF Closes, TraceOnly
    <3>3. C = {} /\ state = walState
      BY <3>1 DEF Completed
    <3> QED  BY <3>1, <3>2, <3>3
  <2>2. CASE ~Closes
    <3>1. D = C
      BY <1>4, <2>2
    <3>2. CASE C = {}
      BY <3>1, <3>2
    <3>3. CASE C # {}
      <4>1. pc = "done"
        BY <3>3 DEF Completed
      <4>2. log' = log /\ walState' = walState
        BY <4>1 DEF Step, Opens, Loops, Starts, PrePasses, Suspends, Aborts, Retries, Begins, Executes,
           Calls, Meters, WarnsOnce, PostPasses, Exhausts, Requests, Hands, Commits, Responds,
           Settles, Stops, Ends, Closes, Signals, Dies, Idles, OpenPCs, Fallible, TraceOnly
      <4> QED  BY <3>1, <4>2 DEF Completed
    <3> QED  BY <3>2, <3>3
  <2> QED  BY <2>1, <2>2
<1> HIDE DEF C, D
<1> QED  BY <1>1, <1>2, <1>3, <1>5, <1>6 DEF Completed, D

(* What the parts say of a completed session. *)
LEMMA CompletedAll == ASSUME IInv, Completed PROVE CompletedMeansAll
<1>1. ASSUME walState = "COMPLETED"
      PROVE  /\ Committed = Nodes /\ DOMAIN responses = 1..Cardinality(Nodes)
             /\ concerns = Cardinality({n \in Nodes : attempts[n] > 0})
  <2>1. /\ cursor = Len(Waves) + 1 /\ wavePos = 0 /\ DOMAIN responses = 1..Len(wal)
        /\ concerns = Cardinality({n \in Nodes : attempts[n] > 0})
    BY <1>1 DEF Completed, IInv, Quiet, EngineOK
  <2>2. Committed = Nodes
    <3>1. ASSUME NEW n \in Nodes PROVE n \in Placed(cursor, wavePos)
      <4>1. PICK v \in 1..Len(Waves) : \E i \in 1..Len(Waves[v]) : Waves[v][i] = n
        BY EveryNodePlaced
      <4>2. v < cursor
        BY <2>1, WavesFacts
      <4> QED  BY <4>1, <4>2 DEF Placed
    <3> QED  BY <3>1 DEF IInv, Quiet, Rows, Placed
  <2>3. Cardinality(Nodes) = Len(wal)
    <3> DEFINE f == [k \in 1..Len(wal) |-> wal[k].node]
    <3>1. \A k \in 1..Len(wal) : wal[k].node \in Nodes
      BY RowsDistinct
    <3>2. \A j, k \in 1..Len(wal) : wal[j].node = wal[k].node => j = k
      BY RowsDistinct
    <3>3. \A n \in Nodes : \E k \in 1..Len(wal) : wal[k].node = n
      BY <2>2 DEF Committed
    <3>4. f \in [1..Len(wal) -> Nodes]
      BY <3>1
    <3>5. f \in Bijection(1..Len(wal), Nodes)
      <4>1. f \in Injection(1..Len(wal), Nodes)
        BY <3>2, <3>4 DEF Injection, IsInjective
      <4>2. f \in Surjection(1..Len(wal), Nodes)
        BY <3>3, <3>4 DEF Surjection
      <4> QED  BY <4>1, <4>2 DEF Bijection
    <3>6. Len(wal) \in Nat
      BY RowsDistinct
    <3>7. IsFiniteSet(1..Len(wal)) /\ Cardinality(1..Len(wal)) = Len(wal)
      BY SMTT(30), <3>6, FS_Interval
    <3> HIDE DEF f
    <3> QED  BY <3>5, <3>7, FS_Bijection DEF ExistsBijection
  <2> QED  BY <2>1, <2>2, <2>3
<1>2. At("session.close", "session") = Where(log, "session.close", "session")
  BY DEF At, Where
<1> QED  BY <1>1, <1>2 DEF Completed, CompletedMeansAll

-----------------------------------------------------------------------------
(* The brackets. *)

(* A boundary that starts has left nothing yet. *)
LEMMA StartClean ==
  ASSUME IInv, Untouched, pc = "start"
  PROVE  node \in Nodes /\ node \notin Committed /\ \A i \in 1..Len(log) : log[i].node # node
<1>1. node \in Nodes /\ node \notin Committed
  BY BoundaryRows DEF Fresh
<1> QED  BY <1>1 DEF Untouched, Ahead, Going, Boundary, Fresh

(* Only node.start opens a boundary and only node.stop closes it, unless   *)
(* the process dies.                                                       *)
LEMMA InsideStep ==
  ASSUME Step, pc' \notin {"finish", "close", "done", "dead"}
  PROVE  /\ pc \notin {"finish", "close", "done", "dead"}
         /\ pc \in Inside /\ ~Stops => pc' \in Inside /\ UNCHANGED <<wave, idx>>
         /\ pc' \in Inside => Starts \/ pc \in Inside
<1>1. pc \notin {"finish", "close", "done", "dead"}
  BY Over
<1>2. pc \in Inside /\ ~Stops => pc' \in Inside /\ UNCHANGED <<wave, idx>>
  BY DEF Step, Opens, Loops, Starts, PrePasses, Suspends, Aborts, Retries, Begins, Executes,
     Calls, Meters, WarnsOnce, PostPasses, Exhausts, Requests, Hands, Commits, Responds, Settles,
     Ends, Closes, Signals, Dies, Idles, OpenPCs, Fallible, Inside, Boundary, Fresh, Stay
<1>3. pc' \in Inside => Starts \/ pc \in Inside
  BY DEF Step, Opens, Loops, PrePasses, Suspends, Aborts, Retries, Begins, Executes,
     Calls, Meters, WarnsOnce, PostPasses, Exhausts, Requests, Hands, Commits, Responds, Settles,
     Stops, Ends, Closes, Signals, Dies, Idles, OpenPCs, Fallible, Inside, Boundary, Fresh
<1> QED  BY <1>1, <1>2, <1>3

(* How a boundary comes to its stop. *)
LEMMA StopKind ==
  ASSUME IInv, IInv', Step, Bracketed, pc' = "stop"
  PROVE  /\ loc'.stop = "done" <=> end' = NoEnd
         /\ loc'.stop = "done" => node' \in Committed'
         /\ loc'.stop = "reject" => node' \notin Committed'
<1>1. CASE Aborts
  <2>1. /\ end' # NoEnd /\ loc'.stop \in {"reject", "escalate"} /\ node' = node /\ wal' = wal
        /\ loc'.stop = "reject" => pc \in Fresh
    BY <1>1 DEF Aborts, Fallible, Fresh, node
  <2>2. loc'.stop = "reject" => node \notin Committed
    BY <2>1, BoundaryRows
  <2> QED  BY <2>1, <2>2 DEF Committed
<1>2. CASE Settles
  <2>1. pc = "settle" /\ loc'.stop = "done" /\ UNCHANGED <<wave, idx, end, wal>>
    BY <1>2 DEF Settles, Stay
  <2>2. end = NoEnd
    BY <2>1 DEF IInv, Life, PCs, OpenPCs
  <2>3. node \in Committed
    BY <2>1, PassedCommitted DEF IInv, Position
  <2> QED  BY <2>1, <2>2, <2>3 DEF Committed, node
<1>3. CASE ~Aborts /\ ~Settles
  <2>1. pc = "stop" /\ UNCHANGED <<wave, idx, end, loc>> /\ ~Commits
    BY <1>3 DEF Step, Opens, Loops, Starts, PrePasses, Suspends, Retries, Begins, Executes,
       Calls, Meters, WarnsOnce, PostPasses, Exhausts, Requests, Hands, Commits, Responds,
       Stops, Ends, Closes, Signals, Dies, Idles, OpenPCs, Stay
  <2>2. Committed' = Committed
    BY <2>1, CommittedGrows
  <2> QED  BY <2>1, <2>2 DEF Bracketed, node
<1> QED  BY <1>1, <1>2, <1>3

(* The stops of a trace that grew. *)
LEMMA StopsGrow ==
  ASSUME IInv, IInv', Step, NEW n
  PROVE  /\ Len(log) \in Nat
         /\ \A i \in 1..Len(log) : i \in 1..Len(log') /\ log'[i] = log[i]
         /\ Where(log, "node.stop", n) \subseteq 1..Len(log)
         /\ Where(log, "node.start", n) \subseteq 1..Len(log)
         /\ Where(log', "node.stop", n) = IF Stops /\ n = node
              THEN Where(log, "node.stop", n) \cup {Len(log) + 1} ELSE Where(log, "node.stop", n)
         /\ Where(log', "node.start", n) = IF Starts /\ n = node
              THEN Where(log, "node.start", n) \cup {Len(log) + 1} ELSE Where(log, "node.start", n)
         /\ Stops => Len(log') = Len(log) + 1 /\ log'[Len(log) + 1].at = loc.stop
<1>1. LogOK /\ LogOK' /\ Len(log) \in Nat
  BY DEF IInv, LogOK
<1>2. /\ Where(log, "node.stop", n) \subseteq 1..Len(log)
      /\ Where(log, "node.start", n) \subseteq 1..Len(log)
  BY DEF Where
<1>3. CASE log' = log /\ ~Starts /\ ~Stops
  BY <1>1, <1>2, <1>3
<1>4. CASE \E k, m, at, tok : Adds(k, m, at, tok) /\ Fits(k, m, at, tok)
  <2>1. PICK k, m, at, tok : Adds(k, m, at, tok) /\ Fits(k, m, at, tok)
    BY <1>4
  <2>2. /\ (k = "node.stop") <=> Stops
        /\ (k = "node.start") <=> Starts
        /\ Stops \/ Starts => m = node
    BY <2>1 DEF Fits
  <2>3. /\ Len(log') = Len(log) + 1 /\ 1..Len(log') = 1..Len(log) \cup {Len(log) + 1}
        /\ \A i \in 1..Len(log) : log'[i] = log[i]
    BY <1>1, <2>1, Grown
  <2>4. Stops => log'[Len(log) + 1].at = loc.stop
    <3>1. Stops => Adds("node.stop", node, loc.stop, 0)
      BY DEF Stops
    <3> QED  BY <1>1, <3>1, Grown
  <2>5. Where(log', "node.stop", n) = IF "node.stop" = k /\ n = m
              THEN Where(log, "node.stop", n) \cup {Len(log) + 1} ELSE Where(log, "node.stop", n)
    BY <1>1, <2>1, WhereGrows
  <2>6. Where(log', "node.start", n) = IF "node.start" = k /\ n = m
              THEN Where(log, "node.start", n) \cup {Len(log) + 1} ELSE Where(log, "node.start", n)
    BY <1>1, <2>1, WhereGrows
  <2> QED  BY <1>1, <1>2, <2>2, <2>3, <2>4, <2>5, <2>6
<1> QED  BY <1>3, <1>4, StepEvent

(* The open boundary and the ones left behind, after a step. *)
LEMMA OpenBoundary ==
  ASSUME IInv, IInv', Step, Untouched, Bracketed
  PROVE  /\ pc' \in Inside => Where(log', "node.stop", node') = {}
         /\ pc' \notin {"finish", "close", "done", "dead"} =>
             /\ \A n \in Nodes : \A i \in Where(log', "node.stop", n) : log'[i].at = "done"
             /\ \A n \in Nodes : (pc' \in Inside => n # node') =>
                  \A i \in Where(log', "node.start", n) : \E k \in Where(log', "node.stop", n) : i < k
<1>1. ASSUME pc' \in Inside PROVE Where(log', "node.stop", node') = {}
  <2>1. pc' \notin {"finish", "close", "done", "dead"}
    BY <1>1 DEF Inside, Boundary, Fresh
  <2>2. ~Stops
    BY <1>1 DEF Stops, Inside, Boundary, Fresh
  <2>3. CASE Starts
    <3>1. pc = "start" /\ node' = node
      BY <2>3 DEF Starts, Stay, node
    <3>2. Where(log, "node.stop", node) = {}
      BY <3>1, StartClean DEF Where
    <3> QED  BY <2>2, <3>1, <3>2, StopsGrow
  <2>4. CASE pc \in Inside
    <3>1. node' = node
      BY <2>1, <2>2, <2>4, InsideStep DEF node
    <3>2. Where(log, "node.stop", node) = {}
      BY <2>4 DEF Bracketed
    <3> QED  BY <2>2, <3>1, <3>2, StopsGrow
  <2> QED  BY <1>1, <2>1, <2>3, <2>4, InsideStep
<1>2. ASSUME pc' \notin {"finish", "close", "done", "dead"},
             NEW n \in Nodes, NEW i \in Where(log', "node.stop", n)
      PROVE  log'[i].at = "done"
  <2>1. pc \notin {"finish", "close", "done", "dead"}
    BY <1>2, InsideStep
  <2>2. CASE i \in Where(log, "node.stop", n)
    BY <2>1, <2>2, StopsGrow DEF Bracketed
  <2>3. CASE i \notin Where(log, "node.stop", n)
    <3>1. Stops /\ i = Len(log) + 1 /\ log'[i].at = loc.stop
      BY <1>2, <2>3, StopsGrow
    <3>2. pc = "stop" /\ end = NoEnd
      BY <1>2, <3>1 DEF Stops
    <3> QED  BY <3>1, <3>2 DEF Bracketed
  <2> QED  BY <2>2, <2>3
<1>3. ASSUME pc' \notin {"finish", "close", "done", "dead"},
             NEW n \in Nodes, pc' \in Inside => n # node', NEW i \in Where(log', "node.start", n)
      PROVE  \E k \in Where(log', "node.stop", n) : i < k
  <2>1. pc \notin {"finish", "close", "done", "dead"}
    BY <1>3, InsideStep
  <2>2. i \in Where(log, "node.start", n) /\ i \in 1..Len(log) /\ Len(log) \in Nat
    <3>1. ~(Starts /\ n = node)
      <4>1. Starts => pc' \in Inside /\ node' = node
        BY DEF Starts, Stay, node, Inside, Boundary, Fresh
      <4> QED  BY <1>3, <4>1
    <3> QED  BY <1>3, <3>1, StopsGrow
  <2>3. CASE Stops /\ n = node
    <3>1. Len(log) + 1 \in Where(log', "node.stop", n)
      BY <2>3, StopsGrow
    <3> QED  BY <2>2, <3>1
  <2>4. CASE ~(Stops /\ n = node)
    <3>1. pc \in Inside => n # node
      <4>1. CASE Stops
        BY <2>4, <4>1
      <4>2. CASE ~Stops
        <5>1. pc \in Inside => pc' \in Inside /\ node' = node
          BY <1>3, <4>2, InsideStep DEF node
        <5> QED  BY <1>3, <5>1
      <4> QED  BY <4>1, <4>2
    <3>2. \E k \in Where(log, "node.stop", n) : i < k
      BY <2>1, <2>2, <3>1 DEF Bracketed
    <3>3. Where(log', "node.stop", n) = Where(log, "node.stop", n)
      BY <2>4, StopsGrow
    <3> QED  BY <3>2, <3>3
  <2> QED  BY <2>3, <2>4
<1> QED  BY <1>1, <1>2, <1>3

(* What a stop says of the rows stays true. *)
LEMMA StopTruth ==
  ASSUME IInv, IInv', Step, Bracketed, NEW n \in Nodes, NEW i \in Where(log', "node.stop", n)
  PROVE  /\ log'[i].at = "done" => n \in Committed'
         /\ log'[i].at = "reject" => n \notin Committed'
<1>1. Committed' = Committed \/ (Commits /\ Committed' = Committed \cup {node})
  BY CommittedGrows
<1>2. CASE i \in Where(log, "node.stop", n)
  <2>1. /\ log'[i] = log[i]
        /\ log[i].at = "done" => n \in Committed
        /\ log[i].at = "reject" => n \notin Committed
    BY <1>2, StopsGrow DEF Bracketed
  <2>2. Commits => n # node
    <3>1. Commits => pc \in Inside
      BY DEF Commits, Inside, Boundary, Fresh
    <3> QED  BY <1>2, <3>1 DEF Bracketed
  <2> QED  BY <1>1, <2>1, <2>2
<1>3. CASE i \notin Where(log, "node.stop", n)
  <2>1. Stops /\ n = node /\ log'[i].at = loc.stop
    BY <1>3, StopsGrow
  <2>2. pc = "stop" /\ ~Commits
    BY <2>1 DEF Stops, Commits
  <2>3. /\ loc.stop = "done" => node \in Committed
        /\ loc.stop = "reject" => node \notin Committed
    BY <2>2 DEF Bracketed
  <2> QED  BY <1>1, <2>1, <2>2, <2>3
<1> QED  BY <1>2, <1>3

(* An event keeps the brackets it does not open. *)
LEMMA BracketStep ==
  ASSUME IInv, IInv', Step, Untouched, Bracketed, NEW n \in Nodes
  PROVE  Bracket(log', n)
<1>0. LogOK /\ LogOK' /\ Len(log) \in Nat /\ n # "session"
  BY InstanceAssumption DEF IInv, LogOK
<1>1. Bracket(log, n)
  BY DEF Bracketed
<1>2. CASE log' = log
  BY <1>1, <1>2
<1>3. CASE \E k, m, at, tok : Adds(k, m, at, tok) /\ Fits(k, m, at, tok)
  <2>1. PICK k, m, at, tok : Adds(k, m, at, tok) /\ Fits(k, m, at, tok)
    BY <1>3
  <2> DEFINE e == Len(log) + 1
  <2>2. /\ Len(log') = e /\ 1..Len(log') = 1..Len(log) \cup {e}
        /\ \A i \in 1..Len(log) : log'[i] = log[i]
        /\ log'[e].kind = k /\ log'[e].node = m /\ log'[e].at = at
    BY <1>0, <2>1, Grown
  <2>3. m = "session" \/ (m = node /\ pc \in Fresh \cup {"stop"})
    BY <2>1 DEF Fits
  <2>4. m = node /\ pc \in Fresh \cup {"stop"} => pc = "start" \/ pc \in Inside
    BY DEF Inside, Boundary
  <2>5. pc = "start" => \A i \in 1..Len(log) : log[i].node # node
    BY StartClean
  <2>6. \A i \in 1..Len(log) : \A j \in (i + 1)..Len(log') :
          j = e \/ (j \in (i + 1)..Len(log) /\ j \in 1..Len(log))
    BY <1>0, <2>2
  <2>7. \A i, j \in Where(log', "node.start", n) : i = j
    <3>1. CASE Starts /\ n = node
      <4>1. pc = "start"
        BY <3>1 DEF Starts
      <4>2. Where(log, "node.start", n) = {}
        BY <2>5, <3>1, <4>1 DEF Where
      <4> QED  BY <3>1, <4>2, StopsGrow
    <3>2. CASE ~(Starts /\ n = node)
      BY <1>1, <3>2, StopsGrow DEF Bracket
    <3> QED  BY <3>1, <3>2
  <2>8. ASSUME NEW i \in Where(log', "node.stop", n), NEW j \in (i + 1)..Len(log')
        PROVE  log'[j].node # n /\ (log'[i].at # "done" => log'[j].kind = "session.close")
    <3>1. i \in Where(log, "node.stop", n) /\ i \in 1..Len(log)
      <4>1. i # e
        BY <1>0, <2>2, <2>8
      <4> QED  BY <2>8, <4>1, StopsGrow
    <3>2. CASE j \in (i + 1)..Len(log) /\ j \in 1..Len(log)
      BY <1>1, <2>2, <3>1, <3>2 DEF Bracket
    <3>3. CASE j = e
      <4>1. m # n
        <5>1. CASE m = "session"
          BY <1>0, <5>1
        <5>2. CASE m = node /\ pc = "start"
          BY <2>5, <3>1, <5>2 DEF Where
        <5>3. CASE m = node /\ pc \in Inside
          BY <3>1, <5>3 DEF Bracketed
        <5> QED  BY <2>3, <2>4, <5>1, <5>2, <5>3
      <4>2. log[i].at # "done" => k = "session.close"
        <5>1. log[i].at # "done" => pc \in {"finish", "close", "done", "dead"}
          BY <3>1 DEF Bracketed
        <5>2. pc \in {"finish", "close", "done", "dead"} => Closes \/ log' = log
          BY DEF Step, Opens, Loops, Starts, PrePasses, Suspends, Aborts, Retries, Begins, Executes,
             Calls, Meters, WarnsOnce, PostPasses, Exhausts, Requests, Hands, Commits, Responds,
             Settles, Stops, Ends, Signals, Dies, Idles, OpenPCs, Fallible
        <5>3. log' # log
          BY <1>0, <2>2
        <5> QED  BY <2>1, <5>1, <5>2, <5>3 DEF Fits
      <4> QED  BY <2>2, <3>1, <3>3, <4>1, <4>2
    <3> QED  BY <2>6, <2>8, <3>1, <3>2, <3>3
  <2>9. ASSUME NEW i \in Where(log', "node.start", n), NEW j \in (i + 1)..Len(log'),
               log'[j].node \in Nodes \ {n}
        PROVE  \E h \in Where(log', "node.stop", n) : i < h /\ h < j
    <3>1. i \in Where(log, "node.start", n) /\ i \in 1..Len(log)
      <4>1. i # e
        BY <1>0, <2>2, <2>9
      <4> QED  BY <2>9, <4>1, StopsGrow
    <3>2. Where(log, "node.stop", n) \subseteq Where(log', "node.stop", n)
      BY StopsGrow
    <3>3. CASE j \in (i + 1)..Len(log) /\ j \in 1..Len(log)
      <4>1. \E h \in Where(log, "node.stop", n) : i < h /\ h < j
        BY <1>1, <2>2, <2>9, <3>1, <3>3 DEF Bracket
      <4> QED  BY <3>2, <4>1
    <3>4. CASE j = e
      <4>1. m = node /\ n # node /\ pc \notin {"finish", "close", "done", "dead"}
        BY <2>2, <2>3, <2>9, <3>4, InstanceAssumption DEF Fresh
      <4>2. PICK h \in Where(log, "node.stop", n) : i < h
        BY <3>1, <4>1 DEF Bracketed
      <4>3. h \in 1..Len(log)
        BY <4>2, StopsGrow
      <4>4. h < j
        BY <1>0, <3>4, <4>3
      <4> QED  BY <3>2, <4>2, <4>4
    <3> QED  BY <2>6, <2>9, <3>1, <3>3, <3>4
  <2> QED  BY <2>7, <2>8, <2>9 DEF Bracket
<1> QED  BY <1>2, <1>3, StepEvent

(* The brackets, joined. *)
LEMMA BracketedStep == ASSUME IInv, IInv', Step, Untouched, Bracketed PROVE Bracketed'
<1>1. /\ pc' \in Inside => Where(log', "node.stop", node') = {}
      /\ pc' \notin {"finish", "close", "done", "dead"} =>
          /\ \A n \in Nodes : \A i \in Where(log', "node.stop", n) : log'[i].at = "done"
          /\ \A n \in Nodes : (pc' \in Inside => n # node') =>
               \A i \in Where(log', "node.start", n) : \E k \in Where(log', "node.stop", n) : i < k
  BY OpenBoundary
<1>2. \A n \in Nodes : \A i \in Where(log', "node.stop", n) :
        /\ log'[i].at = "done" => n \in Committed'
        /\ log'[i].at = "reject" => n \notin Committed'
  BY StopTruth
<1>3. \A n \in Nodes : Bracket(log', n)
  BY BracketStep
<1>4. pc' = "stop" => /\ loc'.stop = "done" <=> end' = NoEnd
                      /\ loc'.stop = "done" => node' \in Committed'
                      /\ loc'.stop = "reject" => node' \notin Committed'
  BY StopKind
<1> QED  BY <1>1, <1>2, <1>3, <1>4 DEF Bracketed, Inside, Boundary, Fresh, NoEnd, End

(* They are the brackets that the property asks for. *)
LEMMA BracketsClosed == ASSUME IInv, Bracketed PROVE NodeBrackets
<1>1. ASSUME NEW n \in Nodes PROVE Cardinality(At("node.start", n)) <= 1
  <2>1. At("node.start", n) = Where(log, "node.start", n)
    BY DEF At, Where
  <2>2. \A i, j \in Where(log, "node.start", n) : i = j
    BY DEF Bracketed, Bracket
  <2> HIDE DEF Where
  <2>3. CASE Where(log, "node.start", n) = {}
    BY <2>1, <2>3, FS_EmptySet
  <2>4. CASE Where(log, "node.start", n) # {}
    <3>1. PICK i : Where(log, "node.start", n) = {i}
      BY <2>2, <2>4
    <3>2. Cardinality({i}) = 1
      BY FS_Singleton
    <3>3. Cardinality(At("node.start", n)) = 1
      BY <2>1, <3>1, <3>2
    <3> QED  BY <3>3
  <2> QED  BY <2>3, <2>4
<1>2. \A n \in Nodes : Bracket(log, n)
  BY DEF Bracketed
<1>3. \A k, n : At(k, n) = Where(log, k, n)
  BY DEF At, Where
<1>4. \A n \in Nodes : \A i \in Where(log, "node.stop", n) :
        /\ log[i].at = "done" => n \in Committed
        /\ log[i].at = "reject" => n \notin Committed
  BY DEF Bracketed
<1> QED  BY <1>1, <1>2, <1>3, <1>4 DEF NodeBrackets, Bracket

-----------------------------------------------------------------------------
(* What backs a row. *)

(* The attributes of the events of a kind and a node in a stretch of the   *)
(* trace.                                                                  *)
Notes(t, kind, n, S) == {t[i].at : i \in Where(t, kind, n) \cap S}

(* An event extends an open stretch, and leaves a closed one alone. *)
LEMMA NotesGrow ==
  ASSUME LogOK, LogOK', NEW k, NEW m, NEW at, NEW tok, Adds(k, m, at, tok), NEW kind, NEW n,
         NEW p \in 1..(Len(log) + 1)
  PROVE  /\ kind = k /\ n = m =>
              Notes(log', kind, n, p..Len(log')) = Notes(log, kind, n, p..Len(log)) \cup {at}
         /\ kind # k \/ n # m =>
              /\ Notes(log', kind, n, p..Len(log')) = Notes(log, kind, n, p..Len(log))
              /\ Where(log', kind, n) \cap (p..Len(log')) = Where(log, kind, n) \cap (p..Len(log))
         /\ Notes(log, kind, n, p..Len(log)) \subseteq Notes(log', kind, n, p..Len(log'))
         /\ Notes(log, kind, n, 1..p) \subseteq Notes(log', kind, n, 1..p)
         /\ Notes(log, kind, n, 1..Len(log)) \subseteq Notes(log', kind, n, 1..Len(log'))
<1> DEFINE e == Len(log) + 1
<1>1. /\ Len(log) \in Nat /\ Len(log') = e /\ log'[e].at = at
      /\ \A i \in 1..Len(log) : log'[i] = log[i]
  BY Grown
<1>2. /\ Where(log', kind, n) = IF kind = k /\ n = m THEN Where(log, kind, n) \cup {e}
                                 ELSE Where(log, kind, n)
      /\ Where(log, kind, n) \subseteq 1..Len(log)
  BY WhereGrows
<1>3. /\ \A i \in 1..Len(log) : i \in p..e <=> i \in p..Len(log)
      /\ e \in p..e
      /\ e \notin 1..Len(log)
      /\ \A i \in 1..Len(log) : i \in 1..e
  BY <1>1
<1>4. Where(log', kind, n) \cap (p..e) = IF kind = k /\ n = m
              THEN (Where(log, kind, n) \cap (p..Len(log))) \cup {e}
              ELSE Where(log, kind, n) \cap (p..Len(log))
  BY <1>2, <1>3
<1>5. \A i \in Where(log, kind, n) : log'[i].at = log[i].at
  BY <1>1, <1>2
<1> HIDE DEF e
<1>6. Notes(log', kind, n, p..e) = IF kind = k /\ n = m
        THEN Notes(log, kind, n, p..Len(log)) \cup {at} ELSE Notes(log, kind, n, p..Len(log))
  BY <1>1, <1>4, <1>5 DEF Notes
<1>7. Where(log, kind, n) \subseteq Where(log', kind, n)
  BY <1>2
<1>8. Notes(log, kind, n, 1..p) \subseteq Notes(log', kind, n, 1..p)
  BY <1>5, <1>7 DEF Notes
<1>9. Notes(log, kind, n, 1..Len(log)) \subseteq Notes(log', kind, n, 1..e)
  BY <1>2, <1>3, <1>5, <1>7 DEF Notes
<1> QED  BY <1>1, <1>4, <1>6, <1>8, <1>9 DEF e

(* The edges before the e-th. *)
Routes(n, e) == {Succs[n][d] : d \in {d \in 1..Len(Succs[n]) : d < e}}

(* Since, in terms of Notes and Routes. *)
LEMMA SinceNotes ==
  ASSUME NEW t, NEW n, NEW g, NEW e, NEW p
  PROVE  Since(t, n, g, e, p) <=>
           /\ \A q \in Where(t, "llm.call", n) : q <= p
           /\ Members(PreGates[n]) \subseteq Notes(t, "gate.pass", n, 1..p)
           /\ \A h \in 1..Len(PostGates[n]) : h < g =>
                PostGates[n][h] \in Notes(t, "gate.pass", n, p..Len(t))
           /\ Notes(t, "handoff.accept", n, p..Len(t)) = Routes(n, e)
           /\ Where(t, "gate.fail", n) \cap (p..Len(t)) = {}
<1> QED  BY DEF Since, Passes, Accepts, Notes, Routes

(* An event that is no call, failure or acceptance of n keeps what backs   *)
(* n so far.                                                               *)
LEMMA ProgressKept ==
  ASSUME LogOK, LogOK', NEW k, NEW m, NEW at, NEW tok, Adds(k, m, at, tok), NEW n, NEW g, NEW e,
         Progress(log, n, g, e), m = n => k \notin {"llm.call", "gate.fail", "handoff.accept"}
  PROVE  Progress(log', n, g, e)
<1>1. PICK p \in Where(log, "llm.call", n) : Since(log, n, g, e, p)
  BY DEF Progress
<1>2. p \in 1..(Len(log) + 1) /\ p \in Where(log', "llm.call", n) /\ Len(log) \in Nat
  <2>1. p \in 1..Len(log) /\ Len(log) \in Nat
    BY <1>1, WhereGrows DEF LogOK
  <2> QED  BY <1>1, <2>1, WhereGrows
<1>3. \A q \in Where(log', "llm.call", n) : q <= p
  BY <1>1, WhereGrows DEF Since
<1>4. Members(PreGates[n]) \subseteq Notes(log', "gate.pass", n, 1..p)
  BY <1>1, <1>2, NotesGrow, SinceNotes
<1>5. \A h \in 1..Len(PostGates[n]) : h < g =>
        PostGates[n][h] \in Notes(log', "gate.pass", n, p..Len(log'))
  BY <1>1, <1>2, NotesGrow, SinceNotes
<1>6. Notes(log', "handoff.accept", n, p..Len(log')) = Routes(n, e)
  BY <1>1, <1>2, NotesGrow, SinceNotes
<1>7. Where(log', "gate.fail", n) \cap (p..Len(log')) = {}
  <2>1. "gate.fail" # k \/ n # m
    OBVIOUS
  <2>2. Where(log', "gate.fail", n) \cap (p..Len(log')) = Where(log, "gate.fail", n) \cap (p..Len(log))
    BY <1>2, <2>1, NotesGrow
  <2>3. Where(log, "gate.fail", n) \cap (p..Len(log)) = {}
    BY <1>1 DEF Since
  <2> QED  BY <2>2, <2>3
<1>8. Since(log', n, g, e, p)
  BY <1>3, <1>4, <1>5, <1>6, <1>7, SinceNotes
<1> QED  BY <1>2, <1>8 DEF Progress

(* A post-gate that passed is one gate further. *)
LEMMA ProgressGate ==
  ASSUME LogOK, LogOK', NEW n \in Nodes, NEW g \in 1..Len(PostGates[n]), NEW e,
         Adds("gate.pass", n, PostGates[n][g], 0), Progress(log, n, g, e)
  PROVE  Progress(log', n, g + 1, e)
<1>1. Progress(log', n, g, e)
  BY ProgressKept
<1>2. PICK p \in Where(log', "llm.call", n) : Since(log', n, g, e, p)
  BY <1>1 DEF Progress
<1>3. Len(log) \in Nat /\ Len(log') = Len(log) + 1 /\ p \in 1..(Len(log) + 1)
  BY <1>2, Grown DEF LogOK, Where
<1>4. PostGates[n][g] \in Notes(log', "gate.pass", n, p..Len(log'))
  BY <1>3, NotesGrow
<1>5. \A h \in 1..Len(PostGates[n]) : h < g + 1 => h < g \/ h = g
  BY InstanceAssumption
<1>6. \A h \in 1..Len(PostGates[n]) : h < g + 1 =>
        PostGates[n][h] \in Notes(log', "gate.pass", n, p..Len(log'))
  BY <1>2, <1>4, <1>5, SinceNotes
<1>7. Since(log', n, g + 1, e, p)
  BY <1>2, <1>6, SinceNotes
<1> QED  BY <1>2, <1>7 DEF Progress

(* An accepted edge is one edge further. *)
LEMMA ProgressEdge ==
  ASSUME LogOK, LogOK', NEW n \in Nodes, NEW g, NEW e \in 1..Len(Succs[n]),
         Adds("handoff.accept", n, Succs[n][e], 0), Progress(log, n, g, e)
  PROVE  Progress(log', n, g, e + 1)
<1>1. PICK p \in Where(log, "llm.call", n) : Since(log, n, g, e, p)
  BY DEF Progress
<1>2. p \in 1..(Len(log) + 1) /\ p \in Where(log', "llm.call", n) /\ Len(log) \in Nat
  <2>1. p \in 1..Len(log) /\ Len(log) \in Nat
    BY <1>1, WhereGrows DEF LogOK
  <2> QED  BY <1>1, <2>1, WhereGrows
<1>3. \A q \in Where(log', "llm.call", n) : q <= p
  BY <1>1, WhereGrows DEF Since
<1>4. Members(PreGates[n]) \subseteq Notes(log', "gate.pass", n, 1..p)
  BY <1>1, <1>2, NotesGrow, SinceNotes
<1>5. \A h \in 1..Len(PostGates[n]) : h < g =>
        PostGates[n][h] \in Notes(log', "gate.pass", n, p..Len(log'))
  BY <1>1, <1>2, NotesGrow, SinceNotes
<1>6. Notes(log', "handoff.accept", n, p..Len(log')) = Routes(n, e + 1)
  <2>1. Notes(log', "handoff.accept", n, p..Len(log')) = Routes(n, e) \cup {Succs[n][e]}
    BY <1>1, <1>2, NotesGrow, SinceNotes
  <2>2. \A d \in 1..Len(Succs[n]) : d < e + 1 <=> d < e \/ d = e
    BY WavesAssumption
  <2> QED  BY <2>1, <2>2 DEF Routes
<1>7. Where(log', "gate.fail", n) \cap (p..Len(log')) = {}
  <2>1. ASSUME NEW kind, kind # "handoff.accept"
        PROVE  Where(log', kind, n) \cap (p..Len(log')) = Where(log, kind, n) \cap (p..Len(log))
    BY <1>2, <2>1, NotesGrow
  <2>2. Where(log', "gate.fail", n) \cap (p..Len(log')) = Where(log, "gate.fail", n) \cap (p..Len(log))
    <3>1. "gate.fail" # "handoff.accept"
      OBVIOUS
    <3> QED  BY <2>1, <3>1
  <2>3. Where(log, "gate.fail", n) \cap (p..Len(log)) = {}
    BY <1>1 DEF Since
  <2> QED  BY <2>2, <2>3
<1>8. Since(log', n, g, e + 1, p)
  BY <1>3, <1>4, <1>5, <1>6, <1>7, SinceNotes
<1> QED  BY <1>2, <1>8 DEF Progress

(* A call starts afresh. *)
LEMMA ProgressCall ==
  ASSUME LogOK, LogOK', NEW n \in Nodes, NEW at, NEW tok, Adds("llm.call", n, at, tok),
         Members(PreGates[n]) \subseteq Passes(log, n, 1..Len(log))
  PROVE  Progress(log', n, 1, 1)
<1> DEFINE p == Len(log) + 1
<1>1. /\ Len(log) \in Nat /\ Len(log') = p /\ p \in 1..(Len(log) + 1) /\ p \in 1..Len(log')
      /\ Where(log', "llm.call", n) = Where(log, "llm.call", n) \cup {p}
      /\ Where(log, "llm.call", n) \subseteq 1..Len(log)
  BY Grown, WhereGrows
<1>2. \A q \in Where(log', "llm.call", n) : q <= p
  <2>1. \A q \in 1..Len(log) : q <= p
    BY <1>1
  <2> QED  BY <1>1, <2>1
<1>3. Members(PreGates[n]) \subseteq Notes(log', "gate.pass", n, 1..p)
  <2>1. Members(PreGates[n]) \subseteq Notes(log, "gate.pass", n, 1..Len(log))
    BY DEF Passes, Notes
  <2>2. Notes(log, "gate.pass", n, 1..Len(log)) \subseteq Notes(log', "gate.pass", n, 1..Len(log'))
    BY <1>1, NotesGrow
  <2> QED  BY <1>1, <2>1, <2>2
<1>4. \A h \in 1..Len(PostGates[n]) : ~(h < 1)
  <2>1. PostGates[n] \in Seq(GateIds) /\ Len(PostGates[n]) \in Nat
    BY InstanceAssumption
  <2> QED  BY <2>1
<1>5. \A d \in 1..Len(Succs[n]) : ~(d < 1)
  <2>1. Succs[n] \in Seq(Nodes) /\ Len(Succs[n]) \in Nat
    BY WavesAssumption
  <2> QED  BY <2>1
<1>6. \A kind : Where(log, kind, n) \cap (p..Len(log)) = {}
  <2>1. \A i \in 1..Len(log) : i \notin p..Len(log)
    BY <1>1
  <2> QED  BY <2>1 DEF Where
<1>7. /\ Notes(log', "handoff.accept", n, p..Len(log')) = {}
      /\ Where(log', "gate.fail", n) \cap (p..Len(log')) = {}
  <2>1. Notes(log, "handoff.accept", n, p..Len(log)) = {}
    BY <1>6 DEF Notes
  <2> HIDE DEF p
  <2>2. /\ "handoff.accept" # "llm.call" \/ n # n
        /\ "gate.fail" # "llm.call" \/ n # n
        /\ p \in 1..(Len(log) + 1)
    BY <1>1
  <2>3. Notes(log', "handoff.accept", n, p..Len(log')) = Notes(log, "handoff.accept", n, p..Len(log))
    BY <2>2, NotesGrow
  <2>4. Where(log', "gate.fail", n) \cap (p..Len(log')) = {}
    <3>1. Where(log', "gate.fail", n) \subseteq 1..Len(log)
      BY WhereGrows
    <3>2. \A i \in 1..Len(log) : i \notin p..Len(log')
      BY <1>1 DEF p
    <3> QED  BY <3>1, <3>2
  <2> QED  BY <1>6, <2>1, <2>3, <2>4
<1>8. Routes(n, 1) = {}
  BY <1>5 DEF Routes
<1> HIDE DEF p
<1>9. Since(log', n, 1, 1, p)
  BY <1>2, <1>3, <1>4, <1>7, <1>8, SinceNotes
<1> QED  BY <1>1, <1>9 DEF Progress

(* The event of a step, seen from a boundary that is not its own. *)
LEMMA OtherEvent ==
  ASSUME IInv, Step, NEW n \in Committed
  PROVE  \/ log' = log
         \/ \E k, m, at, tok : /\ Adds(k, m, at, tok)
                               /\ m = n => k \notin {"llm.call", "gate.fail", "handoff.accept"}
<1>1. n # "session"
  BY RowsDistinct, InstanceAssumption DEF Committed
<1>2. CASE \E k, m, at, tok : Adds(k, m, at, tok) /\ Fits(k, m, at, tok)
  <2>1. PICK k, m, at, tok : Adds(k, m, at, tok) /\ Fits(k, m, at, tok)
    BY <1>2
  <2>2. m = n => m = node /\ pc \in Fresh \cup {"stop"}
    BY <1>1, <2>1 DEF Fits
  <2>3. pc \in Fresh => node # n
    BY BoundaryRows
  <2>4. pc = "stop" => k \notin {"llm.call", "gate.fail", "handoff.accept"}
    <3>1. pc = "stop" => ~Calls /\ ~Hands
      BY DEF Calls, Hands
    <3>2. pc = "stop" => pc' \notin {"suspend", "stop", "attempt", "escalate", "dead"} \/ log' = log
      BY DEF Step, Opens, Loops, Starts, PrePasses, Suspends, Aborts, Retries, Begins, Executes,
         Calls, Meters, WarnsOnce, PostPasses, Exhausts, Requests, Hands, Commits, Responds,
         Settles, Stops, Ends, Closes, Signals, Dies, Idles, OpenPCs, Fallible
    <3>3. log' # log
      BY <2>1, Grown DEF IInv, LogOK, Adds
    <3> QED  BY <2>1, <3>1, <3>2, <3>3 DEF Fits
  <2> QED  BY <2>1, <2>2, <2>3, <2>4
<1> QED  BY <1>2, StepEvent

(* A row stays backed, for no later event is its node's; a new row is      *)
(* backed by the boundary that commits it.                                 *)
LEMMA CommittedBacked ==
  ASSUME IInv, IInv', Step, Backing, NEW n \in Committed'
  PROVE  Backed(log', n)
<1>1. LogOK /\ LogOK'
  BY DEF IInv
<1>2. CASE n \in Committed
  <2>1. Progress(log, n, Len(PostGates[n]) + 1, Len(Succs[n]) + 1)
    BY <1>2 DEF Backing, Backed
  <2>2. CASE log' = log
    BY <2>1, <2>2 DEF Backed
  <2>3. CASE \E k, m, at, tok : /\ Adds(k, m, at, tok)
                                /\ m = n => k \notin {"llm.call", "gate.fail", "handoff.accept"}
    <3>1. PICK k, m, at, tok : /\ Adds(k, m, at, tok)
                               /\ m = n => k \notin {"llm.call", "gate.fail", "handoff.accept"}
      BY <2>3
    <3> QED  BY <1>1, <2>1, <3>1, ProgressKept DEF Backed
  <2> QED  BY <1>2, <2>2, <2>3, OtherEvent
<1>3. CASE n \notin Committed
  <2>1. Commits /\ n = node
    BY <1>3, CommittedGrows
  <2>2. pc = "route" /\ loc.edge > Len(Succs[node]) /\ log' = log
    BY <2>1 DEF Commits
  <2>3. PICK p \in Where(log, "llm.call", node) : Since(log, node, Len(PostGates[node]) + 1, loc.edge, p)
    BY <2>2 DEF Backing, Progress
  <2>4. \A d \in 1..Len(Succs[node]) : d < loc.edge <=> d < Len(Succs[node]) + 1
    <3>1. node \in Nodes
      BY <2>2, FreshNode DEF Fresh
    <3>2. Len(Succs[node]) \in Nat /\ loc.edge \in Nat
      <4>1. Succs[node] \in Seq(Nodes)
        BY <3>1, WavesAssumption
      <4> QED  BY <4>1 DEF IInv, CtlOK, Locals
    <3> QED  BY <2>2, <3>2
  <2>5. Routes(node, loc.edge) = Routes(node, Len(Succs[node]) + 1)
    BY <2>4 DEF Routes
  <2>6. Since(log, node, Len(PostGates[node]) + 1, Len(Succs[node]) + 1, p)
    BY <2>3, <2>5, SinceNotes
  <2> QED  BY <2>1, <2>2, <2>6 DEF Backed, Progress
<1> QED  BY <1>2, <1>3

(* The pre-gates of the boundary. *)
LEMMA PreBacked ==
  ASSUME IInv, IInv', Step, Backing
  PROVE  /\ pc' = "pre" => \A h \in 1..Len(PreGates[node']) : h < loc'.gate =>
                     PreGates[node'][h] \in Passes(log', node', 1..Len(log'))
         /\ pc' \in Fresh \ {"start", "pre"} =>
              Members(PreGates[node']) \subseteq Passes(log', node', 1..Len(log'))
<1>1. LogOK /\ LogOK'
  BY DEF IInv
<1>2. \A n : Passes(log, n, 1..Len(log)) \subseteq Passes(log', n, 1..Len(log'))
  <2> SUFFICES ASSUME NEW n PROVE Passes(log, n, 1..Len(log)) \subseteq Passes(log', n, 1..Len(log'))
    OBVIOUS
  <2>1. CASE log' = log
    BY <2>1
  <2>2. CASE \E k, m, at, tok : Adds(k, m, at, tok) /\ Fits(k, m, at, tok)
    <3>1. PICK k, m, at, tok : Adds(k, m, at, tok) /\ Fits(k, m, at, tok)
      BY <2>2
    <3>2. 1 \in 1..(Len(log) + 1)
      BY <1>1 DEF LogOK
    <3>3. Notes(log, "gate.pass", n, 1..Len(log)) \subseteq Notes(log', "gate.pass", n, 1..Len(log'))
      BY <1>1, <3>1, <3>2, NotesGrow
    <3> QED  BY <3>3 DEF Notes, Passes
  <2> QED  BY <2>1, <2>2, StepEvent
<1>3. CASE Starts
  <2>1. pc' = "pre" /\ loc'.gate = 1 /\ node' = node /\ node \in Nodes
    BY <1>3, FreshNode DEF Starts, Stay, Fresh, node
  <2>2. \A h \in 1..Len(PreGates[node]) : ~(h < 1)
    <3>1. Len(PreGates[node]) \in Nat
      BY <2>1, InstanceAssumption
    <3> QED  BY <3>1
  <2> QED  BY <2>1, <2>2
<1>4. CASE PrePasses
  <2>1. /\ pc = "pre" /\ UNCHANGED <<wave, idx>> /\ Adds("gate.pass", node, PreGates[node][loc.gate], 0)
        /\ \/ pc' = "pre" /\ loc'.gate = loc.gate + 1
           \/ pc' = "attempt" /\ loc.gate = Len(PreGates[node])
    BY <1>4 DEF PrePasses, Stay
  <2>2. node' = node /\ node \in Nodes /\ loc.gate \in 1..Len(PreGates[node])
    BY <2>1, FreshNode DEF Fresh, node, IInv, Indices
  <2>3. PreGates[node][loc.gate] \in Passes(log', node, 1..Len(log'))
    <3>1. 1 \in 1..(Len(log) + 1)
      BY <1>1 DEF LogOK
    <3>2. PreGates[node][loc.gate] \in Notes(log', "gate.pass", node, 1..Len(log'))
      BY <1>1, <2>1, <3>1, NotesGrow
    <3> QED  BY <3>2 DEF Notes, Passes
  <2>4. Len(PreGates[node]) \in Nat
    BY <2>2, InstanceAssumption
  <2>5. \A h \in 1..Len(PreGates[node]) : h < loc.gate + 1 =>
          PreGates[node][h] \in Passes(log', node, 1..Len(log'))
    <3>1. \A h \in 1..Len(PreGates[node]) : h < loc.gate + 1 => h < loc.gate \/ h = loc.gate
      BY <2>2, <2>4
    <3> QED  BY <1>2, <2>1, <2>3, <3>1 DEF Backing
  <2>6. pc' = "attempt" => Members(PreGates[node]) \subseteq Passes(log', node, 1..Len(log'))
    <3>1. pc' = "attempt" => \A h \in 1..Len(PreGates[node]) : h < loc.gate + 1
      BY <2>1, <2>4
    <3> QED  BY <2>5, <3>1 DEF Members
  <2> QED  BY <2>1, <2>2, <2>5, <2>6
<1>5. CASE ~Starts /\ ~PrePasses
  <2>1. /\ pc' = "pre" => pc = "pre" /\ loc' = loc /\ UNCHANGED <<wave, idx>>
        /\ pc' \in Fresh \ {"start", "pre"} => pc \in Fresh \ {"start", "pre"} /\ UNCHANGED <<wave, idx>>
    BY <1>5 DEF Step, Opens, Loops, Suspends, Aborts, Retries, Begins, Executes,
       Calls, Meters, WarnsOnce, PostPasses, Exhausts, Requests, Hands, Commits, Responds,
       Settles, Stops, Ends, Closes, Signals, Dies, Idles, OpenPCs, Fresh, Stay
  <2>2. pc' \in Fresh \ {"start"} => node' = node
    BY <2>1 DEF node
  <2> QED  BY <1>2, <2>1, <2>2 DEF Backing, Fresh
<1> QED  BY <1>3, <1>4, <1>5

(* The turn of the boundary. *)
LEMMA TurnBacked ==
  ASSUME IInv, IInv', Step, Backing
  PROVE  /\ pc' \in {"exec", "call", "meter", "warn", "post"} => loc'.edge = 1
         /\ pc' \in {"meter", "warn", "post"} => Progress(log', node', loc'.gate, 1)
         /\ pc' \in {"route", "decide"} => Progress(log', node', Len(PostGates[node']) + 1, loc'.edge)
<1>1. LogOK /\ LogOK'
  BY DEF IInv
<1>2. CASE Begins \/ Executes
  <2>1. pc' \in {"exec", "call"} /\ loc'.edge = 1
    BY <1>2 DEF Begins, Executes, Backing
  <2> QED  BY <2>1
<1>3. CASE Calls
  <2>1. /\ pc = "call" /\ pc' = "meter" /\ loc' = loc /\ UNCHANGED <<wave, idx>>
        /\ \E at : Adds("llm.call", node, at, loc.turn.tok)
    BY <1>3 DEF Calls, Stay
  <2>2. node' = node /\ node \in Nodes /\ loc.gate = 1 /\ loc.edge = 1
    BY <2>1, FreshNode DEF Fresh, node, IInv, Indices, Backing
  <2>3. Members(PreGates[node]) \subseteq Passes(log, node, 1..Len(log))
    BY <2>1 DEF Backing, Fresh
  <2>4. Progress(log', node, 1, 1)
    BY <1>1, <2>1, <2>2, <2>3, ProgressCall
  <2> QED  BY <2>1, <2>2, <2>4
<1>4. CASE Meters \/ WarnsOnce
  <2>1. /\ pc \in {"meter", "warn"} /\ pc' \in {"warn", "post"} /\ loc' = loc /\ UNCHANGED <<wave, idx>>
        /\ log' = log \/ \E at : Adds("budget.event", "session", at, 0)
    BY <1>4 DEF Meters, WarnsOnce, Stay
  <2>2. node' = node
    BY <2>1 DEF node
  <2>3. Progress(log, node, loc.gate, 1) /\ loc.edge = 1
    BY <2>1 DEF Backing
  <2>4. Progress(log', node, loc.gate, 1)
    <3>1. CASE log' = log
      BY <2>3, <3>1
    <3>2. CASE \E at : Adds("budget.event", "session", at, 0)
      BY <1>1, <2>3, <3>2, ProgressKept
    <3> QED  BY <2>1, <3>1, <3>2
  <2> QED  BY <2>1, <2>2, <2>3, <2>4
<1>5. CASE PostPasses
  <2>1. /\ pc = "post" /\ loc'.edge = loc.edge /\ UNCHANGED <<wave, idx>>
        /\ Adds("gate.pass", node, PostGates[node][loc.gate], 0)
        /\ \/ pc' = "post" /\ loc'.gate = loc.gate + 1
           \/ pc' = "route" /\ loc.gate = Len(PostGates[node])
    BY <1>5 DEF PostPasses, Stay, SameTurn
  <2>2. node' = node /\ node \in Nodes /\ loc.gate \in 1..Len(PostGates[node]) /\ loc.edge = 1
    BY <2>1, FreshNode DEF Fresh, node, IInv, Indices, Backing
  <2>3. Progress(log, node, loc.gate, 1)
    BY <2>1 DEF Backing
  <2>4. Progress(log', node, loc.gate + 1, 1)
    BY <1>1, <2>1, <2>2, <2>3, ProgressGate
  <2> QED  BY <2>1, <2>2, <2>4
<1>6. CASE Requests
  <2>1. /\ pc = "route" /\ pc' = "decide" /\ loc' = loc /\ UNCHANGED <<wave, idx>>
        /\ \E at : Adds("handoff.request", node, at, 0)
    BY <1>6 DEF Requests, Stay
  <2>2. PICK at : Adds("handoff.request", node, at, 0)
    BY <2>1
  <2>3. node' = node
    BY <2>1 DEF node
  <2>4. Progress(log, node, Len(PostGates[node]) + 1, loc.edge)
    BY <2>1 DEF Backing
  <2>5. Progress(log', node, Len(PostGates[node]) + 1, loc.edge)
    BY <1>1, <2>2, <2>4, ProgressKept
  <2> QED  BY <2>1, <2>3, <2>5
<1>7. CASE Hands
  <2>1. /\ pc = "decide" /\ pc' = "route" /\ loc'.edge = loc.edge + 1 /\ UNCHANGED <<wave, idx>>
        /\ Adds("handoff.accept", node, Succs[node][loc.edge], 0)
    BY <1>7 DEF Hands, Stay
  <2>2. node' = node /\ node \in Nodes /\ loc.edge \in 1..Len(Succs[node])
    BY <2>1, FreshNode DEF Fresh, node, IInv, Indices
  <2>3. Progress(log, node, Len(PostGates[node]) + 1, loc.edge)
    BY <2>1 DEF Backing
  <2>4. Progress(log', node, Len(PostGates[node]) + 1, loc.edge + 1)
    BY <1>1, <2>1, <2>2, <2>3, ProgressEdge
  <2> QED  BY <2>1, <2>2, <2>4
<1>8. CASE Signals \/ Idles
  <2>1. pc' = pc /\ loc' = loc /\ log' = log /\ UNCHANGED <<wave, idx>>
    BY <1>8 DEF Signals, Idles, Stay
  <2>2. node' = node
    BY <2>1 DEF node
  <2> QED  BY <2>1, <2>2 DEF Backing
<1>9. CASE ~(Begins \/ Executes \/ Calls \/ Meters \/ WarnsOnce \/ PostPasses \/ Requests \/ Hands
              \/ Signals \/ Idles)
  <2>1. pc' \notin {"exec", "call", "meter", "warn", "post", "route", "decide"}
    BY <1>9 DEF Step, Opens, Loops, Starts, PrePasses, Suspends, Aborts, Retries, Exhausts,
       Commits, Responds, Settles, Stops, Ends, Closes, Dies, OpenPCs
  <2> QED  BY <2>1
<1> QED  BY <1>2, <1>3, <1>4, <1>5, <1>6, <1>7, <1>8, <1>9

(* What backs the rows, joined. *)
LEMMA BackingStep == ASSUME IInv, IInv', Step, Backing PROVE Backing'
<1>1. \A n \in Committed' : Backed(log', n)
  BY CommittedBacked
<1> QED  BY <1>1, PreBacked, TurnBacked DEF Backing, Fresh

(* It backs the rows as the property asks: the call it names is the last. *)
LEMMA RowsBacked == ASSUME IInv, Backing PROVE CommitBacked
<1> SUFFICES ASSUME NEW r \in 1..Len(wal)
             PROVE  LET n == wal[r].node
                        calls == At("llm.call", n)
                        last == CHOOSE i \in calls : \A j \in calls : j <= i
                        passed(S) == {log[i].at : i \in At("gate.pass", n) \cap S}
                    IN  /\ calls # {}
                        /\ Members(PreGates[n]) \subseteq passed(1..last)
                        /\ Members(PostGates[n]) \subseteq passed(last..Len(log))
                        /\ {log[i].at : i \in At("handoff.accept", n) \cap (last..Len(log))}
                             = Members(Succs[n])
                        /\ At("gate.fail", n) \cap (last..Len(log)) = {}
  BY DEF CommitBacked
<1> DEFINE n == wal[r].node
<1> DEFINE calls == At("llm.call", n)
<1> DEFINE last == CHOOSE i \in calls : \A j \in calls : j <= i
<1>9. \A k : At(k, n) = Where(log, k, n)
  BY DEF At, Where
<1>0. n \in Committed /\ n \in Nodes
  BY RowsDistinct DEF Committed
<1>1. PICK p \in calls : Since(log, n, Len(PostGates[n]) + 1, Len(Succs[n]) + 1, p)
  BY <1>0, <1>9 DEF Backing, Backed, Progress
<1>2. \A j \in calls : j <= p
  BY <1>1, <1>9 DEF Since
<1>3. calls \subseteq Nat
  BY DEF At
<1>4. last = p
  <2>1. last \in calls /\ \A j \in calls : j <= last
    BY <1>1, <1>2
  <2>2. last <= p /\ p <= last /\ last \in Nat /\ p \in Nat
    BY <1>1, <1>2, <1>3, <2>1
  <2> QED  BY <2>2
<1>5. Members(PreGates[n]) \subseteq Notes(log, "gate.pass", n, 1..p)
  BY <1>1, SinceNotes
<1>6. Members(PostGates[n]) \subseteq Notes(log, "gate.pass", n, p..Len(log))
  <2>1. Len(PostGates[n]) \in Nat
    BY <1>0, InstanceAssumption
  <2>2. \A h \in 1..Len(PostGates[n]) : h < Len(PostGates[n]) + 1
    BY <2>1
  <2>3. \A h \in 1..Len(PostGates[n]) : h < Len(PostGates[n]) + 1 =>
          PostGates[n][h] \in Notes(log, "gate.pass", n, p..Len(log))
    BY <1>1, SinceNotes
  <2> QED  BY <2>2, <2>3 DEF Members
<1>7. Notes(log, "handoff.accept", n, p..Len(log)) = Members(Succs[n])
  <2>1. Len(Succs[n]) \in Nat
    BY <1>0, WavesAssumption
  <2>2. \A d \in 1..Len(Succs[n]) : d < Len(Succs[n]) + 1
    BY <2>1
  <2>3. Notes(log, "handoff.accept", n, p..Len(log)) = Routes(n, Len(Succs[n]) + 1)
    BY <1>1, SinceNotes
  <2>4. Routes(n, Len(Succs[n]) + 1) = Members(Succs[n])
    BY <2>2 DEF Routes, Members
  <2> QED  BY <2>3, <2>4
<1>8. Where(log, "gate.fail", n) \cap (p..Len(log)) = {}
  BY <1>1 DEF Since
<1> HIDE DEF n
<1>a. calls # {}
  BY <1>1
<1>b. Members(PreGates[n]) \subseteq {log[i].at : i \in At("gate.pass", n) \cap (1..last)}
  <2> HIDE DEF last
  <2> QED  BY <1>4, <1>5, <1>9 DEF Notes
<1>c. Members(PostGates[n]) \subseteq {log[i].at : i \in At("gate.pass", n) \cap (last..Len(log))}
  <2> HIDE DEF last
  <2> QED  BY <1>4, <1>6, <1>9 DEF Notes
<1>d. {log[i].at : i \in At("handoff.accept", n) \cap (last..Len(log))} = Members(Succs[n])
  <2> HIDE DEF last
  <2> QED  BY <1>4, <1>7, <1>9 DEF Notes
<1>e. At("gate.fail", n) \cap (last..Len(log)) = {}
  <2> HIDE DEF last
  <2> QED  BY <1>4, <1>8, <1>9
<1> QED  BY <1>a, <1>b, <1>c, <1>d, <1>e, Zenon DEF n

-----------------------------------------------------------------------------
(* The ledger. *)

(* Every event has its tokens. *)
LEMMA TokensCount ==
  ASSUME NEW t \in Seq(LoggedEvent)
  PROVE  \A i \in 1..Len(t) : t[i].tok \in Nat
<1>1. \A i \in 1..Len(t) : t[i] \in LoggedEvent
  OBVIOUS
<1> QED  BY <1>1 DEF LoggedEvent

(* An event adds its tokens to the bill of its node. *)
LEMMA ShareGrows ==
  ASSUME NEW t \in Seq(LoggedEvent), NEW e \in LoggedEvent, NEW N
  PROVE  /\ TraceSpend(t, N) \in Nat
         /\ TraceSpend(Append(t, e), N) = TraceSpend(t, N) + IF e.node \in N THEN e.tok ELSE 0
<1> DEFINE f == IF e.node \in N THEN e ELSE [e EXCEPT !.tok = 0]
           b == Share(t, N)
<1>1. f \in LoggedEvent /\ f.tok = IF e.node \in N THEN e.tok ELSE 0
  BY DEF LoggedEvent
<1>2. b \in Seq(LoggedEvent) /\ Len(b) = Len(t)
  <2>1. \A k \in 1..Len(t) : [t[k] EXCEPT !.tok = 0] \in LoggedEvent /\ t[k] \in LoggedEvent
    <3> SUFFICES ASSUME NEW k \in 1..Len(t)
                 PROVE  [t[k] EXCEPT !.tok = 0] \in LoggedEvent /\ t[k] \in LoggedEvent
      OBVIOUS
    <3>1. t[k] \in LoggedEvent
      OBVIOUS
    <3> QED  BY <3>1 DEF LoggedEvent
  <2> QED  BY <2>1 DEF Share
<1>3. Share(Append(t, e), N) = Append(b, f)
  BY DEF Share
<1>4. \A i \in 1..Len(b) : b[i].tok \in Nat
  BY <1>2, TokensCount
<1>5. TraceSpend(t, N) = Spend(b) /\ TraceSpend(Append(t, e), N) = Spend(Append(b, f))
  <2>1. TraceSpend(t, N) = Spend(Share(t, N))
    BY DEF TraceSpend, Spend
  <2>2. TraceSpend(Append(t, e), N) = Spend(Share(Append(t, e), N))
    BY DEF TraceSpend, Spend
  <2> QED  BY <1>3, <2>1, <2>2
<1> HIDE DEF b, f
<1>6. f.tok \in Nat
  BY <1>1 DEF LoggedEvent
<1>7. Spend(b) \in Nat /\ Spend(Append(b, f)) = Spend(b) + f.tok
  BY <1>1, <1>2, <1>4, <1>6, SpendNatural, SpendAppend
<1> QED  BY <1>1, <1>5, <1>7

(* Only a call adds tokens to anyone's bill. *)
LEMMA SpendGrows ==
  ASSUME IInv, IInv', Step
  PROVE  /\ ~Calls => \A N : TraceSpend(log', N) = TraceSpend(log, N)
         /\ Calls => /\ log' # <<>> /\ log'[Len(log')].kind = "llm.call"
                     /\ log'[Len(log')].node = node /\ log'[Len(log')].tok = loc.turn.tok
                     /\ SubSeq(log', 1, Len(log') - 1) = log
<1>1. LogOK /\ LogOK' /\ log \in Seq(LoggedEvent) /\ log' \in Seq(LoggedEvent)
  BY DEF IInv, LogOK
<1>2. CASE Calls
  <2>1. Adds("llm.call", node, "", loc.turn.tok)
    BY <1>2 DEF Calls
  <2>2. /\ Len(log) \in Nat /\ Len(log') = Len(log) + 1
        /\ \A i \in 1..Len(log) : log'[i] = log[i]
        /\ log'[Len(log) + 1].kind = "llm.call" /\ log'[Len(log) + 1].node = node
        /\ log'[Len(log) + 1].tok = loc.turn.tok
    BY <1>1, <2>1, Grown
  <2>3. SubSeq(log', 1, Len(log') - 1) = log
    BY <1>1, <2>2
  <2>4. log' # <<>>
    BY <2>2
  <2> QED  BY <1>2, <2>2, <2>3, <2>4
<1>3. CASE ~Calls
  <2>1. ASSUME NEW k, NEW n, NEW at, NEW tok, Adds(k, n, at, tok), Fits(k, n, at, tok), NEW N
        PROVE  TraceSpend(log', N) = TraceSpend(log, N)
    <3> DEFINE e == Event(k, n, at, tok, Given(k, at))
    <3>1. log' = Append(log, e)
      BY <2>1 DEF Adds
    <3>2. e.tok = 0
      <4>1. tok = 0
        BY <1>3, <2>1 DEF Fits
      <4> QED  BY <4>1 DEF Event
    <3>3. e \in LoggedEvent
      <4>1. log'[Len(log) + 1] = e /\ Len(log) + 1 \in 1..Len(log')
        <5>1. /\ Len(log) \in Nat /\ Len(log') = Len(log) + 1
              /\ log'[Len(log) + 1] = Event(k, n, at, tok, Given(k, at))
          BY <1>1, <2>1, Grown
        <5> QED  BY <5>1
      <4> HIDE DEF e
      <4> QED  BY <1>1, <4>1
    <3> HIDE DEF e
    <3>4. /\ TraceSpend(log, N) \in Nat
          /\ TraceSpend(Append(log, e), N) = TraceSpend(log, N) + IF e.node \in N THEN e.tok ELSE 0
      BY <1>1, <3>3, ShareGrows
    <3> QED  BY <3>1, <3>2, <3>4
  <2>2. CASE log' = log
    BY <1>3, <2>2
  <2>3. CASE \E k, n, at, tok : Adds(k, n, at, tok) /\ Fits(k, n, at, tok)
    BY <1>3, <2>1, <2>3
  <2> QED  BY <2>2, <2>3, StepEvent
<1> QED  BY <1>2, <1>3

(* The ledger's turn books the call that it lacks. *)
LEMMA CallBooked ==
  ASSUME IInv, Unbooked, pc = "meter", log' = log, node' = node, log[Len(log)].node = node,
         Meter(Role[node], log[Len(log)].tok)
  PROVE  Booked(log)'
<1> DEFINE n == Len(log)
           t == SubSeq(log, 1, n - 1)
           tok == log[n].tok
<1>1. /\ log \in Seq(LoggedEvent) /\ n \in Nat \ {0} /\ log[n] \in LoggedEvent
      /\ t \in Seq(LoggedEvent) /\ log = Append(t, log[n])
  <2>1. log \in Seq(LoggedEvent) /\ log # <<>>
    BY DEF IInv, LogOK, Unbooked
  <2>2. n \in Nat \ {0} /\ log[n] \in LoggedEvent
    BY <2>1
  <2>3. t \in Seq(LoggedEvent) /\ Len(t) = n - 1 /\ \A i \in 1..(n - 1) : t[i] = log[i]
    <3>1. 1 \in Int /\ n - 1 \in Int /\ \A i \in 1..(n - 1) : log[i] \in LoggedEvent
      BY <2>1, <2>2
    <3> HIDE DEF n
    <3>2. /\ t \in Seq(LoggedEvent) /\ Len(t) = IF 1 <= n - 1 THEN n - 1 - 1 + 1 ELSE 0
          /\ \A i \in 1..(n - 1 - 1 + 1) : t[i] = log[1 + i - 1]
      BY <3>1, SubSeqProperties
    <3>3. n - 1 - 1 + 1 = n - 1 /\ (~(1 <= n - 1) => n - 1 = 0) /\ \A i \in 1..(n - 1) : 1 + i - 1 = i
      BY <2>2
    <3> HIDE DEF t
    <3> QED  BY <3>2, <3>3
  <2>4. log = Append(t, log[n])
    <3> HIDE DEF t
    <3> QED  BY <2>1, <2>2, <2>3
  <2> QED  BY <2>1, <2>2, <2>3, <2>4
<1>2. Booked(t)
  BY DEF Unbooked
<1> HIDE DEF t
<1>3. \A N : TraceSpend(log, N) = TraceSpend(t, N) + IF log[n].node \in N THEN log[n].tok ELSE 0
  <2> TAKE N
  <2>1. TraceSpend(Append(t, log[n]), N)
          = TraceSpend(t, N) + IF log[n].node \in N THEN log[n].tok ELSE 0
    BY <1>1, ShareGrows
  <2> QED  BY <1>1, <2>1
<1>4. node \in Nodes /\ Role[node] \in Roles /\ agentSpent \in [Roles -> Nat]
  <2>1. node \in Nodes
    BY FreshNode DEF Fresh
  <2> QED  BY <2>1, InstanceAssumption DEF IInv, Quiet, BudgetTypeOK
<1>5. /\ sessionSpent' = sessionSpent + tok /\ teamSpent' = teamSpent + tok
      /\ agentSpent' = [agentSpent EXCEPT ![Role[node]] = @ + tok]
  BY DEF Meter, RecordEntry
<1>6. tok \in Nat
  BY <1>1 DEF LoggedEvent
<1> HIDE DEF tok
<1>7. TraceSpend(log, Nodes) = TraceSpend(t, Nodes) + tok
  BY <1>3, <1>4 DEF tok
<1>8. ASSUME NEW r \in Roles
      PROVE  TraceSpend(log, {m \in Nodes : Role[m] = r}) = agentSpent'[r]
  <2> DEFINE N == {m \in Nodes : Role[m] = r}
  <2>1. TraceSpend(t, N) = agentSpent[r]
    BY <1>2 DEF Booked
  <2>2. node \in N <=> r = Role[node]
    BY <1>4
  <2> HIDE DEF N
  <2>3. TraceSpend(log, N) = TraceSpend(t, N) + IF node \in N THEN tok ELSE 0
    BY <1>3 DEF tok
  <2>4. agentSpent'[r] = IF r = Role[node] THEN agentSpent[r] + tok ELSE agentSpent[r]
    BY <1>4, <1>5
  <2>5. agentSpent[r] \in Nat
    BY <1>4
  <2>6. TraceSpend(log, N) = agentSpent'[r]
    BY <1>6, <2>1, <2>2, <2>3, <2>4, <2>5
  <2> QED  BY <2>6 DEF N
<1>9. TraceSpend(t, Nodes) = sessionSpent /\ TraceSpend(t, Nodes) = teamSpent
  BY <1>2 DEF Booked
<1> QED  BY <1>5, <1>7, <1>8, <1>9 DEF Booked

(* A ledger row of no tokens books nothing. *)
LEMMA NothingBooked ==
  ASSUME IInv, pc = "settle", Meter(Role[node], 0)
  PROVE  UNCHANGED <<sessionSpent, teamSpent, agentSpent>>
<1>1. /\ sessionSpent \in Nat /\ teamSpent \in Nat /\ agentSpent \in [Roles -> Nat]
      /\ Role[node] \in Roles
  <2>1. node \in Nodes
    BY NodeType DEF IInv, Quiet, Position, Passed
  <2> QED  BY <2>1, InstanceAssumption DEF IInv, Quiet, BudgetTypeOK
<1>2. /\ sessionSpent' = sessionSpent + 0 /\ teamSpent' = teamSpent + 0
      /\ agentSpent' = [agentSpent EXCEPT ![Role[node]] = @ + 0]
  BY DEF Meter, RecordEntry
<1>3. agentSpent' = agentSpent
  BY <1>1, <1>2
<1> QED  BY <1>1, <1>2, <1>3

(* What a step adds to the warnings. *)
LEMMA WarnsGrow ==
  ASSUME IInv, IInv', Step
  PROVE  /\ Cardinality(Warns(log)) \in Nat
         /\ WarnsOnce => Cardinality(Warns(log')) = Cardinality(Warns(log)) + 1
         /\ ~WarnsOnce => Warns(log') = Warns(log)
<1>1. LogOK /\ LogOK' /\ Len(log) \in Nat
  BY DEF IInv, LogOK
<1>2. IsFiniteSet(Warns(log)) /\ Warns(log) \subseteq 1..Len(log)
  <2>1. Warns(log) \subseteq 1..Len(log)
    BY DEF Warns, Where
  <2>2. IsFiniteSet(1..Len(log))
    BY <1>1, FS_Interval
  <2> QED  BY <2>1, <2>2, FS_Subset
<1>3. Cardinality(Warns(log)) \in Nat
  BY <1>2, FS_CardinalityType
<1>4. ASSUME NEW k, NEW n, NEW at, NEW tok, Adds(k, n, at, tok), Fits(k, n, at, tok)
      PROVE  Warns(log') = IF WarnsOnce THEN Warns(log) \cup {Len(log) + 1} ELSE Warns(log)
  <2>1. /\ Len(log') = Len(log) + 1 /\ \A i \in 1..Len(log) : log'[i] = log[i]
        /\ log'[Len(log) + 1].at = at
    BY <1>1, <1>4, Grown
  <2>2. /\ Where(log', "budget.event", "session") =
             IF "budget.event" = k /\ "session" = n
             THEN Where(log, "budget.event", "session") \cup {Len(log) + 1}
             ELSE Where(log, "budget.event", "session")
        /\ Where(log, "budget.event", "session") \subseteq 1..Len(log)
    BY <1>1, <1>4, WhereGrows
  <2>3. k = "budget.event" => n = "session" /\ (at = "warn" <=> WarnsOnce)
    BY <1>4 DEF Fits
  <2>4. WarnsOnce => k = "budget.event" /\ n = "session" /\ at = "warn"
    <3> SUFFICES ASSUME WarnsOnce PROVE k = "budget.event" /\ n = "session" /\ at = "warn"
      OBVIOUS
    <3>1. Adds("budget.event", "session", "warn", 0)
      BY DEF WarnsOnce
    <3>2. /\ log'[Len(log) + 1].kind = "budget.event" /\ log'[Len(log) + 1].node = "session"
          /\ log'[Len(log) + 1].at = "warn"
      BY <1>1, <3>1, Grown
    <3>3. /\ log'[Len(log) + 1].kind = k /\ log'[Len(log) + 1].node = n
          /\ log'[Len(log) + 1].at = at
      BY <1>1, <1>4, Grown
    <3> QED  BY <3>2, <3>3
  <2> QED  BY <2>1, <2>2, <2>3, <2>4 DEF Warns
<1>5. CASE WarnsOnce
  <2>1. PICK k, n, at, tok : Adds(k, n, at, tok) /\ Fits(k, n, at, tok)
    BY <1>5, StepEvent
  <2>2. Warns(log') = Warns(log) \cup {Len(log) + 1}
    BY <1>4, <1>5, <2>1
  <2>3. Len(log) + 1 \notin Warns(log)
    BY <1>1, <1>2
  <2>4. Cardinality(Warns(log')) = Cardinality(Warns(log)) + 1
    BY <1>2, <2>2, <2>3, FS_AddElement
  <2> QED  BY <1>3, <1>5, <2>4
<1>6. CASE ~WarnsOnce
  <2>1. CASE log' = log
    BY <1>3, <1>6, <2>1 DEF Warns
  <2>2. CASE \E k, n, at, tok : Adds(k, n, at, tok) /\ Fits(k, n, at, tok)
    BY <1>3, <1>4, <1>6, <2>2
  <2> QED  BY <2>1, <2>2, StepEvent
<1> QED  BY <1>5, <1>6

(* A warning fires one scope more, no other verdict any. *)
LEMMA WarnFires ==
  ASSUME IInv, NEW role, NEW tok, Meter(role, tok)
  PROVE  /\ Cardinality(warnFired) \in Nat
         /\ MeterVerdict(role, tok) = "warn" => Cardinality(warnFired') = Cardinality(warnFired) + 1
         /\ MeterVerdict(role, tok) # "warn" => warnFired' = warnFired
<1> DEFINE unfired == UnfiredWarns(role, sessionSpent + tok, teamSpent + tok, agentSpent[role] + tok)
<1>1. warnFired \subseteq Scopes
  BY DEF IInv, Quiet, BudgetTypeOK
<1>2. IsFiniteSet(Scopes)
  <2>1. Scopes = ({"session"} \cup {"team"}) \cup {"agent"}
    BY DEF Scopes
  <2> QED  BY <2>1, FS_Singleton, FS_Union
<1>3. IsFiniteSet(warnFired) /\ Cardinality(warnFired) \in Nat
  BY <1>1, <1>2, FS_Subset, FS_CardinalityType
<1>4. MeterVerdict(role, tok) = "warn" => unfired # {}
  BY DEF MeterVerdict, Evaluation
<1>5. unfired \subseteq Scopes \ warnFired
  BY DEF UnfiredWarns
<1>6. warnFired' = IF MeterVerdict(role, tok) = "warn"
                   THEN warnFired \cup {FirstScope(unfired)} ELSE warnFired
  BY DEF Meter
<1> HIDE DEF unfired
<1>7. unfired # {} => FirstScope(unfired) \in unfired
  BY <1>5 DEF FirstScope, Scopes
<1>8. CASE MeterVerdict(role, tok) = "warn"
  <2>1. FirstScope(unfired) \notin warnFired
    BY <1>4, <1>5, <1>7, <1>8
  <2>2. Cardinality(warnFired \cup {FirstScope(unfired)}) = Cardinality(warnFired) + 1
    BY <1>3, <2>1, FS_AddElement
  <2> QED  BY <1>3, <1>6, <1>8, <2>2
<1> QED  BY <1>3, <1>6, <1>8

(* Only a call adds tokens to the trace, and the next step but a crash     *)
(* adds them to every sum; only WarnsOnce adds a warning, and only after a *)
(* verdict that fired a scope.                                             *)
LEMMA MeteredStep == ASSUME IInv, IInv', Step, Metered PROVE Metered'
<1>1. ~Calls => \A N : TraceSpend(log', N) = TraceSpend(log, N)
  BY SpendGrows
<1>2. Cardinality(Warns(log)) \in Nat /\ Cardinality(warnFired) \in Nat
  <2>1. IsFiniteSet(Scopes)
    <3>1. Scopes = ({"session"} \cup {"team"}) \cup {"agent"}
      BY DEF Scopes
    <3> QED  BY <3>1, FS_Singleton, FS_Union
  <2>2. warnFired \subseteq Scopes
    BY DEF IInv, Quiet, BudgetTypeOK
  <2> QED  BY <2>1, <2>2, WarnsGrow, FS_Subset, FS_CardinalityType
<1>3. CASE Calls
  <2>1. /\ pc = "call" /\ pc' = "meter" /\ loc' = loc /\ node' = node
        /\ UNCHANGED <<sessionSpent, teamSpent, agentSpent, warnFired>> /\ ~WarnsOnce
    BY <1>3 DEF Calls, Stay, TraceOnly, budgetVars, WarnsOnce
  <2>2. /\ log' # <<>> /\ log'[Len(log')].kind = "llm.call"
        /\ log'[Len(log')].node = node /\ log'[Len(log')].tok = loc.turn.tok
        /\ SubSeq(log', 1, Len(log') - 1) = log
    BY <1>3, SpendGrows
  <2>3. Booked(log)
    BY <2>1 DEF Metered
  <2>4. Unbooked'
    <3>1. sessionSpent' = sessionSpent /\ teamSpent' = teamSpent /\ agentSpent' = agentSpent
      BY <2>1
    <3>2. Booked(SubSeq(log, 1, Len(log) - 1))'
      BY <2>2, <2>3, <3>1 DEF Booked
    <3> QED  BY <2>2, <3>2 DEF Unbooked
  <2>5. Warns(log') = Warns(log)
    BY <2>1, WarnsGrow
  <2> QED  BY <1>2, <2>1, <2>2, <2>4, <2>5 DEF Metered
<1>4. CASE Meters
  <2>1. /\ pc = "meter" /\ pc' = IF MeterVerdict(Role[node], loc.turn.tok) = "warn" THEN "warn" ELSE "post"
        /\ log' = log /\ node' = node /\ Meter(Role[node], loc.turn.tok) /\ ~WarnsOnce
    BY <1>4 DEF Meters, Stay, WarnsOnce
  <2>2. Booked(log)'
    <3>1. Unbooked /\ log[Len(log)].node = node /\ log[Len(log)].tok = loc.turn.tok
      BY <2>1 DEF Metered
    <3>2. Meter(Role[node], log[Len(log)].tok)
      BY <2>1, <3>1
    <3> QED  BY <2>1, <3>1, <3>2, CallBooked
  <2>3. Warns(log') = Warns(log)
    BY <2>1, WarnsGrow
  <2>4. /\ MeterVerdict(Role[node], loc.turn.tok) = "warn" =>
             Cardinality(warnFired') = Cardinality(warnFired) + 1
        /\ MeterVerdict(Role[node], loc.turn.tok) # "warn" => warnFired' = warnFired
    BY <2>1, WarnFires
  <2> QED  BY <1>2, <2>1, <2>2, <2>3, <2>4 DEF Metered
<1>5. CASE Settles
  <2>1. /\ pc = "settle" /\ pc' \in {"suspend", "stop"}
        /\ log' = log /\ Meter(Role[node], 0) /\ ~WarnsOnce
    BY <1>5 DEF Settles, WarnsOnce
  <2>2. Booked(log)'
    <3>1. UNCHANGED <<sessionSpent, teamSpent, agentSpent>>
      BY <2>1, NothingBooked
    <3>2. Booked(log)
      BY <2>1 DEF Metered
    <3> QED  BY <2>1, <3>1, <3>2 DEF Booked
  <2>3. Warns(log') = Warns(log)
    BY <2>1, WarnsGrow
  <2>4. Cardinality(warnFired') = Cardinality(warnFired) \/ Cardinality(warnFired') = Cardinality(warnFired) + 1
    BY <2>1, WarnFires
  <2> QED  BY <1>2, <2>1, <2>2, <2>3, <2>4 DEF Metered
<1>6. CASE WarnsOnce
  <2>1. /\ pc = "warn" /\ pc' = "post" /\ ~Calls
        /\ UNCHANGED <<sessionSpent, teamSpent, agentSpent, warnFired>>
    BY <1>6 DEF WarnsOnce, TraceOnly, budgetVars, Calls
  <2>2. Booked(log)'
    <3>1. sessionSpent' = sessionSpent /\ teamSpent' = teamSpent /\ agentSpent' = agentSpent
      BY <2>1
    <3>2. Booked(log)
      BY <2>1 DEF Metered
    <3> QED  BY <1>1, <2>1, <3>1, <3>2 DEF Booked
  <2>3. Cardinality(Warns(log')) = Cardinality(Warns(log)) + 1
    BY <1>6, WarnsGrow
  <2> QED  BY <1>2, <2>1, <2>2, <2>3 DEF Metered
<1>7. CASE ~Calls /\ ~Meters /\ ~Settles /\ ~WarnsOnce
  <2>1. /\ sessionSpent' = sessionSpent /\ teamSpent' = teamSpent /\ agentSpent' = agentSpent
        /\ warnFired' = warnFired /\ Warns(log') = Warns(log)
    BY <1>7, RunFrames, WarnsGrow
  <2>2. pc' # "warn" \/ pc = "warn"
    BY <1>7 DEF Step, Opens, Loops, Starts, PrePasses, Suspends, Aborts, Retries, Begins, Executes,
       PostPasses, Exhausts, Requests, Hands, Commits, Responds, Stops, Ends, Closes,
       Signals, Dies, Idles, OpenPCs
  <2>3. pc \in {"meter", "dead"} => (pc' = pc \/ pc' = "dead") /\ log' = log /\ loc' = loc /\ node' = node
    BY <1>7 DEF Step, Opens, Loops, Starts, PrePasses, Suspends, Aborts, Retries, Begins, Executes,
       PostPasses, Exhausts, Requests, Hands, Commits, Responds, Stops, Ends, Closes,
       Signals, Dies, Idles, OpenPCs, Stay, Fallible
  <2>4. pc \notin {"meter", "dead"} => pc' # "meter"
    BY <1>7 DEF Step, Opens, Loops, Starts, PrePasses, Suspends, Aborts, Retries, Begins, Executes,
       PostPasses, Exhausts, Requests, Hands, Commits, Responds, Stops, Ends, Closes,
       Signals, Dies, Idles, OpenPCs
  <2>5. Booked(log) => Booked(log)'
    BY <1>1, <1>7, <2>1 DEF Booked
  <2>6. log' = log /\ Unbooked => Unbooked'
    BY <2>1 DEF Unbooked, Booked
  <2>7. CASE pc \in {"meter", "dead"}
    BY <1>2, <2>1, <2>3, <2>5, <2>6, <2>7 DEF Metered
  <2>8. CASE pc \notin {"meter", "dead"}
    BY <1>2, <2>1, <2>2, <2>4, <2>5, <2>8 DEF Metered
  <2> QED  BY <2>7, <2>8
<1> QED  BY <1>3, <1>4, <1>5, <1>6, <1>7

(* It is what the property asks for. *)
LEMMA LedgerTold == ASSUME IInv, Metered PROVE LedgerMatchesTrace
<1>1. Booked(log) \/ Unbooked
  BY DEF Metered
<1>2. {i \in At("budget.event", "session") : log[i].at = "warn"} = Warns(log)
  BY DEF At, Where, Warns
<1>3. Cardinality(Warns(log)) <= Cardinality(warnFired)
  BY DEF Metered
<1> QED  BY <1>1, <1>2, <1>3, Zenon DEF LedgerMatchesTrace, Unbooked

-----------------------------------------------------------------------------
(* The handoffs. *)

(* The acceptances of a step. *)
LEMMA AcceptsGrow ==
  ASSUME IInv, IInv', Step, NEW n
  PROVE  /\ Len(log) \in Nat /\ Where(log, "handoff.accept", n) \subseteq 1..Len(log)
         /\ \A i \in 1..Len(log) : log'[i] = log[i]
         /\ Hands /\ n = node =>
              /\ Where(log', "handoff.accept", n) = Where(log, "handoff.accept", n) \cup {Len(log) + 1}
              /\ log'[Len(log) + 1].at = Succs[node][loc.edge]
         /\ ~Hands \/ n # node => Where(log', "handoff.accept", n) = Where(log, "handoff.accept", n)
<1>1. LogOK /\ LogOK' /\ Len(log) \in Nat
  BY DEF IInv, LogOK
<1>2. Where(log, "handoff.accept", n) \subseteq 1..Len(log)
  BY DEF Where
<1>3. CASE log' = log /\ ~Hands
  BY <1>1, <1>2, <1>3
<1>4. CASE \E k, m, at, tok : Adds(k, m, at, tok) /\ Fits(k, m, at, tok)
  <2>1. PICK k, m, at, tok : Adds(k, m, at, tok) /\ Fits(k, m, at, tok)
    BY <1>4
  <2>2. (k = "handoff.accept" <=> Hands) /\ (Hands => m = node)
    BY <2>1 DEF Fits
  <2>3. \A i \in 1..Len(log) : log'[i] = log[i]
    BY <1>1, <2>1, Grown
  <2>4. Hands => log'[Len(log) + 1].at = Succs[node][loc.edge]
    <3>1. Hands => Adds("handoff.accept", node, Succs[node][loc.edge], 0)
      BY DEF Hands
    <3> QED  BY <1>1, <3>1, Grown
  <2>5. Where(log', "handoff.accept", n) = IF "handoff.accept" = k /\ n = m
              THEN Where(log, "handoff.accept", n) \cup {Len(log) + 1}
              ELSE Where(log, "handoff.accept", n)
    BY <1>1, <2>1, WhereGrows
  <2> QED  BY <1>1, <1>2, <2>2, <2>3, <2>4, <2>5
<1> QED  BY <1>3, <1>4, StepEvent

(* A handoff: from the node of the boundary along its next edge. *)
LEMMA HandsEdge ==
  ASSUME IInv, pc = "decide"
  PROVE  /\ node \in Nodes /\ loc.edge \in 1..Len(Succs[node]) /\ Len(Succs[node]) \in Nat
         /\ Succs[node][loc.edge] \in Nodes
         /\ node \in Preds(Succs[node][loc.edge]) /\ Succs[node][loc.edge] # node
<1>1. node \in Nodes /\ loc.edge \in 1..Len(Succs[node])
  BY FreshNode DEF Fresh, IInv, Indices
<1>2. Succs[node] \in Seq(Nodes)
  BY <1>1, WavesAssumption
<1>3. Succs[node][loc.edge] \in Nodes /\ node \in Preds(Succs[node][loc.edge])
  BY <1>1, <1>2 DEF Preds, Members
<1> QED  BY <1>1, <1>2, <1>3, PlanOrder

(* Whoever handed over to a node of the plan stands before it. *)
LEMMA SendersBefore ==
  ASSUME Routed, NEW n \in Nodes
  PROVE  Senders(log, n) \subseteq Preds(n) /\ Senders(log, n) \subseteq Before(n)
<1>1. Senders(log, n) \subseteq Preds(n)
  BY DEF Routed, Senders, Preds
<1> QED  BY <1>1, PlanOrder

(* The senders of a node after a step. *)
LEMMA SendersGrow ==
  ASSUME IInv, IInv', Step, NEW n
  PROVE  /\ Hands /\ n = Succs[node][loc.edge] => Senders(log', n) = Senders(log, n) \cup {node}
         /\ ~Hands \/ n # Succs[node][loc.edge] => Senders(log', n) = Senders(log, n)
<1> DEFINE to == Succs[node][loc.edge]
<1>1. Hands => node \in Nodes
  BY HandsEdge DEF Hands
<1>2. ASSUME NEW m \in Nodes
      PROVE  /\ Hands /\ n = to => (m \in Senders(log', n) <=> m \in Senders(log, n) \/ m = node)
             /\ ~Hands \/ n # to => (m \in Senders(log', n) <=> m \in Senders(log, n))
  <2>1. /\ Len(log) \in Nat /\ Where(log, "handoff.accept", m) \subseteq 1..Len(log)
        /\ \A i \in 1..Len(log) : log'[i] = log[i]
    BY AcceptsGrow
  <2>2. m \in Senders(log, n) <=> \E i \in Where(log, "handoff.accept", m) : log[i].at = n
    BY DEF Senders
  <2>3. m \in Senders(log', n) <=> \E i \in Where(log', "handoff.accept", m) : log'[i].at = n
    BY DEF Senders
  <2>4. CASE Hands /\ m = node
    <3>1. /\ Where(log', "handoff.accept", m) = Where(log, "handoff.accept", m) \cup {Len(log) + 1}
          /\ log'[Len(log) + 1].at = to
      BY <2>4, AcceptsGrow
    <3> HIDE DEF to
    <3> QED  BY <2>1, <2>2, <2>3, <2>4, <3>1
  <2>5. CASE ~Hands \/ m # node
    <3>1. Where(log', "handoff.accept", m) = Where(log, "handoff.accept", m)
      BY <2>5, AcceptsGrow
    <3> HIDE DEF to
    <3> QED  BY <2>1, <2>2, <2>3, <2>5, <3>1
  <2> QED  BY <2>4, <2>5
<1>3. Senders(log, n) \subseteq Nodes /\ Senders(log', n) \subseteq Nodes
  BY DEF Senders
<1> HIDE DEF to
<1>4. Hands /\ n = to => Senders(log', n) = Senders(log, n) \cup {node}
  BY <1>1, <1>2, <1>3
<1>5. ~Hands \/ n # to => Senders(log', n) = Senders(log, n)
  BY <1>2, <1>3
<1> QED  BY <1>4, <1>5 DEF to

(* Every pair of the window goes along the plan, so the guard against      *)
(* recurrence stays silent.                                                *)
LEMMA NoRecurrence ==
  ASSUME IInv, Routed, pc = "decide"
  PROVE  Evaluate(node, Succs[node][loc.edge]) # "REPETITIVE_HANDOFF"
<1> DEFINE to == Succs[node][loc.edge]
<1>1. /\ node \in Nodes /\ loc.edge \in 1..Len(Succs[node]) /\ Len(Succs[node]) \in Nat
      /\ to \in Nodes /\ node \in Preds(to)
  BY HandsEdge
<1>2. ASSUME NEW x \in 1..Len(window), window[x] = <<node, to>> PROVE FALSE
  <2>1. node \in Senders(log, to)
    BY <1>2 DEF Routed
  <2>2. PICK i \in Where(log, "handoff.accept", node) : log[i].at = to
    BY <2>1 DEF Senders
  <2>3. PICK d \in 1..Len(Succs[node]) : d < loc.edge /\ log[i].at = Succs[node][d]
    BY <2>2 DEF Routed
  <2>4. d = loc.edge
    BY <1>1, <2>2, <2>3, WavesAssumption
  <2> QED  BY <1>1, <2>3, <2>4
<1>3. ASSUME NEW x \in 1..Len(window), window[x] = <<to, node>> PROVE FALSE
  <2>1. to \in Senders(log, node)
    BY <1>3 DEF Routed
  <2>2. to \in Committed
    BY <1>1, <2>1, SendersBefore, BoundaryRows DEF Fresh
  <2>3. PICK k \in 1..Len(wal) : wal[k].node = to
    BY <2>2 DEF Committed
  <2>4. node \in Before(to)
    BY <1>1, PlanOrder
  <2>5. node \in CommittedBefore(k)
    <3>1. CommittedBefore(k) = Before(wal[k].node)
      BY DEF IInv, Quiet, Rows, CommitOrder
    <3> QED  BY <2>3, <2>4, <3>1
  <2>6. node \in Committed
    <3>1. Len(wal) \in Nat
      BY RowsDistinct
    <3> QED  BY <2>5, <3>1 DEF CommittedBefore, Committed
  <2> QED  BY <2>6, BoundaryRows DEF Fresh
<1>4. ~Repeated(node, to)
  BY <1>2, <1>3 DEF Repeated
<1>5. halted # "REPETITIVE_HANDOFF"
  BY DEF Routed
<1> QED  BY <1>4, <1>5 DEF Evaluate

(* A boundary that does not route has handed over nothing. *)
LEMMA NothingHanded ==
  ASSUME IInv, IInv', Step, Untouched, Backing, Routed, pc' \in Fresh \ {"route", "decide"}
  PROVE  Where(log', "handoff.accept", node') = {}
<1>1. ~Hands
  BY DEF Hands
<1>2. Where(log', "handoff.accept", node') = Where(log, "handoff.accept", node')
  BY <1>1, AcceptsGrow
<1>3. CASE Retries /\ pc = "decide"
  <2>1. loc.turn.conf = "low" /\ node' = node /\ loc.edge \in Nat \ {0}
    BY <1>3 DEF Retries, Stay, IInv, CtlOK, Locals
  <2>2. loc.edge = 1
    BY <1>3, <2>1 DEF Routed
  <2>3. \A i \in Where(log, "handoff.accept", node) :
          \E d \in 1..Len(Succs[node]) : d < loc.edge
    BY <1>3 DEF Routed
  <2> QED  BY <1>2, <2>1, <2>2, <2>3
<1>4. CASE Loops
  <2>1. /\ pc \in {"wave", "node"} /\ pc' = "start"
        /\ UNCHANGED <<wave, idx, cursor, wavePos>>
    <3>1. pc \in {"wave", "node"} /\ TraceOnly /\ pc' \notin {"finish", "wave", "node"}
      BY <1>4 DEF Loops, Fresh
    <3>2. pc' = "start" /\ ~interrupt /\ Stay
      BY <1>4, <3>1 DEF Loops
    <3>3. UNCHANGED <<wave, idx, cursor, wavePos>>
      BY <3>1, <3>2 DEF Stay, TraceOnly, engineVars
    <3> QED  BY <3>1, <3>2, <3>3
  <2>2. AtNode'
    BY <2>1 DEF IInv, Position, Fresh
  <2>3. AtNode
    BY <2>1, <2>2 DEF AtNode, InWave
  <2>4. node \in Nodes /\ node \notin Committed
    BY <2>3, AtNodeRows
  <2>5. \A i \in 1..Len(log) : log[i].node # node
    BY <2>1, <2>4 DEF Untouched, Ahead, Going, Boundary, Fresh
  <2>6. node' = node
    BY <2>1 DEF node
  <2> QED  BY <1>2, <2>5, <2>6 DEF Where
<1>5. CASE ~Loops /\ ~(Retries /\ pc = "decide")
  <2>1. pc \in Fresh \ {"route", "decide"} /\ UNCHANGED <<wave, idx>>
    <3>1. pc \in Fresh \ {"route", "decide"}
      BY <1>1, <1>5 DEF Step, Opens, Starts, PrePasses, Suspends, Aborts, Retries, Begins,
         Executes, Calls, Meters, WarnsOnce, PostPasses, Exhausts, Requests, Commits,
         Responds, Settles, Stops, Ends, Closes, Signals, Dies, Idles, OpenPCs, Fresh
    <3>2. Stops \/ UNCHANGED <<wave, idx>>
      BY <1>5 DEF Step, Opens, Starts, PrePasses, Suspends, Aborts, Retries, Begins,
         Executes, Calls, Meters, WarnsOnce, PostPasses, Exhausts, Requests, Hands, Commits,
         Responds, Settles, Ends, Closes, Signals, Dies, Idles, Stay
    <3>3. ~Stops
      BY <3>1 DEF Stops, Fresh
    <3> QED  BY <3>1, <3>2, <3>3
  <2>2. node' = node
    BY <2>1 DEF node
  <2> QED  BY <1>2, <2>1, <2>2 DEF Routed
<1> QED  BY <1>3, <1>4, <1>5

(* The window after a step: pairs that were there, or the new edge. *)
LEMMA WindowGrows ==
  ASSUME IInv, Step
  PROVE  \A x \in 1..Len(window') :
           \/ \E y \in 1..Len(window) : window'[x] = window[y]
           \/ Hands /\ window'[x] = <<node, Succs[node][loc.edge]>>
<1>1. window \in Seq(Nodes \X Nodes)
  BY DEF IInv, Quiet, RouterTypeOK
<1>2. CASE ~Hands
  BY <1>1, <1>2, DiskFrames
<1>3. CASE Hands
  <2> DEFINE e == <<node, Succs[node][loc.edge]>>
  <2>1. \/ window' = window
        \/ window' = Append(window, e)
        \/ window # <<>> /\ window' = Append(Tail(window), e)
    <3>1. window = <<>> /\ PingPongWindow # 0 => ~(Len(window) >= PingPongWindow)
      BY RouterAssumption
    <3> QED  BY <1>3, <3>1 DEF Hands, Record
  <2>2. e \in Nodes \X Nodes
    BY <1>3, HandsEdge DEF Hands
  <2> HIDE DEF e
  <2>3. CASE window' = window
    BY <1>1, <2>3
  <2>4. CASE window' = Append(window, e)
    BY <1>1, <1>3, <2>2, <2>4 DEF e
  <2>5. CASE window # <<>> /\ window' = Append(Tail(window), e)
    <3> DEFINE t == Tail(window)
    <3>1. /\ t \in Seq(Nodes \X Nodes) /\ Len(t) = Len(window) - 1 /\ Len(window) \in Nat
          /\ \A x \in 1..Len(t) : t[x] = window[x + 1] /\ x + 1 \in 1..Len(window)
      BY <1>1, <2>5
    <3>2. window' = Append(t, e)
      BY <2>5
    <3> HIDE DEF t
    <3>3. \A x \in 1..Len(window') : (x \in 1..Len(t) /\ window'[x] = t[x]) \/ window'[x] = e
      BY <2>2, <3>1, <3>2
    <3> QED  BY <1>3, <3>1, <3>3 DEF e
  <2> QED  BY <2>1, <2>3, <2>4, <2>5
<1> QED  BY <1>2, <1>3

(* A handoff goes along an edge that was not accepted before. *)
LEMMA RoutedStep == ASSUME IInv, IInv', Step, Untouched, Backing, Routed PROVE Routed'
<1>1. halted' # "REPETITIVE_HANDOFF"
  <2>1. CASE Hands
    <3>1. halted' \in {"MAX_HANDOFFS", halted}
      BY <2>1 DEF Hands, Record
    <3> QED  BY <3>1 DEF Routed
  <2>2. CASE Aborts
    <3>1. halted' = halted \/ (pc = "decide" /\ halted' = Evaluate(node, Succs[node][loc.edge]))
      BY <2>2 DEF Aborts
    <3> QED  BY <3>1, NoRecurrence DEF Routed
  <2>3. CASE ~Hands /\ ~Aborts
    BY <2>3, DiskFrames DEF Routed
  <2> QED  BY <2>1, <2>2, <2>3
<1>2. ASSUME NEW n \in Nodes
      PROVE  /\ \A i, j \in Where(log', "handoff.accept", n) : log'[i].at = log'[j].at => i = j
             /\ \A i \in Where(log', "handoff.accept", n) : log'[i].at \in Members(Succs[n])
  <2>1. /\ Len(log) \in Nat /\ Where(log, "handoff.accept", n) \subseteq 1..Len(log)
        /\ \A i \in 1..Len(log) : log'[i] = log[i]
    BY AcceptsGrow
  <2>2. /\ \A i, j \in Where(log, "handoff.accept", n) : log[i].at = log[j].at => i = j
        /\ \A i \in Where(log, "handoff.accept", n) : log[i].at \in Members(Succs[n])
    BY DEF Routed
  <2>3. CASE Hands /\ n = node
    <3>1. /\ Where(log', "handoff.accept", n) = Where(log, "handoff.accept", n) \cup {Len(log) + 1}
          /\ log'[Len(log) + 1].at = Succs[node][loc.edge]
      BY <2>3, AcceptsGrow
    <3>2. loc.edge \in 1..Len(Succs[node]) /\ Len(Succs[node]) \in Nat
      BY <2>3, HandsEdge DEF Hands
    <3>3. \A i \in Where(log, "handoff.accept", n) : log[i].at # Succs[node][loc.edge]
      <4> SUFFICES ASSUME NEW i \in Where(log, "handoff.accept", n), log[i].at = Succs[node][loc.edge]
                   PROVE  FALSE
        OBVIOUS
      <4>1. PICK d \in 1..Len(Succs[node]) : d < loc.edge /\ log[i].at = Succs[node][d]
        BY <2>3 DEF Routed, Hands
      <4>2. d = loc.edge
        BY <2>3, <3>2, <4>1, WavesAssumption
      <4> QED  BY <3>2, <4>1, <4>2
    <3>4. Succs[node][loc.edge] \in Members(Succs[n])
      BY <2>3, <3>2 DEF Members
    <3> QED  BY <2>1, <2>2, <3>1, <3>3, <3>4
  <2>4. CASE ~Hands \/ n # node
    <3>1. Where(log', "handoff.accept", n) = Where(log, "handoff.accept", n)
      BY <2>4, AcceptsGrow
    <3> QED  BY <2>1, <2>2, <3>1
  <2> QED  BY <2>3, <2>4
<1>3. ASSUME NEW x \in 1..Len(window') PROVE window'[x][1] \in Senders(log', window'[x][2])
  <2>1. CASE \E y \in 1..Len(window) : window'[x] = window[y]
    <3>1. PICK y \in 1..Len(window) : window'[x] = window[y]
      BY <2>1
    <3>2. window[y][1] \in Senders(log, window[y][2])
      BY DEF Routed
    <3>3. Senders(log, window[y][2]) \subseteq Senders(log', window[y][2])
      BY SendersGrow
    <3> QED  BY <3>1, <3>2, <3>3
  <2>2. CASE Hands /\ window'[x] = <<node, Succs[node][loc.edge]>>
    <3>1. node \in Senders(log', Succs[node][loc.edge])
      BY <2>2, SendersGrow
    <3> QED  BY <2>2, <3>1
  <2> QED  BY <2>1, <2>2, WindowGrows
<1>4. pc' \in Fresh \ {"route", "decide"} => Where(log', "handoff.accept", node') = {}
  BY NothingHanded
<1>5. pc' \in {"route", "decide"} =>
       /\ \A i \in Where(log', "handoff.accept", node') :
            \E d \in 1..Len(Succs[node']) : d < loc'.edge /\ log'[i].at = Succs[node'][d]
       /\ loc'.edge > 1 => loc'.turn.conf # "low"
  <2> SUFFICES ASSUME pc' \in {"route", "decide"}
               PROVE  /\ \A i \in Where(log', "handoff.accept", node') :
                           \E d \in 1..Len(Succs[node']) : d < loc'.edge /\ log'[i].at = Succs[node'][d]
                      /\ loc'.edge > 1 => loc'.turn.conf # "low"
    OBVIOUS
  <2>1. /\ Len(log) \in Nat /\ Where(log, "handoff.accept", node) \subseteq 1..Len(log)
        /\ \A i \in 1..Len(log) : log'[i] = log[i]
    BY AcceptsGrow
  <2>2. CASE Hands
    <3>1. /\ pc = "decide" /\ UNCHANGED <<wave, idx>> /\ loc'.edge = loc.edge + 1
          /\ loc'.turn = loc.turn /\ loc.turn.conf # "low"
      BY <2>2 DEF Hands, Stay
    <3>2. node' = node
      BY <3>1 DEF node
    <3>3. loc.edge \in 1..Len(Succs[node]) /\ Len(Succs[node]) \in Nat
      BY <3>1, HandsEdge
    <3>4. /\ Where(log', "handoff.accept", node) = Where(log, "handoff.accept", node) \cup {Len(log) + 1}
          /\ log'[Len(log) + 1].at = Succs[node][loc.edge]
      BY <2>2, AcceptsGrow
    <3>5. \A i \in Where(log, "handoff.accept", node) :
            \E d \in 1..Len(Succs[node]) : d < loc.edge /\ log[i].at = Succs[node][d]
      BY <3>1 DEF Routed
    <3>6. ASSUME NEW i \in Where(log', "handoff.accept", node)
          PROVE  \E d \in 1..Len(Succs[node]) : d < loc.edge + 1 /\ log'[i].at = Succs[node][d]
      <4>1. CASE i = Len(log) + 1
        BY <3>3, <3>4, <4>1
      <4>2. CASE i \in Where(log, "handoff.accept", node)
        <5>1. PICK d \in 1..Len(Succs[node]) : d < loc.edge /\ log[i].at = Succs[node][d]
          BY <3>5, <4>2
        <5> QED  BY <2>1, <3>3, <4>2, <5>1
      <4> QED  BY <3>4, <4>1, <4>2
    <3> QED  BY <3>1, <3>2, <3>6
  <2>3. CASE PostPasses
    <3>1. pc = "post" /\ UNCHANGED <<wave, idx>> /\ loc'.edge = loc.edge /\ ~Hands
      BY <2>3 DEF PostPasses, Stay, SameTurn, Hands
    <3>2. node' = node /\ loc.edge = 1
      BY <3>1 DEF node, Backing
    <3>3. Where(log', "handoff.accept", node) = {}
      <4>1. Where(log, "handoff.accept", node) = {}
        BY <3>1 DEF Routed, Fresh
      <4> QED  BY <3>1, <4>1, AcceptsGrow
    <3> QED  BY <3>1, <3>2, <3>3
  <2>4. CASE ~Hands /\ ~PostPasses
    <3>1. pc \in {"route", "decide"} /\ UNCHANGED <<wave, idx, loc>>
      BY <2>4 DEF Step, Opens, Loops, Starts, PrePasses, Suspends, Aborts, Retries, Begins,
         Executes, Calls, Meters, WarnsOnce, Exhausts, Requests, Commits,
         Responds, Settles, Stops, Ends, Closes, Signals, Dies, Idles, OpenPCs, Stay
    <3>2. node' = node
      BY <3>1 DEF node
    <3>3. Where(log', "handoff.accept", node) = Where(log, "handoff.accept", node)
      BY <2>4, AcceptsGrow
    <3>4. /\ \A i \in Where(log, "handoff.accept", node) :
               \E d \in 1..Len(Succs[node]) : d < loc.edge /\ log[i].at = Succs[node][d]
          /\ loc.edge > 1 => loc.turn.conf # "low"
      BY <3>1 DEF Routed
    <3>5. \A i \in Where(log, "handoff.accept", node) : log'[i] = log[i]
      BY <2>1
    <3> QED  BY <3>1, <3>2, <3>3, <3>4, <3>5
  <2> QED  BY <2>2, <2>3, <2>4
<1> QED  BY <1>1, <1>2, <1>3, <1>4, <1>5 DEF Routed

(* When its turn has come, every predecessor of a node has handed over.    *)
LEMMA AllHanded ==
  ASSUME IInv, Backing, Routed, pc \in Fresh
  PROVE  Senders(log, node) = Preds(node)
<1>1. node \in Nodes /\ Committed = Before(node)
  BY BoundaryRows
<1>2. Senders(log, node) \subseteq Preds(node)
  BY <1>1, SendersBefore
<1>3. ASSUME NEW m \in Preds(node) PROVE m \in Senders(log, node)
  <2>1. m \in Committed /\ m \in Nodes /\ node \in Members(Succs[m])
    BY <1>1, PlanOrder DEF Preds
  <2>2. PICK p : Since(log, m, Len(PostGates[m]) + 1, Len(Succs[m]) + 1, p)
    BY <2>1 DEF Backing, Backed, Progress
  <2>3. Notes(log, "handoff.accept", m, p..Len(log)) = Routes(m, Len(Succs[m]) + 1)
    BY <2>2, SinceNotes
  <2>4. node \in Routes(m, Len(Succs[m]) + 1)
    <3>1. Len(Succs[m]) \in Nat
      BY <2>1, WavesAssumption
    <3>2. \A d \in 1..Len(Succs[m]) : d < Len(Succs[m]) + 1
      BY <3>1
    <3> QED  BY <2>1, <3>2 DEF Routes, Members
  <2> QED  BY <2>1, <2>3, <2>4 DEF Notes, Senders
<1> QED  BY <1>2, <1>3

(* A sender comes after every earlier sender in wave order, so the last    *)
(* contract is that of the last predecessor; when a node commits, all its  *)
(* predecessors have sent.                                                 *)
LEMMA ContractsStep ==
  ASSUME IInv, IInv', Step, Untouched, Backing, Routed, Contracts
  PROVE  Contracts'
<1>1. ASSUME NEW n \in Nodes PROVE LastSender(log', n, routedIn'[n])
  <2>1. LastSender(log, n, routedIn[n])
    BY DEF Contracts
  <2>2. CASE Hands /\ n = Succs[node][loc.edge]
    <3>1. pc = "decide" /\ routedIn' = [routedIn EXCEPT ![n] = node]
      BY <2>2 DEF Hands
    <3>2. routedIn'[n] = node
      BY <3>1 DEF IInv, Quiet, MemOK
    <3>3. Senders(log', n) = Senders(log, n) \cup {node}
      BY <2>2, SendersGrow
    <3>4. ASSUME NEW m \in Senders(log, n), m # node PROVE m \in Before(node)
      <4>1. m \in Nodes /\ \E i \in 1..Len(log) : log[i].node = m
        BY DEF Senders, Where
      <4>2. m \in Committed
        BY <3>1, <3>4, <4>1 DEF Untouched, Ahead, Going, Boundary, Fresh
      <4> QED  BY <3>1, <4>2, BoundaryRows DEF Fresh
    <3> QED  BY <3>2, <3>3, <3>4 DEF LastSender
  <2>3. CASE ~Hands \/ n # Succs[node][loc.edge]
    <3>1. Senders(log', n) = Senders(log, n)
      BY <2>3, SendersGrow
    <3>2. routedIn'[n] = routedIn[n]
      <4>1. CASE Hands
        BY <2>3, <4>1 DEF Hands, IInv, Quiet, MemOK
      <4>2. CASE ~Hands
        BY <4>2, DiskFrames
      <4> QED  BY <4>1, <4>2
    <3> QED  BY <2>1, <3>1, <3>2 DEF LastSender
  <2> QED  BY <2>2, <2>3
<1>2. pc' \in Fresh \ {"start"} => loc'.from = routedIn'[node']
  <2> SUFFICES ASSUME pc' \in Fresh \ {"start"} PROVE loc'.from = routedIn'[node']
    OBVIOUS
  <2>1. CASE Starts
    <3>1. loc'.from = routedIn[node] /\ UNCHANGED <<wave, idx>> /\ ~Hands
      BY <2>1 DEF Starts, Stay, Hands
    <3> QED  BY <3>1, DiskFrames DEF node
  <2>2. CASE Hands
    <3>1. /\ pc = "decide" /\ loc'.from = loc.from /\ UNCHANGED <<wave, idx>>
          /\ routedIn' = [routedIn EXCEPT ![Succs[node][loc.edge]] = node]
      BY <2>2 DEF Hands, Stay
    <3>2. Succs[node][loc.edge] # node /\ node \in Nodes /\ node' = node
      BY <3>1, HandsEdge DEF node
    <3>3. loc.from = routedIn[node]
      BY <3>1 DEF Contracts, Fresh
    <3> QED  BY <3>1, <3>2, <3>3 DEF IInv, Quiet, MemOK
  <2>3. CASE ~Starts /\ ~Hands
    <3>1. pc \in Fresh \ {"start"} /\ UNCHANGED <<wave, idx>> /\ loc'.from = loc.from
      BY <2>3 DEF Step, Opens, Loops, PrePasses, Suspends, Aborts, Retries, Begins,
         Executes, Calls, Meters, WarnsOnce, PostPasses, Exhausts, Requests, Commits,
         Responds, Settles, Stops, Ends, Closes, Signals, Dies, Idles, OpenPCs, Fresh, Stay,
         SameTurn
    <3>2. node' = node /\ routedIn' = routedIn
      BY <2>3, <3>1, DiskFrames DEF node
    <3> QED  BY <3>1, <3>2 DEF Contracts
  <2> QED  BY <2>1, <2>2, <2>3
<1>3. ASSUME NEW k \in 1..Len(wal'), NEW n, n = wal'[k].node
      PROVE  /\ Preds(n) = {} => wal'[k].from = "none"
             /\ Preds(n) # {} => /\ wal'[k].from \in Preds(n)
                                 /\ Preds(n) \ {wal'[k].from} \subseteq Before(wal'[k].from)
  <2>1. CASE Commits /\ k = Len(wal')
    <3>1. wal'[k].node = node /\ wal'[k].from = loc.from /\ pc = "route"
      BY <2>1, RowAdded DEF Commits
    <3>2. Senders(log, node) = Preds(node) /\ node \in Nodes
      BY <3>1, AllHanded, FreshNode DEF Fresh
    <3>3. LastSender(log, node, loc.from)
      BY <3>1, <3>2 DEF Contracts, Fresh
    <3> QED  BY <1>3, <3>1, <3>2, <3>3 DEF LastSender
  <2>2. CASE ~Commits \/ k # Len(wal')
    <3>1. k \in 1..Len(wal) /\ wal'[k] = wal[k]
      <4>1. CASE Commits
        BY <2>2, <4>1, RowAdded
      <4>2. CASE ~Commits
        BY <4>2, DiskFrames
      <4> QED  BY <4>1, <4>2
    <3> QED  BY <1>3, <3>1 DEF Contracts
  <2> QED  BY <2>1, <2>2
<1> QED  BY <1>1, <1>2, <1>3 DEF Contracts

(* It is what the property asks for. *)
LEMMA RoutesHeld == ASSUME Routed, Contracts PROVE RoutedOnce
<1>1. \A n : At("handoff.accept", n) = Where(log, "handoff.accept", n)
  BY DEF At, Where
<1> QED  BY <1>1 DEF Routed, Contracts, RoutedOnce

-----------------------------------------------------------------------------
(* The properties. *)

(* A set without two different elements has at most one. *)
LEMMA AtMostOne ==
  ASSUME NEW S, \A i, j \in S : i = j
  PROVE  Cardinality(S) <= 1
<1>1. CASE S = {}
  <2>1. Cardinality({}) = 0
    BY FS_EmptySet
  <2> QED  BY <1>1, <2>1
<1>2. CASE S # {}
  <2>1. PICK i : S = {i}
    BY <1>2
  <2>2. Cardinality({i}) = 1
    BY FS_Singleton
  <2> QED  BY <2>1, <2>2
<1> QED  BY <1>1, <1>2

(* The remaining properties, read off their invariants. *)
LEMMA StopsAfterInterrupt == ASSUME Stopping PROVE InterruptStops
<1> SUFFICES ASSUME interrupt PROVE Cardinality(Late(log, interruptAt)) <= 1
  BY DEF InterruptStops, Late
<1>1. \A i, j \in Late(log, interruptAt) : i = j
  BY DEF Stopping
<1> QED  BY <1>1, AtMostOne

(* No boundary starts, and no first call runs, over a line. *)
LEMMA BudgetKept == ASSUME Limited PROVE NoStartOverBudget /\ FirstCallPreBlocked
<1>1. At("llm.call", node) = Where(log, "llm.call", node)
  BY DEF At, Where
<1> QED  BY <1>1 DEF Limited, NoStartOverBudget, FirstCallPreBlocked

(* The files of the replay window are the origin's. *)
LEMMA PrefixReplayed == ASSUME IInv, Answered, Replayed PROVE ReplayedPrefix
<1>1. Len(wal) \in Nat /\ DOMAIN responses \subseteq 1..Len(wal)
  <2>1. Len(wal) \in Nat
    BY RowsDistinct
  <2> QED  BY <2>1 DEF Answered, ResponseWindow
<1> QED  BY <1>1 DEF Replayed, InReplay, ReplayedPrefix

(* Attempts and calls are bounded. *)
LEMMA AttemptsBound == ASSUME Counted PROVE AttemptBound
<1>1. \A n : At("llm.call", n) = Where(log, "llm.call", n)
  BY DEF At, Where
<1> QED  BY <1>1 DEF Counted, AttemptBound

-----------------------------------------------------------------------------
(* The invariant. *)

(* The invariant of the trace, on top of IInv. *)
TInv ==
  /\ Answered /\ Replayed /\ Tainted
  /\ Untouched /\ Counted /\ Concerned /\ Completed /\ Bracketed
  /\ Backing /\ Routed /\ Contracts
  /\ Stopping /\ Limited /\ Metered

(* The initial state has no event, row or file. *)
LEMMA EmptyStart ==
  ASSUME Init
  PROVE  /\ log = <<>> /\ wal = <<>> /\ responses = <<>> /\ pc = "open" /\ end = NoEnd
         /\ \A k, n : Where(log, k, n) = {}
         /\ Committed = {} /\ 1..Len(log) = {} /\ 1..Len(wal) = {} /\ DOMAIN responses = {}
         /\ Len(log) = 0 /\ Len(wal) = 0
<1>1. log = <<>> /\ wal = <<>> /\ responses = <<>> /\ pc = "open" /\ end = NoEnd
  BY DEF Init
<1>2. /\ 1..Len(log) = {} /\ 1..Len(wal) = {} /\ DOMAIN responses = {}
      /\ Len(log) = 0 /\ Len(wal) = 0
  BY <1>1
<1> QED  BY <1>1, <1>2 DEF Where, Committed

(* So every part of the invariant holds in it. *)
LEMMA InitDisk == ASSUME Init PROVE Answered /\ Replayed /\ Tainted
<1>1. ResponseWindow
  BY EmptyStart DEF ResponseWindow
<1>2. Answered
  BY <1>1, EmptyStart DEF Answered
<1>3. Replayed
  BY EmptyStart DEF Replayed, TurnPCs
<1>4. Tainted
  BY EmptyStart DEF Tainted, TaintFlows, TurnPCs, Fresh
<1> QED  BY <1>2, <1>3, <1>4

(* The counters are zero. *)
LEMMA InitBoundary == ASSUME Init PROVE Untouched /\ Counted /\ Concerned
<1>0. /\ attempts = [n \in Nodes |-> 0] /\ retries = [n \in Nodes |-> 0] /\ concerns = 0
      /\ BoundedRetry \in Nat
  BY RouterAssumption DEF Init, RouterInit
<1>1. Untouched
  BY <1>0, EmptyStart DEF Untouched, Ahead
<1>2. Counted
  <2>1. \A n : Cardinality(Where(log, "llm.call", n)) = 0
    BY EmptyStart, FS_EmptySet
  <2> QED  BY <1>0, <2>1, EmptyStart DEF Counted
<1>3. Concerned
  <2>1. {n \in Nodes : attempts[n] > 0 /\ (pc \in Boundary => n # node)} = {}
    BY <1>0
  <2>2. concerns = Cardinality({n \in Nodes : attempts[n] > 0 /\ (pc \in Boundary => n # node)})
    BY <1>0, <2>1, FS_EmptySet
  <2>3. pc \notin Boundary
    BY EmptyStart DEF Boundary, Fresh
  <2> QED  BY <2>2, <2>3 DEF Concerned
<1> QED  BY <1>1, <1>2, <1>3

(* No boundary is open. *)
LEMMA InitBrackets == ASSUME Init PROVE Completed /\ Bracketed
<1>1. end.state = "none" /\ walState = "NONE"
  BY EmptyStart DEF Init, NoEnd, End
<1>2. Completed
  BY <1>1, EmptyStart DEF Completed
<1>3. \A n : Bracket(log, n)
  BY EmptyStart DEF Bracket
<1>4. pc \notin Inside
  BY EmptyStart DEF Inside, Boundary, Fresh
<1>5. Bracketed
  BY <1>3, <1>4, EmptyStart DEF Bracketed
<1> QED  BY <1>2, <1>5

(* Nothing was handed over. *)
LEMMA InitRoutes == ASSUME Init PROVE Backing /\ Routed /\ Contracts
<1>0. halted = "none" /\ window = <<>> /\ routedIn = [n \in Nodes |-> "none"]
  BY DEF Init, RouterInit
<1>1. Backing
  BY EmptyStart DEF Backing, Fresh
<1>2. Routed
  BY <1>0, EmptyStart DEF Routed, Fresh
<1>3. \A n : Senders(log, n) = {}
  BY EmptyStart DEF Senders
<1>4. Contracts
  BY <1>0, <1>3, EmptyStart DEF Contracts, LastSender, Fresh
<1> QED  BY <1>1, <1>2, <1>4

(* Nothing was spent. *)
LEMMA InitBudget == ASSUME Init PROVE Stopping /\ Limited /\ Metered
<1>0. interruptAt = 0 /\ ~interrupt /\ sessionSpent = 0 /\ warnFired = {}
  BY DEF Init, BudgetInit
<1>1. Stopping
  BY <1>0, EmptyStart DEF Stopping
<1>2. Limited
  BY EmptyStart DEF Limited, TurnPCs
<1>3. Metered
  <2>1. Booked(log)
    <3>1. \A N : TraceSpend(<<>>, N) = 0
      <4>1. \A N : Share(<<>>, N) = <<>>
        BY DEF Share
      <4>2. \A N : TraceSpend(<<>>, N) = Spend(Share(<<>>, N))
        BY DEF TraceSpend, Spend
      <4> QED  BY <4>1, <4>2, SpendEmpty
    <3>2. /\ sessionSpent = 0 /\ teamSpent = 0 /\ \A r \in Roles : agentSpent[r] = 0
      BY DEF Init, BudgetInit
    <3> QED  BY <3>1, <3>2, EmptyStart DEF Booked
  <2>2. Warns(log) = {}
    BY EmptyStart DEF Warns
  <2>3. Cardinality(Warns(log)) = 0 /\ Cardinality(warnFired) = 0
    BY <1>0, <2>2, FS_EmptySet
  <2> QED  BY <1>0, <2>1, <2>3, EmptyStart DEF Metered
<1> QED  BY <1>1, <1>2, <1>3

(* Every step preserves the invariant. *)
LEMMA StepTInv == ASSUME IInv, IInv', [Next]_vars, TInv PROVE TInv'
<1>1. Step
  BY Shapes
<1>2. Answered' /\ Replayed' /\ Tainted'
  BY <1>1, AnsweredStep, ReplayedStep, TaintedStep DEF TInv
<1>3. Untouched' /\ Counted' /\ Concerned' /\ Completed' /\ Bracketed'
  BY <1>1, UntouchedStep, CountedStep, ConcernedStep, CompletedStep, BracketedStep DEF TInv
<1>4. Backing' /\ Routed' /\ Contracts'
  BY <1>1, BackingStep, RoutedStep, ContractsStep DEF TInv
<1>5. Stopping' /\ Limited' /\ Metered'
  BY <1>1, StoppingStep, LimitedStep, MeteredStep DEF TInv
<1> QED  BY <1>2, <1>3, <1>4, <1>5 DEF TInv

(* Every reachable state satisfies both invariants (Runner::run with       *)
(* run_node, route_and_commit, the SIGINT handler and a crash at any       *)
(* point).                                                                 *)
THEOREM TraceInvariant == Spec => [](IInv /\ TInv)
<1>1. Init => IInv /\ TInv
  BY InitIInv, InitDisk, InitBoundary, InitBrackets, InitRoutes, InitBudget DEF TInv
<1>2. IInv /\ TInv /\ [Next]_vars => (IInv /\ TInv)'
  BY NextIInv, StepTInv
<1> QED  BY <1>1, <1>2, PTL DEF Spec

(* A crash loses at most the response file of the newest row, and no       *)
(* response exists without its row (persist_commit).                       *)
THEOREM RunnerAnswers == Spec => []ResponseWindow
<1>1. IInv /\ TInv => ResponseWindow
  BY DEF TInv, Answered
<1> QED  BY <1>1, TraceInvariant, PTL

(* A fork reproduces its origin in the replay window (cached_execution). *)
THEOREM RunnerReplays == Spec => []ReplayedPrefix
<1>1. IInv /\ TInv => ReplayedPrefix
  BY PrefixReplayed DEF TInv
<1> QED  BY <1>1, TraceInvariant, PTL

(* A committed output is tainted when any committed predecessor's is, in   *)
(* live and in replayed turns (build_output_envelope).                     *)
THEOREM RunnerTaints == Spec => []TaintFlows
<1>1. IInv /\ TInv => TaintFlows
  BY DEF TInv, Tainted
<1> QED  BY <1>1, TraceInvariant, PTL

(* Every row is backed by the gates, the call and the handoffs that the    *)
(* trace records for its node (run_node before route_and_commit).          *)
THEOREM RunnerBacked == Spec => []CommitBacked
<1>1. IInv /\ TInv => CommitBacked
  BY RowsBacked DEF TInv
<1> QED  BY <1>1, TraceInvariant, PTL

(* An edge of the plan is accepted at most once and never trips the        *)
(* recurrence guard; a row stores the contract of the predecessor that     *)
(* committed last (route_and_commit).                                      *)
THEOREM RunnerRoutes == Spec => []RoutedOnce
<1>1. IInv /\ TInv => RoutedOnce
  BY RoutesHeld DEF TInv
<1> QED  BY <1>1, TraceInvariant, PTL

(* node.start and node.stop bracket each boundary, once per node           *)
(* (run_node, stop_node).                                                  *)
THEOREM RunnerBrackets == Spec => []NodeBrackets
<1>1. IInv /\ TInv => NodeBrackets
  BY BracketsClosed DEF TInv
<1> QED  BY <1>1, TraceInvariant, PTL

(* COMPLETED means that every node is committed and cached and every       *)
(* concern counted (the tail of Runner::run).                              *)
THEOREM RunnerCompletes == Spec => []CompletedMeansAll
<1>1. IInv /\ TInv => CompletedMeansAll
  BY CompletedAll DEF TInv
<1> QED  BY <1>1, TraceInvariant, PTL

(* Attempts are bounded by the runner's and the router's budgets, and      *)
(* every call that was traced was an attempt (bump_attempt).               *)
THEOREM RunnerRetries == Spec => []AttemptBound
<1>1. IInv /\ TInv => AttemptBound
  BY AttemptsBound DEF TInv
<1> QED  BY <1>1, TraceInvariant, PTL

(* After SIGINT at most one more boundary starts or one more call is made  *)
(* (the three polls of the flag).                                          *)
THEOREM RunnerInterrupts == Spec => []InterruptStops
<1>1. IInv /\ TInv => InterruptStops
  BY StopsAfterInterrupt DEF TInv
<1> QED  BY <1>1, TraceInvariant, PTL

(* No boundary starts over a suspend line, and the first call of a         *)
(* boundary runs under all of them (the budget pre-gate and the post-      *)
(* commit check).                                                          *)
THEOREM RunnerBudget == Spec => [](NoStartOverBudget /\ FirstCallPreBlocked)
<1>1. IInv /\ TInv => NoStartOverBudget /\ FirstCallPreBlocked
  BY BudgetKept DEF TInv
<1> QED  BY <1>1, TraceInvariant, PTL

(* The ledger is the sum of the trace, up to the call being metered, and   *)
(* no scope warns twice (emit_llm_call, BudgetMeter::meter).               *)
THEOREM RunnerLedger == Spec => []LedgerMatchesTrace
<1>1. IInv /\ TInv => LedgerMatchesTrace
  BY LedgerTold DEF TInv
<1> QED  BY <1>1, TraceInvariant, PTL

-----------------------------------------------------------------------------
(* What the readers of the trace rely on (TraceReaders). *)

(* The program points after the boundary that ended the session. *)
Past == {"stop", "finish", "close", "done"}

(* An event that says that a budget is exhausted. *)
Exhausted(e) ==
  \/ e.kind = "budget.event" /\ e.at = "suspend"
  \/ e.kind = "gate.fail" /\ e.at = "budget"

(* The kinds of the verdicts and the budget events. *)
Words == {"gate.pass", "gate.fail", "budget.event"}

(* Position i holds the newest verdict or budget event of a trace. *)
LastWord(t, i) ==
  /\ i \in 1..Len(t)
  /\ \A j \in 1..Len(t) : t[j].kind \in Words => j <= i

(* The ends that a boundary or the loop can decide. *)
Endings1 == {NoEnd, End("COMPLETED", "none"), Interrupted, OverBudget} \cup Refusals
           \cup {End("HALTED", r) : r \in ExecFaults}

(* A gate that is about to fail once more wanted a retry. *)
Stubborn == pc = "escalate" => PostVerdict = "retry"

(* What the events say. *)
Named ==
  \A i \in 1..Len(log) :
    /\ log[i].kind = "gate.fail" => log[i].node \in Nodes /\ log[i].at \in Objections \cup {"budget"}
    /\ log[i].kind = "session.close" => log[i].node = "session"

(* A boundary has found its budget exhausted. *)
Spent ==
  \/ pc \in {"suspend", "dead"} /\ end.state # "COMPLETED"
  \/ pc \in Past /\ end = OverBudget

(* The budget ends a session exactly when an event says that it is         *)
(* exhausted, and no verdict comes after that event.                       *)
Drained ==
  /\ \A i \in 1..Len(log) : Exhausted(log[i]) => Spent
  /\ pc \in Past /\ end = OverBudget => \E i \in 1..Len(log) : LastWord(log, i) /\ Exhausted(log[i])

(* The end is one that a boundary or the loop can decide; a refusal is the *)
(* last verdict, with its reason, and with node.stop next.                 *)
Refused ==
  /\ end \in Endings1
  /\ pc \in Past /\ end \in Refusals =>
       \E i \in 1..Len(log) :
         /\ LastWord(log, i) /\ log[i].kind = "gate.fail" /\ log[i].reason = end.reason
         /\ pc = "stop" => i = Len(log)
         /\ pc # "stop" => i < Len(log) /\ log[i + 1].kind = "node.stop"

(* The newest event of a closed session closes it, with the session's end. *)
Closed ==
  /\ pc = "done" => log # <<>> /\ log[Len(log)].kind = "session.close"
  /\ pc \in {"close", "done"} => walState = end.state

(* What a gate.fail says, and that only the end of a session has the       *)
(* router's.                                                               *)
Blamed ==
  \A i \in 1..Len(log) : log[i].kind = "gate.fail" =>
    /\ log[i].at = "router.v1" => end \in Refusals /\ log[i].reason = end.reason
    /\ log[i].at # "router.v1" => log[i].reason = FailReason(log[i].at)

(* The end and the last word agree. *)
Worded == Stubborn /\ Named /\ Blamed /\ Drained /\ Refused /\ Closed

(* One more event of a node, at program points S. *)
Due(n, S) == IF pc \in S /\ n = node THEN 1 ELSE 0

(* The number of n's events of a kind. *)
Count(t, kind, n) == Cardinality(Where(t, kind, n))

(* The handoffs of n without an answer, the one just requested left out.   *)
Owed(n) ==
  Count(log, "handoff.request", n) - (Count(log, "handoff.accept", n) + Due(n, {"decide"}))

(* The calls of n, with the one its attempt is about to make.              *)
Called(n) == Count(log, "llm.call", n) + Due(n, {"attempt", "exec", "call"})

(* A boundary that never retried left no gate.fail and no handoff without  *)
(* an answer,                                                              *)
Quietly(n) == attempts[n] = 0 => Where(log, "gate.fail", n) = {} /\ Owed(n) = 0

(* and one that did shows it: by a gate.fail, by fewer calls than          *)
(* attempts, or by a handoff without an answer.                            *)
Loudly(n) ==
  attempts[n] > 0 => Where(log, "gate.fail", n) # {} \/ Called(n) <= attempts[n] \/ Owed(n) > 0

(* Retries and the trace explain each other. *)
Explained ==
  /\ pc = "pre" => attempts[node] = 0
  /\ Going => \A n \in Nodes : (pc = "escalate" => n # node) => Quietly(n)
  /\ end.state = "COMPLETED" => \A n \in Nodes : Quietly(n)
  /\ \A n \in Nodes : Owed(n) >= 0 /\ Loudly(n)

(* The budget at the end of a completed session. *)
Afforded == end.state = "COMPLETED" /\ wal # <<>> => ~SuspendReached(Role[wal[Len(wal)].node])

-----------------------------------------------------------------------------
(* The last word. *)

(* A gate that was asked to retry is still of that mind when it runs again. *)
LEMMA StubbornStep == ASSUME IInv, IInv', Step, Stubborn PROVE Stubborn'
<1> SUFFICES ASSUME pc' = "escalate" PROVE PostVerdict' = "retry"
  BY DEF Stubborn
<1>1. Exhausts \/ Idles \/ Signals
  BY DEF Step, Opens, Loops, Starts, PrePasses, Suspends, Aborts, Retries, Begins, Executes,
     Calls, Meters, WarnsOnce, PostPasses, Requests, Hands, Commits, Responds, Settles, Stops,
     Ends, Closes, Dies, OpenPCs
<1>2. PostVerdict = "retry"
  BY <1>1 DEF Exhausts, Idles, Signals, Stubborn
<1>3. node' = node /\ loc' = loc /\ UNCHANGED <<sessionSpent, agentSpent, teamSpent>>
  BY <1>1 DEF Exhausts, Idles, Signals, Stay, TraceOnly, budgetVars
<1>4. SuspendReached(Role[node])' <=> SuspendReached(Role[node])
  <2> DEFINE r == Role[node]
  <2>1. r' = r
    BY <1>3
  <2>2. SuspendReached(r)' <=> SuspendReached(r)
    BY <1>3, <2>1 DEF SuspendReached, ScopeReached
  <2> QED  BY <2>2
<1>5. SuspendReached(Role[node])' = SuspendReached(Role[node])
  BY <1>4 DEF SuspendReached
<1>6. BoundaryContract' = BoundaryContract
  BY <1>3 DEF BoundaryContract, SyntheticContract, HandoffContract
<1>7. PostVerdict' = PostVerdict
  BY <1>3, <1>5, <1>6 DEF PostVerdict
<1> QED  BY <1>2, <1>7

(* What a boundary that is given up leaves. *)
LEMMA AbortEvent ==
  ASSUME IInv, Stubborn, Aborts
  PROVE  /\ pc' = "stop" /\ pc \in Fallible
         /\ \/ pc = "suspend" /\ end' = OverBudget /\ Adds("budget.event", "session", "suspend", 0)
            \/ /\ pc # "suspend" /\ log' = log
               /\ end' \in {Interrupted} \cup {End("HALTED", r) : r \in ExecFaults}
            \/ pc # "suspend" /\ end' = OverBudget /\ Adds("gate.fail", node, "budget", 0)
            \/ /\ pc # "suspend" /\ end' \in Refusals
               /\ \E at \in Objections : /\ Adds("gate.fail", node, at, 0)
                                         /\ at # "router.v1" => end' = Rejected
<1>1. GivesUp /\ pc' = "stop" /\ pc \in Fallible
  BY DEF Aborts
<1>2. ~(pc = "escalate" /\ PostVerdict # "retry")
  BY DEF Stubborn
<1> QED  BY <1>1, <1>2 DEF GivesUp

(* The ends differ. *)
LEMMA EndsDiffer ==
  /\ OverBudget \notin Refusals \cup {NoEnd, Interrupted, End("COMPLETED", "none")}
  /\ OverBudget \notin {End("HALTED", r) : r \in ExecFaults}
  /\ Refusals \cap ({NoEnd, Interrupted, End("COMPLETED", "none")}
                      \cup {End("HALTED", r) : r \in ExecFaults}) = {}
<1>1. ExecFaults \subseteq {"PROVIDER_FAILURE", "TIMEOUT"}
  BY InstanceAssumption
<1>2. \A e \in Refusals : e.reason \in {"GATE_REJECT"} \cup HaltReasons
  BY DEF Refusals, Rejected, End
<1>3. \A e \in {End("HALTED", r) : r \in ExecFaults} : e.reason \in ExecFaults
  BY DEF End
<1>4. \A e \in {NoEnd, Interrupted, End("COMPLETED", "none")} : e.reason = "none"
  BY DEF NoEnd, Interrupted, End
<1>5. OverBudget.reason = "BUDGET_EXCEEDED"
  BY DEF OverBudget, End
<1> QED  BY <1>1, <1>2, <1>3, <1>4, <1>5 DEF HaltReasons

(* What a step adds, told by what the last word needs. *)
LEMMA NewWord ==
  ASSUME IInv, Step, Stubborn
  PROVE  \/ log' = log
         \/ \E k, n, at, tok : /\ Adds(k, n, at, tok) /\ k \notin {"gate.fail", "budget.event"}
                               /\ k = "session.close" => n = "session"
         \/ Adds("budget.event", "session", "warn", 0) /\ WarnsOnce
         \/ /\ Adds("budget.event", "session", "suspend", 0)
            /\ Aborts /\ pc = "suspend" /\ pc' = "stop" /\ end' = OverBudget
         \/ /\ Adds("gate.fail", node, "budget", 0) /\ node \in Nodes
            /\ pc' = "suspend" \/ (Aborts /\ pc' = "stop" /\ end' = OverBudget)
         \/ /\ \E at \in Judges : Adds("gate.fail", node, at, 0)
            /\ node \in Nodes
            /\ pc \in {"pre", "post"} /\ pc' \in {"attempt", "escalate", "dead"}
         \/ /\ \E at \in Objections : Adds("gate.fail", node, at, 0) /\ (at # "router.v1" => end' = Rejected)
            /\ node \in Nodes /\ Aborts /\ pc' = "stop" /\ end' \in Refusals
<1>0. pc \in Fresh => node \in Nodes
  BY BoundaryRows
<1>1. CASE Aborts
  <2>1. pc \in Fallible \ {"suspend"} => node \in Nodes
    BY <1>0 DEF Fallible, Fresh
  <2> QED  BY <1>1, <2>1, AbortEvent
<1>2. CASE Suspends
  BY <1>0, <1>2 DEF Suspends, Fresh
<1>3. CASE Retries \/ Exhausts \/ Dies
  <2>1. \/ log' = log
        \/ /\ pc \in {"pre", "post"} /\ pc' \in {"attempt", "escalate", "dead"}
           /\ \E at \in Judges : Adds("gate.fail", node, at, 0)
    BY <1>3 DEF Retries, Exhausts, Dies
  <2> QED  BY <1>0, <2>1 DEF Fresh
<1>4. CASE WarnsOnce
  BY <1>4 DEF WarnsOnce
<1>5. CASE Opens \/ Loops \/ Starts \/ PrePasses \/ Begins
  <2>1. \/ log' = log
        \/ \E k, n, at, tok : /\ Adds(k, n, at, tok)
                              /\ k \in {"session.open", "plan.compiled", "node.start", "gate.pass"}
    BY <1>5 DEF Opens, Loops, Starts, PrePasses, Begins
  <2> QED  BY <2>1
<1>6. CASE Executes \/ Calls \/ Meters \/ PostPasses \/ Requests \/ Hands
  <2>1. \/ log' = log
        \/ \E k, n, at, tok : /\ Adds(k, n, at, tok)
                              /\ k \in {"llm.call", "gate.pass", "handoff.request", "handoff.accept"}
    BY <1>6 DEF Executes, Calls, Meters, PostPasses, Requests, Hands
  <2> QED  BY <2>1
<1>7. CASE Commits \/ Responds \/ Settles \/ Ends \/ Signals \/ Idles
  BY <1>7 DEF Commits, Responds, Settles, Ends, Signals, Idles
<1>8. CASE Stops \/ Closes
  <2>1. \E k, n, at, tok : /\ Adds(k, n, at, tok) /\ k \in {"node.stop", "session.close"}
                           /\ k = "session.close" => n = "session"
    BY <1>8 DEF Stops, Closes
  <2> QED  BY <2>1
<1> QED  BY <1>1, <1>2, <1>3, <1>4, <1>5, <1>6, <1>7, <1>8 DEF Step

(* The last word stays the last, or the new event is it. *)
LEMMA LastWordStep ==
  ASSUME LogOK, LogOK', NEW k, NEW n, NEW at, NEW tok, Adds(k, n, at, tok)
  PROVE  /\ k \in Words => LastWord(log', Len(log) + 1)
         /\ k \notin Words => \A i \in 1..Len(log) : LastWord(log, i) => LastWord(log', i)
<1>1. /\ Len(log) \in Nat /\ Len(log') = Len(log) + 1
      /\ \A i \in 1..Len(log) : log'[i] = log[i]
      /\ log'[Len(log) + 1].kind = k
      /\ 1..Len(log') = 1..Len(log) \cup {Len(log) + 1}
  BY Grown
<1>2. \A i \in 1..Len(log') : i <= Len(log) + 1
  BY <1>1
<1>3. k \in Words => LastWord(log', Len(log) + 1)
  BY <1>1, <1>2 DEF LastWord
<1>4. ASSUME k \notin Words, NEW i \in 1..Len(log), LastWord(log, i) PROVE LastWord(log', i)
  BY <1>1, <1>4 DEF LastWord, Words
<1> QED  BY <1>3, <1>4

(* A session that is leaving its loop keeps its end. *)
LEMMA PastStep ==
  ASSUME Step, pc \in Past
  PROVE  /\ end' = end
         /\ pc' \in Past \cup {"dead"} \/ (pc = "stop" /\ end = NoEnd)
         /\ \/ log' = log /\ (pc' = pc \/ (pc # "stop" /\ pc' \notin {"stop", "done"}) \/ pc' = "dead")
            \/ pc = "stop" /\ pc' # "stop" /\ Adds("node.stop", node, loc.stop, 0)
            \/ pc = "close" /\ pc' = "done" /\ Adds("session.close", "session", state, 0)
<1>1. Stops \/ Ends \/ Closes \/ Signals \/ Dies \/ Idles
  BY DEF Step, Past, Opens, Loops, Starts, PrePasses, Suspends, Aborts, Retries, Begins, Executes,
     Calls, Meters, WarnsOnce, PostPasses, Exhausts, Requests, Hands, Commits, Responds, Settles,
     OpenPCs, Fallible
<1> QED  BY <1>1 DEF Past, Stops, Ends, Closes, Signals, Dies, Idles, Stay

(* How a session begins to leave its loop. *)
LEMMA PastEntry ==
  ASSUME IInv, Step, pc' \in Past, pc \notin Past
  PROVE  \/ Aborts /\ pc' = "stop"
         \/ end' = NoEnd /\ log' = log
         \/ Loops /\ log' = log /\ end' \in {Interrupted, End("COMPLETED", "none")}
<1>1. CASE Settles
  <2>1. pc = "settle" /\ log' = log /\ end' = end
    BY <1>1 DEF Settles, Stay
  <2>2. end = NoEnd
    BY <2>1 DEF IInv, Life, CtlOK
  <2> QED  BY <2>1, <2>2
<1>2. CASE Loops
  BY <1>2 DEF Loops, Past
<1>3. CASE Aborts
  BY <1>3 DEF Aborts
<1> QED  BY <1>1, <1>2, <1>3 DEF Step, Past, Opens, Starts, PrePasses, Suspends, Retries, Begins, Executes,
     Calls, Meters, WarnsOnce, PostPasses, Exhausts, Requests, Hands, Commits, Responds, Stops,
     Ends, Closes, Signals, Dies, Idles, OpenPCs

(* The end changes when a boundary is given up or a loop is left. *)
LEMMA EndStep ==
  ASSUME Step
  PROVE  Aborts \/ Loops \/ end' = end
<1> QED  BY DEF Step, Opens, Starts, PrePasses, Suspends, Retries, Begins, Executes,
     Calls, Meters, WarnsOnce, PostPasses, Exhausts, Requests, Hands, Commits, Responds, Settles,
     Stops, Ends, Closes, Signals, Dies, Idles, Stay

(* Events name what they should. *)
LEMMA NamedStep == ASSUME IInv, IInv', Step, Stubborn, Named PROVE Named'
<1>1. CASE log' = log
  BY <1>1 DEF Named
<1>2. ASSUME NEW k, NEW n, NEW at, NEW tok, Adds(k, n, at, tok),
             k = "gate.fail" => n \in Nodes /\ at \in Objections \cup {"budget"},
             k = "session.close" => n = "session"
      PROVE  Named'
  <2>1. /\ \A i \in 1..Len(log) : log'[i] = log[i]
        /\ log'[Len(log) + 1].kind = k /\ log'[Len(log) + 1].node = n
        /\ log'[Len(log) + 1].at = at
        /\ 1..Len(log') = 1..Len(log) \cup {Len(log) + 1}
    BY <1>2, Grown DEF IInv
  <2> QED  BY <1>2, <2>1 DEF Named
<1>3. \/ log' = log
      \/ \E k, n, at, tok : /\ Adds(k, n, at, tok)
                            /\ k = "gate.fail" => n \in Nodes /\ at \in Objections \cup {"budget"}
                            /\ k = "session.close" => n = "session"
  <2>1. Judges \subseteq Objections
    BY DEF Objections
  <2> QED  BY <2>1, NewWord
<1> QED  BY <1>1, <1>2, <1>3

(* A new event tells of an exhausted budget, or does not. *)
LEMMA ExhaustedNew ==
  ASSUME LogOK, LogOK', NEW k, NEW n, NEW at, NEW tok, Adds(k, n, at, tok)
  PROVE  /\ \A i \in 1..Len(log) : Exhausted(log'[i]) <=> Exhausted(log[i])
         /\ Exhausted(log'[Len(log) + 1]) <=>
              \/ k = "budget.event" /\ at = "suspend"
              \/ k = "gate.fail" /\ at = "budget"
<1>1. /\ \A i \in 1..Len(log) : log'[i] = log[i]
      /\ log'[Len(log) + 1].kind = k /\ log'[Len(log) + 1].at = at
  BY Grown
<1> QED  BY <1>1 DEF Exhausted

(* From where the exhausted budget was told, the session goes on to its end. *)
LEMMA DrainStep == ASSUME IInv, Step, Stubborn, Spent PROVE Spent'
<1>1. CASE pc = "suspend"
  <2>1. Aborts \/ Signals \/ Dies \/ Idles
    BY <1>1 DEF Step, Opens, Loops, Starts, PrePasses, Suspends, Retries, Begins, Executes,
     Calls, Meters, WarnsOnce, PostPasses, Exhausts, Requests, Hands, Commits, Responds, Settles,
     Stops, Ends, Closes, OpenPCs
  <2>2. Aborts => pc' = "stop" /\ end' = OverBudget
    BY <1>1, AbortEvent
  <2>3. end.state # "COMPLETED"
    BY <1>1 DEF Spent, Past
  <2> QED  BY <1>1, <2>1, <2>2, <2>3 DEF Past, Signals, Dies, Idles, Stay, Spent
<1>2. CASE pc = "dead"
  <2>1. pc' = "dead" /\ end' = end
    BY <1>2 DEF Step, Opens, Loops, Starts, PrePasses, Suspends, Aborts, Retries, Begins, Executes,
       Calls, Meters, WarnsOnce, PostPasses, Exhausts, Requests, Hands, Commits, Responds, Settles,
       Stops, Ends, Closes, Signals, Dies, Idles, OpenPCs, Fallible, Stay
  <2> QED  BY <1>2, <2>1 DEF Spent, Past
<1>3. CASE pc \in Past /\ end = OverBudget
  <2>1. end # NoEnd /\ end.state # "COMPLETED"
    BY <1>3, EndsDiffer DEF OverBudget, End
  <2> QED  BY <1>3, <2>1, PastStep DEF Spent
<1> QED  BY <1>1, <1>2, <1>3 DEF Spent

(* The word of an exhausted budget. *)
LEMMA DrainedStep == ASSUME IInv, IInv', Step, Stubborn, Drained PROVE Drained'
<1>1. ASSUME NEW i \in 1..Len(log'), Exhausted(log'[i]) PROVE Spent'
  <2>1. CASE log' = log
    BY <1>1, <2>1, DrainStep DEF Drained
  <2>2. ASSUME NEW k, NEW n, NEW at, NEW tok, Adds(k, n, at, tok),
               k = "budget.event" /\ at = "suspend" => Spent',
               k = "gate.fail" /\ at = "budget" => Spent'
        PROVE  Spent'
    <3>1. i \in 1..Len(log) \/ i = Len(log) + 1
      BY <2>2, Grown DEF IInv
    <3>2. CASE i \in 1..Len(log)
      <4>1. Exhausted(log[i])
        BY <1>1, <2>2, <3>2, ExhaustedNew DEF IInv
      <4> QED  BY <3>2, <4>1, DrainStep DEF Drained
    <3>3. CASE i = Len(log) + 1
      BY <1>1, <2>2, <3>3, ExhaustedNew DEF IInv
    <3> QED  BY <3>1, <3>2, <3>3
  <2>3. "budget" \notin Objections /\ Judges \subseteq Objections
    BY DEF Objections, Judges, GateIds
  <2>4. \/ log' = log
        \/ \E k, n, at, tok : /\ Adds(k, n, at, tok)
                              /\ k = "budget.event" /\ at = "suspend" => Spent'
                              /\ k = "gate.fail" /\ at = "budget" => Spent'
    <3>1. pc' = "suspend" => Spent'
      <4>1. pc' = "suspend" => end'.state # "COMPLETED"
        BY DEF IInv, Life, CtlOK, NoEnd, End
      <4> QED  BY <4>1 DEF Spent
    <3>2. pc' = "stop" /\ end' = OverBudget => Spent'
      BY DEF Spent, Past
    <3> QED  BY <2>3, <3>1, <3>2, NewWord
  <2> QED  BY <2>1, <2>2, <2>4
<1>2. ASSUME pc' \in Past, end' = OverBudget
      PROVE  \E i \in 1..Len(log') : LastWord(log', i) /\ Exhausted(log'[i])
  <2>1. CASE pc \in Past
    <3>1. end = OverBudget
      BY <1>2, <2>1, PastStep
    <3>2. PICK i \in 1..Len(log) : LastWord(log, i) /\ Exhausted(log[i])
      BY <2>1, <3>1 DEF Drained
    <3>3. CASE log' = log
      BY <3>2, <3>3
    <3>4. ASSUME NEW k \in {"node.stop", "session.close"}, NEW n, NEW at, NEW tok, Adds(k, n, at, tok)
          PROVE  LastWord(log', i) /\ Exhausted(log'[i]) /\ i \in 1..Len(log')
      <4>1. k \notin Words
        BY <3>4 DEF Words
      <4>2. LastWord(log', i)
        BY <3>2, <3>4, <4>1, LastWordStep DEF IInv
      <4>3. Exhausted(log'[i])
        BY <3>2, <3>4, ExhaustedNew DEF IInv
      <4> QED  BY <4>2, <4>3 DEF LastWord
    <3> QED  BY <2>1, <3>3, <3>4, PastStep
  <2>2. CASE pc \notin Past
    <3>1. Aborts
      BY <1>2, <2>2, PastEntry, EndsDiffer
    <3>2. ASSUME NEW k, NEW n, NEW at, Adds(k, n, at, 0),
                 (k = "budget.event" /\ at = "suspend") \/ (k = "gate.fail" /\ at = "budget")
          PROVE  \E i \in 1..Len(log') : LastWord(log', i) /\ Exhausted(log'[i])
      <4>1. LastWord(log', Len(log) + 1)
        BY <3>2, LastWordStep DEF IInv, Words
      <4>2. Exhausted(log'[Len(log) + 1])
        BY <3>2, ExhaustedNew DEF IInv
      <4>3. Len(log) + 1 \in 1..Len(log')
        BY <4>1 DEF LastWord
      <4> QED  BY <4>1, <4>2, <4>3
    <3>3. \/ Adds("budget.event", "session", "suspend", 0)
          \/ Adds("gate.fail", node, "budget", 0)
      BY <1>2, <3>1, AbortEvent, EndsDiffer
    <3> QED  BY <3>2, <3>3
  <2> QED  BY <2>1, <2>2
<1> QED  BY <1>1, <1>2 DEF Drained

(* A refusal and its event give the same reason. *)
LEMMA ObjectionGiven ==
  ASSUME NEW at \in Objections, at # "router.v1" => end' = Rejected
  PROVE  Given("gate.fail", at) = end'.reason
<1>1. at # "router.v1" => FailReason(at) = "GATE_REJECT"
  BY DEF Objections, Judges, FailReason
<1> QED  BY <1>1 DEF Given, Rejected, End

(* The end of a session is decided once, and its reason given then. *)
LEMMA BlamedStep == ASSUME IInv, IInv', Step, Stubborn, Blamed PROVE Blamed'
<1>1. end' = end \/ end \notin Refusals
  <2>1. Aborts \/ Loops => end = NoEnd
    BY DEF Aborts, Loops, Fallible, IInv, Life, CtlOK
  <2> QED  BY <2>1, EndStep, EndsDiffer
<1>2. ASSUME NEW i \in 1..Len(log), log'[i] = log[i], log'[i].kind = "gate.fail"
      PROVE  /\ log'[i].at = "router.v1" => end' \in Refusals /\ log'[i].reason = end'.reason
             /\ log'[i].at # "router.v1" => log'[i].reason = FailReason(log'[i].at)
  BY <1>1, <1>2 DEF Blamed
<1>3. CASE log' = log
  BY <1>2, <1>3 DEF Blamed
<1>4. ASSUME NEW k, NEW n, NEW at, NEW tok, Adds(k, n, at, tok),
             k = "gate.fail" /\ at = "router.v1" => end' \in Refusals
      PROVE  Blamed'
  <2>1. /\ \A i \in 1..Len(log) : log'[i] = log[i]
        /\ log'[Len(log) + 1].kind = k /\ log'[Len(log) + 1].at = at
        /\ log'[Len(log) + 1].reason = Given(k, at)
        /\ 1..Len(log') = 1..Len(log) \cup {Len(log) + 1}
    BY <1>4, Grown DEF IInv
  <2>2. k = "gate.fail" => Given(k, at) = IF at = "router.v1" THEN end'.reason ELSE FailReason(at)
    BY DEF Given
  <2> HIDE DEF Given
  <2>3. ASSUME NEW i \in 1..Len(log'), log'[i].kind = "gate.fail"
        PROVE  /\ log'[i].at = "router.v1" => end' \in Refusals /\ log'[i].reason = end'.reason
               /\ log'[i].at # "router.v1" => log'[i].reason = FailReason(log'[i].at)
    <3>1. CASE i \in 1..Len(log)
      BY <1>2, <2>1, <2>3, <3>1
    <3>2. CASE i = Len(log) + 1
      BY <1>4, <2>1, <2>2, <2>3, <3>2
    <3> QED  BY <2>1, <3>1, <3>2
  <2> QED  BY <2>3 DEF Blamed
<1>5. \/ log' = log
      \/ \E k, n, at, tok : /\ Adds(k, n, at, tok)
                            /\ k = "gate.fail" /\ at = "router.v1" => end' \in Refusals
  <2>1. "router.v1" \notin Judges /\ "budget" # "router.v1"
    BY DEF Judges, GateIds
  <2> QED  BY <2>1, NewWord
<1> QED  BY <1>3, <1>4, <1>5

(* The word of a refusal. *)
LEMMA RefusedStep == ASSUME IInv, IInv', Step, Stubborn, Refused PROVE Refused'
<1> DEFINE Q(t, p, i) == /\ LastWord(t, i) /\ t[i].kind = "gate.fail"
                         /\ t[i].reason = end'.reason
                         /\ p = "stop" => i = Len(t)
                         /\ p # "stop" => i < Len(t) /\ t[i + 1].kind = "node.stop"
<1>1. end' \in Endings1
  <2>1. CASE Aborts
    BY <2>1, AbortEvent DEF Endings1
  <2>2. CASE Loops
    BY <2>2 DEF Loops, Endings1, Refused, Stay
  <2> QED  BY <2>1, <2>2, EndStep DEF Refused
<1>2. ASSUME pc' \in Past, end' \in Refusals PROVE \E i \in 1..Len(log') : Q(log', pc', i)
  <2>1. CASE pc \in Past
    <3>1. end \in Refusals /\ end # NoEnd /\ end' = end
      BY <1>2, <2>1, PastStep, EndsDiffer
    <3>2. PICK i \in 1..Len(log) : Q(log, pc, i)
      BY <2>1, <3>1 DEF Refused
    <3>3. CASE log' = log
      <4>1. pc' = pc \/ (pc # "stop" /\ pc' # "stop")
        <5>1. pc' # "dead"
          BY <1>2 DEF Past
        <5>2. CASE pc = "stop" /\ Adds("node.stop", node, loc.stop, 0)
          <6>1. Len(log') = Len(log) + 1 /\ Len(log) \in Nat
            BY <5>2, Grown DEF IInv
          <6> QED  BY <3>3, <6>1
        <5>3. CASE pc = "close" /\ pc' = "done"
          BY <5>3
        <5> QED  BY <2>1, <5>1, <5>2, <5>3, PastStep
      <4> QED  BY <3>2, <3>3, <4>1
    <3>4. CASE pc = "stop" /\ pc' # "stop" /\ Adds("node.stop", node, loc.stop, 0)
      <4>1. /\ Len(log) \in Nat /\ Len(log') = Len(log) + 1
            /\ \A j \in 1..Len(log) : log'[j] = log[j]
            /\ log'[Len(log) + 1].kind = "node.stop"
            /\ 1..Len(log') = 1..Len(log) \cup {Len(log) + 1}
        BY <3>4, Grown DEF IInv
      <4>2. i = Len(log)
        BY <3>2, <3>4
      <4>3. LastWord(log', i)
        BY <3>2, <3>4, LastWordStep DEF IInv, Words
      <4> QED  BY <3>2, <3>4, <4>1, <4>2, <4>3
    <3>5. CASE pc = "close" /\ pc' = "done" /\ Adds("session.close", "session", state, 0)
      <4>1. /\ Len(log) \in Nat /\ Len(log') = Len(log) + 1
            /\ \A j \in 1..Len(log) : log'[j] = log[j]
            /\ 1..Len(log') = 1..Len(log) \cup {Len(log) + 1}
        BY <3>5, Grown DEF IInv
      <4>2. i < Len(log) /\ log[i + 1].kind = "node.stop" /\ i + 1 \in 1..Len(log)
        BY <3>2, <3>5, <4>1
      <4>3. LastWord(log', i)
        BY <3>2, <3>5, LastWordStep DEF IInv, Words
      <4>4. i < Len(log') /\ log'[i + 1].kind = "node.stop"
        BY <4>1, <4>2
      <4> QED  BY <3>2, <3>5, <4>1, <4>3, <4>4
    <3> QED  BY <2>1, <3>3, <3>4, <3>5, PastStep
  <2>2. CASE pc \notin Past
    <3>1. Aborts
      BY <1>2, <2>2, PastEntry, EndsDiffer
    <3>2. /\ pc' = "stop"
          /\ \E at \in Objections : Adds("gate.fail", node, at, 0) /\ (at # "router.v1" => end' = Rejected)
      BY <1>2, <3>1, AbortEvent, EndsDiffer
    <3>3. PICK at \in Objections : Adds("gate.fail", node, at, 0) /\ (at # "router.v1" => end' = Rejected)
      BY <3>2
    <3>4. LastWord(log', Len(log) + 1)
      BY <3>3, LastWordStep DEF IInv, Words
    <3>5. /\ Len(log') = Len(log) + 1 /\ log'[Len(log) + 1].kind = "gate.fail"
          /\ log'[Len(log) + 1].reason = Given("gate.fail", at)
      BY <3>3, Grown DEF IInv
    <3>7. Given("gate.fail", at) = end'.reason
      BY <3>3, ObjectionGiven
    <3>6. Len(log') \in 1..Len(log')
      BY <3>4, <3>5 DEF LastWord
    <3> QED  BY <3>2, <3>4, <3>5, <3>6, <3>7
  <2> QED  BY <2>1, <2>2
<1> QED  BY <1>1, <1>2 DEF Refused

(* The last event of a session, and its state. *)
LEMMA ClosedStep == ASSUME IInv, IInv', Step, Closed PROVE Closed'
<1>1. ASSUME pc' \in {"close", "done"}
      PROVE  \/ Ends /\ pc' = "close"
             \/ Closes /\ pc = "close" /\ pc' = "done"
             \/ pc' = pc /\ log' = log /\ end' = end /\ walState' = walState
  <2>1. Ends \/ Closes \/ ((Signals \/ Idles) /\ pc' = pc)
    BY <1>1 DEF Step, Opens, Loops, Starts, PrePasses, Suspends, Aborts, Retries, Begins, Executes,
       Calls, Meters, WarnsOnce, PostPasses, Exhausts, Requests, Hands, Commits, Responds, Settles,
       Stops, Signals, Dies, Idles, OpenPCs
  <2> QED  BY <1>1, <2>1 DEF Ends, Closes, Signals, Idles, Stay, TraceOnly
<1>2. ASSUME pc' = "done" PROVE log' # <<>> /\ log'[Len(log')].kind = "session.close"
  <2>1. CASE Closes
    <3>1. Adds("session.close", "session", state, 0)
      BY <2>1 DEF Closes
    <3>2. /\ Len(log) \in Nat /\ Len(log') = Len(log) + 1
          /\ log'[Len(log) + 1].kind = "session.close"
      BY <3>1, Grown DEF IInv
    <3> QED  BY <3>2
  <2>2. CASE pc' = pc /\ log' = log
    BY <1>2, <2>2 DEF Closed
  <2> QED  BY <1>1, <1>2, <2>1, <2>2
<1>3. ASSUME pc' \in {"close", "done"} PROVE walState' = end'.state
  <2>1. Ends => walState' = end.state /\ end' = end
    BY DEF Ends, Stay
  <2>2. Closes => walState' = walState /\ end' = end /\ pc = "close"
    BY DEF Closes, Stay, TraceOnly
  <2> QED  BY <1>1, <1>3, <2>1, <2>2 DEF Closed
<1> QED  BY <1>2, <1>3 DEF Closed

(* The end and the last word stay in agreement. *)
LEMMA WordedStep == ASSUME IInv, IInv', Step, Worded PROVE Worded'
<1> QED  BY StubbornStep, NamedStep, BlamedStep, DrainedStep, RefusedStep, ClosedStep DEF Worded

-----------------------------------------------------------------------------
(* Retries and the trace. *)

(* An event counts for its own kind and node. *)
LEMMA CountGrows ==
  ASSUME LogOK, LogOK', NEW k, NEW m, NEW at, NEW tok, Adds(k, m, at, tok), NEW kind, NEW n
  PROVE  /\ Count(log, kind, n) \in Nat
         /\ kind = k /\ n = m => Count(log', kind, n) = Count(log, kind, n) + 1
         /\ kind # k \/ n # m => Count(log', kind, n) = Count(log, kind, n)
<1>1. /\ IsFiniteSet(Where(log, kind, n)) /\ Cardinality(Where(log, kind, n)) \in Nat
      /\ Len(log) \in Nat
  BY WhereFinite DEF LogOK
<1>2. /\ kind = k /\ n = m => Where(log', kind, n) = Where(log, kind, n) \cup {Len(log) + 1}
      /\ kind # k \/ n # m => Where(log', kind, n) = Where(log, kind, n)
      /\ Where(log, kind, n) \subseteq 1..Len(log)
  BY WhereGrows
<1>3. Len(log) + 1 \notin Where(log, kind, n)
  BY <1>1, <1>2
<1>4. CASE kind = k /\ n = m
  BY <1>1, <1>2, <1>3, <1>4, FS_AddElement DEF Count
<1>5. CASE kind # k \/ n # m
  BY <1>1, <1>2, <1>5 DEF Count
<1> QED  BY <1>1, <1>4, <1>5 DEF Count

(* Requests and failures, and the rest. *)
LEMMA PlainEvent ==
  ASSUME Step
  PROVE  \/ Requests \/ log' = log
         \/ /\ Suspends \/ Aborts \/ Retries \/ Exhausts \/ Dies
            /\ \E k, n, at, tok : Adds(k, n, at, tok) /\ k \in {"gate.pass", "gate.fail", "budget.event"}
         \/ \E k, n, at, tok : Adds(k, n, at, tok) /\ k \notin {"handoff.request", "gate.fail"}
<1>1. CASE Opens \/ Loops \/ Starts \/ PrePasses \/ Begins \/ Executes
  <2>1. \/ log' = log
        \/ \E k, n, at, tok : /\ Adds(k, n, at, tok)
                              /\ k \in {"session.open", "plan.compiled", "node.start", "gate.pass"}
    BY <1>1 DEF Opens, Loops, Starts, PrePasses, Begins, Executes
  <2> QED  BY <2>1
<1>2. CASE Suspends \/ Aborts \/ Retries \/ Exhausts \/ Dies
  BY <1>2 DEF Suspends, Aborts, Retries, Exhausts, Dies
<1>3. CASE Calls \/ Hands \/ Stops \/ Closes \/ WarnsOnce \/ PostPasses
  <2>1. \E k, n, at, tok :
           /\ Adds(k, n, at, tok)
           /\ k \in {"llm.call", "handoff.accept", "node.stop", "session.close", "budget.event", "gate.pass"}
    BY <1>3 DEF Calls, Hands, Stops, Closes, WarnsOnce, PostPasses
  <2> QED  BY <2>1
<1>4. CASE Meters \/ Commits \/ Responds \/ Settles \/ Ends \/ Signals \/ Idles
  BY <1>4 DEF Meters, Commits, Responds, Settles, Ends, Signals, Idles
<1> QED  BY <1>1, <1>2, <1>3, <1>4 DEF Step

(* A step adds one event. *)
LEMMA SameAdded ==
  ASSUME LogOK, LogOK', NEW k, NEW n, NEW at, NEW tok, Adds(k, n, at, tok),
         NEW k1, NEW n1, NEW at1, NEW tok1, Adds(k1, n1, at1, tok1)
  PROVE  k1 = k /\ n1 = n /\ log' # log
<1>1. Len(log') = Len(log) + 1 /\ Len(log) \in Nat
  BY Grown
<1>2. log'[Len(log) + 1].kind = k /\ log'[Len(log) + 1].node = n
  BY Grown
<1>3. log'[Len(log) + 1].kind = k1 /\ log'[Len(log) + 1].node = n1
  BY Grown
<1> QED  BY <1>1, <1>2, <1>3

(* Requests, and only they, leave a handoff.request. *)
LEMMA RequestEvent ==
  ASSUME IInv, IInv', Step
  PROVE  \/ Requests
         \/ log' = log
         \/ \E k, n, at, tok : Adds(k, n, at, tok) /\ Fits(k, n, at, tok) /\ k # "handoff.request"
<1>1. PICK k, n, at, tok : log' # log => Adds(k, n, at, tok) /\ Fits(k, n, at, tok)
  BY StepEvent
<1>2. \/ Requests
      \/ log' = log
      \/ \E k1, n1, at1, tok1 : Adds(k1, n1, at1, tok1) /\ k1 # "handoff.request"
  BY PlainEvent
<1>3. ASSUME log' # log, NEW k1, NEW n1, NEW at1, NEW tok1, Adds(k1, n1, at1, tok1), k1 # "handoff.request"
      PROVE  k # "handoff.request"
  BY <1>1, <1>3, SameAdded DEF IInv
<1> QED  BY <1>1, <1>2, <1>3

(* The requests, answers and calls of a node, over a step. *)
LEMMA CountStep ==
  ASSUME IInv, IInv', Step, NEW n
  PROVE  /\ Count(log, "handoff.request", n) \in Nat /\ Count(log, "handoff.accept", n) \in Nat
         /\ Count(log, "llm.call", n) \in Nat
         /\ Count(log', "handoff.request", n)
              = Count(log, "handoff.request", n) + (IF Requests /\ n = node THEN 1 ELSE 0)
         /\ Count(log', "handoff.accept", n)
              = Count(log, "handoff.accept", n) + (IF Hands /\ n = node THEN 1 ELSE 0)
         /\ Count(log', "llm.call", n)
              = Count(log, "llm.call", n) + (IF Calls /\ n = node THEN 1 ELSE 0)
<1>0. LogOK /\ LogOK'
  BY DEF IInv
<1>1. /\ Count(log, "handoff.request", n) \in Nat /\ Count(log, "handoff.accept", n) \in Nat
      /\ Count(log, "llm.call", n) \in Nat
  BY <1>0, WhereFinite DEF Count
<1>2. ~(Requests /\ Hands) /\ ~(Requests /\ Calls)
  BY DEF Requests, Hands, Calls
<1>3. CASE Requests
  <2>1. PICK at : Adds("handoff.request", node, at, 0)
    BY <1>3 DEF Requests
  <2>2. /\ Count(log', "handoff.request", n)
              = Count(log, "handoff.request", n) + (IF Requests /\ n = node THEN 1 ELSE 0)
        /\ Count(log', "handoff.accept", n) = Count(log, "handoff.accept", n)
        /\ Count(log', "llm.call", n) = Count(log, "llm.call", n)
    BY <1>0, <1>1, <1>3, <2>1, CountGrows
  <2> QED  BY <1>1, <1>2, <1>3, <2>2
<1>4. CASE ~Requests /\ log' = log
  <2>1. ~Hands /\ ~Calls
    <3>1. ASSUME NEW k, NEW m, NEW at, NEW tok, Adds(k, m, at, tok) PROVE FALSE
      <4>1. Len(log') = Len(log) + 1 /\ Len(log) \in Nat
        BY <1>0, <3>1, Grown
      <4> QED  BY <1>4, <4>1
    <3> QED  BY <3>1 DEF Hands, Calls
  <2> QED  BY <1>1, <1>4, <2>1
<1>5. ASSUME ~Requests, NEW k, NEW m, NEW at, NEW tok, Adds(k, m, at, tok), Fits(k, m, at, tok),
             k # "handoff.request"
      PROVE  /\ Count(log', "handoff.request", n) = Count(log, "handoff.request", n)
             /\ Count(log', "handoff.accept", n)
                  = Count(log, "handoff.accept", n) + (IF Hands /\ n = node THEN 1 ELSE 0)
             /\ Count(log', "llm.call", n)
                  = Count(log, "llm.call", n) + (IF Calls /\ n = node THEN 1 ELSE 0)
  <2>1. /\ k = "handoff.accept" <=> Hands
        /\ k = "llm.call" <=> Calls
        /\ k \in {"handoff.accept", "llm.call"} => m = node
    BY <1>5 DEF Fits
  <2>2. Count(log', "handoff.request", n) = Count(log, "handoff.request", n)
    BY <1>0, <1>5, CountGrows
  <2>3. /\ k = "handoff.accept" /\ n = m => Count(log', "handoff.accept", n) = Count(log, "handoff.accept", n) + 1
        /\ k # "handoff.accept" \/ n # m => Count(log', "handoff.accept", n) = Count(log, "handoff.accept", n)
    BY <1>0, <1>5, CountGrows
  <2>4. /\ k = "llm.call" /\ n = m => Count(log', "llm.call", n) = Count(log, "llm.call", n) + 1
        /\ k # "llm.call" \/ n # m => Count(log', "llm.call", n) = Count(log, "llm.call", n)
    BY <1>0, <1>5, CountGrows
  <2>5. Count(log', "handoff.accept", n)
                  = Count(log, "handoff.accept", n) + (IF Hands /\ n = node THEN 1 ELSE 0)
    <3> HIDE DEF Count
    <3> QED  BY <1>1, <2>1, <2>3
  <2>6. Count(log', "llm.call", n)
                  = Count(log, "llm.call", n) + (IF Calls /\ n = node THEN 1 ELSE 0)
    <3> HIDE DEF Count
    <3> QED  BY <1>1, <2>1, <2>4
  <2> QED  BY <2>2, <2>5, <2>6
<1>6. ASSUME ~Requests, log' # log
      PROVE  /\ Count(log', "handoff.request", n) = Count(log, "handoff.request", n)
             /\ Count(log', "handoff.accept", n)
                  = Count(log, "handoff.accept", n) + (IF Hands /\ n = node THEN 1 ELSE 0)
             /\ Count(log', "llm.call", n)
                  = Count(log, "llm.call", n) + (IF Calls /\ n = node THEN 1 ELSE 0)
  <2>1. PICK k, m, at, tok : Adds(k, m, at, tok) /\ Fits(k, m, at, tok) /\ k # "handoff.request"
    BY <1>6, RequestEvent
  <2> QED  BY <1>5, <1>6, <2>1
<1> QED  BY <1>1, <1>3, <1>4, <1>6

(* What is owed changes only when a decision ends without an answer. *)
LEMMA OwedStep ==
  ASSUME IInv, IInv', Step, NEW n
  PROVE  /\ Owed(n) \in Int
         /\ \/ Owed(n)' = Owed(n)
            \/ /\ Owed(n)' = Owed(n) + 1 /\ n = node /\ pc = "decide"
               /\ Retries \/ Aborts \/ Dies
<1>1. \/ Requests /\ pc = "route" /\ pc' = "decide" /\ node' = node /\ ~Hands
      \/ Hands /\ pc = "decide" /\ pc' = "route" /\ node' = node /\ ~Requests
      \/ /\ Retries \/ Aborts \/ Dies
         /\ ~Requests /\ ~Hands /\ pc = "decide" /\ pc' # "decide"
      \/ ~Requests /\ ~Hands /\ pc = "decide" /\ pc' = "decide" /\ node' = node
      \/ ~Requests /\ ~Hands /\ pc # "decide" /\ pc' # "decide"
  BY DEF Step, Opens, Loops, Starts, PrePasses, Suspends, Aborts, Retries, Begins, Executes,
     Calls, Meters, WarnsOnce, PostPasses, Exhausts, Requests, Hands, Commits, Responds, Settles,
     Stops, Ends, Closes, Signals, Dies, Idles, OpenPCs, Fallible, Stay
<1>2. /\ Count(log, "handoff.request", n) \in Nat /\ Count(log, "handoff.accept", n) \in Nat
      /\ Count(log', "handoff.request", n)
              = Count(log, "handoff.request", n) + (IF Requests /\ n = node THEN 1 ELSE 0)
      /\ Count(log', "handoff.accept", n)
              = Count(log, "handoff.accept", n) + (IF Hands /\ n = node THEN 1 ELSE 0)
  BY CountStep
<1> DEFINE req == Count(log, "handoff.request", n)
           acc == Count(log, "handoff.accept", n)
<1>3. /\ Owed(n) = req - (acc + (IF pc = "decide" /\ n = node THEN 1 ELSE 0))
      /\ Owed(n)' = req' - (acc' + (IF pc' = "decide" /\ n = node' THEN 1 ELSE 0))
  BY DEF Owed, Due
<1> HIDE DEF req, acc
<1>4. /\ req \in Nat /\ acc \in Nat
      /\ req' = req + (IF Requests /\ n = node THEN 1 ELSE 0)
      /\ acc' = acc + (IF Hands /\ n = node THEN 1 ELSE 0)
  BY <1>2 DEF req, acc
<1>5. Owed(n) \in Int
  BY <1>3, <1>4
<1>6. CASE n = node
  <2>1. CASE Requests /\ pc = "route" /\ pc' = "decide" /\ node' = node /\ ~Hands
    BY <1>3, <1>4, <1>6, <2>1
  <2>2. CASE Hands /\ pc = "decide" /\ pc' = "route" /\ node' = node /\ ~Requests
    BY <1>3, <1>4, <1>6, <2>2
  <2>3. CASE /\ Retries \/ Aborts \/ Dies
             /\ ~Requests /\ ~Hands /\ pc = "decide" /\ pc' # "decide"
    BY <1>3, <1>4, <1>5, <1>6, <2>3
  <2>4. CASE ~Requests /\ ~Hands /\ pc = "decide" /\ pc' = "decide" /\ node' = node
    BY <1>3, <1>4, <1>6, <2>4
  <2>5. CASE ~Requests /\ ~Hands /\ pc # "decide" /\ pc' # "decide"
    BY <1>3, <1>4, <1>6, <2>5
  <2> QED  BY <1>1, <1>5, <2>1, <2>2, <2>3, <2>4, <2>5
<1>7. CASE n # node
  <2>1. req' = req /\ acc' = acc
    BY <1>4, <1>7
  <2>2. pc' = "decide" => node' = node
    BY <1>1
  <2> QED  BY <1>3, <1>5, <1>7, <2>1, <2>2
<1> QED  BY <1>6, <1>7

(* A gate.fail is left by the steps that have one. *)
LEMMA FailEvent ==
  ASSUME IInv, IInv', Step, NEW n
  PROVE  /\ Where(log, "gate.fail", n) \subseteq Where(log', "gate.fail", n)
         /\ \/ Where(log', "gate.fail", n) = Where(log, "gate.fail", n)
            \/ n = node /\ (Suspends \/ Aborts \/ Retries \/ Exhausts \/ Dies)
<1>0. LogOK /\ LogOK'
  BY DEF IInv
<1>1. CASE log' = log
  BY <1>1
<1>2. ASSUME NEW k, NEW m, NEW at, NEW tok, Adds(k, m, at, tok),
             k = "gate.fail" => m = node /\ (Suspends \/ Aborts \/ Retries \/ Exhausts \/ Dies)
      PROVE  /\ Where(log, "gate.fail", n) \subseteq Where(log', "gate.fail", n)
             /\ \/ Where(log', "gate.fail", n) = Where(log, "gate.fail", n)
                \/ n = node /\ (Suspends \/ Aborts \/ Retries \/ Exhausts \/ Dies)
  BY <1>0, <1>2, WhereGrows
<1>3. \/ log' = log
      \/ \E k, m, at, tok :
           /\ Adds(k, m, at, tok)
           /\ k = "gate.fail" => m = node /\ (Suspends \/ Aborts \/ Retries \/ Exhausts \/ Dies)
  <2>1. PICK k, m, at, tok : log' # log => Adds(k, m, at, tok) /\ Fits(k, m, at, tok)
    BY StepEvent
  <2>2. k = "gate.fail" /\ log' # log => m = node
    BY <2>1 DEF Fits
  <2>3. ASSUME k = "gate.fail", log' # log PROVE Suspends \/ Aborts \/ Retries \/ Exhausts \/ Dies
    <3>1. ASSUME NEW k1, NEW m1, NEW at1, NEW tok1, Adds(k1, m1, at1, tok1) PROVE k1 = "gate.fail"
      BY <1>0, <2>1, <2>3, <3>1, SameAdded
    <3>2. ~Requests
      BY <3>1 DEF Requests
    <3> QED  BY <2>3, <3>1, <3>2, PlainEvent
  <2> QED  BY <2>1, <2>2, <2>3
<1> QED  BY <1>1, <1>2, <1>3

(* What has been called grows by the attempts. *)
LEMMA CalledStep ==
  ASSUME IInv, IInv', Step, NEW n
  PROVE  /\ Called(n) \in Nat /\ Called(n)' \in Nat
         /\ \/ Called(n)' <= Called(n)
            \/ Called(n)' = Called(n) + 1 /\ n = node /\ (PrePasses \/ Retries)
         /\ Retries /\ n = node => Called(n)' = Count(log, "llm.call", n) + 1
<1>1. \/ Calls /\ pc = "call" /\ pc' = "meter" /\ ~Retries
      \/ Retries /\ ~Calls /\ pc' = "attempt" /\ node' = node
      \/ PrePasses /\ ~Calls /\ ~Retries /\ pc' \in {"pre", "attempt"} /\ node' = node
      \/ /\ ~Calls /\ ~Retries
         /\ pc' \in {"attempt", "exec", "call"} => pc \in {"attempt", "exec", "call"} /\ node' = node
  BY DEF Step, Opens, Loops, Starts, PrePasses, Suspends, Aborts, Retries, Begins, Executes,
     Calls, Meters, WarnsOnce, PostPasses, Exhausts, Requests, Hands, Commits, Responds, Settles,
     Stops, Ends, Closes, Signals, Dies, Idles, OpenPCs, Fallible, Stay
<1> DEFINE c == Count(log, "llm.call", n)
<1>2. /\ Called(n) = c + (IF pc \in {"attempt", "exec", "call"} /\ n = node THEN 1 ELSE 0)
      /\ Called(n)' = c' + (IF pc' \in {"attempt", "exec", "call"} /\ n = node' THEN 1 ELSE 0)
  BY DEF Called, Due
<1>3. c \in Nat /\ c' = c + (IF Calls /\ n = node THEN 1 ELSE 0)
  BY CountStep
<1> HIDE DEF c
<1>4. Called(n) \in Nat /\ Called(n)' \in Nat
  BY <1>2, <1>3
<1>5. CASE Calls /\ pc = "call" /\ pc' = "meter" /\ ~Retries
  <2>1. CASE n = node
    BY <1>2, <1>3, <1>5, <2>1
  <2>2. CASE n # node
    BY <1>2, <1>3, <1>5, <2>2
  <2> QED  BY <1>4, <1>5, <2>1, <2>2
<1>6. CASE ~Calls
  <2>1. c' = c
    BY <1>3, <1>6
  <2>2. CASE Retries /\ pc' = "attempt" /\ node' = node
    BY <1>2, <1>3, <1>4, <2>1, <2>2 DEF c
  <2>3. CASE PrePasses /\ ~Retries /\ pc' \in {"pre", "attempt"} /\ node' = node
    BY <1>2, <1>3, <1>4, <2>1, <2>3
  <2>4. CASE /\ ~Retries
             /\ pc' \in {"attempt", "exec", "call"} => pc \in {"attempt", "exec", "call"} /\ node' = node
    BY <1>2, <1>3, <1>4, <2>1, <2>4
  <2> QED  BY <1>1, <1>6, <2>2, <2>3, <2>4
<1> QED  BY <1>1, <1>5, <1>6

(* Nothing has been retried before the first attempt. *)
LEMMA PreUntried ==
  ASSUME IInv, IInv', Step, Untouched, Explained, pc' = "pre"
  PROVE  attempts'[node'] = 0
<1>1. Starts \/ (pc = "pre" /\ node' = node /\ ~Retries)
  BY DEF Step, Opens, Loops, Starts, PrePasses, Suspends, Aborts, Retries, Begins, Executes,
     Calls, Meters, WarnsOnce, PostPasses, Exhausts, Requests, Hands, Commits, Responds, Settles,
     Stops, Ends, Closes, Signals, Dies, Idles, OpenPCs, Stay
<1>2. CASE Starts
  <2>1. pc = "start" /\ node' = node /\ ~Retries
    BY <1>2 DEF Starts, Stay, Retries
  <2>2. node \in Nodes /\ node \notin Committed
    BY <2>1, BoundaryRows DEF Fresh
  <2>3. attempts[node] = 0
    BY <2>1, <2>2 DEF Untouched, Going, Ahead, Boundary
  <2> QED  BY <2>1, <2>3, DiskFrames
<1>3. CASE pc = "pre" /\ node' = node /\ ~Retries
  BY <1>3, DiskFrames DEF Explained
<1> QED  BY <1>1, <1>2, <1>3

(* A node that was quiet stays quiet, unless its own boundary fails. *)
LEMMA QuietlyStep ==
  ASSUME IInv, IInv', Step, NEW n \in Nodes, Quietly(n),
         n = node => ~Suspends /\ ~Aborts /\ ~Exhausts /\ ~Dies
  PROVE  Quietly(n)'
<1> SUFFICES ASSUME attempts'[n] = 0 PROVE Where(log', "gate.fail", n) = {} /\ Owed(n)' = 0
  BY DEF Quietly
<1>1. ~(Retries /\ n = node) /\ attempts[n] = 0
  <2>1. CASE Retries
    <3>1. attempts' = [attempts EXCEPT ![node] = @ + 1]
      BY <2>1 DEF Retries
    <3>2. attempts \in [Nodes -> Nat]
      BY DEF IInv, Quiet, MemOK
    <3> QED  BY <3>1, <3>2
  <2> QED  BY <2>1, DiskFrames
<1>2. Where(log, "gate.fail", n) = {} /\ Owed(n) = 0
  BY <1>1 DEF Quietly
<1>3. Where(log', "gate.fail", n) = {}
  BY <1>1, <1>2, FailEvent
<1>4. Owed(n)' = 0
  BY <1>1, <1>2, OwedStep
<1> QED  BY <1>3, <1>4

(* A retry is told. *)
LEMMA LoudStep ==
  ASSUME IInv, IInv', Step, Counted, Explained, NEW n \in Nodes
  PROVE  Owed(n)' >= 0 /\ Loudly(n)'
<1>1. Owed(n)' >= 0
  <2>1. Owed(n) >= 0
    BY DEF Explained
  <2> QED  BY <2>1, OwedStep
<1>2. Owed(n) > 0 => Owed(n)' > 0
  BY OwedStep
<1>3. CASE Retries /\ n = node
  <2>1. attempts' = [attempts EXCEPT ![node] = @ + 1]
    BY <1>3 DEF Retries
  <2>2. attempts[n] \in Nat /\ attempts'[n] = attempts[n] + 1
    BY <1>3, <2>1 DEF IInv, Quiet, MemOK
  <2>3. CASE pc = "post"
    <3>1. PICK at : Adds("gate.fail", node, at, 0)
      BY <1>3, <2>3 DEF Retries
    <3>2. Where(log', "gate.fail", n) = Where(log, "gate.fail", n) \cup {Len(log) + 1}
      BY <1>3, <3>1, WhereGrows DEF IInv
    <3> QED  BY <1>1, <3>2 DEF Loudly
  <2>4. CASE pc = "exec"
    <3>1. Count(log, "llm.call", n) <= attempts[n]
      BY <1>3, <2>4 DEF Counted, Count
    <3>2. Called(n)' = Count(log, "llm.call", n) + 1
      BY <1>3, CalledStep
    <3>3. Count(log, "llm.call", n) \in Nat
      BY CountStep
    <3>4. Called(n)' <= attempts'[n]
      BY <2>2, <3>1, <3>2, <3>3
    <3> QED  BY <1>1, <3>4 DEF Loudly
  <2>5. CASE pc = "decide"
    <3>1. Owed(n)' = Owed(n) + 1
      <4>1. Count(log', "handoff.request", n) = Count(log, "handoff.request", n)
        BY <2>5, CountStep DEF Requests
      <4>2. Count(log', "handoff.accept", n) = Count(log, "handoff.accept", n)
        <5>1. ~Hands
          BY <1>3 DEF Hands, Retries
        <5> QED  BY <5>1, CountStep
      <4>3. pc' = "attempt"
        BY <1>3 DEF Retries
      <4>4. Count(log, "handoff.request", n) \in Nat /\ Count(log, "handoff.accept", n) \in Nat
        BY CountStep
      <4>5. Owed(n) = Count(log, "handoff.request", n) - (Count(log, "handoff.accept", n) + 1)
        BY <1>3, <2>5 DEF Owed, Due
      <4>6. Owed(n)' = Count(log', "handoff.request", n) - (Count(log', "handoff.accept", n) + 0)
        BY <4>3 DEF Owed, Due
      <4> QED  BY <4>1, <4>2, <4>4, <4>5, <4>6
    <3>2. Owed(n)' > 0
      <4>1. Owed(n) >= 0
        BY DEF Explained
      <4> QED  BY <3>1, <4>1, OwedStep
    <3> QED  BY <1>1, <3>2 DEF Loudly
  <2>6. pc \in {"exec", "post", "decide"}
    BY <1>3 DEF Retries
  <2> QED  BY <2>3, <2>4, <2>5, <2>6
<1>4. CASE ~(Retries /\ n = node)
  <2>1. attempts'[n] = attempts[n]
    <3>1. Retries => attempts' = [attempts EXCEPT ![node] = @ + 1]
      BY DEF Retries
    <3> QED  BY <1>4, <3>1, DiskFrames DEF IInv, Quiet, MemOK
  <2>2. SUFFICES ASSUME attempts[n] > 0
                 PROVE \/ Where(log', "gate.fail", n) # {}
                       \/ Called(n)' <= attempts[n]
                       \/ Owed(n)' > 0
    BY <1>1, <2>1 DEF Loudly
  <2>3. Where(log, "gate.fail", n) # {} \/ Called(n) <= attempts[n] \/ Owed(n) > 0
    BY <2>2 DEF Explained, Loudly
  <2>4. Where(log, "gate.fail", n) # {} => Where(log', "gate.fail", n) # {}
    BY FailEvent
  <2>5. ~(PrePasses /\ n = node)
    <3>1. PrePasses => pc = "pre"
      BY DEF PrePasses
    <3>2. pc = "pre" => attempts[node] = 0
      BY DEF Explained
    <3> QED  BY <2>2, <3>1, <3>2
  <2>6. Called(n)' <= Called(n) /\ Called(n) \in Nat /\ Called(n)' \in Nat
    BY <1>4, <2>5, CalledStep
  <2>7. attempts[n] \in Nat
    BY DEF IInv, Quiet, MemOK
  <2>8. Called(n) <= attempts[n] => Called(n)' <= attempts[n]
    BY <2>6, <2>7
  <2> QED  BY <1>2, <2>3, <2>4, <2>8
<1> QED  BY <1>3, <1>4

(* Retries and the trace go on explaining each other. *)
LEMMA ExplainedStep ==
  ASSUME IInv, IInv', Step, Untouched, Counted, Completed, Explained
  PROVE  Explained'
<1>1. pc' = "pre" => attempts'[node'] = 0
  BY PreUntried
<1>2. ASSUME Going', NEW n \in Nodes, pc' = "escalate" => n # node' PROVE Quietly(n)'
  <2>1. Going /\ ~Aborts
    BY <1>2, GoingStep
  <2>2. ~Suspends /\ ~Dies
    BY <1>2 DEF Suspends, Dies, Going, OpenPCs, Boundary, Fresh
  <2>3. Exhausts => n # node
    BY <1>2 DEF Exhausts, Stay
  <2>4. pc = "escalate" => n # node
    <3>1. pc = "escalate" => pc' = "escalate" /\ node' = node
      BY <2>1, <2>2 DEF Step, Opens, Loops, Starts, PrePasses, Suspends, Retries, Begins, Executes,
         Calls, Meters, WarnsOnce, PostPasses, Exhausts, Requests, Hands, Commits, Responds, Settles,
         Stops, Ends, Closes, Signals, Idles, OpenPCs, Stay
    <3> QED  BY <1>2, <3>1
  <2>5. Quietly(n)
    BY <2>1, <2>4 DEF Explained
  <2>6. n = node => ~Suspends /\ ~Aborts /\ ~Exhausts /\ ~Dies
    BY <2>1, <2>2, <2>3
  <2> QED  BY <2>5, <2>6, QuietlyStep
<1>3. ASSUME end'.state = "COMPLETED", NEW n \in Nodes PROVE Quietly(n)'
  <2>1. CASE end' = end
    <3>1. Quietly(n) /\ pc \in {"finish", "close", "done", "dead"}
      BY <1>3, <2>1 DEF Explained, Completed
    <3>2. CASE ~Dies
      <4>1. ~Suspends /\ ~Aborts /\ ~Exhausts
        BY <3>1 DEF Suspends, Aborts, Exhausts, Fallible
      <4>2. n = node => ~Suspends /\ ~Aborts /\ ~Exhausts /\ ~Dies
        BY <3>2, <4>1
      <4> QED  BY <3>1, <4>2, QuietlyStep
    <3>3. CASE Dies
      <4>1. log' = log /\ attempts' = attempts /\ pc' # "decide" /\ pc # "decide"
        BY <3>1, <3>3 DEF Dies, TraceOnly, memVars
      <4>2. Owed(n)' = Owed(n)
        BY <4>1 DEF Owed, Due
      <4> QED  BY <3>1, <4>1, <4>2 DEF Quietly
    <3> QED  BY <3>2, <3>3
  <2>2. CASE end' # end
    <3>1. Loops
      <4>1. ~Aborts
        BY <1>3 DEF Aborts
      <4> QED  BY <2>2, <4>1, EndStep
    <3>2. pc \in {"wave", "node"}
      BY <3>1 DEF Loops
    <3>3. Quietly(n)
      BY <3>2 DEF Explained, Going
    <3>4. ~Suspends /\ ~Aborts /\ ~Exhausts /\ ~Dies
      <4>1. ~Dies
        BY <2>2 DEF Dies, Stay
      <4> QED  BY <3>2, <4>1 DEF Suspends, Aborts, Exhausts, Fallible
    <3>5. n = node => ~Suspends /\ ~Aborts /\ ~Exhausts /\ ~Dies
      BY <3>4
    <3> QED  BY <3>3, <3>5, QuietlyStep
  <2> QED  BY <2>1, <2>2
<1>4. \A n \in Nodes : Owed(n)' >= 0 /\ Loudly(n)'
  BY LoudStep
<1> QED  BY <1>1, <1>2, <1>3, <1>4 DEF Explained

-----------------------------------------------------------------------------
(* The budget of a completed session. *)

(* A session completes under its lines, and the lines do not move after. *)
LEMMA AffordedStep == ASSUME IInv, IInv', Step, Limited, Completed, Afforded PROVE Afforded'
<1> SUFFICES ASSUME end'.state = "COMPLETED", wal' # <<>>
             PROVE  ~SuspendReached(Role[wal[Len(wal)].node])'
  BY DEF Afforded
<1>1. pc \in {"wave", "finish", "close", "done", "dead"}
  <2>1. CASE end' = end
    BY <2>1 DEF Completed
  <2>2. CASE Loops /\ end' # end
    <3>1. pc = "wave" \/ end' = Interrupted
      BY <2>2 DEF Loops, Stay
    <3>2. Interrupted.state # "COMPLETED"
      BY DEF Interrupted, End
    <3> QED  BY <3>1, <3>2
  <2>3. ~Aborts
    BY DEF Aborts
  <2> QED  BY <2>1, <2>2, <2>3, EndStep
<1>2. wal' = wal /\ UNCHANGED <<sessionSpent, agentSpent, teamSpent>>
  <2>1. ~Commits /\ ~Meters /\ ~Settles
    BY <1>1 DEF Commits, Meters, Settles
  <2> QED  BY <2>1, DiskFrames, RunFrames
<1>3. ~SuspendReached(Role[wal[Len(wal)].node])
  <2>1. CASE pc = "wave"
    BY <1>2, <2>1 DEF Limited
  <2>2. CASE pc \in {"finish", "close", "done", "dead"}
    BY <1>2, <2>2, Over DEF Afforded
  <2> QED  BY <1>1, <2>1, <2>2
<1> DEFINE r == Role[wal[Len(wal)].node]
<1>4. r' = r
  BY <1>2
<1>5. SuspendReached(r)' <=> SuspendReached(r)
  BY <1>2, <1>4 DEF SuspendReached, ScopeReached
<1> QED  BY <1>3, <1>5

-----------------------------------------------------------------------------
(* What the readers print. *)

(* A spend below a line is a smaller percentage of the cap. *)
LEMMA PercentBelow ==
  ASSUME NEW spent \in Nat, NEW cap \in Nat, NEW pct \in Nat, spent < (cap * pct) \div 100
  PROVE  Percent(spent, cap) < pct
<1> DEFINE line == (cap * pct) \div 100
           least == IF spent < cap THEN spent ELSE cap
<1>1. cap * pct \in Nat
  OBVIOUS
<1>2. line \in Nat /\ 100 * line <= cap * pct
  BY <1>1
<1> HIDE DEF line
<1>3. spent < line
  BY DEF line
<1>4. 100 * spent < cap * pct
  BY <1>1, <1>2, <1>3
<1>5. cap # 0
  BY <1>4
<1>6. least \in Nat /\ least <= spent
  OBVIOUS
<1> HIDE DEF least
<1>7. least * 100 < cap * pct
  BY <1>1, <1>4, <1>6
<1> DEFINE q == (least * 100) \div cap
<1>8. q \in Nat /\ cap * q <= least * 100
  <2> DEFINE x == least * 100
  <2>1. x \in Nat
    BY <1>6
  <2> HIDE DEF x
  <2>2. x \div cap \in Nat /\ cap * (x \div cap) <= x
    BY <1>5, <2>1
  <2> QED  BY <2>2 DEF x
<1> HIDE DEF q
<1>9. cap * q < cap * pct
  BY <1>1, <1>7, <1>8, <1>6
<1>10. q < pct
  <2> SUFFICES ASSUME pct <= q PROVE FALSE
    BY <1>8
  <2>1. cap * pct <= cap * q
    BY <1>8
  <2>2. cap * pct \in Nat /\ cap * q \in Nat
    BY <1>8
  <2> QED  BY <1>9, <2>1, <2>2
<1> QED  BY <1>5, <1>10 DEF q, least, Percent

(* The report of a completed session, and of a suspended one. *)
LEMMA ReportTold ==
  ASSUME IInv, Limited, Completed, Worded, Afforded
  PROVE  OverBudgetStops
<1>1. NoStartOverBudget
  BY BudgetKept
<1>2. ASSUME "suspend" \in BudgetReport.levels
      PROVE  \E i \in 1..Len(log) : Exhausted(log[i])
  BY <1>2 DEF BudgetReport, Exhausted
<1>3. ASSUME BudgetReport.state = "COMPLETED", wal # <<>>, NEW p \in BudgetReport.percent
      PROVE  p < SuspendPct
  <2>1. end.state = "COMPLETED"
    BY <1>3 DEF BudgetReport, SessionFacts, Completed
  <2>2. ~SuspendReached(Role[wal[Len(wal)].node])
    BY <1>3, <2>1 DEF Afforded
  <2>3. ~LineReached(SessionCap, SuspendPct, sessionSpent)
    BY <2>2 DEF SuspendReached, ScopeReached, Scopes
  <2>4. SessionCap # NoCap /\ p = Percent(sessionSpent, SessionCap)
    BY <1>3 DEF BudgetReport, SessionFacts
  <2>5. sessionSpent \in Nat /\ SessionCap \in Nat /\ SuspendPct \in Nat
    BY <2>4, BudgetAssumption DEF IInv, Quiet, BudgetTypeOK
  <2>6. sessionSpent < (SessionCap * SuspendPct) \div 100
    <3>1. ~(sessionSpent >= (SessionCap * SuspendPct) \div 100)
      BY <2>3, <2>4 DEF LineReached
    <3>2. SessionCap * SuspendPct \in Nat
      BY <2>5
    <3> DEFINE x == SessionCap * SuspendPct
    <3> HIDE DEF x
    <3>3. x \div 100 \in Nat
      BY <3>2 DEF x
    <3>4. ~(sessionSpent >= x \div 100)
      BY <3>1 DEF x
    <3>5. sessionSpent < x \div 100
      BY <2>5, <3>3, <3>4
    <3> QED  BY <3>5 DEF x
  <2> QED  BY <2>4, <2>5, <2>6, PercentBelow
<1>4. ASSUME BudgetReport.state = "COMPLETED" PROVE "suspend" \notin BudgetReport.levels
  <2>1. end.state = "COMPLETED"
    BY <1>4 DEF BudgetReport, SessionFacts, Completed
  <2>2. ~Spent
    BY <2>1 DEF Spent, OverBudget, End
  <2> QED  BY <1>2, <2>2 DEF Worded, Drained
<1>5. ASSUME pc = "done", "suspend" \in BudgetReport.levels PROVE BudgetReport.state = "SUSPENDED"
  <2>1. Spent
    BY <1>2, <1>5 DEF Worded, Drained
  <2>2. end = OverBudget
    BY <1>5, <2>1 DEF Spent
  <2>3. walState = end.state
    BY <1>5 DEF Worded, Closed
  <2> QED  BY <2>2, <2>3 DEF BudgetReport, SessionFacts, OverBudget, End
<1> QED  BY <1>1, <1>3, <1>4, <1>5 DEF OverBudgetStops

(* A set of positions has a last one, *)
LEMMA LastExists ==
  ASSUME NEW m \in Nat, NEW S \in SUBSET (1..m), S # {}
  PROVE  \E x \in S : \A y \in S : y <= x
<1> DEFINE D == {d \in Nat : m - d \in S}
<1>1. \A x \in S : m - x \in D /\ x \in Int
  <2> TAKE x \in S
  <2>1. x \in 1..m
    OBVIOUS
  <2>2. x \in Int /\ m - x \in Nat /\ m - (m - x) = x
    BY <2>1
  <2> QED  BY <2>2
<1>2. D \in SUBSET Nat /\ D # {}
  BY <1>1
<1>3. PICK d \in D : \A e \in D : d <= e
  <2> HIDE DEF D
  <2> QED  BY <1>2, LeastNatural
<1>4. m - d \in S /\ d \in Nat
  OBVIOUS
<1>5. ASSUME NEW y \in S PROVE y <= m - d
  <2>1. m - y \in D /\ y \in Int
    BY <1>1
  <2>2. d <= m - y
    <3> HIDE DEF D
    <3> QED  BY <1>3, <2>1
  <2> QED  BY <1>4, <2>1, <2>2
<1> QED  BY <1>4, <1>5

(* which is the one that a reader chooses. *)
LEMMA LastChosen ==
  ASSUME NEW m \in Nat, NEW S \in SUBSET (1..m), NEW x \in S, \A y \in S : y <= x
  PROVE  (CHOOSE i \in S : \A j \in S : j <= i) = x
<1> DEFINE P(i) == i \in S /\ \A j \in S : j <= i
           c == CHOOSE i \in S : \A j \in S : j <= i
<1>1. P(c)
  OBVIOUS
<1> HIDE DEF c
<1>2. c \in Int /\ x \in Int
  <2>1. c \in 1..m /\ x \in 1..m
    BY <1>1
  <2> QED  BY <2>1
<1>3. c = x
  BY <1>1, <1>2
<1> QED  BY <1>3 DEF c

(* What the ends are called. *)
LEMMA EndsNamed ==
  ASSUME end \in Endings1
  PROVE  /\ end.reason = "BUDGET_EXCEEDED" <=> end = OverBudget
         /\ end.reason \in {"GATE_REJECT"} \cup HaltReasons <=> end \in Refusals
         /\ end.state = "FAILED" => end \in Refusals
<1>1. ExecFaults \subseteq {"PROVIDER_FAILURE", "TIMEOUT"}
  BY InstanceAssumption
<1>2. CASE end \in {NoEnd, End("COMPLETED", "none"), Interrupted}
  BY <1>2 DEF NoEnd, End, Interrupted, OverBudget, HaltReasons, Refusals, Rejected
<1>3. CASE end = OverBudget
  BY <1>3 DEF End, OverBudget, HaltReasons, Refusals, Rejected
<1>4. CASE end \in Refusals
  BY <1>4 DEF Refusals, Rejected, End, OverBudget, HaltReasons
<1>5. CASE end \in {End("HALTED", r) : r \in ExecFaults}
  <2>1. end.reason \in {"PROVIDER_FAILURE", "TIMEOUT"} /\ end.state = "HALTED"
    BY <1>1, <1>5 DEF End
  <2> QED  BY <2>1 DEF OverBudget, End, HaltReasons, Refusals, Rejected
<1> QED  BY <1>2, <1>3, <1>4, <1>5 DEF Endings1

(* The state that the header shows. *)
LEMMA HeaderTold == ASSUME IInv, Completed, Worded, pc = "done" PROVE HeaderStatus(log) = walState
<1> DEFINE closes == {i \in 1..Len(log) : log[i].kind = "session.close"}
<1>0. Len(log) \in Nat
  BY DEF IInv, LogOK
<1>1. log # <<>> /\ log[Len(log)].kind = "session.close"
  BY DEF Worded, Closed
<1>2. Len(log) \in closes
  <2>1. Len(log) # 0
    BY <1>1 DEF IInv, LogOK
  <2> QED  BY <1>0, <1>1, <2>1
<1>3. \A i \in closes : log[i].at = walState /\ i = Len(log)
  BY DEF Worded, Named, Completed, Where
<1>4. \A i \in closes : i <= Len(log)
  BY <1>0
<1> HIDE DEF closes
<1>5. closes \in SUBSET (1..Len(log))
  BY DEF closes
<1>6. (CHOOSE i \in closes : \A j \in closes : j <= i) = Len(log)
  BY <1>0, <1>2, <1>4, <1>5, LastChosen
<1>7. closes # {}
  BY <1>2
<1>8. HeaderStatus(log) = log[CHOOSE i \in closes : \A j \in closes : j <= i].at
  BY <1>7 DEF HeaderStatus, closes
<1> QED  BY <1>2, <1>3, <1>6, <1>8

(* The reason that a replay names is the last that an event gives. *)
LEMMA ReasonTold ==
  ASSUME IInv, Blamed
  PROVE  LET r == TerminalFacts(log).reason IN
         /\ \A i \in 1..Len(log) :
              /\ LastWord(log, i) /\ Exhausted(log[i]) => r = "BUDGET_EXCEEDED"
              /\ LastWord(log, i) /\ log[i].kind = "gate.fail" => r = log[i].reason
         /\ \/ r = "none" /\ \A i \in 1..Len(log) : log[i].kind # "gate.fail"
            \/ \E i \in 1..Len(log) : Exhausted(log[i])
            \/ \E i \in 1..Len(log) : log[i].kind = "gate.fail" /\ r = log[i].reason
<1> DEFINE suspends == {i \in 1..Len(log) : log[i].kind = "budget.event" /\ log[i].at = "suspend"}
           reasons == {i \in 1..Len(log) : log[i].kind = "gate.fail"} \cup suspends
           last == CHOOSE i \in reasons : \A j \in reasons : j <= i
           r == TerminalFacts(log).reason
<1>0. Len(log) \in Nat
  BY DEF IInv, LogOK
<1>1. r = IF reasons = {} THEN "none"
          ELSE IF last \in suspends THEN "BUDGET_EXCEEDED" ELSE log[last].reason
  BY DEF TerminalFacts
<1>2. reasons \in SUBSET (1..Len(log))
  OBVIOUS
<1>3. ASSUME NEW i \in 1..Len(log), LastWord(log, i), Exhausted(log[i]) \/ log[i].kind = "gate.fail"
      PROVE  last = i /\ reasons # {}
  <2>1. i \in reasons
    BY <1>3 DEF Exhausted
  <2>2. \A j \in reasons : j <= i
    BY <1>3 DEF LastWord, Words
  <2> HIDE DEF reasons
  <2> QED  BY <1>0, <1>2, <2>1, <2>2, LastChosen
<1>4. ASSUME NEW i \in 1..Len(log), LastWord(log, i), Exhausted(log[i])
      PROVE  r = "BUDGET_EXCEEDED"
  <2>1. last = i /\ reasons # {}
    BY <1>3, <1>4
  <2>2. i \in suspends \/ log[i].reason = "BUDGET_EXCEEDED"
    BY <1>4 DEF Exhausted, Blamed, FailReason
  <2> HIDE DEF last, reasons, r, suspends
  <2> QED  BY <1>1, <2>1, <2>2
<1>5. ASSUME NEW i \in 1..Len(log), LastWord(log, i), log[i].kind = "gate.fail"
      PROVE  r = log[i].reason
  <2>1. last = i /\ reasons # {}
    BY <1>3, <1>5
  <2>2. i \notin suspends
    BY <1>5
  <2> HIDE DEF last, reasons, r, suspends
  <2> QED  BY <1>1, <2>1, <2>2
<1>6. \/ r = "none" /\ \A i \in 1..Len(log) : log[i].kind # "gate.fail"
      \/ \E i \in 1..Len(log) : Exhausted(log[i])
      \/ \E i \in 1..Len(log) : log[i].kind = "gate.fail" /\ r = log[i].reason
  <2>1. CASE reasons = {}
    <3>1. \A i \in 1..Len(log) : log[i].kind # "gate.fail"
      BY <2>1
    <3> HIDE DEF last, reasons, r, suspends
    <3> QED  BY <1>1, <2>1, <3>1
  <2>2. CASE reasons # {}
    <3>1. PICK x \in reasons : \A y \in reasons : y <= x
      <4> HIDE DEF reasons
      <4> QED  BY <1>0, <1>2, <2>2, LastExists
    <3>2. last = x
      <4> HIDE DEF reasons
      <4> QED  BY <1>0, <1>2, <3>1, LastChosen
    <3>3. last \in reasons
      BY <3>1, <3>2
    <3>4. last \in suspends => \E i \in 1..Len(log) : Exhausted(log[i])
      <4> HIDE DEF last
      <4> QED  BY DEF Exhausted
    <3>5. last \notin suspends => last \in 1..Len(log) /\ log[last].kind = "gate.fail" /\ r = log[last].reason
      <4>1. last \notin suspends => r = log[last].reason
        <5> HIDE DEF last, reasons, r, suspends
        <5> QED  BY <1>1, <2>2
      <4> HIDE DEF last, r
      <4> QED  BY <3>3, <4>1
    <3> HIDE DEF last, r
    <3> QED  BY <3>4, <3>5
  <2> QED  BY <2>1, <2>2
<1> QED  BY <1>4, <1>5, <1>6 DEF r

(* A committed boundary has called, and its last verdict is a pass. *)
LEMMA CommittedPassed ==
  ASSUME IInv, NEW n \in Nodes, Backed(log, n)
  PROVE  /\ Where(log, "llm.call", n) # {}
         /\ \E i \in At("gate.pass", n) : \A j \in GateEvents(n) : j <= i
<1>0. Len(log) \in Nat
  BY DEF IInv, LogOK
<1>1. PICK p \in Where(log, "llm.call", n) :
         Since(log, n, Len(PostGates[n]) + 1, Len(Succs[n]) + 1, p)
  BY DEF Backed, Progress
<1>2. PostGates[n] \in Seq(GateIds) /\ Len(PostGates[n]) \in Nat /\ 1 \in 1..Len(PostGates[n])
  <2>1. PostGates[n] \in Seq(GateIds) /\ "schema" \in Members(PostGates[n])
    BY InstanceAssumption
  <2>2. Len(PostGates[n]) \in Nat
    BY <2>1
  <2> QED  BY <2>1, <2>2 DEF Members
<1>3. PostGates[n][1] \in Passes(log, n, p..Len(log)) /\ Where(log, "gate.fail", n) \cap (p..Len(log)) = {}
  <2>1. 1 < Len(PostGates[n]) + 1
    BY <1>2
  <2> QED  BY <1>1, <1>2, <2>1 DEF Since
<1>4. PICK q \in Where(log, "gate.pass", n) : q \in p..Len(log)
  BY <1>3 DEF Passes
<1>5. PICK i \in Where(log, "gate.pass", n) : \A j \in Where(log, "gate.pass", n) : j <= i
  <2> DEFINE S == Where(log, "gate.pass", n)
  <2>1. S \in SUBSET (1..Len(log)) /\ S # {}
    BY <1>4 DEF Where
  <2> HIDE DEF S
  <2>2. \E x \in S : \A y \in S : y <= x
    BY <1>0, <2>1, LastExists
  <2> QED  BY <2>2 DEF S
<1>6. ASSUME NEW j \in Where(log, "gate.fail", n) PROVE j <= i
  <2>1. j \in 1..Len(log) /\ p \in 1..Len(log) /\ i \in 1..Len(log)
    BY <1>1, <1>5, <1>6 DEF Where
  <2>2. ~(p <= j)
    BY <1>0, <1>3, <1>6, <2>1
  <2>3. p <= q /\ q <= i
    BY <1>4, <1>5, <2>1
  <2>4. q \in 1..Len(log)
    BY <1>4 DEF Where
  <2> QED  BY <1>0, <2>1, <2>2, <2>3, <2>4
<1>7. At("gate.pass", n) = Where(log, "gate.pass", n) /\ At("gate.fail", n) = Where(log, "gate.fail", n)
  BY DEF At, Where
<1> QED  BY <1>1, <1>5, <1>6, <1>7 DEF GateEvents

(* The numbers of a node in the trace. *)
LEMMA AtCounts ==
  ASSUME IInv, NEW n
  PROVE  /\ At("gate.fail", n) = Where(log, "gate.fail", n)
         /\ Cardinality(At("llm.call", n)) = Count(log, "llm.call", n)
         /\ Cardinality(At("handoff.request", n)) = Count(log, "handoff.request", n)
         /\ Cardinality(At("handoff.accept", n)) = Count(log, "handoff.accept", n)
         /\ Count(log, "llm.call", n) \in Nat /\ Count(log, "handoff.request", n) \in Nat
         /\ Count(log, "handoff.accept", n) \in Nat
         /\ Where(log, "llm.call", n) # {} => Count(log, "llm.call", n) > 0
<1>1. \A k : At(k, n) = Where(log, k, n)
  BY DEF At, Where
<1>2. \A k : IsFiniteSet(Where(log, k, n)) /\ Cardinality(Where(log, k, n)) \in Nat
  BY WhereFinite DEF IInv
<1>3. ASSUME Where(log, "llm.call", n) # {} PROVE Count(log, "llm.call", n) > 0
  <2>1. Cardinality(Where(log, "llm.call", n)) # 0
    BY <1>2, <1>3, FS_EmptySet
  <2>2. Cardinality(Where(log, "llm.call", n)) \in Nat
    BY <1>2
  <2> QED  BY <2>1, <2>2 DEF Count
<1> QED  BY <1>1, <1>2, <1>3 DEF Count

(* In a completed session a boundary retried exactly when its verdict is   *)
(* CONCERNS or it retried without a verdict.                               *)
LEMMA RetriedTold ==
  ASSUME IInv, Explained, pc = "done", end.state = "COMPLETED", NEW n \in Nodes, Backed(log, n)
  PROVE  /\ attempts[n] > 0 <=> BoundaryVerdict(n) = "CONCERNS" \/ RetriedUnjudged(n)
         /\ BoundaryVerdict(n) # "FAIL"
         /\ BoundaryVerdict(n) = "CONCERNS" => At("gate.fail", n) # {}
<1>1. \E i \in At("gate.pass", n) : \A j \in GateEvents(n) : j <= i
  BY CommittedPassed
<1>2. BoundaryVerdict(n) = IF At("gate.fail", n) # {} THEN "CONCERNS" ELSE "PASS"
  BY <1>1 DEF BoundaryVerdict, DeriveBoundaryVerdict
<1>3. attempts[n] \in Nat
  BY DEF IInv, Quiet, MemOK
<1> DEFINE calls == Count(log, "llm.call", n)
           req == Count(log, "handoff.request", n)
           acc == Count(log, "handoff.accept", n)
<1>4. calls \in Nat /\ calls > 0 /\ req \in Nat /\ acc \in Nat
  BY AtCounts, CommittedPassed
<1>5. Called(n) = calls /\ Owed(n) = req - acc
  <2>1. Called(n) = calls + 0 /\ Owed(n) = req - (acc + 0)
    BY DEF Called, Owed, Due
  <2> HIDE DEF calls, req, acc
  <2> QED  BY <1>4, <2>1
<1>6. RetriedUnjudged(n) <=> attempts[n] + 1 > calls \/ req > acc
  BY AtCounts DEF RetriedUnjudged
<1>7. attempts[n] = 0 => At("gate.fail", n) = {} /\ req - acc = 0
  BY <1>5, AtCounts DEF Explained, Quietly
<1>8. /\ req - acc >= 0
      /\ attempts[n] > 0 => At("gate.fail", n) # {} \/ calls <= attempts[n] \/ req - acc > 0
  BY <1>5, AtCounts DEF Explained, Loudly
<1> HIDE DEF calls, req, acc
<1>9. CASE attempts[n] = 0
  <2>1. ~RetriedUnjudged(n)
    BY <1>3, <1>4, <1>6, <1>7, <1>9
  <2> QED  BY <1>2, <1>7, <1>9, <2>1
<1>10. CASE attempts[n] > 0
  <2>1. calls <= attempts[n] \/ req - acc > 0 => RetriedUnjudged(n)
    BY <1>3, <1>4, <1>6
  <2> QED  BY <1>2, <1>8, <1>10, <2>1
<1> QED  BY <1>3, <1>9, <1>10

(* A session that a gate rejected has a boundary that failed. *)
LEMMA FailureTold ==
  ASSUME IInv, Worded, pc = "done", walState = "FAILED"
  PROVE  SessionVerdict({BoundaryVerdict(n) : n \in Judged}) = "FAIL"
<1>1. end.state = "FAILED"
  BY DEF Worded, Closed
<1>2. end \in Refusals
  BY <1>1, EndsNamed DEF Worded, Refused
<1>3. PICK i \in 1..Len(log) : LastWord(log, i) /\ log[i].kind = "gate.fail"
  BY <1>2 DEF Worded, Refused, Past
<1> DEFINE n == log[i].node
<1>4. n \in Nodes
  BY <1>3 DEF Worded, Named
<1>5. i \in GateEvents(n)
  BY <1>3 DEF GateEvents, At
<1>6. n \in Judged
  BY <1>4, <1>5 DEF Judged
<1>7. ASSUME NEW j \in At("gate.pass", n), \A k \in GateEvents(n) : k <= j PROVE FALSE
  <2>1. j \in 1..Len(log) /\ log[j].kind = "gate.pass"
    BY <1>7 DEF At
  <2>2. j <= i
    BY <1>3, <2>1 DEF LastWord, Words
  <2>3. i <= j
    BY <1>5, <1>7
  <2>4. i = j
    <3>1. i \in Int /\ j \in Int
      BY <2>1
    <3> QED  BY <2>2, <2>3, <3>1
  <2> QED  BY <1>3, <2>1, <2>4
<1>8. BoundaryVerdict(n) = "FAIL"
  BY <1>7 DEF BoundaryVerdict, DeriveBoundaryVerdict
<1> HIDE DEF n
<1>9. "FAIL" \in {BoundaryVerdict(m) : m \in Judged}
  BY <1>6, <1>8
<1> QED  BY <1>9 DEF SessionVerdict

(* The verdict and the concerns of a completed session. *)
LEMMA CompletionTold ==
  ASSUME IInv, Backing, Completed, Explained, pc = "done", walState = "COMPLETED"
  PROVE  LET verdict == SessionVerdict({BoundaryVerdict(n) : n \in Judged}) IN
         /\ verdict # "FAIL"
         /\ verdict = "CONCERNS" => Summary.concerns > 0 /\ Summary.fail > 0
         /\ Summary.concerns =
              Cardinality({n \in Nodes : BoundaryVerdict(n) = "CONCERNS" \/ RetriedUnjudged(n)})
<1>0. end.state = "COMPLETED" /\ Committed = Nodes /\ concerns = Cardinality({n \in Nodes : attempts[n] > 0})
  BY CompletedAll DEF Completed, CompletedMeansAll
<1>1. ASSUME NEW n \in Nodes
      PROVE  /\ attempts[n] > 0 <=> BoundaryVerdict(n) = "CONCERNS" \/ RetriedUnjudged(n)
             /\ BoundaryVerdict(n) # "FAIL"
             /\ BoundaryVerdict(n) = "CONCERNS" => At("gate.fail", n) # {}
  BY <1>0, <1>1, RetriedTold DEF Backing
<1> DEFINE T == {n \in Nodes : attempts[n] > 0}
           V == {BoundaryVerdict(n) : n \in Judged}
           F == {i \in 1..Len(log) : log[i].kind = "gate.fail"}
<1>2. T = {n \in Nodes : BoundaryVerdict(n) = "CONCERNS" \/ RetriedUnjudged(n)}
  BY <1>1
<1>3. Summary.concerns = concerns /\ Summary.fail = Cardinality(F)
  BY DEF Summary
<1>4. "FAIL" \notin V
  BY <1>1 DEF Judged
<1>5. SessionVerdict(V) # "FAIL" /\ (SessionVerdict(V) = "CONCERNS" => "CONCERNS" \in V)
  <2> HIDE DEF V
  <2> QED  BY <1>4 DEF SessionVerdict
<1>6. ASSUME "CONCERNS" \in V PROVE Cardinality(T) > 0 /\ Cardinality(F) > 0
  <2>1. PICK n \in Nodes : BoundaryVerdict(n) = "CONCERNS"
    BY <1>6 DEF Judged
  <2>2. n \in T /\ IsFiniteSet(T)
    <3>1. n \in T
      BY <1>1, <2>1
    <3>2. T \in SUBSET Nodes
      OBVIOUS
    <3> HIDE DEF T
    <3> QED  BY <3>1, <3>2, FiniteNodes, FS_Subset
  <2>3. F # {} /\ IsFiniteSet(F)
    <3>1. F # {}
      BY <1>1, <2>1 DEF At
    <3>2. F \in SUBSET (1..Len(log)) /\ Len(log) \in Nat
      BY DEF IInv, LogOK
    <3>3. IsFiniteSet(1..Len(log))
      BY <3>2, FS_Interval
    <3> HIDE DEF F
    <3> QED  BY <3>1, <3>2, <3>3, FS_Subset
  <2> HIDE DEF T, F
  <2>4. Cardinality(T) # 0 /\ Cardinality(F) # 0
    BY <2>2, <2>3, FS_EmptySet
  <2>5. Cardinality(T) \in Nat /\ Cardinality(F) \in Nat
    BY <2>2, <2>3, FS_CardinalityType
  <2> QED  BY <2>4, <2>5
<1> HIDE DEF T, V, F
<1>7. /\ SessionVerdict(V) # "FAIL"
      /\ SessionVerdict(V) = "CONCERNS" => Summary.concerns > 0 /\ Summary.fail > 0
      /\ Summary.concerns = Cardinality(T)
  <2>1. concerns = Cardinality(T)
    BY <1>0 DEF T
  <2> QED  BY <1>3, <1>5, <1>6, <2>1
<1> QED  BY <1>2, <1>7 DEF V

(* What is read off a closed session is how it ended. *)
LEMMA EndTold ==
  ASSUME IInv, Backing, Completed, Worded, Explained
  PROVE  EndReported
<1> SUFFICES ASSUME pc = "done"
             PROVE  LET facts == TerminalFacts(log)
                        fails == {i \in 1..Len(log) : log[i].kind = "gate.fail"}
                        verdict == SessionVerdict({BoundaryVerdict(n) : n \in Judged})
                    IN  /\ facts.state = walState
                        /\ facts.reason = IF end.reason \in Evidenced THEN end.reason
                                          ELSE IF fails = {} THEN "none" ELSE "GATE_REJECT"
                        /\ walState = "FAILED" => verdict = "FAIL"
                        /\ walState = "COMPLETED" =>
                             /\ verdict # "FAIL"
                             /\ verdict = "CONCERNS" => Summary.concerns > 0 /\ Summary.fail > 0
                             /\ Summary.concerns =
                                  Cardinality({n \in Nodes : BoundaryVerdict(n) = "CONCERNS" \/ RetriedUnjudged(n)})
  BY DEF EndReported
<1> DEFINE r == TerminalFacts(log).reason
<1>1. TerminalFacts(log).state = walState
  <2>1. TerminalFacts(log).state = HeaderStatus(log)
    BY DEF TerminalFacts
  <2> QED  BY <2>1, HeaderTold
<1>2. end \in Endings1 /\ pc \in Past
  BY DEF Worded, Refused, Past
<1>3. ASSUME end.reason \in Evidenced PROVE r = end.reason
  <2>1. CASE end = OverBudget
    <3>1. PICK i \in 1..Len(log) : LastWord(log, i) /\ Exhausted(log[i])
      BY <1>2, <2>1 DEF Worded, Drained
    <3>2. r = "BUDGET_EXCEEDED"
      BY <3>1, ReasonTold DEF Worded
    <3> HIDE DEF r
    <3> QED  BY <2>1, <3>2 DEF OverBudget, End
  <2>2. CASE end \in Refusals
    <3>1. PICK i \in 1..Len(log) :
             LastWord(log, i) /\ log[i].kind = "gate.fail" /\ log[i].reason = end.reason
      BY <1>2, <2>2 DEF Worded, Refused
    <3> QED  BY <3>1, ReasonTold DEF Worded
  <2> HIDE DEF r
  <2> QED  BY <1>2, <1>3, <2>1, <2>2, EndsNamed DEF Evidenced
<1>4. ASSUME end.reason \notin Evidenced
      PROVE  r = IF \A i \in 1..Len(log) : log[i].kind # "gate.fail" THEN "none" ELSE "GATE_REJECT"
  <2>1. end # OverBudget /\ end \notin Refusals
    BY <1>2, <1>4, EndsNamed DEF Evidenced
  <2>2. \A i \in 1..Len(log) : ~Exhausted(log[i])
    <3>1. ~Spent
      BY <2>1 DEF Spent
    <3> QED  BY <3>1 DEF Worded, Drained
  <2>3. ASSUME NEW i \in 1..Len(log), log[i].kind = "gate.fail" PROVE log[i].reason = "GATE_REJECT"
    <3>1. log[i].at # "router.v1" /\ log[i].reason = FailReason(log[i].at)
      BY <2>1, <2>3 DEF Worded, Blamed
    <3>2. log[i].at # "budget"
      BY <2>2, <2>3 DEF Exhausted
    <3> QED  BY <3>1, <3>2 DEF FailReason
  <2>4. \/ r = "none" /\ \A i \in 1..Len(log) : log[i].kind # "gate.fail"
        \/ \E i \in 1..Len(log) : Exhausted(log[i])
        \/ \E i \in 1..Len(log) : log[i].kind = "gate.fail" /\ r = log[i].reason
    BY ReasonTold DEF Worded
  <2> HIDE DEF r
  <2> QED  BY <2>2, <2>3, <2>4
<1> HIDE DEF r
<1>5. walState = "FAILED" => SessionVerdict({BoundaryVerdict(n) : n \in Judged}) = "FAIL"
  BY FailureTold
<1> DEFINE fails == {i \in 1..Len(log) : log[i].kind = "gate.fail"}
<1>6. r = IF end.reason \in Evidenced THEN end.reason
          ELSE IF fails = {} THEN "none" ELSE "GATE_REJECT"
  <2>1. fails = {} <=> \A i \in 1..Len(log) : log[i].kind # "gate.fail"
    OBVIOUS
  <2> HIDE DEF fails
  <2> QED  BY <1>3, <1>4, <2>1
<1> HIDE DEF fails
<1> QED  BY <1>1, <1>5, <1>6, CompletionTold DEF r, fails

-----------------------------------------------------------------------------
(* The commit markers. *)

(* What the scan of boundary_final_passes holds: the final passes of the   *)
(* closed boundaries, and the pass that may become the next one.           *)
Scans == [out : Seq(Nat), last : Seq(Nat)]

(* An event of the scan. *)
ScanNext(s, k, kind) ==
  CASE kind = "gate.pass" -> [s EXCEPT !.last = <<k>>]
    [] kind = "gate.fail" -> [s EXCEPT !.last = <<>>]
    [] kind \in {"node.stop", "session.close"} -> [out |-> s.out \o s.last, last |-> <<>>]
    [] OTHER -> s

(* The scan of a trace. *)
Scan(t) ==
  LET scan[k \in 0..Len(t)] ==
        IF k = 0 THEN [out |-> <<>>, last |-> <<>>] ELSE ScanNext(scan[k - 1], k, t[k].kind)
  IN  scan[Len(t)]

(* Its marks. *)
Marks(s) == s.out \o s.last

(* m is the last verdict of n, a pass of its last post-gate. *)
Final(t, m, n) ==
  /\ m \in 1..Len(t)
  /\ t[m] = Event("gate.pass", n, PostGates[n][Len(PostGates[n])], 0, "none")
  /\ \A i \in 1..Len(t) : t[i].node = n /\ t[i].kind \in {"gate.pass", "gate.fail"} => i <= m

(* The next row takes the pass that the scan holds back. *)
Pending == \E m \in 1..Len(log) : Scan(log).last = <<m>> /\ Final(log, m, node)

(* Every row has its mark, and where the next one comes from. *)
Marked ==
  LET s == Scan(log) IN
  /\ \A k \in 1..Len(wal) : k <= Len(Marks(s)) /\ Final(log, Marks(s)[k], wal[k].node)
  /\ pc \in OpenPCs \cup {"wave", "node", "start"} => Len(s.out) = Len(wal) /\ s.last = <<>>
  /\ pc \in Fresh => Len(s.out) = Len(wal)
  /\ pc \in {"route", "decide"} => Pending
  /\ pc \in {"respond", "settle"} \/ (pc = "stop" /\ end = NoEnd) =>
        Len(s.last) = 1 /\ Len(s.out) + 1 = Len(wal)

(* An event of a scan is one again. *)
LEMMA ScanNextType ==
  ASSUME NEW s \in Scans, NEW k \in Nat, NEW kind
  PROVE  ScanNext(s, k, kind) \in Scans
<1>1. <<k>> \in Seq(Nat) /\ <<>> \in Seq(Nat)
  OBVIOUS
<1>2. s.out \o s.last \in Seq(Nat)
  BY DEF Scans
<1>3. CASE kind = "gate.pass"
  BY <1>1, <1>3 DEF ScanNext, Scans
<1>4. CASE kind = "gate.fail"
  BY <1>1, <1>4 DEF ScanNext, Scans
<1>5. CASE kind \in {"node.stop", "session.close"}
  BY <1>1, <1>2, <1>5 DEF ScanNext, Scans
<1>6. CASE kind \notin {"gate.pass", "gate.fail", "node.stop", "session.close"}
  BY <1>6 DEF ScanNext
<1> QED  BY <1>3, <1>4, <1>5, <1>6

(* f holds the scans of the prefixes of t. *)
Scanning(t, f) ==
  /\ f \in [0..Len(t) -> Scans] /\ f[0] = [out |-> <<>>, last |-> <<>>]
  /\ \A k \in 1..Len(t) : f[k] = ScanNext(f[k - 1], k, t[k].kind)

(* They exist, by induction over the length. *)
LEMMA ScansExist ==
  ASSUME NEW S, NEW t \in Seq(S)
  PROVE  \E f : Scanning(t, f)
<1> DEFINE P(n, f) == /\ f \in [0..n -> Scans] /\ f[0] = [out |-> <<>>, last |-> <<>>]
                      /\ \A k \in 1..n : f[k] = ScanNext(f[k - 1], k, t[k].kind)
           T == {n \in Nat : \E f : P(n, f)}
<1>1. 0 \in T
  <2>1. [out |-> <<>>, last |-> <<>>] \in Scans
    BY DEF Scans
  <2>2. P(0, [k \in 0..0 |-> [out |-> <<>>, last |-> <<>>]])
    BY <2>1
  <2> QED  BY <2>2
<1>2. ASSUME NEW n \in T PROVE n + 1 \in T
  <2>1. PICK f : P(n, f)
    OBVIOUS
  <2> DEFINE x == ScanNext(f[n], n + 1, t[n + 1].kind)
             g == [k \in 0..(n + 1) |-> IF k = n + 1 THEN x ELSE f[k]]
  <2>2. n \in Nat /\ n + 1 \in Nat
    OBVIOUS
  <2>3. x \in Scans
    <3>1. f[n] \in Scans
      BY <2>1, <2>2
    <3> QED  BY <2>2, <3>1, ScanNextType
  <2> HIDE DEF x
  <2>4. g \in [0..(n + 1) -> Scans] /\ g[0] = [out |-> <<>>, last |-> <<>>]
    BY <2>1, <2>2, <2>3
  <2>5. \A k \in 1..(n + 1) : g[k] = ScanNext(g[k - 1], k, t[k].kind)
    <3>1. CASE n = 0
      BY <2>1, <2>2, <3>1 DEF x
    <3>2. CASE n # 0
      BY <2>1, <2>2, <3>2 DEF x
    <3> QED  BY <3>1, <3>2
  <2>6. P(n + 1, g)
    BY <2>4, <2>5
  <2> HIDE DEF P
  <2>7. \E h : P(n + 1, h)
    BY <2>6
  <2> QED  BY <2>2, <2>7
<1> HIDE DEF P
<1>3. Len(t) \in T
  <2>1. T = Nat
    <3> HIDE DEF T
    <3>1. T \in SUBSET Nat
      BY DEF T
    <3> QED  BY <1>1, <1>2, <3>1, SetInduction
  <2> HIDE DEF T
  <2> QED  BY <2>1
<1>4. PICK f : P(Len(t), f)
  BY <1>3
<1> QED  BY <1>4 DEF P, Scanning

(* They are unique. *)
LEMMA ScansUnique ==
  ASSUME NEW S, NEW t \in Seq(S), NEW f, Scanning(t, f), NEW g, Scanning(t, g)
  PROVE  f = g
<1> DEFINE T == {n \in Nat : n <= Len(t) => f[n] = g[n]}
<1>0. Len(t) \in Nat
  OBVIOUS
<1>1. 0 \in T
  BY DEF Scanning
<1>2. ASSUME NEW n \in T PROVE n + 1 \in T
  BY <1>0 DEF Scanning
<1>3. T = Nat
  <2> HIDE DEF T
  <2>1. T \in SUBSET Nat
    BY DEF T
  <2> QED  BY <1>1, <1>2, <2>1, SetInduction
<1>4. \A k \in 0..Len(t) : f[k] = g[k]
  BY <1>0, <1>3
<1> QED  BY <1>4 DEF Scanning

(* The recursive definition computes the last of them. *)
LEMMA ScanComputes ==
  ASSUME NEW S, NEW t \in Seq(S)
  PROVE  \E f : Scanning(t, f) /\ Scan(t) = f[Len(t)]
<1> DEFINE F(f) == [k \in 0..Len(t) |-> IF k = 0 THEN [out |-> <<>>, last |-> <<>>]
                                        ELSE ScanNext(f[k - 1], k, t[k].kind)]
           scan == CHOOSE f : f = F(f)
<1>0. Len(t) \in Nat
  OBVIOUS
<1>1. PICK f : Scanning(t, f)
  BY ScansExist
<1>2. f = F(f)
  BY <1>0, <1>1 DEF Scanning
<1>3. scan = F(scan)
  BY <1>2
<1>4. Scan(t) = scan[Len(t)]
  BY DEF Scan
<1>5. \A k \in 1..Len(t) : scan[k] = ScanNext(scan[k - 1], k, t[k].kind)
  <2> HIDE DEF scan
  <2> QED  BY <1>0, <1>3
<1>6. /\ scan[0] = [out |-> <<>>, last |-> <<>>] /\ DOMAIN scan = 0..Len(t)
      /\ scan = [k \in 0..Len(t) |-> scan[k]]
  <2> HIDE DEF scan
  <2> QED  BY <1>0, <1>3
<1> HIDE DEF scan
<1>7. \A k \in 0..Len(t) : scan[k] = f[k]
  <2> DEFINE T == {n \in Nat : n <= Len(t) => scan[n] = f[n]}
  <2>1. 0 \in T
    BY <1>1, <1>6 DEF Scanning
  <2>2. ASSUME NEW n \in T PROVE n + 1 \in T
    BY <1>0, <1>1, <1>5 DEF Scanning
  <2>3. T = Nat
    <3> HIDE DEF T
    <3>1. T \in SUBSET Nat
      BY DEF T
    <3> QED  BY <2>1, <2>2, <3>1, SetInduction
  <2> QED  BY <1>0, <2>3
<1>8. Scan(t) = f[Len(t)]
  BY <1>0, <1>4, <1>7
<1> QED  BY <1>1, <1>8

(* So a scan has its type, *)
LEMMA ScanType == ASSUME NEW S, NEW t \in Seq(S) PROVE Scan(t) \in Scans
<1>1. PICK f : Scanning(t, f) /\ Scan(t) = f[Len(t)]
  BY ScanComputes
<1>2. Len(t) \in 0..Len(t)
  OBVIOUS
<1> QED  BY <1>1, <1>2 DEF Scanning

(* goes on with an event, *)
LEMMA ScanAppend ==
  ASSUME NEW S, NEW t \in Seq(S), NEW e \in S
  PROVE  Scan(Append(t, e)) = ScanNext(Scan(t), Len(t) + 1, e.kind)
<1> DEFINE u == Append(t, e)
<1>0. /\ u \in Seq(S) /\ Len(t) \in Nat /\ Len(u) = Len(t) + 1 /\ u[Len(u)] = e
      /\ \A i \in 1..Len(t) : u[i] = t[i]
  OBVIOUS
<1> HIDE DEF u
<1>2. PICK f : Scanning(t, f) /\ Scan(t) = f[Len(t)]
  BY ScanComputes
<1>3. PICK g : Scanning(u, g) /\ Scan(u) = g[Len(u)]
  BY <1>0, ScanComputes
<1> DEFINE h == [k \in 0..Len(t) |-> g[k]]
<1>4. Scanning(t, h)
  BY <1>0, <1>3 DEF Scanning
<1>5. f = h
  BY <1>2, <1>4, ScansUnique
<1>6. g[Len(t)] = Scan(t)
  BY <1>0, <1>2, <1>5
<1>7. g[Len(u)] = ScanNext(g[Len(t)], Len(t) + 1, e.kind)
  BY <1>0, <1>3 DEF Scanning
<1>8. Scan(u) = ScanNext(Scan(t), Len(t) + 1, e.kind)
  BY <1>3, <1>6, <1>7
<1> QED  BY <1>8 DEF u

(* and starts empty. *)
LEMMA ScanEmpty == Scan(<<>>) = [out |-> <<>>, last |-> <<>>]
<1>0. <<>> \in Seq(Nat) /\ Len(<<>>) = 0
  OBVIOUS
<1>1. PICK f : Scanning(<<>>, f) /\ Scan(<<>>) = f[Len(<<>>)]
  BY <1>0, ScanComputes
<1> QED  BY <1>0, <1>1 DEF Scanning

(* boundary_final_passes is that scan. *)
LEMMA PassesAreMarks == ASSUME NEW t PROVE BoundaryFinalPasses(t) = Marks(Scan(t))
  BY DEF BoundaryFinalPasses, Marks, Scan, ScanNext

(* What an event does to the scan and its marks. *)
LEMMA ScanEvent ==
  ASSUME LogOK, LogOK', NEW k, NEW m, NEW at, NEW tok, Adds(k, m, at, tok)
  PROVE  LET s == Scan(log)
             r == Scan(log')
         IN  /\ s \in Scans /\ r \in Scans
             /\ k = "gate.pass" => r.out = s.out /\ r.last = <<Len(log) + 1>>
             /\ k = "gate.fail" => r.out = s.out
             /\ k \in {"node.stop", "session.close"} => r.out = s.out \o s.last /\ r.last = <<>>
             /\ k \notin {"gate.pass", "gate.fail", "node.stop", "session.close"} => r = s
<1> DEFINE e == Event(k, m, at, tok, Given(k, at))
<1>1. e \in LoggedEvent
  <2>1. Len(log) \in Nat /\ log' \in Seq(LoggedEvent) /\ Len(log') = Len(log) + 1 /\ log'[Len(log')] = e
    BY Grown DEF LogOK
  <2> QED  BY <2>1
<1>2. e.kind = k
  BY DEF Event
<1> HIDE DEF e
<1>3. Scan(log) \in Scans /\ Scan(log') \in Scans
  BY ScanType DEF LogOK
<1>4. Scan(log') = ScanNext(Scan(log), Len(log) + 1, k)
  BY <1>1, <1>2, ScanAppend DEF LogOK, Adds, e
<1> QED  BY <1>3, <1>4 DEF ScanNext, Scans

(* A mark is a mark after any event that keeps it last. *)
LEMMA FinalKept ==
  ASSUME LogOK, LogOK', NEW k, NEW j, NEW at, NEW tok, Adds(k, j, at, tok), NEW m, NEW n,
         Final(log, m, n), j = n => k \notin {"gate.pass", "gate.fail"}
  PROVE  Final(log', m, n)
<1>1. /\ Len(log) \in Nat /\ Len(log') = Len(log) + 1
      /\ \A i \in 1..Len(log) : log'[i] = log[i]
      /\ log'[Len(log) + 1].kind = k /\ log'[Len(log) + 1].node = j
      /\ 1..Len(log') = 1..Len(log) \cup {Len(log) + 1}
  BY Grown
<1> QED  BY <1>1 DEF Final

(* Where gates add their verdicts: to the boundary of a node without a row. *)
LEMMA VerdictPlace ==
  ASSUME IInv, IInv', Step, NEW k, NEW m, NEW at, NEW tok, Adds(k, m, at, tok),
         k \in {"gate.pass", "gate.fail"}
  PROVE  pc \in Fresh /\ m = node /\ node \notin Committed /\ ~Commits
<1>0. LogOK /\ LogOK' /\ log' # log
  BY SameAdded DEF IInv
<1>1. PICK k1, m1, at1, tok1 : Adds(k1, m1, at1, tok1) /\ Fits(k1, m1, at1, tok1)
  BY <1>0, StepEvent
<1>2. k1 = k /\ m1 = m
  BY <1>0, <1>1, SameAdded
<1>3. m = node /\ pc \in Fresh \cup {"stop"} /\ ~Stops
  BY <1>1, <1>2 DEF Fits
<1>4. pc # "stop"
  BY <1>0, <1>3 DEF Step, Opens, Loops, Starts, PrePasses, Suspends, Aborts, Retries, Begins,
     Executes, Calls, Meters, WarnsOnce, PostPasses, Exhausts, Requests, Hands, Commits, Responds,
     Settles, Ends, Closes, Signals, Dies, Idles, OpenPCs, Fallible
<1>5. ~Commits
  BY <1>0 DEF Commits
<1> QED  BY <1>3, <1>4, <1>5, BoundaryRows

(* The marks of a scan, one by one. *)
LEMMA MarkAt ==
  ASSUME NEW s \in Scans
  PROVE  /\ Len(s.out) \in Nat /\ Len(s.last) \in Nat
         /\ Len(Marks(s)) = Len(s.out) + Len(s.last)
         /\ \A k \in 1..Len(s.out) : Marks(s)[k] = s.out[k]
         /\ \A m : s.last = <<m>> => Len(s.last) = 1 /\ Marks(s)[Len(s.out) + 1] = m
<1>1. s.out \in Seq(Nat) /\ s.last \in Seq(Nat)
  BY DEF Scans
<1>2. /\ Len(Marks(s)) = Len(s.out) + Len(s.last)
      /\ \A k \in 1..(Len(s.out) + Len(s.last)) :
           Marks(s)[k] = IF k <= Len(s.out) THEN s.out[k] ELSE s.last[k - Len(s.out)]
  BY <1>1, ConcatProperties DEF Marks
<1>3. Len(s.out) \in Nat /\ Len(s.last) \in Nat
  BY <1>1
<1>4. ASSUME NEW m, s.last = <<m>>
      PROVE  Len(s.last) = 1 /\ Marks(s)[Len(s.out) + 1] = m
  <2>1. Len(s.last) = 1 /\ s.last[1] = m
    BY <1>4
  <2>2. Marks(s)[Len(s.out) + 1] = s.last[(Len(s.out) + 1) - Len(s.out)]
    BY <1>2, <1>3, <2>1
  <2>3. (Len(s.out) + 1) - Len(s.out) = 1
    BY <1>3
  <2> QED  BY <2>1, <2>2, <2>3
<1>5. ASSUME NEW k \in 1..Len(s.out) PROVE Marks(s)[k] = s.out[k]
  <2>0. \A x, y \in Nat : \A i \in 1..x : i \in 1..(x + y) /\ i <= x
    OBVIOUS
  <2>1. k \in 1..(Len(s.out) + Len(s.last)) /\ k <= Len(s.out)
    BY <1>3, <2>0
  <2> QED  BY <1>2, <2>1
<1> QED  BY <1>2, <1>3, <1>4, <1>5

(* A boundary's end moves the last mark, and changes none. *)
LEMMA MarksFlushed ==
  ASSUME NEW s \in Scans, NEW r \in Scans, r.out = s.out \o s.last, r.last = <<>>
  PROVE  Marks(r) = Marks(s) /\ Len(r.out) = Len(s.out) + Len(s.last)
<1>1. s.out \in Seq(Nat) /\ s.last \in Seq(Nat) /\ r.out \in Seq(Nat)
  BY DEF Scans
<1>2. r.out \o <<>> = r.out
  BY <1>1
<1>3. Len(r.out) = Len(s.out) + Len(s.last)
  BY <1>1
<1> QED  BY <1>2, <1>3 DEF Marks

(* The rows keep their marks. *)
LEMMA MarksKept ==
  ASSUME IInv, IInv', Step, Marked
  PROVE  LET s == Scan(log)
             r == Scan(log')
         IN  \A k \in 1..Len(wal) :
                k <= Len(Marks(r)) /\ Marks(r)[k] = Marks(s)[k] /\ Final(log', Marks(r)[k], wal[k].node)
<1> DEFINE s == Scan(log)
           r == Scan(log')
<1>0. LogOK /\ LogOK' /\ Len(wal) \in Nat
  BY RowsDistinct DEF IInv
<1>1. \A k \in 1..Len(wal) : k <= Len(Marks(s)) /\ Final(log, Marks(s)[k], wal[k].node)
  BY DEF Marked
<1>2. CASE log' = log
  <2>1. r = s
    BY <1>2
  <2> HIDE DEF r, s
  <2>2. \A m, n : Final(log, m, n) => Final(log', m, n)
    BY <1>2
  <2>3. \A k \in 1..Len(wal) :
            k <= Len(Marks(r)) /\ Marks(r)[k] = Marks(s)[k] /\ Final(log', Marks(r)[k], wal[k].node)
    BY <1>1, <2>1, <2>2
  <2> QED  BY <2>3 DEF r, s
<1>3. ASSUME NEW k, NEW j, NEW at, NEW tok, Adds(k, j, at, tok), k \in {"gate.pass", "gate.fail"}
      PROVE  \A i \in 1..Len(wal) :
                i <= Len(Marks(r)) /\ Marks(r)[i] = Marks(s)[i] /\ Final(log', Marks(r)[i], wal[i].node)
  <2>1. s \in Scans /\ r \in Scans /\ r.out = s.out
    BY <1>0, <1>3, ScanEvent
  <2>2. pc \in Fresh /\ j = node /\ node \notin Committed
    BY <1>3, VerdictPlace
  <2>3. Len(s.out) = Len(wal)
    BY <2>2 DEF Marked
  <2> HIDE DEF s, r
  <2> SUFFICES ASSUME NEW i \in 1..Len(wal)
               PROVE  i <= Len(Marks(r)) /\ Marks(r)[i] = Marks(s)[i] /\ Final(log', Marks(r)[i], wal[i].node)
    OBVIOUS
  <2>4. Marks(r)[i] = Marks(s)[i] /\ i <= Len(Marks(r))
    <3>1. /\ i \in 1..Len(s.out) /\ i \in 1..Len(r.out) /\ Len(r.out) \in Nat /\ Len(r.last) \in Nat
          /\ Len(Marks(r)) = Len(r.out) + Len(r.last)
      BY <2>1, <2>3, MarkAt
    <3>2. Marks(r)[i] = r.out[i] /\ Marks(s)[i] = s.out[i]
      BY <2>1, <3>1, MarkAt
    <3>3. \A x, y \in Nat : i \in 1..x => i <= x + y
      OBVIOUS
    <3>4. i <= Len(r.out) + Len(r.last)
      BY <3>1, <3>3
    <3> QED  BY <2>1, <3>1, <3>2, <3>4
  <2>5. wal[i].node # j
    BY <2>2 DEF Committed
  <2>6. Final(log', Marks(s)[i], wal[i].node)
    BY <1>0, <1>1, <1>3, <2>5, FinalKept
  <2> QED  BY <2>4, <2>6
<1>4. ASSUME NEW k, NEW j, NEW at, NEW tok, Adds(k, j, at, tok), k \notin {"gate.pass", "gate.fail"}
      PROVE  \A i \in 1..Len(wal) :
                i <= Len(Marks(r)) /\ Marks(r)[i] = Marks(s)[i] /\ Final(log', Marks(r)[i], wal[i].node)
  <2>1. Marks(r) = Marks(s)
    <3>1. /\ s \in Scans /\ r \in Scans
          /\ (r.out = s.out \o s.last /\ r.last = <<>>) \/ r = s
      BY <1>0, <1>4, ScanEvent
    <3> HIDE DEF s, r
    <3> QED  BY <3>1, MarksFlushed
  <2> HIDE DEF s, r
  <2>2. \A m, n : Final(log, m, n) => Final(log', m, n)
    BY <1>0, <1>4, FinalKept
  <2> QED  BY <1>1, <2>1, <2>2
<1>5. log' = log \/ \E k, j, at, tok : Adds(k, j, at, tok)
  BY StepEvent
<1> HIDE DEF s, r
<1> QED  BY <1>2, <1>3, <1>4, <1>5 DEF s, r

(* What a step does to the scan. *)
LEMMA ScanStep ==
  ASSUME IInv, IInv', Step
  PROVE  LET s == Scan(log)
             r == Scan(log')
         IN  /\ s \in Scans /\ r \in Scans
             /\ ~Stops /\ ~Closes => r.out = s.out
             /\ Stops => r.out = s.out \o s.last /\ r.last = <<>>
             /\ PostPasses => r.last = <<Len(log) + 1>>
             /\ Opens \/ Loops \/ Requests \/ Hands \/ Commits \/ Responds \/ Settles \/ Signals \/ Idles
                  => r = s
<1> DEFINE s == Scan(log)
           r == Scan(log')
<1>0. LogOK /\ LogOK'
  BY DEF IInv
<1>1. s \in Scans /\ r \in Scans
  BY <1>0, ScanType DEF LogOK
<1>2. log' = log => r = s
  OBVIOUS
<1>3. ASSUME ~Stops, ~Closes PROVE r.out = s.out
  <2>1. CASE log' = log
    BY <1>2, <2>1
  <2>2. ASSUME NEW k, NEW n, NEW at, NEW tok, Adds(k, n, at, tok), Fits(k, n, at, tok)
        PROVE  r.out = s.out
    <3>1. k \notin {"node.stop", "session.close"}
      BY <1>3, <2>2 DEF Fits
    <3> QED  BY <1>0, <2>2, <3>1, ScanEvent
  <2> HIDE DEF r, s
  <2> QED  BY <2>1, <2>2, StepEvent
<1>4. ASSUME Stops PROVE r.out = s.out \o s.last /\ r.last = <<>>
  BY <1>0, <1>4, ScanEvent DEF Stops
<1>5. ASSUME PostPasses PROVE r.last = <<Len(log) + 1>>
  BY <1>0, <1>5, ScanEvent DEF PostPasses
<1>6. ASSUME NEW k, NEW n, NEW at, NEW tok, Adds(k, n, at, tok),
             k \in {"session.open", "plan.compiled", "handoff.request", "handoff.accept"}
      PROVE  r = s
  <2>1. k \notin {"gate.pass", "gate.fail", "node.stop", "session.close"}
    BY <1>6
  <2> QED  BY <1>0, <1>6, <2>1, ScanEvent
<1>7. ASSUME Opens PROVE r = s
  <2>1. log' = log \/ Adds("session.open", "session", "", 0) \/ Adds("plan.compiled", "session", "", 0)
    BY <1>7 DEF Opens
  <2> HIDE DEF r, s
  <2>2. log' = log \/ \E k, n, at, tok : Adds(k, n, at, tok) /\ k \in {"session.open", "plan.compiled"}
    BY <2>1
  <2> QED  BY <1>2, <1>6, <2>2
<1>8. ASSUME Requests \/ Hands PROVE r = s
  <2>1. \E k, at : Adds(k, node, at, 0) /\ k \in {"handoff.request", "handoff.accept"}
    BY <1>8 DEF Requests, Hands
  <2> HIDE DEF r, s
  <2> QED  BY <1>6, <2>1
<1>9. ASSUME Loops \/ Commits \/ Responds \/ Settles \/ Signals \/ Idles PROVE r = s
  BY <1>2, <1>9 DEF Loops, Commits, Responds, Settles, Signals, Idles
<1> HIDE DEF r, s
<1> QED  BY <1>1, <1>3, <1>4, <1>5, <1>6, <1>7, <1>8, <1>9 DEF r, s

(* The mark that a row takes is the pass before its commit. *)
LEMMA RowMarked ==
  ASSUME IInv, IInv', Step, Marked, Commits
  PROVE  LET r == Scan(log') IN
         /\ \A k \in 1..Len(wal') : k <= Len(Marks(r)) /\ Final(log', Marks(r)[k], wal'[k].node)
         /\ Len(r.last) = 1 /\ Len(r.out) + 1 = Len(wal')
<1> DEFINE r == Scan(log')
<1>0. log' = log /\ pc = "route" /\ Scan(log) = r /\ r \in Scans
  BY ScanStep DEF Commits
<1>1. PICK m \in 1..Len(log) : r.last = <<m>> /\ Final(log, m, node)
  BY <1>0 DEF Marked, Pending
<1>2. Len(r.out) = Len(wal)
  BY <1>0 DEF Marked, Fresh
<1>3. /\ Len(wal) \in Nat /\ Len(wal') = Len(wal) + 1 /\ wal'[Len(wal')].node = node
      /\ \A k \in 1..Len(wal) : wal'[k] = wal[k]
  BY RowAdded
<1>4. \A k \in 1..Len(wal) : k <= Len(Marks(r)) /\ Final(log', Marks(r)[k], wal[k].node)
  BY MarksKept
<1>5. \A m1, n : Final(log, m1, n) => Final(log', m1, n)
  BY <1>0
<1> HIDE DEF r
<1>6. Len(Marks(r)) = Len(wal) + 1 /\ Marks(r)[Len(wal) + 1] = m /\ Len(r.last) = 1
  <2>1. Len(Marks(r)) = Len(r.out) + Len(r.last)
    BY <1>0, MarkAt
  <2>2. Len(r.last) = 1 /\ Marks(r)[Len(r.out) + 1] = m
    BY <1>0, <1>1, MarkAt
  <2> QED  BY <1>2, <2>1, <2>2
<1>7. ASSUME NEW k \in 1..Len(wal')
      PROVE  k <= Len(Marks(r)) /\ Final(log', Marks(r)[k], wal'[k].node)
  <2>1. CASE k = Len(wal) + 1
    BY <1>1, <1>3, <1>5, <1>6, <2>1
  <2>2. CASE k # Len(wal) + 1
    <3>1. k \in 1..Len(wal)
      BY <1>3, <2>2
    <3> QED  BY <1>3, <1>4, <3>1
  <2> QED  BY <2>1, <2>2
<1> QED  BY <1>2, <1>3, <1>6, <1>7 DEF r

(* The pass that completes the post-gates is the one held back. *)
LEMMA PendingStep ==
  ASSUME IInv, IInv', Step, Marked, pc' \in {"route", "decide"}
  PROVE  Pending'
<1> DEFINE s == Scan(log)
           r == Scan(log')
<1>0. LogOK /\ LogOK'
  BY DEF IInv
<1>1. PostPasses \/ Requests \/ Hands \/ Signals \/ Idles
  BY DEF Step, Opens, Loops, Starts, PrePasses, Suspends, Aborts, Retries, Begins, Executes,
     Calls, Meters, WarnsOnce, Exhausts, Commits, Responds, Settles, Stops, Ends, Closes, Dies, OpenPCs
<1>2. node' = node
  BY <1>1 DEF PostPasses, Requests, Hands, Signals, Idles, Stay
<1>3. CASE PostPasses
  <2>1. loc.gate = Len(PostGates[node]) /\ Adds("gate.pass", node, PostGates[node][loc.gate], 0)
    BY <1>3 DEF PostPasses
  <2>2. r.last = <<Len(log) + 1>>
    BY <1>3, ScanStep
  <2>3. /\ Len(log) \in Nat /\ Len(log') = Len(log) + 1
        /\ log'[Len(log) + 1] = Event("gate.pass", node, PostGates[node][loc.gate], 0, "none")
    BY <1>0, <2>1, Grown DEF Given
  <2>4. Final(log', Len(log) + 1, node)
    BY <2>1, <2>3 DEF Final
  <2> HIDE DEF r
  <2>5. \E m \in 1..Len(log') : r.last = <<m>> /\ Final(log', m, node')
    BY <1>2, <2>2, <2>3, <2>4
  <2> QED  BY <2>5 DEF Pending, r
<1>4. CASE ~PostPasses
  <2>1. Requests \/ Hands \/ Signals \/ Idles
    BY <1>1, <1>4
  <2>2. r = s
    BY <2>1, ScanStep
  <2>3. pc \in {"route", "decide"}
    BY <2>1 DEF Requests, Hands, Signals, Idles
  <2>4. PICK m \in 1..Len(log) : s.last = <<m>> /\ Final(log, m, node)
    BY <2>3 DEF Marked, Pending
  <2>5. Final(log', m, node)
    <3>1. log' = log \/ \E k, at : Adds(k, node, at, 0) /\ k \notin {"gate.pass", "gate.fail"}
      <4>1. CASE Requests
        BY <4>1 DEF Requests
      <4>2. CASE Hands
        BY <4>2 DEF Hands
      <4>3. CASE Signals \/ Idles
        BY <4>3 DEF Signals, Idles
      <4> QED  BY <2>1, <4>1, <4>2, <4>3
    <3>2. CASE log' = log
      BY <2>4, <3>2
    <3>3. ASSUME NEW k, NEW at, Adds(k, node, at, 0), k \notin {"gate.pass", "gate.fail"}
          PROVE  Final(log', m, node)
      BY <1>0, <2>4, <3>3, FinalKept
    <3> QED  BY <3>1, <3>2, <3>3
  <2> HIDE DEF r, s
  <2>6. m \in 1..Len(log')
    BY <2>5 DEF Final
  <2>7. \E j \in 1..Len(log') : r.last = <<j>> /\ Final(log', j, node')
    BY <1>2, <2>2, <2>4, <2>5, <2>6
  <2> QED  BY <2>7 DEF Pending, r
<1> QED  BY <1>3, <1>4

(* Between boundaries no pass is held back, and each row has its own. *)
LEMMA BetweenStep ==
  ASSUME IInv, IInv', Step, Marked, pc' \in OpenPCs \cup {"wave", "node", "start"}
  PROVE  Len(Scan(log').out) = Len(wal') /\ Scan(log').last = <<>>
<1> DEFINE s == Scan(log)
           r == Scan(log')
<1>1. Opens \/ Loops \/ Stops \/ Signals \/ Idles
  BY DEF Step, Starts, PrePasses, Suspends, Aborts, Retries, Begins, Executes, Requests, Hands,
     Calls, Meters, WarnsOnce, PostPasses, Exhausts, Commits, Responds, Settles, Ends, Closes, Dies, OpenPCs
<1>2. wal' = wal
  BY <1>1 DEF Opens, Loops, Stops, Signals, Idles, TraceOnly
<1>3. CASE Stops
  <2>1. pc = "stop" /\ end = NoEnd
    BY <1>3 DEF Stops, OpenPCs
  <2>2. Len(s.last) = 1 /\ Len(s.out) + 1 = Len(wal)
    BY <2>1 DEF Marked
  <2>3. s \in Scans /\ r \in Scans /\ r.out = s.out \o s.last /\ r.last = <<>>
    BY <1>3, ScanStep
  <2> HIDE DEF r, s
  <2>4. Len(r.out) = Len(s.out) + Len(s.last)
    BY <2>3, MarksFlushed
  <2>5. Len(r.out) = Len(wal) /\ r.last = <<>>
    BY <2>2, <2>3, <2>4
  <2> QED  BY <1>2, <2>5 DEF r
<1>4. CASE ~Stops
  <2>1. r = s
    BY <1>1, <1>4, ScanStep
  <2>2. pc \in OpenPCs \cup {"wave", "node", "start"}
    BY <1>1, <1>4 DEF Opens, Loops, Signals, Idles
  <2>3. Len(s.out) = Len(wal) /\ s.last = <<>>
    BY <2>2 DEF Marked
  <2> QED  BY <1>2, <2>1, <2>3
<1> QED  BY <1>3, <1>4

(* The markers hold for every step. *)
LEMMA MarkedStep == ASSUME IInv, IInv', Step, Marked PROVE Marked'
<1> DEFINE s == Scan(log)
           r == Scan(log')
<1>1. \A k \in 1..Len(wal') : k <= Len(Marks(r)) /\ Final(log', Marks(r)[k], wal'[k].node)
  <2>1. CASE Commits
    BY <2>1, RowMarked
  <2>2. CASE ~Commits
    <3>1. wal' = wal
      BY <2>2, DiskFrames
    <3> QED  BY <3>1, MarksKept
  <2> QED  BY <2>1, <2>2
<1>2. pc' \in OpenPCs \cup {"wave", "node", "start"} => Len(r.out) = Len(wal') /\ r.last = <<>>
  BY BetweenStep
<1>3. pc' \in Fresh => Len(r.out) = Len(wal')
  <2> SUFFICES ASSUME pc' \in Fresh PROVE Len(r.out) = Len(wal')
    OBVIOUS
  <2>1. CASE pc' = "start"
    BY <2>1, BetweenStep
  <2>2. CASE pc' # "start"
    <3>1. pc \in Fresh
      BY <2>2 DEF Step, Opens, Loops, Starts, PrePasses, Suspends, Aborts, Retries, Begins, Executes,
         Calls, Meters, WarnsOnce, PostPasses, Exhausts, Requests, Hands, Commits, Responds,
         Settles, Stops, Ends, Closes, Signals, Dies, Idles, OpenPCs, Fresh
    <3>2. ~Stops /\ ~Closes /\ ~Commits
      BY <2>2 DEF Stops, Closes, Commits, Fresh
    <3>3. wal' = wal /\ r.out = s.out
      BY <3>2, DiskFrames, ScanStep
    <3>4. Len(s.out) = Len(wal)
      BY <3>1 DEF Marked
    <3> QED  BY <3>3, <3>4
  <2> QED  BY <2>1, <2>2
<1>4. pc' \in {"route", "decide"} => Pending'
  BY PendingStep
<1>5. pc' \in {"respond", "settle"} \/ (pc' = "stop" /\ end' = NoEnd) =>
        Len(r.last) = 1 /\ Len(r.out) + 1 = Len(wal')
  <2> SUFFICES ASSUME pc' \in {"respond", "settle"} \/ (pc' = "stop" /\ end' = NoEnd)
               PROVE  Len(r.last) = 1 /\ Len(r.out) + 1 = Len(wal')
    OBVIOUS
  <2>1. CASE Commits
    BY <2>1, RowMarked
  <2>2. CASE ~Commits
    <3>1. Responds \/ Settles \/ Signals \/ Idles
      BY <2>2 DEF Step, Opens, Loops, Starts, PrePasses, Suspends, Aborts, Retries, Begins, Executes,
         Calls, Meters, WarnsOnce, PostPasses, Exhausts, Requests, Hands, Commits,
         Stops, Ends, Closes, Dies, OpenPCs
    <3>2. pc \in {"respond", "settle"} \/ (pc = "stop" /\ end = NoEnd)
      BY <3>1 DEF Responds, Settles, Signals, Idles, Stay
    <3>3. wal' = wal /\ r = s
      BY <2>2, <3>1, DiskFrames, ScanStep
    <3>4. Len(s.last) = 1 /\ Len(s.out) + 1 = Len(wal)
      BY <3>2 DEF Marked
    <3> QED  BY <3>3, <3>4
  <2> QED  BY <2>1, <2>2
<1> HIDE DEF s, r
<1> QED  BY <1>1, <1>2, <1>3, <1>4, <1>5 DEF Marked, r

(* They are what `trace show` prints. *)
LEMMA MarkersTold == ASSUME IInv, Marked PROVE MarkersRight
<1> DEFINE s == Scan(log)
           q == Marks(s)
           markers == CommitMarkers(log, Len(wal))
<1>0. Len(wal) \in Nat /\ log \in Seq(LoggedEvent)
  BY RowsDistinct DEF IInv, LogOK
<1>1. s \in Scans
  BY <1>0, ScanType
<1>2. \A k \in 1..Len(wal) : k <= Len(q) /\ Final(log, q[k], wal[k].node)
  BY DEF Marked
<1>3. q \in Seq(Nat)
  <2>1. s.out \in Seq(Nat) /\ s.last \in Seq(Nat)
    BY <1>1 DEF Scans
  <2> HIDE DEF s
  <2> QED  BY <2>1 DEF Marks
<1>4. BoundaryFinalPasses(log) = q
  BY PassesAreMarks
<1> HIDE DEF s, q
<1>5. Len(q) \in Nat /\ Len(wal) <= Len(q)
  BY <1>0, <1>2, <1>3
<1>6. markers = SubSeq(q, 1, Len(wal))
  BY <1>0, <1>4, <1>5 DEF CommitMarkers
<1>7. Len(markers) = Len(wal) /\ \A k \in 1..Len(wal) : markers[k] = q[k]
  BY <1>0, <1>3, <1>5, <1>6
<1> HIDE DEF markers
<1>8. ASSUME NEW k \in 1..Len(wal)
      PROVE  /\ log[markers[k]] =
                  Event("gate.pass", wal[k].node, PostGates[wal[k].node][Len(PostGates[wal[k].node])], 0, "none")
             /\ \A i \in At("gate.pass", wal[k].node) \cup At("gate.fail", wal[k].node) : i <= markers[k]
  BY <1>2, <1>7 DEF Final, At
<1> QED  BY <1>7, <1>8 DEF MarkersRight, markers

(* The first state has no event and no row. *)
LEMMA InitMarked == ASSUME Init PROVE Marked
<1>1. log = <<>> /\ wal = <<>> /\ pc = "open" /\ 1..Len(wal) = {} /\ Len(wal) = 0
  BY EmptyStart
<1>2. Scan(log) = [out |-> <<>>, last |-> <<>>]
  BY <1>1, ScanEmpty
<1>3. Scan(log).out = <<>> /\ Scan(log).last = <<>> /\ Len(Scan(log).out) = 0
  BY <1>2
<1> QED  BY <1>1, <1>3 DEF Marked, Fresh

-----------------------------------------------------------------------------
(* The invariant of the readers, beside the two of the run. *)
RInv == Worded /\ Explained /\ Afforded /\ Marked

(* It holds in the first state, which has said nothing yet, *)
LEMMA InitRInv == ASSUME Init PROVE RInv
<1>1. /\ log = <<>> /\ wal = <<>> /\ pc = "open" /\ end = NoEnd /\ 1..Len(log) = {}
      /\ \A k, n : Where(log, k, n) = {}
  BY EmptyStart
<1>2. end.state # "COMPLETED" /\ end # OverBudget
  BY <1>1 DEF NoEnd, OverBudget, End
<1>3. Worded
  BY <1>1, <1>2 DEF Worded, Stubborn, Named, Blamed, Drained, Refused, Closed, Endings1, Past
<1>4. Explained
  <2>1. \A k, n : Count(log, k, n) = 0
    BY <1>1, FS_EmptySet DEF Count
  <2>2. \A n : Owed(n) = 0
    BY <1>1, <2>1 DEF Owed, Due
  <2>3. \A n : Called(n) = 0
    BY <1>1, <2>1 DEF Called, Due
  <2>4. attempts = [n \in Nodes |-> 0]
    BY DEF Init
  <2>5. \A n \in Nodes : Quietly(n)
    BY <1>1, <2>2 DEF Quietly
  <2>6. ASSUME NEW n \in Nodes PROVE Owed(n) >= 0 /\ Loudly(n)
    <3>1. Owed(n) = 0 /\ attempts[n] = 0
      BY <2>2, <2>4
    <3>2. 0 >= 0 /\ ~(0 > 0)
      OBVIOUS
    <3> QED  BY <3>1, <3>2 DEF Loudly
  <2> QED  BY <1>1, <1>2, <2>5, <2>6 DEF Explained
<1>5. Afforded
  BY <1>1 DEF Afforded
<1> QED  BY <1>3, <1>4, <1>5, InitMarked DEF RInv

(* and every step preserves it. *)
LEMMA StepRInv == ASSUME IInv, IInv', [Next]_vars, TInv, RInv PROVE RInv'
<1>1. Step
  BY Shapes
<1>2. Limited /\ Completed /\ Untouched /\ Counted
  BY DEF TInv
<1>3. Worded' /\ Marked'
  BY <1>1, WordedStep, MarkedStep DEF RInv
<1>4. Explained' /\ Afforded'
  BY <1>1, <1>2, ExplainedStep, AffordedStep DEF RInv
<1> QED  BY <1>3, <1>4 DEF RInv

(* Every reachable state satisfies it (Runner::run, with every write that  *)
(* trace.rs, budget.rs and run.rs read back).                              *)
THEOREM ReaderInvariant == Spec => [](IInv /\ TInv /\ RInv)
<1>1. Init => IInv /\ TInv /\ RInv
  BY InitIInv, InitRInv, InitDisk, InitBoundary, InitBrackets, InitRoutes, InitBudget DEF TInv
<1>2. IInv /\ TInv /\ RInv /\ [Next]_vars => (IInv /\ TInv /\ RInv)'
  BY NextIInv, StepTInv, StepRInv
<1> QED  BY <1>1, <1>2, PTL DEF Spec

(* `trace show` marks every row of the store, on the gate.pass that        *)
(* committed it, whenever the process died (boundary_final_passes,         *)
(* commit_markers).                                                        *)
THEOREM RunnerMarkers == Spec => []MarkersRight
<1>1. IInv /\ TInv /\ RInv => MarkersRight
  BY MarkersTold DEF RInv
<1> QED  BY <1>1, ReaderInvariant, PTL

(* What is read off a closed session is how it ended: its state, the       *)
(* reason, the verdict and the concerns (terminal_facts,                   *)
(* derive_boundary_verdict, render_summary).                               *)
THEOREM RunnerEnd == Spec => []EndReported
<1>1. IInv /\ TInv /\ RInv => EndReported
  BY EndTold DEF TInv, RInv
<1> QED  BY <1>1, ReaderInvariant, PTL

(* Spending over a line ends the session, and `hesmos budget` says so      *)
(* (show_session over the row, the ledger and the trace).                  *)
THEOREM RunnerAffords == Spec => []OverBudgetStops
<1>1. IInv /\ TInv /\ RInv => OverBudgetStops
  BY ReportTold DEF TInv, RInv
<1> QED  BY <1>1, ReaderInvariant, PTL

=============================================================================
