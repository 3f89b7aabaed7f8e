--------------------------- MODULE PyBridge_proofs ---------------------------
(***************************************************************************)
(* Proofs about PyBridge, for any sessions, plans, tools and judges.       *)
(*                                                                         *)
(* The inductive invariant says, session by session: where its handle and  *)
(* its rows stand (Phase); that no event is of a node or of an attempt     *)
(* still to come (Past); what the judge ledger says against the trace      *)
(* (Judging); that tokens and calls balance, the turn in flight included   *)
(* (Accounting); and that taint covers what external tools returned        *)
(* (Tainting).  A step of one session leaves the others as they were, for  *)
(* the registry they share only ever gains tools (FrameKeeps).             *)
(*                                                                         *)
(* The tokens of a trace are a recursive sum; TraceFolds says what it gains *)
(* with an event.                                                          *)
(***************************************************************************)
EXTENDS PyBridge, TraceFolds, FiniteSetTheorems, TLAPS

(* Program points, those of a turn of a node, and the words of the state. *)
PCs == {"idle", "node", "exec", "provider", "dispatch", "tool", "judge", "report", "post",
        "commit", "finish", "seal", "return"}
(* The points from a node's first attempt to its commit. *)
Turning == {"exec", "provider", "dispatch", "tool", "judge", "report", "post", "commit"}
(* How a session may end. *)
States == {"none", "COMPLETED", "FAILED", "SUSPENDED", "HALTED"}

(* The values of a handle, of the locals of a turn, of the judge ledger,   *)
(* of events and of rows.                                                  *)
HandleSet ==
  [open : BOOLEAN, task : Texts \cup {NoTask}, cap : Int \cup {NoBudget},
   judge : Judges \cup {"none"}, runner : BOOLEAN, final : States, closed : BOOLEAN]
(* The locals of a turn. *)
TurnSet ==
  [i : Nat \ {0}, att : Nat, calls : Seq(Tools), dispatched : Nat, tok : Nat, tainted : BOOLEAN,
   judged : BOOLEAN, gate : Nat \ {0}, end : States]
(* Entries of the judge ledger. *)
Judgments == [judge : Judges \cup {"none"}, att : Nat]
(* Events of a trace. *)
EventSet ==
  [kind : {"session.open", "plan.compiled", "node.start", "tool.call", "llm.call", "gate.pass",
           "gate.fail", "session.close", "trace.seal"},
   node : Nodes \cup {"none"}, at : Tools \cup Nat \cup States \cup {""}, ok : BOOLEAN, tok : Nat,
   att : Nat, judge : Judgments, calls : Nat, judged : BOOLEAN]
(* Checkpoint rows. *)
RowSet == [node : Nodes, att : Nat, tainted : BOOLEAN]

(* The types the proofs use; providers, gil and judgeOps need none. *)
Types ==
  /\ tools \in [Tools -> {"none", "local", "external"}]
  /\ judge \in Judges \cup {"none"}
  /\ inner \in [Sessions -> HandleSet] /\ pc \in [Sessions -> PCs]
  /\ turn \in [Sessions -> TurnSet] /\ judged \in [Sessions -> [Nodes -> Judgments]]
  /\ trace \in [Sessions -> Seq(EventSet)] /\ rows \in [Sessions -> Seq(RowSet)]
  /\ row \in [Sessions -> States \cup {"NONE", "RUNNING"}]
  /\ ledger \in [Sessions -> Nat] /\ reported \in [Sessions -> Nat]

(* Positions of the plan that were reached. *)
Reached(s) == 1..(IF pc[s] \in Turning THEN turn[s].i ELSE turn[s].i - 1)

(* The events of a turn. *)
Working == {"tool.call", "llm.call", "gate.pass", "gate.fail"}

(* The handle, the rows and the position in the plan go together. *)
Phase(s) ==
  /\ pc[s] # "idle" => inner[s].open /\ ~inner[s].closed /\ ~inner[s].runner
  /\ ~inner[s].open => /\ pc[s] = "idle" /\ trace[s] = <<>> /\ rows[s] = <<>>
                       /\ ledger[s] = 0 /\ reported[s] = 0 
                       /\ judged[s] = [n \in Nodes |-> NoJudgment]
  /\ inner[s].runner => /\ rows[s] = <<>> /\ pc[s] = "idle"
                        /\ \A i \in 1..Len(trace[s]) : trace[s][i].kind \notin Working
                                                        /\ ~trace[s][i].judged
  /\ pc[s] \in Turning => turn[s].i <= Len(Plan[s])
  /\ pc[s] \in Turning \cup {"node"} => Len(rows[s]) = turn[s].i - 1
  /\ \A k \in 1..Len(rows[s]) : k <= Len(Plan[s]) /\ rows[s][k].node = Plan[s][k]

(* Only reached nodes have events of a turn, and the attempt of the turn   *)
(* in flight has none before it started.                                   *)
Past(s) ==
  /\ \A i \in 1..Len(trace[s]) : trace[s][i].judged => trace[s][i].kind = "llm.call"
  /\ pc[s] \in Turning \cup {"node"} =>
       \A i \in 1..Len(trace[s]) : trace[s][i].kind \in Working =>
         \E j \in Reached(s) : trace[s][i].node = Plan[s][j]
  /\ pc[s] \in Turning =>
       \A i \in 1..Len(trace[s]) : trace[s][i].node = node(s) =>
         /\ trace[s][i].kind \in {"tool.call", "llm.call"} => trace[s][i].att <= turn[s].att
         /\ trace[s][i].kind = "tool.call" /\ pc[s] \in {"exec", "provider"} =>
              trace[s][i].att < turn[s].att
         /\ trace[s][i].kind = "llm.call" /\ pc[s] \notin {"post", "commit"} =>
              trace[s][i].att < turn[s].att

(* The newest judged call of n before position i, if any, says j. *)
Says(s, n, i, j) ==
  \/ /\ \A k \in 1..(i - 1) : ~(trace[s][k].node = n /\ trace[s][k].judged)
     /\ j = NoJudgment
  \/ \E k \in 1..(i - 1) :
       /\ trace[s][k].node = n /\ trace[s][k].judged
       /\ \A m \in (k + 1)..(i - 1) : ~(trace[s][m].node = n /\ trace[s][m].judged)
       /\ j = [judge |-> inner[s].judge, att |-> trace[s][k].att]

(* Gate events carry what the trace before them says; so does the judge    *)
(* ledger, except between a judgment and its llm.call.                     *)
Judging(s) ==
  /\ \A i \in 1..Len(trace[s]) : trace[s][i].kind \in {"gate.pass", "gate.fail"} =>
       Says(s, trace[s][i].node, i, trace[s][i].judge)
  /\ \A n \in Nodes :
       IF pc[s] = "report" /\ turn[s].judged /\ n = node(s)
       THEN judged[s][n] = [judge |-> inner[s].judge, att |-> turn[s].att]
       ELSE Says(s, n, Len(trace[s]) + 1, judged[s][n])
  /\ pc[s] \in {"node", "exec", "provider", "dispatch", "tool", "judge"} => ~turn[s].judged

(* Ledger, trace and callbacks agree; the tool calls of the turn in flight *)
(* are recorded or still to dispatch.                                      *)
Accounting(s) ==
  /\ ledger[s] = Spend(trace[s])
  /\ reported[s] = ledger[s] + IF InTurn(s) THEN turn[s].tok ELSE 0
  /\ InTurn(s) => /\ Cardinality(At(s, "tool.call", node(s), turn[s].att)) + Len(turn[s].calls)
                        = turn[s].dispatched
                  /\ pc[s] = "tool" => turn[s].calls # <<>>
                  /\ pc[s] \in {"judge", "report"} => turn[s].calls = <<>>
  /\ \A i \in 1..Len(trace[s]) :
       LET e == trace[s][i] IN
       /\ e.kind = "llm.call" =>
            Cardinality({k \in At(s, "tool.call", e.node, e.att) : k < i}) = e.calls
       /\ e.kind = "tool.call" =>
            \/ \E k \in At(s, "llm.call", e.node, e.att) : i < k
            \/ InTurn(s) /\ e.node = node(s) /\ e.att = turn[s].att

(* An accepted call of an external tool in an attempt of a node. *)
ExternalIn(s, n, att) ==
  \E i \in At(s, "tool.call", n, att) : trace[s][i].ok /\ IsExternalTool(trace[s][i].at)

(* Accepted calls are of registered tools; what was imported taints the    *)
(* turn, then its row, then the later rows.                                *)
Tainting(s) ==
  /\ pc[s] = "tool" => tools[Head(turn[s].calls)] # "none"
  /\ \A i \in 1..Len(trace[s]) : trace[s][i].kind = "tool.call" =>
       /\ trace[s][i].at \in Tools
       /\ trace[s][i].ok => tools[trace[s][i].at] # "none"
  /\ pc[s] \in Turning => (ExternalIn(s, node(s), turn[s].att) => turn[s].tainted)
  /\ \A k \in 1..Len(rows[s]) : ExternalIn(s, rows[s][k].node, rows[s][k].att) => rows[s][k].tainted
  /\ \A k \in 1..Len(rows[s]) : rows[s][k].tainted => \A j \in k..Len(rows[s]) : rows[s][j].tainted

(* The invariant of one session. *)
Parts(s) == Phase(s) /\ Past(s) /\ Judging(s) /\ Accounting(s) /\ Tainting(s)

(* The inductive invariant. *)
IInv == Types /\ \A s \in Sessions : Parts(s)

-----------------------------------------------------------------------------
(* Sessions do not interfere. *)

(* A step leaves session s alone. *)
Frame(s) ==
  /\ inner'[s] = inner[s] /\ pc'[s] = pc[s] /\ turn'[s] = turn[s] /\ judged'[s] = judged[s]
  /\ trace'[s] = trace[s] /\ rows'[s] = rows[s] /\ ledger'[s] = ledger[s]
  /\ reported'[s] = reported[s]

(* What is left alone keeps its invariant, whatever tools are registered   *)
(* meanwhile.                                                              *)
LEMMA FrameKeeps ==
  ASSUME IInv, NEW s \in Sessions, Frame(s),
         \A t \in Tools : tools[t] # "none" => tools'[t] = tools[t]
  PROVE  Parts(s)'
<1>0. Parts(s)
  BY DEF IInv
<1>1. Phase(s)'
  BY <1>0 DEF Parts, Phase, Frame, Turning, Working
<1>2. Past(s)'
  BY <1>0 DEF Parts, Past, Frame, node, Reached, Turning, Working
<1>3. Judging(s)'
  <2>2. ASSUME NEW n \in Nodes PROVE Says(s, n, Len(trace[s]) + 1, judged[s][n])' <=>
                                     Says(s, n, Len(trace[s]) + 1, judged[s][n])
    BY DEF Says, Frame, NoJudgment
  <2>3. ASSUME NEW i PROVE Says(s, trace[s][i].node, i, trace[s][i].judge)' <=>
                          Says(s, trace[s][i].node, i, trace[s][i].judge)
    BY DEF Says, Frame, NoJudgment
  <2>4. Judging(s) /\ node(s)' = node(s)
    BY <1>0 DEF Parts, Frame, node
  <2> QED  BY <2>2, <2>3, <2>4 DEF Judging, Frame
<1>4. Accounting(s)'
  BY <1>0 DEF Parts, Accounting, At, InTurn, Frame, node
<1>5. Tainting(s)'
  <2>1. \A i \in 1..Len(trace[s]) : trace[s][i].kind = "tool.call" /\ trace[s][i].ok =>
          tools'[trace[s][i].at] = tools[trace[s][i].at]
    BY <1>0 DEF Parts, Tainting
  <2>2. \A n, att : ExternalIn(s, n, att)' <=> ExternalIn(s, n, att)
    BY <2>1 DEF ExternalIn, At, IsExternalTool, Frame
  <2>3. \A i \in 1..Len(trace[s]) : trace[s][i].kind = "tool.call" =>
          /\ trace[s][i].at \in Tools
          /\ trace[s][i].ok => tools'[trace[s][i].at] # "none"
    BY <1>0, <2>1 DEF Parts, Tainting
  <2>4. pc[s] = "tool" => tools'[Head(turn[s].calls)] # "none"
    <3>1. pc[s] = "tool" => Head(turn[s].calls) \in Tools
      <4>1. pc[s] = "tool" => turn[s].calls \in Seq(Tools) /\ turn[s].calls # <<>>
        BY <1>0 DEF IInv, Types, TurnSet, Parts, Accounting, InTurn
      <4> QED  BY <4>1
    <3> QED  BY <1>0, <3>1 DEF Parts, Tainting
  <2> QED  BY <1>0, <2>2, <2>3, <2>4 DEF Parts, Tainting, Frame, node, Turning
<1> QED  BY <1>1, <1>2, <1>3, <1>4, <1>5 DEF Parts

(* A step of one session is shown for that session. *)
LEMMA OneSession ==
  ASSUME IInv, Types', NEW s \in Sessions, tools' = tools,
         \A q \in Sessions \ {s} : Frame(q), Parts(s)'
  PROVE  IInv'
<1>1. \A q \in Sessions \ {s} : Parts(q)'
  BY FrameKeeps
<1> QED  BY <1>1 DEF IInv

-----------------------------------------------------------------------------
(* What an event adds. *)

(* The trace of s grows by e. *)
Grown(s, e) ==
  /\ Len(trace'[s]) = Len(trace[s]) + 1 /\ trace'[s][Len(trace[s]) + 1] = e
  /\ \A k \in 1..Len(trace[s]) : trace'[s][k] = trace[s][k]

(* The trace of s grows, by no call. *)
Passive(s) ==
  /\ Len(trace'[s]) \in Nat /\ Len(trace'[s]) >= Len(trace[s])
  /\ \A k \in 1..Len(trace[s]) : trace'[s][k] = trace[s][k]
  /\ \A k \in (Len(trace[s]) + 1)..Len(trace'[s]) :
       trace'[s][k].kind \notin {"tool.call", "llm.call"} /\ ~trace'[s][k].judged

(* Emit appends one event to one trace. *)
LEMMA EmitGrows ==
  ASSUME Types, NEW s \in Sessions, NEW e \in EventSet, Emit(s, e)
  PROVE  /\ trace' \in [Sessions -> Seq(EventSet)]
         /\ trace'[s] = Append(trace[s], e) /\ Grown(s, e)
         /\ \A q \in Sessions \ {s} : trace'[q] = trace[q]
<1>1. trace[s] \in Seq(EventSet) /\ Append(trace[s], e) \in Seq(EventSet)
  BY DEF Types
<1>2. trace' = [trace EXCEPT ![s] = Append(trace[s], e)]
  BY DEF Emit
<1>3. trace'[s] = Append(trace[s], e)
  BY <1>2 DEF Types
<1>4. Grown(s, e)
  BY <1>1, <1>3 DEF Grown
<1> QED  BY <1>1, <1>2, <1>3, <1>4 DEF Types

(* SpendAppend, for traces. *)
LEMMA EventSpend ==
  ASSUME NEW t \in Seq(EventSet), NEW e \in EventSet
  PROVE  Spend(Append(t, e)) = Spend(t) + e.tok
<1>1. \A i \in 1..Len(t) : t[i] \in EventSet
  OBVIOUS
<1>2. \A x \in EventSet : x.tok \in Nat
  BY DEF EventSet
<1> QED  BY <1>1, <1>2, SpendAppend

(* What a trace gains with an event. *)
LEMMA SpendOf ==
  ASSUME IInv, NEW s \in Sessions, NEW e \in EventSet, trace'[s] = Append(trace[s], e)
  PROVE  /\ Spend(trace'[s]) = Spend(trace[s]) + e.tok
         /\ e.tok = 0 => Spend(trace'[s]) = Spend(trace[s])
<1>1. trace[s] \in Seq(EventSet) /\ ledger[s] \in Nat /\ ledger[s] = Spend(trace[s])
  BY DEF IInv, Types, Parts, Accounting
<1> QED  BY <1>1, EventSpend

(* Positions of a trace are finitely many. *)
LEMMA AtFacts ==
  ASSUME Types, NEW s \in Sessions, NEW kind, NEW n, NEW att
  PROVE  /\ At(s, kind, n, att) \subseteq 1..Len(trace[s])
         /\ IsFiniteSet(At(s, kind, n, att)) /\ Cardinality(At(s, kind, n, att)) \in Nat
<1>1. At(s, kind, n, att) \subseteq 1..Len(trace[s]) /\ Len(trace[s]) \in Nat
  BY DEF At, Types
<1>2. IsFiniteSet(1..Len(trace[s]))
  BY <1>1, FS_Interval
<1> QED  BY <1>1, <1>2, FS_Subset, FS_CardinalityType

(* Without calls, the calls of an attempt stay the same. *)
LEMMA PassiveAt ==
  ASSUME Types, NEW s \in Sessions, Passive(s), NEW kind \in {"tool.call", "llm.call"}, NEW n, NEW att
  PROVE  At(s, kind, n, att)' = At(s, kind, n, att)
<1>1. Len(trace[s]) \in Nat /\ Len(trace'[s]) \in Nat
  BY DEF Types, Passive
<1>2. \A k \in 1..Len(trace'[s]) : k \in 1..Len(trace[s]) \/ k \in (Len(trace[s]) + 1)..Len(trace'[s])
  BY <1>1
<1>3. \A k \in At(s, kind, n, att)' : k \in 1..Len(trace[s])
  BY <1>2 DEF At, Passive
<1> QED  BY <1>1, <1>3 DEF At, Passive

(* What one event adds to the positions of a kind. *)
LEMMA GrownAt ==
  ASSUME Types, NEW s \in Sessions, NEW e, Grown(s, e), NEW kind, NEW n, NEW att
  PROVE  At(s, kind, n, att)' =
           IF e.kind = kind /\ e.node = n /\ e.att = att
           THEN At(s, kind, n, att) \cup {Len(trace[s]) + 1} ELSE At(s, kind, n, att)
<1>1. Len(trace[s]) \in Nat
  BY DEF Types
<1>2. 1..Len(trace'[s]) = 1..Len(trace[s]) \cup {Len(trace[s]) + 1}
  BY <1>1 DEF Grown
<1> QED  BY <1>1, <1>2 DEF At, Grown

(* Judgments said of a prefix stay said. *)
LEMMA SaysKept ==
  ASSUME NEW s \in Sessions, Len(trace[s]) \in Nat,
         \A k \in 1..Len(trace[s]) : trace'[s][k] = trace[s][k], inner'[s].judge = inner[s].judge,
         NEW n, NEW i \in 1..(Len(trace[s]) + 1), NEW j, Says(s, n, i, j)
  PROVE  Says(s, n, i, j)'
<1>1. \A k \in 1..(i - 1) : trace'[s][k] = trace[s][k]
  OBVIOUS
<1>2. CASE /\ \A k \in 1..(i - 1) : ~(trace[s][k].node = n /\ trace[s][k].judged)
           /\ j = NoJudgment
  BY <1>1, <1>2 DEF Says, NoJudgment
<1>3. CASE \E k \in 1..(i - 1) :
             /\ trace[s][k].node = n /\ trace[s][k].judged
             /\ \A m \in (k + 1)..(i - 1) : ~(trace[s][m].node = n /\ trace[s][m].judged)
             /\ j = [judge |-> inner[s].judge, att |-> trace[s][k].att]
  <2>1. PICK k \in 1..(i - 1) :
             /\ trace[s][k].node = n /\ trace[s][k].judged
             /\ \A m \in (k + 1)..(i - 1) : ~(trace[s][m].node = n /\ trace[s][m].judged)
             /\ j = [judge |-> inner[s].judge, att |-> trace[s][k].att]
    BY <1>3
  <2>2. \A m \in (k + 1)..(i - 1) : m \in 1..(i - 1)
    OBVIOUS
  <2> QED  BY <1>1, <2>1, <2>2 DEF Says
<1> QED  BY <1>2, <1>3 DEF Says

(* Events that are no judged call of n do not change what is said of n. *)
LEMMA SaysOn ==
  ASSUME NEW s \in Sessions, Len(trace[s]) \in Nat, Len(trace'[s]) \in Nat,
         Len(trace'[s]) >= Len(trace[s]),
         \A k \in 1..Len(trace[s]) : trace'[s][k] = trace[s][k], inner'[s].judge = inner[s].judge,
         NEW n,
         \A k \in (Len(trace[s]) + 1)..Len(trace'[s]) : ~(trace'[s][k].node = n /\ trace'[s][k].judged),
         NEW j, Says(s, n, Len(trace[s]) + 1, j),
         NEW i \in (Len(trace[s]) + 1)..(Len(trace'[s]) + 1)
  PROVE  Says(s, n, i, j)'
<1> DEFINE m == Len(trace[s])
<1>1. \A k \in 1..(i - 1) : k \in 1..m \/ k \in (m + 1)..Len(trace'[s])
  OBVIOUS
<1>2. CASE /\ \A k \in 1..m : ~(trace[s][k].node = n /\ trace[s][k].judged)
           /\ j = NoJudgment
  <2>1. \A k \in 1..(i - 1) : ~(trace'[s][k].node = n /\ trace'[s][k].judged)
    BY <1>1, <1>2
  <2> QED  BY <1>2, <2>1 DEF Says, NoJudgment
<1>3. CASE \E k \in 1..m :
             /\ trace[s][k].node = n /\ trace[s][k].judged
             /\ \A l \in (k + 1)..m : ~(trace[s][l].node = n /\ trace[s][l].judged)
             /\ j = [judge |-> inner[s].judge, att |-> trace[s][k].att]
  <2>1. PICK k \in 1..m :
             /\ trace[s][k].node = n /\ trace[s][k].judged
             /\ \A l \in (k + 1)..m : ~(trace[s][l].node = n /\ trace[s][l].judged)
             /\ j = [judge |-> inner[s].judge, att |-> trace[s][k].att]
    BY <1>3
  <2>2. \A l \in (k + 1)..(i - 1) : l \in (k + 1)..m \/ l \in (m + 1)..Len(trace'[s])
    OBVIOUS
  <2>3. \A l \in (k + 1)..(i - 1) : ~(trace'[s][l].node = n /\ trace'[s][l].judged)
    BY SMTT(30), <2>1, <2>2
  <2>4. k \in 1..(i - 1) /\ trace'[s][k] = trace[s][k]
    OBVIOUS
  <2> QED  BY <2>1, <2>3, <2>4 DEF Says
<1>4. m + 1 - 1 = m
  OBVIOUS
<1> QED  BY <1>2, <1>3, <1>4 DEF Says

-----------------------------------------------------------------------------
(* Steps outside a turn, which record no call. *)

(* A step outside a turn, with no call recorded. *)
Silent(s) ==
  /\ Passive(s) /\ Spend(trace'[s]) = Spend(trace[s]) /\ tools' = tools
  /\ inner'[s].judge = inner[s].judge /\ judged'[s] = judged[s]
  /\ ledger'[s] = ledger[s] /\ reported'[s] = reported[s]
  /\ ~InTurn(s) /\ ~InTurn(s)'

(* Such a step keeps the judgments: the gate events it writes quote the    *)
(* ledger.                                                                 *)
LEMMA SilentJudging ==
  ASSUME IInv, NEW s \in Sessions, Silent(s),
         pc'[s] \in {"node", "exec", "provider"} => ~turn'[s].judged,
         \A k \in (Len(trace[s]) + 1)..Len(trace'[s]) :
           trace'[s][k].kind \in {"gate.pass", "gate.fail"} =>
             trace'[s][k].node \in Nodes /\ trace'[s][k].judge = judged[s][trace'[s][k].node]
  PROVE  Judging(s)'
<1>0. Judging(s) /\ Len(trace[s]) \in Nat /\ Len(trace'[s]) \in Nat /\ Len(trace'[s]) >= Len(trace[s])
  BY DEF IInv, Parts, Types, Silent, Passive
<1>1. \A n \in Nodes : Says(s, n, Len(trace[s]) + 1, judged[s][n])
  BY <1>0 DEF Judging, Silent, InTurn
<1>2. \A n \in Nodes : \A i \in (Len(trace[s]) + 1)..(Len(trace'[s]) + 1) :
        Says(s, n, i, judged[s][n])'
  <2> SUFFICES ASSUME NEW n \in Nodes, NEW i \in (Len(trace[s]) + 1)..(Len(trace'[s]) + 1)
               PROVE  Says(s, n, i, judged[s][n])'
    OBVIOUS
  <2>1. PICK j : j = judged[s][n] /\ judged'[s][n] = j
    BY DEF Silent
  <2>2. \A k \in (Len(trace[s]) + 1)..Len(trace'[s]) : ~(trace'[s][k].node = n /\ trace'[s][k].judged)
    BY DEF Silent, Passive
  <2>3. Says(s, n, Len(trace[s]) + 1, j)
    BY <1>1, <2>1
  <2>4. Says(s, n, i, j)'
    BY <1>0, <2>2, <2>3, SaysOn DEF Silent, Passive
  <2> QED  BY <2>1, <2>4 DEF Says, NoJudgment
<1>3. ASSUME NEW i \in 1..Len(trace'[s]), trace'[s][i].kind \in {"gate.pass", "gate.fail"}
      PROVE  Says(s, trace[s][i].node, i, trace[s][i].judge)'
  <2>1. CASE i \in 1..Len(trace[s])
    <3>1. trace'[s][i] = trace[s][i] /\ i \in 1..(Len(trace[s]) + 1)
      BY <1>0, <2>1 DEF Silent, Passive
    <3>2. Says(s, trace[s][i].node, i, trace[s][i].judge)
      BY <1>0, <1>3, <2>1, <3>1 DEF Judging
    <3>3. PICK n, j : n = trace[s][i].node /\ j = trace[s][i].judge
      OBVIOUS
    <3>4. Says(s, n, i, j)'
      BY <1>0, <3>1, <3>2, <3>3, SaysKept DEF Silent, Passive
    <3> QED  BY <3>1, <3>3, <3>4 DEF Says, NoJudgment
  <2>2. CASE i \in (Len(trace[s]) + 1)..Len(trace'[s])
    <3>1. trace'[s][i].node \in Nodes /\ trace'[s][i].judge = judged[s][trace'[s][i].node]
      BY <1>3, <2>2
    <3>2. PICK n \in Nodes : n = trace'[s][i].node
      BY <3>1
    <3>3. Says(s, n, i, judged[s][n])'
      BY <1>0, <1>2, <2>2
    <3> QED  BY <3>1, <3>2, <3>3 DEF Says, NoJudgment, Silent
  <2> QED  BY <1>0, <2>1, <2>2
<1>4. pc'[s] # "report"
  BY DEF Silent, InTurn
<1>5. \A n \in Nodes : Says(s, n, Len(trace[s]) + 1, judged[s][n])'
  <2>1. PICK m \in (Len(trace[s]) + 1)..(Len(trace'[s]) + 1) : m = Len(trace'[s]) + 1
    BY <1>0
  <2>2. \A n \in Nodes : Says(s, n, m, judged[s][n])'
    BY <1>2
  <2> QED  BY <2>1, <2>2 DEF Says, NoJudgment
<1>6. pc'[s] \in {"node", "exec", "provider", "dispatch", "tool", "judge"} => ~turn'[s].judged
  BY DEF Silent, InTurn
<1> QED  BY <1>3, <1>4, <1>5, <1>6 DEF Judging

(* Such a step keeps the books. *)
LEMMA SilentAccounting ==
  ASSUME IInv, NEW s \in Sessions, Silent(s)
  PROVE  Accounting(s)'
<1>0. Accounting(s) /\ Types /\ Passive(s)
  BY DEF IInv, Parts, Silent
<1>1. \A kind \in {"tool.call", "llm.call"} : \A n, att : At(s, kind, n, att)' = At(s, kind, n, att)
  BY <1>0, PassiveAt
<1>2. \A i \in 1..Len(trace'[s]) : trace'[s][i].kind \in {"tool.call", "llm.call"} =>
        i \in 1..Len(trace[s]) /\ trace'[s][i] = trace[s][i]
  BY <1>0 DEF Passive, Types
<1>3. ledger'[s] = Spend(trace'[s]) /\ reported'[s] = ledger'[s] + 0
  BY <1>0 DEF Accounting, Silent
<1>4. ASSUME NEW i \in 1..Len(trace'[s]), trace'[s][i].kind = "llm.call",
             NEW n, n = trace'[s][i].node, NEW att, att = trace'[s][i].att
      PROVE  Cardinality({k \in At(s, "tool.call", n, att)' : k < i}) = trace'[s][i].calls
  BY <1>0, <1>1, <1>2, <1>4 DEF Accounting
<1>5. ASSUME NEW i \in 1..Len(trace'[s]), trace'[s][i].kind = "tool.call",
             NEW n, n = trace'[s][i].node, NEW att, att = trace'[s][i].att
      PROVE  \E k \in At(s, "llm.call", n, att)' : i < k
  <2>1. i \in 1..Len(trace[s]) /\ trace[s][i] = trace'[s][i] /\ ~InTurn(s)
    BY <1>2, <1>5 DEF Silent
  <2>2. \E k \in At(s, "llm.call", n, att) : i < k
    BY <1>0, <1>5, <2>1 DEF Accounting
  <2> QED  BY <1>1, <2>2
<1> QED  BY <1>3, <1>4, <1>5 DEF Accounting, Silent, At

(* Such a step imports nothing. *)
LEMMA SilentExternal ==
  ASSUME IInv, NEW s \in Sessions, Silent(s)
  PROVE  /\ \A n, att : ExternalIn(s, n, att)' <=> ExternalIn(s, n, att)
         /\ \A i \in 1..Len(trace'[s]) : trace'[s][i].kind = "tool.call" =>
              /\ trace'[s][i].at \in Tools
              /\ trace'[s][i].ok => tools'[trace'[s][i].at] # "none"
<1>0. Tainting(s) /\ Types /\ Passive(s) /\ tools' = tools
  BY DEF IInv, Parts, Silent
<1>1. \A n, att : At(s, "tool.call", n, att)' = At(s, "tool.call", n, att)
  BY <1>0, PassiveAt
<1>2. \A n, att : \A i \in At(s, "tool.call", n, att) : trace'[s][i] = trace[s][i]
  BY <1>0, AtFacts DEF Passive
<1>3. \A n, att : ExternalIn(s, n, att)' <=> ExternalIn(s, n, att)
  BY <1>0, <1>1, <1>2 DEF ExternalIn, IsExternalTool
<1>4. \A i \in 1..Len(trace'[s]) : trace'[s][i].kind = "tool.call" =>
        i \in 1..Len(trace[s]) /\ trace'[s][i] = trace[s][i]
  BY <1>0 DEF Passive, Types
<1> QED  BY <1>0, <1>3, <1>4 DEF Tainting

-----------------------------------------------------------------------------
(* The steps of a session. *)

(* The node of a turn, and the nodes before it. *)
LEMMA PlanFacts ==
  ASSUME NEW s \in Sessions
  PROVE  /\ Len(Plan[s]) \in Nat /\ \A i \in 1..Len(Plan[s]) : Plan[s][i] \in Nodes
         /\ \A i, j \in 1..Len(Plan[s]) : Plan[s][i] = Plan[s][j] => i = j
<1> QED  BY BridgeAssumption

(* Types of one session, as the proofs use them. *)
LEMMA TurnFacts ==
  ASSUME Types, NEW s \in Sessions
  PROVE  /\ turn[s] \in TurnSet /\ turn[s].i \in Nat \ {0} /\ turn[s].att \in Nat
         /\ turn[s].tok \in Nat /\ turn[s].calls \in Seq(Tools)
         /\ trace[s] \in Seq(EventSet) /\ Len(trace[s]) \in Nat
         /\ rows[s] \in Seq(RowSet) /\ Len(rows[s]) \in Nat
         /\ \A i \in 1..Len(trace[s]) : trace[s][i] \in EventSet /\ trace[s][i].att \in Nat
<1>1. turn[s] \in TurnSet /\ trace[s] \in Seq(EventSet) /\ rows[s] \in Seq(RowSet)
  BY DEF Types
<1>2. \A i \in 1..Len(trace[s]) : trace[s][i] \in EventSet
  BY <1>1
<1>3. \A e \in EventSet : e.att \in Nat
  BY DEF EventSet
<1> QED  BY <1>1, <1>2, <1>3 DEF TurnSet

(* A turn is at a node of the plan. *)
LEMMA TurnNode ==
  ASSUME IInv, NEW s \in Sessions, pc[s] \in Turning
  PROVE  /\ turn[s].i \in 1..Len(Plan[s]) /\ node(s) = Plan[s][turn[s].i] /\ node(s) \in Nodes
         /\ node(s) # "none"
<1>1. turn[s].i \in Nat \ {0} /\ turn[s].i <= Len(Plan[s])
  BY TurnFacts DEF IInv, Parts, Phase
<1> QED  BY <1>1, PlanFacts, BridgeAssumption DEF node

(* An event that is no call. *)
LEMMA GrownPassive ==
  ASSUME Types, NEW s \in Sessions, NEW e, Grown(s, e),
         e.kind \notin {"tool.call", "llm.call"}, ~e.judged
  PROVE  Passive(s)
<1> QED  BY TurnFacts DEF Grown, Passive

(* No event at all. *)
LEMMA UnchangedPassive ==
  ASSUME Types, NEW s \in Sessions, trace'[s] = trace[s]
  PROVE  Passive(s)
<1> QED  BY TurnFacts DEF Passive

(* Tainting, outside a turn, when no row is added. *)
LEMMA SilentTainting ==
  ASSUME IInv, NEW s \in Sessions, Silent(s), rows'[s] = rows[s],
         pc'[s] \in Turning => (ExternalIn(s, node(s), turn[s].att)' => turn'[s].tainted)
  PROVE  Tainting(s)'
<1>1. Tainting(s)
  BY DEF IInv, Parts
<1>2. \A k \in 1..Len(rows[s]) :
        ExternalIn(s, rows[s][k].node, rows[s][k].att)' => rows'[s][k].tainted
  <2> SUFFICES ASSUME NEW k \in 1..Len(rows[s]), ExternalIn(s, rows[s][k].node, rows[s][k].att)'
               PROVE  rows'[s][k].tainted
    OBVIOUS
  <2>1. PICK n, att : n = rows[s][k].node /\ att = rows[s][k].att
    OBVIOUS
  <2>2. ExternalIn(s, n, att)'
    BY <2>1 DEF ExternalIn, At
  <2> QED  BY <1>1, <2>1, <2>2, SilentExternal DEF Tainting
<1>3. pc'[s] # "tool"
  BY DEF Silent, InTurn
<1> QED  BY <1>1, <1>2, <1>3, SilentExternal DEF Tainting

(* Registrations, at any time of any session, keep the invariant. *)
LEMMA RegistryIInv ==
  ASSUME IInv,
         \/ RegisterProvider \/ ClearJudge \/ (\E j \in Judges : RegisterJudge(j))
         \/ \E t \in Tools, kind \in {"local", "external"} : RegisterTool(t, kind)
  PROVE  IInv'
<1>1. \A s \in Sessions : Frame(s)
  BY DEF Frame, RegisterProvider, ClearJudge, RegisterJudge, RegisterTool, diskVars
<1>2. Types' /\ \A t \in Tools : tools[t] # "none" => tools'[t] = tools[t]
  BY DEF IInv, Types, RegisterProvider, ClearJudge, RegisterJudge, RegisterTool, diskVars
<1> QED  BY <1>1, <1>2, FrameKeeps DEF IInv

(* SessionOpen: the trace starts, with nothing spent. *)
LEMMA SessionOpenIInv ==
  ASSUME IInv, NEW s \in Sessions, NEW arg \in TaskArgs, NEW spec \in BudgetSpecs[s],
         SessionOpen(s, arg, spec)
  PROVE  IInv'
<1> DEFINE e1 == Event("session.open", "none", "", TRUE, 0, 0)
           e2 == Event("plan.compiled", "none", "", TRUE, 0, 0)
<1>1. /\ inner[s] \in HandleSet /\ ~inner[s].open /\ ~inner[s].closed
      /\ inner' = [inner EXCEPT ![s] = [inner[s] EXCEPT !.open = TRUE, !.runner = TRUE,
                      !.judge = judge, !.cap = spec, !.task = MergeTask(PlanTask, arg)]]
  BY DEF IInv, Types, SessionOpen, LookupJudge
<1>2. MergeTask(PlanTask, arg) \in Texts \cup {NoTask}
  BY BridgeAssumption DEF SessionOpen, MergeTask
<1>3. inner' \in [Sessions -> HandleSet]
  BY <1>1, <1>2, BridgeAssumption DEF IInv, Types, HandleSet
<1>4. inner'[s].open /\ ~inner'[s].closed /\ inner'[s].judge = judge
  BY <1>1 DEF IInv, Types, HandleSet
<1>5. /\ e1 \in EventSet /\ e1.tok = 0 /\ ~e1.judged /\ e1.kind = "session.open"
      /\ e2 \in EventSet /\ e2.tok = 0 /\ ~e2.judged /\ e2.kind = "plan.compiled"
  <2>2. e1 \in EventSet /\ e1.tok = 0 /\ ~e1.judged /\ e1.kind = "session.open"
    BY DEF Event, EventSet, Judgments, NoJudgment
  <2>3. e2 \in EventSet /\ e2.tok = 0 /\ ~e2.judged /\ e2.kind = "plan.compiled"
    BY DEF Event, EventSet, Judgments, NoJudgment
  <2> QED  BY <2>2, <2>3
<1> HIDE DEF e1, e2
<1>6. trace' = [trace EXCEPT ![s] = <<e1, e2>>]
  BY DEF SessionOpen, e1, e2
<1>7. /\ trace' \in [Sessions -> Seq(EventSet)] /\ trace'[s] = <<e1, e2>>
      /\ Len(trace'[s]) = 2 /\ trace'[s][1] = e1 /\ trace'[s][2] = e2
  BY <1>5, <1>6 DEF IInv, Types
<1>8. \A i \in 1..Len(trace'[s]) : trace'[s][i].kind \notin Working /\ ~trace'[s][i].judged
  BY <1>5, <1>7 DEF Working
<1>9. Types'
  BY <1>3, <1>7 DEF IInv, Types, SessionOpen, registryVars
<1>10. tools' = tools /\ \A q \in Sessions \ {s} : Frame(q)
  BY <1>1, <1>6 DEF IInv, Types, Frame, SessionOpen, registryVars
<1>11. /\ pc[s] = "idle" /\ rows[s] = <<>> /\ ledger[s] = 0 /\ reported[s] = 0
       /\ judged[s] = [n \in Nodes |-> NoJudgment]
       /\ UNCHANGED <<pc, turn, judged, rows, ledger, reported>>
  BY <1>1 DEF IInv, Parts, Phase, SessionOpen
<1>12. Phase(s)'
  BY <1>4, <1>8, <1>11 DEF Phase, Turning, Working
<1>13. Past(s)'
  BY <1>8, <1>11 DEF Past, Turning
<1>14. Judging(s)'
  BY <1>7, <1>8, <1>11 DEF Judging, Says, Working, NoJudgment
<1>15. Accounting(s)'
  <2>1. Spend(trace'[s]) = 0
    <3> DEFINE t0 == <<>>
               t1 == Append(t0, e1)
               t2 == Append(t1, e2)
    <3>1. t0 \in Seq(EventSet) /\ t1 \in Seq(EventSet) /\ trace'[s] = t2
      BY <1>5, <1>7
    <3>2. Spend(t0) = 0
      BY SpendEmpty
    <3> HIDE DEF t0
    <3>3. Spend(t1) = Spend(t0) + e1.tok
      BY <1>5, <3>1, EventSpend
    <3> HIDE DEF t1
    <3>4. Spend(t2) = Spend(t1) + e2.tok
      BY <1>5, <3>1, EventSpend
    <3> QED  BY <1>5, <3>1, <3>2, <3>3, <3>4
  <2> QED  BY <1>8, <1>11, <2>1 DEF Accounting, InTurn, Working
<1>16. Tainting(s)'
  BY <1>8, <1>11 DEF Tainting, Working, Turning
<1> QED  BY <1>9, <1>10, <1>12, <1>13, <1>14, <1>15, <1>16, OneSession DEF Parts

(* SessionRun: the first node is ahead. *)
LEMMA SessionRunIInv ==
  ASSUME IInv, NEW s \in Sessions, NEW arg \in TaskArgs, SessionRun(s, arg)
  PROVE  IInv'
<1>1. /\ inner[s] \in HandleSet /\ inner' = [inner EXCEPT ![s] = [inner[s] EXCEPT !.runner = FALSE]]
      /\ pc' = [pc EXCEPT ![s] = "node"] /\ turn' = [turn EXCEPT ![s] = NoTurn]
      /\ UNCHANGED <<tools, judge, judged, trace, rows, row, ledger, reported>>
  BY DEF IInv, Types, SessionRun, registryVars, diskVars
<1>2. NoTurn \in TurnSet /\ NoTurn.i = 1 /\ ~NoTurn.judged
  BY DEF NoTurn, TurnSet, States
<1>3. inner' \in [Sessions -> HandleSet]
  BY <1>1 DEF IInv, Types, HandleSet
<1>4. Types'
  BY <1>1, <1>2, <1>3 DEF IInv, Types, PCs
<1>5. tools' = tools /\ \A q \in Sessions \ {s} : Frame(q)
  BY <1>1 DEF IInv, Types, Frame
<1>6. /\ inner'[s].open = inner[s].open /\ inner'[s].closed = inner[s].closed
      /\ inner'[s].judge = inner[s].judge /\ ~inner'[s].runner
      /\ pc'[s] = "node" /\ turn'[s] = NoTurn
  BY <1>1 DEF IInv, Types, HandleSet
<1>7. /\ inner[s].open /\ ~inner[s].closed /\ inner[s].runner /\ pc[s] = "idle" /\ rows[s] = <<>>
      /\ \A i \in 1..Len(trace[s]) : trace[s][i].kind \notin Working /\ ~trace[s][i].judged
  BY DEF IInv, Parts, Phase, SessionRun, Borrowed
<1>8. Phase(s)'
  BY <1>1, <1>2, <1>6, <1>7 DEF Phase, Turning
<1>9. Past(s)'
  BY <1>1, <1>6, <1>7 DEF Past, Turning, Working
<1>10. Silent(s)
  BY <1>1, <1>6, <1>7, UnchangedPassive DEF IInv, Silent, InTurn
<1>11. Len(trace[s]) \in Nat
  BY TurnFacts DEF IInv
<1>12. Judging(s)'
  BY <1>1, <1>2, <1>6, <1>10, <1>11, SilentJudging
<1>13. Tainting(s)'
  BY <1>1, <1>6, <1>10, SilentTainting DEF Turning
<1> QED  BY <1>4, <1>5, <1>8, <1>9, <1>10, <1>12, <1>13, SilentAccounting, OneSession DEF Parts

(* SessionClose, which a borrowed handle refuses. *)
LEMMA SessionCloseIInv ==
  ASSUME IInv, NEW s \in Sessions, SessionClose(s)
  PROVE  IInv'
<1>1. /\ inner[s] \in HandleSet
      /\ inner' = [inner EXCEPT ![s] = [inner[s] EXCEPT !.closed = TRUE, !.runner = FALSE]]
      /\ UNCHANGED <<tools, judge, pc, turn, judged, trace, rows, row, ledger, reported>>
      /\ pc[s] = "idle"
  BY DEF IInv, Types, SessionClose, registryVars, diskVars, Borrowed
<1>2. inner' \in [Sessions -> HandleSet]
  BY <1>1 DEF IInv, Types, HandleSet
<1>3. inner'[s].open = inner[s].open /\ inner'[s].judge = inner[s].judge /\ ~inner'[s].runner
  BY <1>1 DEF IInv, Types, HandleSet
<1>4. Types'
  BY <1>1, <1>2 DEF IInv, Types
<1>5. tools' = tools /\ \A q \in Sessions \ {s} : Frame(q)
  BY <1>1 DEF IInv, Types, Frame
<1>6. Phase(s)'
  BY <1>1, <1>3 DEF IInv, Parts, Phase, Turning, NoJudgment
<1>7. Past(s)'
  BY <1>1 DEF IInv, Parts, Past, Turning
<1>8. Silent(s)
  BY <1>1, <1>3, UnchangedPassive DEF IInv, Silent, InTurn
<1>9. Judging(s)'
  BY <1>1, <1>8, SilentJudging, TurnFacts DEF IInv
<1>10. Tainting(s)'
  BY <1>1, <1>8, SilentTainting DEF Turning
<1> QED  BY <1>4, <1>5, <1>6, <1>7, <1>8, <1>9, <1>10, SilentAccounting, OneSession DEF Parts

(* The native code of s steps outside a turn, and writes at most its own   *)
(* trace and row: what is left to show.                                    *)
OwnStep(s) ==
  /\ UNCHANGED <<tools, judge, judged, rows, ledger, reported>>
  /\ inner' \in [Sessions -> HandleSet] /\ inner'[s].judge = inner[s].judge
  /\ inner'[s].open = inner[s].open /\ inner'[s].closed = inner[s].closed
  /\ inner'[s].runner = inner[s].runner
  /\ pc' \in [Sessions -> PCs] /\ turn' \in [Sessions -> TurnSet]
  /\ trace' \in [Sessions -> Seq(EventSet)] /\ row' \in [Sessions -> States \cup {"NONE", "RUNNING"}]
  /\ Passive(s) /\ Spend(trace'[s]) = Spend(trace[s]) /\ ~InTurn(s) /\ ~InTurn(s)'
  /\ pc'[s] \in {"node", "exec", "provider"} => ~turn'[s].judged
  /\ \A k \in (Len(trace[s]) + 1)..Len(trace'[s]) :
       trace'[s][k].kind \in {"gate.pass", "gate.fail"} =>
         trace'[s][k].node \in Nodes /\ trace'[s][k].judge = judged[s][trace'[s][k].node]
  /\ \A q \in Sessions \ {s} : /\ inner'[q] = inner[q] /\ pc'[q] = pc[q] /\ turn'[q] = turn[q]
                               /\ trace'[q] = trace[q]

(* Such a step is shown by Phase, Past and the taint of the turn. *)
LEMMA OwnStepIInv ==
  ASSUME IInv, NEW s \in Sessions, OwnStep(s), pc[s] # "idle", Phase(s)', Past(s)',
         pc'[s] \in Turning => (ExternalIn(s, node(s), turn[s].att)' => turn'[s].tainted)
  PROVE  IInv'
<1>1. Types'
  BY DEF IInv, Types, OwnStep
<1>2. tools' = tools /\ \A q \in Sessions \ {s} : Frame(q)
  BY DEF OwnStep, Frame
<1>3. Silent(s)
  BY DEF Silent, OwnStep
<1>4. Judging(s)'
  <2>1. /\ pc'[s] \in {"node", "exec", "provider"} => ~turn'[s].judged
        /\ \A k \in (Len(trace[s]) + 1)..Len(trace'[s]) :
             trace'[s][k].kind \in {"gate.pass", "gate.fail"} =>
               trace'[s][k].node \in Nodes /\ trace'[s][k].judge = judged[s][trace'[s][k].node]
    BY DEF OwnStep
  <2> QED  BY <1>3, <2>1, SilentJudging
<1>5. Tainting(s)'
  BY <1>3, SilentTainting DEF OwnStep
<1> QED  BY <1>1, <1>2, <1>3, <1>4, <1>5, SilentAccounting, OneSession DEF Parts

(* Outside the turns nothing is said of a turn. *)
LEMMA OutsideTurn ==
  ASSUME IInv, NEW s \in Sessions, OwnStep(s), pc[s] # "idle",
         pc'[s] \notin Turning \cup {"node"}
  PROVE  IInv'
<1>1. Phase(s)'
  BY DEF IInv, Parts, Phase, OwnStep
<1>2. Past(s)'
  <2>1. \A i \in 1..Len(trace'[s]) :
          i \in 1..Len(trace[s]) \/ i \in (Len(trace[s]) + 1)..Len(trace'[s])
    BY TurnFacts DEF IInv, OwnStep, Passive
  <2> QED  BY <2>1 DEF IInv, Parts, Past, OwnStep, Passive
<1> QED  BY <1>1, <1>2, OwnStepIInv

(* RunError and Receipt return the handle. *)
LEMMA ReceiptIInv ==
  ASSUME IInv, NEW s \in Sessions, RunError(s) \/ Receipt(s)
  PROVE  IInv'
<1>1. /\ UNCHANGED <<tools, judge, judged, rows, ledger, reported, turn, trace, row>>
      /\ pc' = [pc EXCEPT ![s] = "idle"] /\ pc[s] \in {"commit", "finish", "return"}
      /\ \/ inner' = inner
         \/ inner' = [inner EXCEPT ![s] = [inner[s] EXCEPT !.final = turn[s].end]]
  BY DEF RunError, Receipt, Native, registryVars, diskVars, IInv, Types
<1>2. inner[s] \in HandleSet /\ turn[s].end \in States
  BY DEF IInv, Types, TurnSet
<1>3. /\ inner' \in [Sessions -> HandleSet] /\ inner'[s].judge = inner[s].judge
      /\ inner'[s].open = inner[s].open /\ inner'[s].closed = inner[s].closed
      /\ inner'[s].runner = inner[s].runner
      /\ \A q \in Sessions \ {s} : inner'[q] = inner[q]
  <2>1. CASE inner' = inner
    BY <2>1 DEF IInv, Types
  <2>2. CASE inner' = [inner EXCEPT ![s] = [inner[s] EXCEPT !.final = turn[s].end]]
    BY <1>2, <2>2 DEF IInv, Types, HandleSet
  <2> QED  BY <1>1, <2>1, <2>2
<1>4. /\ pc' \in [Sessions -> PCs] /\ pc'[s] = "idle"
      /\ \A q \in Sessions \ {s} : pc'[q] = pc[q]
  BY <1>1 DEF IInv, Types, PCs
<1>5. Len(trace[s]) \in Nat
  BY TurnFacts DEF IInv
<1>6. Passive(s)
  BY <1>1, UnchangedPassive DEF IInv
<1>7. OwnStep(s)
  BY <1>1, <1>3, <1>4, <1>5, <1>6 DEF IInv, Types, OwnStep, InTurn
<1>8. Phase(s)'
  BY <1>1, <1>3, <1>4 DEF IInv, Parts, Phase, Turning, Working
<1>9. Past(s)'
  BY <1>1, <1>4 DEF IInv, Parts, Past, Turning
<1> QED  BY <1>1, <1>4, <1>7, <1>8, <1>9, OwnStepIInv DEF Turning

(* Finish. *)
LEMMA FinishIInv ==
  ASSUME IInv, NEW s \in Sessions, Finish(s)
  PROVE  IInv'
<1> DEFINE e == Event("session.close", "none", turn[s].end, TRUE, 0, 0)
<1>1. turn[s].end \in States
  BY DEF IInv, Types, TurnSet
<1>2. e \in EventSet /\ e.tok = 0 /\ ~e.judged /\ e.kind = "session.close"
  BY <1>1 DEF Event, EventSet, Judgments, NoJudgment
<1> HIDE DEF e
<1>3. /\ trace' \in [Sessions -> Seq(EventSet)] /\ trace'[s] = Append(trace[s], e) /\ Grown(s, e)
      /\ \A q \in Sessions \ {s} : trace'[q] = trace[q]
  BY <1>2, EmitGrows DEF IInv, Finish, e
<1>4. Passive(s) /\ Spend(trace'[s]) = Spend(trace[s])
  BY <1>2, <1>3, GrownPassive, SpendOf DEF IInv
<1>5. \A k \in (Len(trace[s]) + 1)..Len(trace'[s]) : trace'[s][k].kind = "session.close"
  BY <1>2, <1>3, TurnFacts DEF IInv, Grown
<1>6. /\ pc' \in [Sessions -> PCs] /\ pc'[s] \in {"seal", "return"} /\ pc[s] = "finish"
      /\ \A q \in Sessions \ {s} : pc'[q] = pc[q]
  BY DEF IInv, Types, PCs, Finish, Stay, Native
<1>7. OwnStep(s)
  BY <1>1, <1>3, <1>4, <1>5, <1>6 DEF IInv, Types, OwnStep, InTurn, Finish, registryVars
<1> QED  BY <1>6, <1>7, OutsideTurn DEF Turning

(* Seal, in its three outcomes. *)
LEMMA SealIInv ==
  ASSUME IInv, NEW s \in Sessions, Seal(s)
  PROVE  IInv'
<1>1. /\ pc' \in [Sessions -> PCs] /\ pc'[s] \in {"return", "idle"} /\ pc[s] = "seal"
      /\ \A q \in Sessions \ {s} : pc'[q] = pc[q]
      /\ UNCHANGED <<tools, judge, judged, rows, ledger, reported, turn, row, inner>>
  BY DEF IInv, Types, PCs, Seal, Stay, Native, registryVars
<1>2. CASE trace' = trace
  <2>1. Len(trace[s]) \in Nat
    BY TurnFacts DEF IInv
  <2>2. Passive(s)
    BY <1>2, UnchangedPassive DEF IInv
  <2>3. OwnStep(s)
    BY <1>1, <1>2, <2>1, <2>2 DEF IInv, Types, OwnStep, InTurn
  <2> QED  BY <1>1, <2>3, OutsideTurn DEF Turning
<1>3. CASE \E ok \in BOOLEAN : Emit(s, Event("trace.seal", "none", "", ok, 0, 0))
  <2>0. PICK ok \in BOOLEAN : Emit(s, Event("trace.seal", "none", "", ok, 0, 0))
    BY <1>3
  <2> DEFINE e == Event("trace.seal", "none", "", ok, 0, 0)
  <2>1. e \in EventSet /\ e.tok = 0 /\ ~e.judged /\ e.kind = "trace.seal"
    BY DEF Event, EventSet, Judgments, NoJudgment
  <2>2. Emit(s, e)
    BY <2>0
  <2> HIDE DEF e
  <2>3. /\ trace' \in [Sessions -> Seq(EventSet)] /\ trace'[s] = Append(trace[s], e) /\ Grown(s, e)
        /\ \A q \in Sessions \ {s} : trace'[q] = trace[q]
    BY <2>1, <2>2, EmitGrows DEF IInv
  <2>4. Passive(s) /\ Spend(trace'[s]) = Spend(trace[s])
    BY <2>1, <2>3, GrownPassive, SpendOf DEF IInv
  <2>5. \A k \in (Len(trace[s]) + 1)..Len(trace'[s]) : trace'[s][k].kind = "trace.seal"
    <3>1. Len(trace[s]) \in Nat /\ Len(trace'[s]) = Len(trace[s]) + 1
      BY <2>3, TurnFacts DEF IInv, Grown
    <3>2. trace'[s][Len(trace[s]) + 1] = e
      BY <2>3 DEF Grown
    <3>3. \A k \in (Len(trace[s]) + 1)..Len(trace'[s]) : k = Len(trace[s]) + 1
      BY <3>1
    <3> QED  BY <2>1, <3>2, <3>3
  <2>6. OwnStep(s)
    BY <1>1, <2>3, <2>4, <2>5 DEF IInv, Types, OwnStep, InTurn
  <2> QED  BY <1>1, <2>6, OutsideTurn DEF Turning
<1> QED  BY <1>2, <1>3 DEF Seal

(* A turn that starts: the node is new, or the attempt is. *)
LEMMA NewNode ==
  ASSUME IInv, NEW s \in Sessions, pc[s] = "node", turn[s].i <= Len(Plan[s]), Passive(s),
         turn'[s] = turn[s], pc'[s] = "exec", rows'[s] = rows[s],
         \A k \in (Len(trace[s]) + 1)..Len(trace'[s]) : trace'[s][k].kind \notin Working
  PROVE  Past(s)' /\ ~ExternalIn(s, node(s), turn[s].att)'
<1>0. /\ turn[s].i \in 1..Len(Plan[s]) /\ node(s) = Plan[s][turn[s].i]
      /\ turn[s].i \in Nat /\ Len(Plan[s]) \in Nat
  BY TurnFacts, PlanFacts DEF IInv, node
<1>1. \A i \in 1..Len(trace'[s]) :
        \/ i \in 1..Len(trace[s]) /\ trace'[s][i] = trace[s][i]
        \/ trace'[s][i].kind \notin Working /\ ~trace'[s][i].judged
  BY TurnFacts DEF IInv, Passive
<1>2. \A i \in 1..Len(trace[s]) : trace[s][i].kind \in Working =>
        \E j \in 1..(turn[s].i - 1) : trace[s][i].node = Plan[s][j]
  BY DEF IInv, Parts, Past, Reached, Turning
<1>3. \A j \in 1..(turn[s].i - 1) : Plan[s][j] # node(s)
  BY <1>0, PlanFacts
<1>4. \A i \in 1..Len(trace'[s]) : trace'[s][i].kind \in Working => trace'[s][i].node # node(s)
  BY <1>1, <1>2, <1>3
<1>5. node(s)' = node(s)
  BY DEF node
<1>6. \A i \in 1..Len(trace'[s]) : trace'[s][i].kind \in Working =>
        \E j \in 1..turn[s].i : trace'[s][i].node = Plan[s][j]
  <2>1. \A j \in 1..(turn[s].i - 1) : j \in 1..turn[s].i
    BY <1>0
  <2> QED  BY <1>1, <1>2, <2>1
<1>7. \A i \in 1..Len(trace'[s]) : trace'[s][i].judged => trace'[s][i].kind = "llm.call"
  BY <1>1 DEF IInv, Parts, Past
<1>8. Past(s)'
  BY <1>4, <1>5, <1>6, <1>7 DEF Past, Reached, Turning, Working
<1>9. ~ExternalIn(s, node(s), turn[s].att)'
  BY <1>4, <1>5 DEF ExternalIn, At, Working
<1> QED  BY <1>8, <1>9

(* A new attempt has no events yet. *)
LEMMA NewTry ==
  ASSUME IInv, NEW s \in Sessions, pc[s] \in {"exec", "provider", "post"}, Passive(s),
         turn'[s].i = turn[s].i, turn'[s].att = turn[s].att + 1, pc'[s] = "exec", rows'[s] = rows[s],
         \A k \in (Len(trace[s]) + 1)..Len(trace'[s]) : trace'[s][k].node = node(s)
  PROVE  Past(s)' /\ ~ExternalIn(s, node(s), turn[s].att)'
<1>0. turn[s].i \in Nat \ {0} /\ turn[s].att \in Nat
  BY TurnFacts DEF IInv
<1>1. \A i \in 1..Len(trace'[s]) :
        \/ i \in 1..Len(trace[s]) /\ trace'[s][i] = trace[s][i]
        \/ /\ trace'[s][i].kind \notin {"tool.call", "llm.call"} /\ ~trace'[s][i].judged
           /\ trace'[s][i].node = node(s)
  BY TurnFacts DEF IInv, Passive
<1>2. \A i \in 1..Len(trace[s]) : trace[s][i].kind \in Working =>
        \E j \in 1..turn[s].i : trace[s][i].node = Plan[s][j]
  BY DEF IInv, Parts, Past, Reached, Turning
<1>3. \A i \in 1..Len(trace[s]) :
        trace[s][i].node = node(s) /\ trace[s][i].kind \in {"tool.call", "llm.call"} =>
          trace[s][i].att < turn[s].att + 1
  BY <1>0, TurnFacts DEF IInv, Parts, Past, Turning
<1>4. \A i \in 1..Len(trace'[s]) :
        trace'[s][i].node = node(s) /\ trace'[s][i].kind \in {"tool.call", "llm.call"} =>
          trace'[s][i].att < turn'[s].att
  BY <1>1, <1>3
<1>5. node(s)' = node(s) /\ node(s) = Plan[s][turn[s].i]
  BY DEF node
<1>6. \A i \in 1..Len(trace'[s]) : trace'[s][i].kind \in Working =>
        \E j \in 1..turn[s].i : trace'[s][i].node = Plan[s][j]
  BY SMTT(30), <1>0, <1>1, <1>2, <1>5
<1>7. \A i \in 1..Len(trace'[s]) : trace'[s][i].judged => trace'[s][i].kind = "llm.call"
  BY <1>1 DEF IInv, Parts, Past
<1>8. \A i \in 1..Len(trace'[s]) : trace'[s][i].kind = "tool.call" \/ trace'[s][i].kind = "llm.call" =>
        trace'[s][i].att \in Nat
  BY <1>1, TurnFacts DEF IInv
<1>9. Past(s)'
  BY <1>0, <1>4, <1>5, <1>6, <1>7, <1>8 DEF Past, Reached, Turning
<1>10. ~ExternalIn(s, node(s), turn[s].att)'
  BY <1>0, <1>4, <1>5 DEF ExternalIn, At
<1> QED  BY <1>9, <1>10

(* NextNode: the session ends, or a node without events starts. *)
LEMMA NextNodeIInv ==
  ASSUME IInv, NEW s \in Sessions, NextNode(s)
  PROVE  IInv'
<1>0. /\ pc[s] = "node" /\ UNCHANGED <<tools, judge, inner, judged, rows, row, ledger, reported>>
      /\ turn[s] \in TurnSet /\ Len(trace[s]) \in Nat /\ turn[s].i \in Nat /\ Len(Plan[s]) \in Nat
      /\ ~turn[s].judged
  BY TurnFacts, PlanFacts DEF IInv, Parts, Judging, NextNode, Native, registryVars
<1>1. CASE turn[s].i > Len(Plan[s]) /\ Finishing(s, "COMPLETED") /\ UNCHANGED trace
  <2>1. /\ pc' \in [Sessions -> PCs] /\ pc'[s] = "finish" /\ turn' \in [Sessions -> TurnSet]
        /\ \A q \in Sessions \ {s} : pc'[q] = pc[q] /\ turn'[q] = turn[q]
    BY <1>0, <1>1 DEF IInv, Types, Finishing, Stay, PCs, TurnSet, States
  <2>2. OwnStep(s)
    BY <1>0, <1>1, <2>1, UnchangedPassive DEF IInv, Types, OwnStep, InTurn
  <2> QED  BY <1>0, <2>1, <2>2, OutsideTurn DEF Turning
<1>2. CASE turn[s].i <= Len(Plan[s])
  <2> DEFINE e == Event("node.start", node(s), "", TRUE, 0, 0)
  <2>0. node(s) \in Nodes
    <3>1. turn[s].i \in 1..Len(Plan[s])
      BY <1>2, TurnFacts, PlanFacts DEF IInv
    <3> QED  BY <3>1, PlanFacts DEF node
  <2>1. e \in EventSet /\ e.tok = 0 /\ ~e.judged /\ e.kind = "node.start"
    BY <2>0 DEF Event, EventSet, Judgments, NoJudgment
  <2>2. /\ Emit(s, e)
        /\ \/ Finishing(s, "FAILED") \/ Finishing(s, "SUSPENDED")
           \/ Stay(s, "exec") /\ UNCHANGED turn
    <3>1. ~(turn[s].i > Len(Plan[s]))
      BY <1>0, <1>2
    <3> QED  BY <3>1, Zenon DEF NextNode
  <2> HIDE DEF e
  <2>3. /\ trace' \in [Sessions -> Seq(EventSet)] /\ trace'[s] = Append(trace[s], e) /\ Grown(s, e)
        /\ \A q \in Sessions \ {s} : trace'[q] = trace[q]
    BY <2>1, <2>2, EmitGrows DEF IInv
  <2>4. Passive(s) /\ Spend(trace'[s]) = Spend(trace[s])
    BY <2>1, <2>3, GrownPassive, SpendOf DEF IInv
  <2>5. \A k \in (Len(trace[s]) + 1)..Len(trace'[s]) : trace'[s][k].kind = "node.start"
    BY <1>0, <2>1, <2>3 DEF Grown
  <2>6. CASE Finishing(s, "FAILED") \/ Finishing(s, "SUSPENDED")
    <3>1. /\ pc' \in [Sessions -> PCs] /\ pc'[s] = "finish" /\ turn' \in [Sessions -> TurnSet]
          /\ \A q \in Sessions \ {s} : pc'[q] = pc[q] /\ turn'[q] = turn[q]
      <4>1. PICK st \in {"FAILED", "SUSPENDED"} : Finishing(s, st)
        BY <2>6
      <4> QED  BY <1>0, <4>1 DEF IInv, Types, Finishing, Stay, PCs, TurnSet, States
    <3>2. OwnStep(s)
      BY <1>0, <2>3, <2>4, <2>5, <3>1 DEF IInv, Types, OwnStep, InTurn
    <3> QED  BY <1>0, <3>1, <3>2, OutsideTurn DEF Turning
  <2>7. CASE Stay(s, "exec") /\ UNCHANGED turn
    <3>1. /\ pc' \in [Sessions -> PCs] /\ pc'[s] = "exec"
          /\ \A q \in Sessions \ {s} : pc'[q] = pc[q]
      BY <2>7 DEF IInv, Types, Stay, PCs
    <3>2. Past(s)' /\ ~ExternalIn(s, node(s), turn[s].att)'
      BY <1>0, <1>2, <2>4, <2>5, <2>7, <3>1, NewNode DEF Working
    <3>3. Phase(s)'
      BY <1>0, <1>2, <2>7, <3>1 DEF IInv, Parts, Phase, Turning
    <3>5. OwnStep(s)
      BY <1>0, <2>3, <2>4, <2>5, <2>7, <3>1 DEF IInv, Types, OwnStep, InTurn
    <3> QED  BY <1>0, <3>2, <3>3, <3>5, OwnStepIInv
  <2> QED  BY <2>2, <2>6, <2>7
<1> QED  BY <1>0, <1>1, <1>2 DEF NextNode

(* The locals of a fresh turn. *)
LEMMA NewTurn ==
  ASSUME NEW i \in Nat \ {0}, NEW a \in Nat
  PROVE  /\ [NoTurn EXCEPT !.i = i, !.att = a] \in TurnSet
         /\ [NoTurn EXCEPT !.i = i, !.att = a].i = i /\ [NoTurn EXCEPT !.i = i, !.att = a].att = a
         /\ ~[NoTurn EXCEPT !.i = i, !.att = a].judged
         /\ [NoTurn EXCEPT !.i = i] \in TurnSet /\ [NoTurn EXCEPT !.i = i].i = i
         /\ ~[NoTurn EXCEPT !.i = i].judged
<1>1. NoTurn \in TurnSet /\ ~NoTurn.judged
  BY DEF NoTurn, TurnSet, States
<1> QED  BY <1>1 DEF TurnSet

(* A failed execution: a new attempt, or HALTED. *)
LEMMA FailureIInv ==
  ASSUME IInv, NEW s \in Sessions, pc[s] \in {"exec", "provider"}, Failure(s),
         UNCHANGED <<tools, judge, inner, judged, trace, rows, row, ledger, reported>>
  PROVE  IInv'
<1>0. /\ turn[s] \in TurnSet /\ turn[s].i \in Nat \ {0} /\ turn[s].att \in Nat /\ Len(trace[s]) \in Nat
      /\ BoundedRetry \in Nat
  BY TurnFacts, BridgeAssumption DEF IInv
<1>1. Passive(s)
  BY UnchangedPassive DEF IInv
<1>2. CASE turn[s].att < BoundedRetry
  <2> DEFINE t == [NoTurn EXCEPT !.i = turn[s].i, !.att = turn[s].att + 1]
  <2>1. /\ pc' = [pc EXCEPT ![s] = "exec"] /\ turn' = [turn EXCEPT ![s] = t]
    BY <1>2, Zenon DEF Failure, NewAttempt
  <2>2. t \in TurnSet /\ t.i = turn[s].i /\ t.att = turn[s].att + 1 /\ ~t.judged
    <3>1. turn[s].att + 1 \in Nat
      BY <1>0
    <3> QED  BY <1>0, <3>1, NewTurn
  <2> HIDE DEF t
  <2>3. /\ pc' \in [Sessions -> PCs] /\ pc'[s] = "exec" /\ turn' \in [Sessions -> TurnSet]
        /\ turn'[s] = t
        /\ \A q \in Sessions \ {s} : pc'[q] = pc[q] /\ turn'[q] = turn[q]
    BY <2>1, <2>2 DEF IInv, Types, PCs
  <2>4. Past(s)' /\ ~ExternalIn(s, node(s), turn[s].att)'
    BY <1>0, <1>1, <2>2, <2>3, NewTry
  <2>5. Phase(s)'
    BY <2>2, <2>3 DEF IInv, Parts, Phase, Turning
  <2>6. OwnStep(s)
    BY <1>0, <1>1, <2>2, <2>3 DEF IInv, Types, OwnStep, InTurn
  <2> QED  BY <2>4, <2>5, <2>6, OwnStepIInv
<1>3. CASE ~(turn[s].att < BoundedRetry)
  <2>1. pc' = [pc EXCEPT ![s] = "finish"] /\ turn' = [turn EXCEPT ![s] = [turn[s] EXCEPT !.end = "HALTED"]]
    BY <1>3 DEF Failure, IInv, Types
  <2>2. /\ pc' \in [Sessions -> PCs] /\ pc'[s] = "finish" /\ turn' \in [Sessions -> TurnSet]
        /\ \A q \in Sessions \ {s} : pc'[q] = pc[q] /\ turn'[q] = turn[q]
    BY <1>0, <2>1 DEF IInv, Types, PCs, TurnSet, States
  <2>3. OwnStep(s)
    BY <1>0, <1>1, <2>2 DEF IInv, Types, OwnStep, InTurn
  <2> QED  BY <2>2, <2>3, OutsideTurn DEF Turning
<1> QED  BY <1>2, <1>3

(* CallProvider. *)
LEMMA CallProviderIInv ==
  ASSUME IInv, NEW s \in Sessions, CallProvider(s)
  PROVE  IInv'
<1>0. /\ pc[s] = "exec" /\ UNCHANGED <<tools, judge, inner, judged, trace, rows, row, ledger, reported>>
      /\ Len(trace[s]) \in Nat
  BY TurnFacts DEF IInv, CallProvider, Native, registryVars, diskVars
<1>1. CASE CallOut(s, "provider") /\ UNCHANGED turn
  <2>1. /\ pc' \in [Sessions -> PCs] /\ pc'[s] = "provider"
        /\ \A q \in Sessions \ {s} : pc'[q] = pc[q]
    BY <1>1 DEF IInv, Types, CallOut, PCs
  <2>2. Phase(s)'
    BY <1>0, <1>1, <2>1 DEF IInv, Parts, Phase, Turning
  <2>3. Past(s)'
    BY <1>0, <1>1, <2>1 DEF IInv, Parts, Past, Turning, Reached, node, Working
  <2>4. OwnStep(s)
    <3>1. Passive(s)
      BY <1>0, UnchangedPassive DEF IInv
    <3>2. ~turn[s].judged
      BY <1>0 DEF IInv, Parts, Judging
    <3> QED  BY <1>0, <1>1, <2>1, <3>1, <3>2 DEF IInv, Types, OwnStep, InTurn
  <2>5. ExternalIn(s, node(s), turn[s].att)' => turn'[s].tainted
    <3>1. ExternalIn(s, node(s), turn[s].att)' => ExternalIn(s, node(s), turn[s].att)
      BY <1>0, <1>1 DEF ExternalIn, At, IsExternalTool, node
    <3> QED  BY <1>0, <1>1, <3>1 DEF IInv, Parts, Tainting, Turning
  <2> QED  BY <1>0, <2>2, <2>3, <2>4, <2>5, OwnStepIInv
<1>2. CASE Failure(s)
  BY <1>0, <1>2, FailureIInv
<1> QED  BY <1>1, <1>2 DEF CallProvider

(* A step inside a turn of s, which leaves its handle and its rows alone. *)
TurnStep(s) ==
  /\ UNCHANGED <<tools, judge, inner, rows, row>>
  /\ pc' \in [Sessions -> PCs] /\ turn' \in [Sessions -> TurnSet]
  /\ judged' \in [Sessions -> [Nodes -> Judgments]] /\ trace' \in [Sessions -> Seq(EventSet)]
  /\ ledger' \in [Sessions -> Nat] /\ reported' \in [Sessions -> Nat]
  /\ turn'[s].i = turn[s].i /\ turn'[s].att = turn[s].att
  /\ pc[s] \in Turning /\ pc'[s] \in Turning
  /\ \A q \in Sessions \ {s} :
       /\ pc'[q] = pc[q] /\ turn'[q] = turn[q] /\ judged'[q] = judged[q] /\ trace'[q] = trace[q]
       /\ ledger'[q] = ledger[q] /\ reported'[q] = reported[q]

(* Such a step is shown part by part; the phase is kept. *)
LEMMA TurnStepIInv ==
  ASSUME IInv, NEW s \in Sessions, TurnStep(s), Past(s)', Judging(s)', Accounting(s)', Tainting(s)'
  PROVE  IInv'
<1>1. Types'
  BY DEF IInv, Types, TurnStep
<1>2. tools' = tools /\ \A q \in Sessions \ {s} : Frame(q)
  BY DEF TurnStep, Frame
<1>3. Phase(s)'
  BY DEF IInv, Parts, Phase, TurnStep, Turning
<1> QED  BY <1>1, <1>2, <1>3, OneSession DEF Parts

(* A step inside a turn that writes no event keeps what is said of events. *)
LEMMA QuietTurn ==
  ASSUME IInv, NEW s \in Sessions, TurnStep(s), trace'[s] = trace[s], ~turn[s].judged \/ pc[s] # "report"
  PROVE  /\ node(s)' = node(s) /\ node(s) \in Nodes
         /\ \A i \in 1..Len(trace[s]) : trace[s][i].kind \in {"gate.pass", "gate.fail"} =>
              Says(s, trace[s][i].node, i, trace[s][i].judge)'
         /\ \A n \in Nodes : judged'[s][n] = judged[s][n] =>
              Says(s, n, Len(trace[s]) + 1, judged[s][n])'
<1>0. node(s)' = node(s) /\ node(s) \in Nodes
  BY TurnNode DEF node, TurnStep
<1>a1. \A n, i, j : Says(s, n, i, j) => Says(s, n, i, j)'
  BY DEF Says, NoJudgment, TurnStep
<1>1. ASSUME NEW i \in 1..Len(trace[s]), trace[s][i].kind \in {"gate.pass", "gate.fail"}
      PROVE  Says(s, trace[s][i].node, i, trace[s][i].judge)'
  <2>1. PICK n, j : n = trace[s][i].node /\ j = trace[s][i].judge
    OBVIOUS
  <2>2. Says(s, n, i, j)
    BY <1>1, <2>1 DEF IInv, Parts, Judging
  <2>3. Says(s, n, i, j)'
    BY <1>a1, <2>2
  <2> QED  BY <2>1, <2>3 DEF Says, NoJudgment
<1>2. \A n \in Nodes : Says(s, n, Len(trace[s]) + 1, judged[s][n])
  BY DEF IInv, Parts, Judging
<1>3. ASSUME NEW n \in Nodes, judged'[s][n] = judged[s][n]
      PROVE  Says(s, n, Len(trace[s]) + 1, judged[s][n])'
  <2>1. PICK m, j : m = Len(trace[s]) + 1 /\ j = judged[s][n]
    OBVIOUS
  <2>2. Says(s, n, m, j)
    BY <1>2, <2>1
  <2>3. Says(s, n, m, j)'
    BY <1>a1, <2>2
  <2> QED  BY <1>3, <2>1, <2>3 DEF Says, NoJudgment
<1> QED  BY <1>0, <1>1, <1>3

(* A step without an event keeps the taint. *)
LEMMA QuietTainting ==
  ASSUME IInv, NEW s \in Sessions, TurnStep(s), trace'[s] = trace[s], turn'[s].tainted = turn[s].tainted,
         pc'[s] = "tool" => tools[Head(turn'[s].calls)] # "none"
  PROVE  Tainting(s)'
<1>1. \A n, att : ExternalIn(s, n, att)' <=> ExternalIn(s, n, att)
  BY DEF ExternalIn, At, IsExternalTool, TurnStep
<1>2. node(s)' = node(s)
  BY DEF node, TurnStep
<1> QED  BY <1>1, <1>2 DEF IInv, Parts, Tainting, TurnStep, Turning
(* The parts of the books after a step, put together. *)
LEMMA AccountingFrom ==
  ASSUME NEW s \in Sessions, ledger'[s] = Spend(trace'[s]),
         InTurn(s)' => reported'[s] = ledger'[s] + turn'[s].tok,
         ~InTurn(s)' => reported'[s] = ledger'[s] + 0,
         InTurn(s)' =>
           /\ Cardinality(At(s, "tool.call", node(s), turn[s].att)') + Len(turn'[s].calls)
                = turn'[s].dispatched
           /\ pc'[s] = "tool" => turn'[s].calls # <<>>
           /\ pc'[s] \in {"judge", "report"} => turn'[s].calls = <<>>,
         \A i \in 1..Len(trace'[s]) : \A n, att : n = trace'[s][i].node /\ att = trace'[s][i].att =>
           /\ trace'[s][i].kind = "llm.call" =>
                Cardinality({k \in At(s, "tool.call", n, att)' : k < i}) = trace'[s][i].calls
           /\ trace'[s][i].kind = "tool.call" =>
                \/ \E k \in At(s, "llm.call", n, att)' : i < k
                \/ InTurn(s)' /\ n = node(s)' /\ att = turn'[s].att
  PROVE  Accounting(s)'
<1>1. ASSUME NEW i \in 1..Len(trace'[s])
      PROVE  /\ trace'[s][i].kind = "llm.call" =>
                  Cardinality({k \in At(s, "tool.call", trace[s][i].node, trace[s][i].att)' : k < i})
                    = trace'[s][i].calls
             /\ trace'[s][i].kind = "tool.call" =>
                  \/ \E k \in At(s, "llm.call", trace[s][i].node, trace[s][i].att)' : i < k
                  \/ InTurn(s)' /\ trace'[s][i].node = node(s)' /\ trace'[s][i].att = turn'[s].att
  <2>1. PICK n, att : n = trace'[s][i].node /\ att = trace'[s][i].att
    OBVIOUS
  <2>2. /\ At(s, "tool.call", trace[s][i].node, trace[s][i].att)' = At(s, "tool.call", n, att)'
        /\ At(s, "llm.call", trace[s][i].node, trace[s][i].att)' = At(s, "llm.call", n, att)'
    BY <2>1 DEF At
  <2> QED  BY <2>1, <2>2
<1>2. reported'[s] = ledger'[s] + IF InTurn(s)' THEN turn'[s].tok ELSE 0
  OBVIOUS
<1> QED  BY <1>1, <1>2, Zenon DEF Accounting

(* What an accepted reply holds. *)
LEMMA ReplyFacts ==
  ASSUME NEW n \in Nodes, NEW r \in Responses[n], ValidReply(GlmCall(r))
  PROVE  GlmCall(r).tok \in Nat /\ GlmCall(r).calls \in Seq(Tools)
<1>1. r \in [status : Nat, body : STRING, input : Nat, output : Nat, cacheRead : Nat,
             cacheWrite : Nat, calls : Seq(Tools)]
  BY BridgeAssumption
<1>2. /\ r.calls \in Seq(Tools)
      /\ r.input \in Nat /\ r.cacheRead \in Nat /\ r.cacheWrite \in Nat /\ r.output \in Nat
  BY <1>1
<1>3. r.input + r.cacheRead + r.cacheWrite + r.output \in Nat
  BY <1>2
<1>4. ~(r.status # 200 \/ r.body \in {"not json", "gateway error", "no usage"})
  BY DEF ValidReply, GlmCall
<1> QED  BY <1>2, <1>3, <1>4 DEF GlmCall

(* A reply opens the turn: its calls are all still to dispatch. *)
LEMMA ReplyIInv ==
  ASSUME IInv, NEW s \in Sessions, pc[s] = "provider",
         NEW tok \in Nat, NEW calls \in Seq(Tools),
         turn' = [turn EXCEPT ![s] = [turn[s] EXCEPT !.tok = tok, !.calls = calls,
                                                     !.dispatched = Len(calls)]],
         pc' = [pc EXCEPT ![s] = "dispatch"],
         reported' = [reported EXCEPT ![s] = reported[s] + tok],
         UNCHANGED <<tools, judge, inner, judged, trace, rows, row, ledger>>
  PROVE  IInv'
<1>0. /\ turn[s] \in TurnSet /\ Len(calls) \in Nat /\ reported[s] \in Nat /\ ledger[s] \in Nat
      /\ turn[s].att \in Nat
  BY TurnFacts DEF IInv, Types
<1>1. /\ turn' \in [Sessions -> TurnSet] /\ turn'[s].tok = tok /\ turn'[s].calls = calls
      /\ turn'[s].dispatched = Len(calls) /\ turn'[s].i = turn[s].i /\ turn'[s].att = turn[s].att
      /\ turn'[s].judged = turn[s].judged /\ turn'[s].tainted = turn[s].tainted
      /\ \A q \in Sessions \ {s} : turn'[q] = turn[q]
  BY <1>0 DEF IInv, Types, TurnSet
<1>2. /\ pc' \in [Sessions -> PCs] /\ pc'[s] = "dispatch" /\ \A q \in Sessions \ {s} : pc'[q] = pc[q]
      /\ reported' \in [Sessions -> Nat] /\ reported'[s] = reported[s] + tok
      /\ \A q \in Sessions \ {s} : reported'[q] = reported[q]
  BY <1>0 DEF IInv, Types, PCs
<1>3. TurnStep(s)
  BY <1>1, <1>2 DEF TurnStep, IInv, Types, Turning
<1>4. Past(s)'
  <2>1. node(s)' = node(s)
    BY <1>1 DEF node
  <2>2. \A i \in 1..Len(trace[s]) : trace[s][i].kind = "tool.call" /\ trace[s][i].node = node(s) =>
          trace[s][i].att <= turn[s].att
    BY DEF IInv, Parts, Past, Turning
  <2> QED  BY <1>1, <1>2, <2>1, <2>2 DEF IInv, Parts, Past, Reached, Turning, Working
<1>5. Judging(s)'
  <2>1. ~turn[s].judged
    BY DEF IInv, Parts, Judging
  <2> QED  BY <1>1, <1>2, <1>3, <2>1, QuietTurn DEF Judging
<1>6. Accounting(s)'
  <2>1. Accounting(s) /\ ~InTurn(s) /\ InTurn(s)'
    BY <1>2 DEF IInv, Parts, InTurn
  <2>2. At(s, "tool.call", node(s), turn[s].att)' = {}
    <3>1. \A i \in 1..Len(trace[s]) : trace[s][i].kind = "tool.call" /\ trace[s][i].node = node(s) =>
            trace[s][i].att # turn[s].att
      <4>1. \A i \in 1..Len(trace[s]) : trace[s][i].kind = "tool.call" /\ trace[s][i].node = node(s) =>
            trace[s][i].att < turn[s].att
        BY DEF IInv, Parts, Past, Turning
      <4> QED  BY <1>0, <4>1, TurnFacts DEF IInv
    <3> QED  BY <1>1, <3>1 DEF At, node
  <2>3. Cardinality(At(s, "tool.call", node(s), turn[s].att)') + Len(turn'[s].calls) = turn'[s].dispatched
    <3>1. Cardinality(At(s, "tool.call", node(s), turn[s].att)') = 0
      BY <2>2, FS_EmptySet
    <3> QED  BY <1>0, <1>1, <3>1
  <2>4. reported'[s] = ledger'[s] + turn'[s].tok
    BY <1>0, <1>1, <1>2, <2>1 DEF Accounting
  <2>5. \A kind, n, att : At(s, kind, n, att)' = At(s, kind, n, att)
    BY DEF At
  <2>6. ASSUME NEW i \in 1..Len(trace'[s]), NEW n, n = trace'[s][i].node, NEW att, att = trace'[s][i].att
        PROVE  /\ trace'[s][i].kind = "llm.call" =>
                    Cardinality({k \in At(s, "tool.call", n, att)' : k < i}) = trace'[s][i].calls
               /\ trace'[s][i].kind = "tool.call" => \E k \in At(s, "llm.call", n, att)' : i < k
    BY <2>1, <2>5, <2>6, ZenonT(30) DEF Accounting
  <2>7. ledger'[s] = Spend(trace'[s])
    BY <2>1 DEF Accounting
  <2>8. \A i \in 1..Len(trace'[s]) : \A n, att : n = trace'[s][i].node /\ att = trace'[s][i].att =>
           /\ trace'[s][i].kind = "llm.call" =>
                Cardinality({k \in At(s, "tool.call", n, att)' : k < i}) = trace'[s][i].calls
           /\ trace'[s][i].kind = "tool.call" =>
                \/ \E k \in At(s, "llm.call", n, att)' : i < k
                \/ InTurn(s)' /\ n = node(s)' /\ att = turn'[s].att
    BY <2>6
  <2>9. InTurn(s)' =>
           /\ Cardinality(At(s, "tool.call", node(s), turn[s].att)') + Len(turn'[s].calls)
                = turn'[s].dispatched
           /\ pc'[s] = "tool" => turn'[s].calls # <<>>
           /\ pc'[s] \in {"judge", "report"} => turn'[s].calls = <<>>
    BY <1>2, <2>3
  <2> QED  BY <2>1, <2>4, <2>7, <2>8, <2>9, AccountingFrom
<1> QED  BY <1>1, <1>3, <1>4, <1>5, <1>6, QuietTainting, TurnStepIInv

(* ProviderReturns. *)
LEMMA ProviderReturnsIInv ==
  ASSUME IInv, NEW s \in Sessions, ProviderReturns(s)
  PROVE  IInv'
<1>0. /\ pc[s] = "provider" /\ UNCHANGED <<tools, judge, inner, judged, trace, rows, row, ledger>>
  BY DEF ProviderReturns, registryVars, diskVars
<1>1. node(s) \in Nodes
  BY <1>0, TurnNode DEF Turning
<1>2. PICK r \in Responses[node(s)] :
        \/ /\ ValidReply(GlmCall(r))
           /\ turn' = [turn EXCEPT ![s] = [@ EXCEPT !.tok = GlmCall(r).tok, !.calls = GlmCall(r).calls,
                                                    !.dispatched = Len(GlmCall(r).calls)]]
           /\ pc' = [pc EXCEPT ![s] = "dispatch"]
           /\ reported' = [reported EXCEPT ![s] = @ + GlmCall(r).tok]
        \/ ~ValidReply(GlmCall(r)) /\ Failure(s) /\ UNCHANGED reported
  BY Zenon DEF ProviderReturns
<1>3. CASE ~ValidReply(GlmCall(r)) /\ Failure(s) /\ UNCHANGED reported
  BY <1>0, <1>3, FailureIInv
<1>4. CASE ValidReply(GlmCall(r))
  <2>1. GlmCall(r).tok \in Nat /\ GlmCall(r).calls \in Seq(Tools)
    BY <1>1, <1>4, ReplyFacts
  <2>2. PICK tok \in Nat, calls \in Seq(Tools) : tok = GlmCall(r).tok /\ calls = GlmCall(r).calls
    BY <2>1
  <2>3. /\ turn' = [turn EXCEPT ![s] = [turn[s] EXCEPT !.tok = tok, !.calls = calls,
                                                    !.dispatched = Len(calls)]]
        /\ pc' = [pc EXCEPT ![s] = "dispatch"]
        /\ reported' = [reported EXCEPT ![s] = reported[s] + tok]
    BY <1>2, <1>4, <2>2
  <2> QED  BY <1>0, <2>3, ReplyIInv
<1> QED  BY <1>2, <1>3, <1>4
(* A position of a trace that grew is old or the new one. *)
LEMMA GrownIndex ==
  ASSUME Types, NEW s \in Sessions, NEW e, Grown(s, e)
  PROVE  \A i \in 1..Len(trace'[s]) :
           \/ i \in 1..Len(trace[s]) /\ trace'[s][i] = trace[s][i]
           \/ i = Len(trace[s]) + 1 /\ trace'[s][i] = e
<1>1. Len(trace[s]) \in Nat /\ Len(trace'[s]) = Len(trace[s]) + 1
  BY TurnFacts DEF Grown
<1>2. \A i \in 1..Len(trace'[s]) : i \in 1..Len(trace[s]) \/ i = Len(trace[s]) + 1
  BY <1>1
<1>3. /\ trace'[s][Len(trace[s]) + 1] = e
      /\ \A k \in 1..Len(trace[s]) : trace'[s][k] = trace[s][k]
  BY DEF Grown
<1> QED  BY <1>2, <1>3, Zenon

(* A call recorded without a judgment leaves the judgments as they are. *)
LEMMA UnjudgedTurn ==
  ASSUME IInv, NEW s \in Sessions, TurnStep(s), NEW e, Grown(s, e), ~e.judged,
         e.kind \notin {"gate.pass", "gate.fail"}, judged'[s] = judged[s],
         pc[s] # "report" \/ ~turn[s].judged, pc'[s] # "report", 
         pc'[s] \in {"dispatch", "tool", "judge"} => ~turn'[s].judged,
         pc'[s] \notin {"exec", "provider"}
  PROVE  Judging(s)'
<1>0. /\ Len(trace[s]) \in Nat /\ Len(trace'[s]) = Len(trace[s]) + 1
      /\ inner'[s].judge = inner[s].judge
  BY TurnFacts DEF IInv, Grown, TurnStep
<1>1. \A k \in (Len(trace[s]) + 1)..Len(trace'[s]) : trace'[s][k] = e
  BY <1>0 DEF Grown
<1>2. \A n \in Nodes : Says(s, n, Len(trace[s]) + 1, judged[s][n])
  BY DEF IInv, Parts, Judging
<1>3. ASSUME NEW n \in Nodes PROVE Says(s, n, Len(trace[s]) + 1, judged[s][n])'
  <2>1. PICK j : j = judged[s][n] /\ judged'[s][n] = j
    OBVIOUS
  <2>2. PICK m \in (Len(trace[s]) + 1)..(Len(trace'[s]) + 1) : m = Len(trace'[s]) + 1
    BY <1>0
  <2>3. \A k \in (Len(trace[s]) + 1)..Len(trace'[s]) : ~(trace'[s][k].node = n /\ trace'[s][k].judged)
    BY <1>1
  <2>4. Says(s, n, Len(trace[s]) + 1, j)
    BY <1>2, <2>1
  <2>5. \A k \in 1..Len(trace[s]) : trace'[s][k] = trace[s][k]
    BY DEF Grown
  <2>6. Len(trace'[s]) \in Nat /\ Len(trace'[s]) >= Len(trace[s])
    BY <1>0
  <2>7. Says(s, n, m, j)'
    BY <1>0, <2>3, <2>4, <2>5, <2>6, SaysOn
  <2> QED  BY <2>1, <2>2, <2>7 DEF Says, NoJudgment
<1>4. ASSUME NEW i \in 1..Len(trace'[s]), trace'[s][i].kind \in {"gate.pass", "gate.fail"}
      PROVE  Says(s, trace[s][i].node, i, trace[s][i].judge)'
  <2>1. i \in 1..Len(trace[s])
    BY <1>0, <1>1, <1>4
  <2>2. trace'[s][i] = trace[s][i] /\ i \in 1..(Len(trace[s]) + 1)
    BY <1>0, <2>1 DEF Grown
  <2>3. PICK n, j : n = trace[s][i].node /\ j = trace[s][i].judge
    OBVIOUS
  <2>4. Says(s, n, i, j)
    BY <1>4, <2>1, <2>2, <2>3 DEF IInv, Parts, Judging
  <2>5. Says(s, n, i, j)'
    BY <1>0, <2>2, <2>4, SaysKept DEF Grown
  <2> QED  BY <2>2, <2>3, <2>5 DEF Says, NoJudgment
<1>5. pc'[s] \in {"node", "exec", "provider", "dispatch", "tool", "judge"} => ~turn'[s].judged
  BY DEF TurnStep, Turning
<1> QED  BY <1>3, <1>4, <1>5 DEF Judging

(* Rows are of nodes before the one of the turn. *)
LEMMA RowsBefore ==
  ASSUME IInv, NEW s \in Sessions, pc[s] \in Turning
  PROVE  \A k \in 1..Len(rows[s]) : rows[s][k].node # node(s)
<1>1. /\ Len(rows[s]) = turn[s].i - 1 /\ turn[s].i \in Nat \ {0} /\ turn[s].i \in 1..Len(Plan[s])
      /\ node(s) = Plan[s][turn[s].i]
  BY TurnFacts, TurnNode DEF IInv, Parts, Phase
<1>2. \A k \in 1..Len(rows[s]) : k <= Len(Plan[s]) /\ rows[s][k].node = Plan[s][k]
  BY DEF IInv, Parts, Phase
<1>3. \A k \in 1..Len(rows[s]) : k \in 1..Len(Plan[s]) /\ k # turn[s].i
  BY <1>1, PlanFacts
<1> QED  BY ZenonT(30), <1>1, <1>2, <1>3, PlanFacts

(* A tool.call: one less to dispatch, and taint if it imported. *)
LEMMA ToolCallIInv ==
  ASSUME IInv, NEW s \in Sessions, pc[s] \in {"dispatch", "tool"}, turn[s].calls # <<>>,
         NEW ok \in BOOLEAN, ToolCall(s, ok), NEW tainted \in BOOLEAN,
         turn' = [turn EXCEPT ![s] = [turn[s] EXCEPT !.calls = Tail(turn[s].calls), !.tainted = tainted]],
         pc' = [pc EXCEPT ![s] = "dispatch"],
         UNCHANGED <<tools, judge, inner, judged, rows, row, ledger, reported>>,
         ok => tools[Head(turn[s].calls)] # "none",
         turn[s].tainted => tainted,
         ok /\ IsExternalTool(Head(turn[s].calls)) => tainted
  PROVE  IInv'
<1> DEFINE tool == Head(turn[s].calls)
           e == Event("tool.call", node(s), tool, ok, 0, turn[s].att)
           L == Len(trace[s])
<1>0. /\ turn[s] \in TurnSet /\ turn[s].att \in Nat /\ turn[s].calls \in Seq(Tools) /\ L \in Nat
      /\ turn[s].i \in Nat \ {0}
      /\ node(s) \in Nodes /\ node(s) = Plan[s][turn[s].i] /\ reported[s] \in Nat /\ ledger[s] \in Nat
  BY TurnFacts, TurnNode DEF IInv, Turning, Types
<1>1. /\ tool \in Tools /\ Tail(turn[s].calls) \in Seq(Tools)
      /\ Len(turn[s].calls) \in Nat /\ Len(Tail(turn[s].calls)) = Len(turn[s].calls) - 1
  BY <1>0
<1> HIDE DEF tool
<1>2. /\ e \in EventSet /\ e.tok = 0 /\ e.kind = "tool.call" /\ e.node = node(s) /\ e.at = tool
      /\ e.ok = ok /\ e.att = turn[s].att /\ ~e.judged
  BY <1>0, <1>1 DEF Event, EventSet, Judgments, NoJudgment
<1>3. Emit(s, e)
  BY DEF ToolCall, tool
<1> HIDE DEF e
<1>4. /\ trace' \in [Sessions -> Seq(EventSet)] /\ trace'[s] = Append(trace[s], e) /\ Grown(s, e)
      /\ \A q \in Sessions \ {s} : trace'[q] = trace[q]
  BY <1>2, <1>3, EmitGrows DEF IInv
<1>5. /\ turn' \in [Sessions -> TurnSet] /\ turn'[s].calls = Tail(turn[s].calls)
      /\ turn'[s].tainted = tainted /\ turn'[s].i = turn[s].i /\ turn'[s].att = turn[s].att
      /\ turn'[s].judged = turn[s].judged /\ turn'[s].tok = turn[s].tok
      /\ turn'[s].dispatched = turn[s].dispatched
      /\ \A q \in Sessions \ {s} : turn'[q] = turn[q]
  BY <1>0, <1>1 DEF IInv, Types, TurnSet
<1>6. /\ pc' \in [Sessions -> PCs] /\ pc'[s] = "dispatch" /\ \A q \in Sessions \ {s} : pc'[q] = pc[q]
  BY DEF IInv, Types, PCs
<1>7. TurnStep(s)
  BY <1>4, <1>5, <1>6 DEF TurnStep, IInv, Types, Turning
<1>8. node(s)' = node(s)
  BY <1>5 DEF node
<1>9. \A i \in 1..Len(trace'[s]) :
        \/ i \in 1..L /\ trace'[s][i] = trace[s][i]
        \/ i = L + 1 /\ trace'[s][i] = e
  BY <1>4, GrownIndex DEF IInv
<1>10. Past(s)'
  <2>1. \A i \in 1..Len(trace[s]) : trace[s][i].kind \in Working =>
          \E j \in 1..turn[s].i : trace[s][i].node = Plan[s][j]
    BY DEF IInv, Parts, Past, Reached, Turning
  <2>2. ASSUME NEW i \in 1..Len(trace'[s]), trace'[s][i].kind \in Working
        PROVE  \E j \in 1..turn[s].i : trace'[s][i].node = Plan[s][j]
    <3>1. CASE i \in 1..L /\ trace'[s][i] = trace[s][i]
      BY <2>1, <2>2, <3>1
    <3>2. CASE trace'[s][i] = e
      BY <1>0, <1>2, <3>2
    <3> QED  BY <1>9, <3>1, <3>2
  <2>3. \A i \in 1..Len(trace'[s]) : trace'[s][i].judged => trace'[s][i].kind = "llm.call"
    BY <1>2, <1>9 DEF IInv, Parts, Past
  <2>4. \A i \in 1..Len(trace[s]) : trace[s][i].node = node(s) =>
         /\ trace[s][i].kind \in {"tool.call", "llm.call"} => trace[s][i].att <= turn[s].att
         /\ trace[s][i].kind = "llm.call" => trace[s][i].att < turn[s].att
    BY DEF IInv, Parts, Past, Turning
  <2>5. \A i \in 1..Len(trace'[s]) : trace'[s][i].node = node(s) =>
         /\ trace'[s][i].kind \in {"tool.call", "llm.call"} => trace'[s][i].att <= turn[s].att
         /\ trace'[s][i].kind = "llm.call" => trace'[s][i].att < turn[s].att
    BY <1>0, <1>2, <1>9, <2>4
  <2> QED  BY <1>5, <1>6, <1>8, <2>2, <2>3, <2>5 DEF Past, Reached, Turning
<1>11. Judging(s)'
  <2>1. ~turn[s].judged
    BY DEF IInv, Parts, Judging
  <2> QED  BY <1>2, <1>4, <1>5, <1>6, <1>7, <2>1, UnjudgedTurn
<1>12. Accounting(s)'
  <2>0. InTurn(s) /\ InTurn(s)' /\ Accounting(s)
    BY <1>6 DEF InTurn, IInv, Parts
  <2>1. ledger'[s] = Spend(trace'[s])
    BY <1>2, <1>4, <2>0, SpendOf DEF Accounting
  <2>2. reported'[s] = ledger'[s] + turn'[s].tok
    BY <1>5, <2>0 DEF Accounting
  <2>3. Cardinality(At(s, "tool.call", node(s), turn[s].att)') + Len(turn'[s].calls) = turn'[s].dispatched
    <3> DEFINE A == At(s, "tool.call", node(s), turn[s].att)
    <3>1. PICK n, att : n = node(s) /\ att = turn[s].att
      OBVIOUS
    <3>2. At(s, "tool.call", n, att)' = At(s, "tool.call", n, att) \cup {L + 1}
      BY <1>2, <1>4, <3>1, GrownAt DEF IInv
    <3>3. At(s, "tool.call", node(s), turn[s].att)' = A \cup {L + 1}
      BY <1>5, <1>8, <3>1, <3>2 DEF At
    <3>4. IsFiniteSet(A) /\ Cardinality(A) \in Nat /\ L + 1 \notin A
      BY <1>0, AtFacts DEF IInv
    <3>5. Cardinality(A \cup {L + 1}) = Cardinality(A) + 1
      BY <3>4, FS_AddElement
    <3>6. Cardinality(A) + Len(turn[s].calls) = turn[s].dispatched
      BY <2>0 DEF Accounting
    <3> HIDE DEF A
    <3>7. PICK c \in Nat : c = Cardinality(A)
      BY <3>4
    <3>8. PICK l \in Nat : l = Len(turn[s].calls)
      BY <1>1
    <3>9. /\ Len(turn'[s].calls) = l - 1 /\ turn'[s].dispatched = c + l
          /\ Cardinality(At(s, "tool.call", node(s), turn[s].att)') = c + 1
      BY <1>1, <1>5, <3>3, <3>5, <3>6, <3>7, <3>8
    <3> QED  BY <3>9
  <2>4. ASSUME NEW i \in 1..Len(trace'[s]), NEW n, n = trace'[s][i].node, NEW att, att = trace'[s][i].att
        PROVE  /\ trace'[s][i].kind = "llm.call" =>
                    Cardinality({k \in At(s, "tool.call", n, att)' : k < i}) = trace'[s][i].calls
               /\ trace'[s][i].kind = "tool.call" =>
                    \/ \E k \in At(s, "llm.call", n, att)' : i < k
                    \/ InTurn(s)' /\ n = node(s)' /\ att = turn'[s].att
    <3>1. CASE i \in 1..L /\ trace'[s][i] = trace[s][i]
      <4>1. {k \in At(s, "tool.call", n, att)' : k < i} = {k \in At(s, "tool.call", n, att) : k < i}
        <5>1. ~(L + 1 < i)
          BY <1>0, <3>1
        <5> QED  BY <1>4, <5>1, GrownAt, SMTT(30) DEF IInv
      <4>2. At(s, "llm.call", n, att)' = At(s, "llm.call", n, att)
        BY <1>2, <1>4, GrownAt DEF IInv
      <4>3. /\ trace[s][i].kind = "llm.call" =>
                 Cardinality({k \in At(s, "tool.call", n, att) : k < i}) = trace[s][i].calls
            /\ trace[s][i].kind = "tool.call" =>
                 \/ \E k \in At(s, "llm.call", n, att) : i < k
                 \/ n = node(s) /\ att = turn[s].att
        BY <2>0, <2>4, <3>1 DEF Accounting
      <4> QED  BY <1>5, <1>8, <2>0, <3>1, <4>1, <4>2, <4>3
    <3>2. CASE trace'[s][i] = e
      BY <1>2, <1>5, <1>8, <2>0, <2>4, <3>2
    <3> QED  BY <1>9, <3>1, <3>2
  <2>5. \A i \in 1..Len(trace'[s]) : \A n, att : n = trace'[s][i].node /\ att = trace'[s][i].att =>
           /\ trace'[s][i].kind = "llm.call" =>
                Cardinality({k \in At(s, "tool.call", n, att)' : k < i}) = trace'[s][i].calls
           /\ trace'[s][i].kind = "tool.call" =>
                \/ \E k \in At(s, "llm.call", n, att)' : i < k
                \/ InTurn(s)' /\ n = node(s)' /\ att = turn'[s].att
    BY <2>4
  <2>6. InTurn(s)' =>
           /\ Cardinality(At(s, "tool.call", node(s), turn[s].att)') + Len(turn'[s].calls)
                = turn'[s].dispatched
           /\ pc'[s] = "tool" => turn'[s].calls # <<>>
           /\ pc'[s] \in {"judge", "report"} => turn'[s].calls = <<>>
    BY <1>6, <2>3
  <2> QED  BY <2>0, <2>1, <2>2, <2>5, <2>6, AccountingFrom
<1>13. Tainting(s)'
  <2>0. Tainting(s)
    BY DEF IInv, Parts
  <2>1. \A i \in 1..Len(trace'[s]) : trace'[s][i].kind = "tool.call" =>
          /\ trace'[s][i].at \in Tools
          /\ trace'[s][i].ok => tools'[trace'[s][i].at] # "none"
    BY <1>1, <1>2, <1>9, <2>0 DEF Tainting, tool
  <2>2. ExternalIn(s, node(s), turn[s].att)' => turn'[s].tainted
    <3> SUFFICES ASSUME ExternalIn(s, node(s), turn[s].att)' PROVE tainted
      BY <1>5
    <3>1. PICK i \in At(s, "tool.call", node(s), turn[s].att)' :
            trace'[s][i].ok /\ tools[trace'[s][i].at] = "external"
      BY DEF ExternalIn, IsExternalTool
    <3>2. /\ i \in 1..Len(trace'[s]) /\ trace'[s][i].kind = "tool.call"
          /\ trace'[s][i].node = node(s) /\ trace'[s][i].att = turn[s].att
      BY <1>5, <1>8, <3>1 DEF At
    <3>3. CASE i \in 1..L /\ trace'[s][i] = trace[s][i]
      <4>1. ExternalIn(s, node(s), turn[s].att)
        BY <3>1, <3>2, <3>3 DEF ExternalIn, IsExternalTool, At
      <4> QED  BY <2>0, <4>1 DEF Tainting, Turning
    <3>4. CASE trace'[s][i] = e
      BY <1>2, <3>1, <3>4 DEF IsExternalTool, tool
    <3> QED  BY <1>9, <3>2, <3>3, <3>4
  <2>3. ASSUME NEW k \in 1..Len(rows[s]) PROVE ExternalIn(s, rows[s][k].node, rows[s][k].att)' => rows'[s][k].tainted
    <3>1. PICK n, att : n = rows[s][k].node /\ att = rows[s][k].att
      OBVIOUS
    <3>2. n # node(s)
      BY <3>1, RowsBefore DEF Turning
    <3>3. At(s, "tool.call", n, att)' = At(s, "tool.call", n, att)
      BY <1>2, <1>4, <3>2, GrownAt DEF IInv
    <3>4. ExternalIn(s, rows[s][k].node, rows[s][k].att)' => ExternalIn(s, n, att)
      <4>1. ExternalIn(s, rows[s][k].node, rows[s][k].att)' => ExternalIn(s, n, att)'
        BY <3>1 DEF ExternalIn, At
      <4>2. \A i \in At(s, "tool.call", n, att) : trace'[s][i] = trace[s][i]
        BY <1>4, AtFacts DEF IInv, Grown
      <4> QED  BY <3>3, <4>1, <4>2 DEF ExternalIn, IsExternalTool
    <3> QED  BY <2>0, <3>1, <3>4 DEF Tainting
  <2> QED  BY <1>6, <2>0, <2>1, <2>2, <2>3 DEF Tainting
<1> QED  BY <1>7, <1>10, <1>11, <1>12, <1>13, TurnStepIInv
(* A step without an event that moves no call keeps the books. *)
LEMMA QuietCalls ==
  ASSUME IInv, NEW s \in Sessions, TurnStep(s), trace'[s] = trace[s], InTurn(s), InTurn(s)',
         ledger'[s] = ledger[s], reported'[s] = ledger[s] + turn'[s].tok,
         turn'[s].calls = turn[s].calls, turn'[s].dispatched = turn[s].dispatched,
         pc'[s] = "tool" => turn[s].calls # <<>>,
         pc'[s] \in {"judge", "report"} => turn[s].calls = <<>>
  PROVE  Accounting(s)'
<1>0. Accounting(s) /\ node(s)' = node(s) /\ turn'[s].att = turn[s].att
  BY DEF IInv, Parts, TurnStep, node
<1>1. \A kind, n, att : At(s, kind, n, att)' = At(s, kind, n, att)
  BY DEF At
<1>2. At(s, "tool.call", node(s), turn[s].att)' = At(s, "tool.call", node(s), turn[s].att)
  BY <1>0 DEF At
<1>3. ledger'[s] = Spend(trace'[s])
  BY <1>0 DEF Accounting
<1>4. InTurn(s)' =>
         /\ Cardinality(At(s, "tool.call", node(s), turn[s].att)') + Len(turn'[s].calls)
              = turn'[s].dispatched
         /\ pc'[s] = "tool" => turn'[s].calls # <<>>
         /\ pc'[s] \in {"judge", "report"} => turn'[s].calls = <<>>
  BY <1>0, <1>2 DEF Accounting
<1>5. \A i \in 1..Len(trace'[s]) : \A n, att : n = trace'[s][i].node /\ att = trace'[s][i].att =>
         /\ trace'[s][i].kind = "llm.call" =>
              Cardinality({k \in At(s, "tool.call", n, att)' : k < i}) = trace'[s][i].calls
         /\ trace'[s][i].kind = "tool.call" =>
              \/ \E k \in At(s, "llm.call", n, att)' : i < k
              \/ InTurn(s)' /\ n = node(s)' /\ att = turn'[s].att
  BY <1>0, <1>1 DEF Accounting
<1> QED  BY <1>3, <1>4, <1>5, AccountingFrom

(* A step without an event inside a turn keeps the past. *)
LEMMA QuietPast ==
  ASSUME IInv, NEW s \in Sessions, TurnStep(s), trace'[s] = trace[s], InTurn(s), InTurn(s)'
  PROVE  Past(s)'
<1>1. node(s)' = node(s)
  BY DEF node, TurnStep
<1> QED  BY <1>1 DEF IInv, Parts, Past, TurnStep, InTurn, Turning, Reached, Working

(* Dispatch. *)
LEMMA DispatchIInv ==
  ASSUME IInv, NEW s \in Sessions, Dispatch(s)
  PROVE  IInv'
<1>0. /\ pc[s] = "dispatch" /\ UNCHANGED <<tools, judge, inner, judged, rows, row, ledger, reported>>
      /\ turn[s] \in TurnSet /\ turn[s].tainted \in BOOLEAN /\ turn[s].tok \in Nat /\ ~turn[s].judged
  BY TurnFacts DEF IInv, Types, Parts, Judging, Dispatch, Native, registryVars, TurnSet
<1>1. CASE /\ turn[s].calls # <<>> /\ ~LookupTool(Head(turn[s].calls))
           /\ ToolCall(s, FALSE)
           /\ turn' = [turn EXCEPT ![s].calls = Tail(@)]
           /\ UNCHANGED <<pc, gil>>
  <2>1. turn' = [turn EXCEPT ![s] = [turn[s] EXCEPT !.calls = Tail(turn[s].calls),
                                                    !.tainted = turn[s].tainted]]
    BY <1>0, <1>1 DEF IInv, Types, TurnSet
  <2>2. pc' = [pc EXCEPT ![s] = "dispatch"]
    BY <1>0, <1>1 DEF IInv, Types
  <2> QED  BY <1>0, <1>1, <2>1, <2>2, ToolCallIInv
<1>2. ASSUME NEW p \in {"tool", "judge", "report"}, pc' = [pc EXCEPT ![s] = p], UNCHANGED <<trace, turn>>,
             p = "tool" => turn[s].calls # <<>> /\ LookupTool(Head(turn[s].calls)),
             p \in {"judge", "report"} => turn[s].calls = <<>>
      PROVE  IInv'
  <2>1. pc' \in [Sessions -> PCs] /\ pc'[s] = p /\ \A q \in Sessions \ {s} : pc'[q] = pc[q]
    BY <1>2 DEF IInv, Types, PCs
  <2>2. TurnStep(s) /\ InTurn(s) /\ InTurn(s)' /\ trace'[s] = trace[s] /\ turn'[s] = turn[s]
    BY <1>0, <1>2, <2>1 DEF TurnStep, InTurn, IInv, Types, Turning
  <2>3. Past(s)'
    BY <2>2, QuietPast
  <2>4. Judging(s)'
    BY <1>0, <1>2, <2>2, QuietTurn DEF Judging
  <2>5. Accounting(s)'
    <3>1. reported'[s] = ledger[s] + turn'[s].tok
      BY <1>0, <1>2, <2>2 DEF IInv, Parts, Accounting
    <3> QED  BY <1>0, <1>2, <2>1, <2>2, <3>1, QuietCalls
  <2>6. Tainting(s)'
    BY <1>2, <2>1, <2>2, QuietTainting DEF LookupTool
  <2> QED  BY <2>2, <2>3, <2>4, <2>5, <2>6, TurnStepIInv
<1>3. CASE /\ turn[s].calls # <<>> /\ LookupTool(Head(turn[s].calls))
           /\ CallOut(s, "tool") /\ UNCHANGED <<trace, turn>>
  BY <1>2, <1>3 DEF CallOut
<1>4. CASE turn[s].calls = <<>> /\ CallOut(s, "judge") /\ UNCHANGED <<trace, turn>>
  BY <1>2, <1>4 DEF CallOut
<1>5. CASE turn[s].calls = <<>> /\ Stay(s, "report") /\ UNCHANGED <<trace, turn>>
  BY <1>2, <1>5 DEF Stay
<1> QED  BY <1>1, <1>3, <1>4, <1>5, Zenon DEF Dispatch

(* ToolReturns: an accepted result of an external tool is tainted. *)
LEMMA ToolReturnsIInv ==
  ASSUME IInv, NEW s \in Sessions, ToolReturns(s)
  PROVE  IInv'
<1>0. /\ pc[s] = "tool" /\ UNCHANGED <<tools, judge, inner, judged, rows, row, ledger, reported>>
      /\ pc' = [pc EXCEPT ![s] = "dispatch"]
  BY DEF ToolReturns, Return, registryVars
<1>a1. /\ turn[s] \in TurnSet /\ turn[s].tainted \in BOOLEAN /\ turn[s].calls \in Seq(Tools)
  BY DEF IInv, Types, TurnSet
<1>a2. /\ turn[s].calls # <<>> /\ tools[Head(turn[s].calls)] # "none"
  BY <1>0 DEF IInv, Parts, Accounting, Tainting, InTurn
<1>a3. Head(turn[s].calls) \in Tools
  BY <1>a1, <1>a2
<1>1. PICK reply \in ToolReplies :
        /\ ToolCall(s, Accepts(Head(turn[s].calls), reply))
        /\ turn' = [turn EXCEPT ![s].calls = Tail(@),
                ![s].tainted = @ \/ (Accepts(Head(turn[s].calls), reply) /\ TaintedOrigin(reply))]
  BY Zenon DEF ToolReturns
<1> DEFINE ok == Accepts(Head(turn[s].calls), reply)
           tainted == turn[s].tainted \/ (ok /\ TaintedOrigin(reply))
<1>2. ok \in BOOLEAN /\ tainted \in BOOLEAN
  BY DEF Accepts, ValidToolResult, ImportMarked, IsExternalTool, TaintedOrigin
<1>3. turn' = [turn EXCEPT ![s] = [turn[s] EXCEPT !.calls = Tail(turn[s].calls), !.tainted = tainted]]
  BY <1>a1, <1>1 DEF IInv, Types, TurnSet
<1>4. ok => reply \in {"Clean", "Tainted"}
  BY DEF Accepts, ValidToolResult, ToolBridge
<1>5. ok /\ IsExternalTool(Head(turn[s].calls)) => tainted
  BY <1>4 DEF Accepts, ValidToolResult, ToolBridge, ImportMarked, TaintedOrigin
<1> QED  BY <1>0, <1>a1, <1>a2, <1>1, <1>2, <1>3, <1>5, ToolCallIInv
(* A judgment enters the ledger ahead of its llm.call. *)
LEMMA JudgedIInv ==
  ASSUME IInv, NEW s \in Sessions, pc[s] = "judge", NEW tok \in Nat,
         judged' = [judged EXCEPT ![s][node(s)] = Record(s)],
         turn' = [turn EXCEPT ![s].judged = TRUE, ![s].tok = @ + tok],
         reported' = [reported EXCEPT ![s] = @ + tok], pc' = [pc EXCEPT ![s] = "report"],
         UNCHANGED <<tools, judge, inner, trace, rows, row, ledger>>
  PROVE  IInv'
<1>0. /\ turn[s] \in TurnSet /\ turn[s].tok \in Nat /\ turn[s].att \in Nat /\ node(s) \in Nodes
      /\ reported[s] \in Nat /\ ledger[s] \in Nat /\ Len(trace[s]) \in Nat /\ ~turn[s].judged
      /\ inner[s].judge \in Judges \cup {"none"} /\ judged[s] \in [Nodes -> Judgments]
  BY TurnFacts, TurnNode DEF IInv, Types, Turning, HandleSet, Parts, Judging
<1>1. Record(s) \in Judgments /\ Record(s) = [judge |-> inner[s].judge, att |-> turn[s].att]
  BY <1>0 DEF Record, Judgments
<1>2. /\ judged' \in [Sessions -> [Nodes -> Judgments]] /\ judged'[s][node(s)] = Record(s)
      /\ \A n \in Nodes \ {node(s)} : judged'[s][n] = judged[s][n]
      /\ \A q \in Sessions \ {s} : judged'[q] = judged[q]
  BY <1>0, <1>1 DEF IInv, Types
<1>3. /\ turn' \in [Sessions -> TurnSet] /\ turn'[s].judged = TRUE /\ turn'[s].tok = turn[s].tok + tok
      /\ turn'[s].i = turn[s].i /\ turn'[s].att = turn[s].att /\ turn'[s].calls = turn[s].calls
      /\ turn'[s].dispatched = turn[s].dispatched /\ turn'[s].tainted = turn[s].tainted
      /\ \A q \in Sessions \ {s} : turn'[q] = turn[q]
  <2>1. turn' = [turn EXCEPT ![s] = [turn[s] EXCEPT !.judged = TRUE, !.tok = turn[s].tok + tok]]
    BY DEF IInv, Types, TurnSet
  <2>2. PICK m \in Nat : m = turn[s].tok + tok
    BY <1>0
  <2> DEFINE u == [turn[s] EXCEPT !.judged = TRUE, !.tok = m]
  <2>3. /\ u \in TurnSet /\ u.judged = TRUE /\ u.tok = m /\ u.i = turn[s].i /\ u.att = turn[s].att
        /\ u.calls = turn[s].calls /\ u.dispatched = turn[s].dispatched /\ u.tainted = turn[s].tainted
    BY <1>0 DEF TurnSet
  <2>4. turn' = [turn EXCEPT ![s] = u]
    BY <2>1, <2>2
  <2> HIDE DEF u
  <2> QED  BY <2>2, <2>3, <2>4, ZenonT(30) DEF IInv, Types
<1>4. /\ reported' \in [Sessions -> Nat] /\ reported'[s] = reported[s] + tok
      /\ \A q \in Sessions \ {s} : reported'[q] = reported[q]
      /\ pc' \in [Sessions -> PCs] /\ pc'[s] = "report" /\ \A q \in Sessions \ {s} : pc'[q] = pc[q]
  BY <1>0 DEF IInv, Types, PCs
<1>5. TurnStep(s) /\ InTurn(s) /\ InTurn(s)'
  BY <1>2, <1>3, <1>4 DEF TurnStep, IInv, Types, Turning, InTurn
<1>6. Past(s)'
  BY <1>5, QuietPast
<1>7. Judging(s)'
  <2>1. /\ node(s)' = node(s)
        /\ \A i \in 1..Len(trace[s]) : trace[s][i].kind \in {"gate.pass", "gate.fail"} =>
              Says(s, trace[s][i].node, i, trace[s][i].judge)'
        /\ \A n \in Nodes : judged'[s][n] = judged[s][n] => Says(s, n, Len(trace[s]) + 1, judged[s][n])'
    BY <1>0, <1>5, QuietTurn
  <2>2. judged'[s][node(s)] = [judge |-> inner'[s].judge, att |-> turn'[s].att]
    BY <1>1, <1>2, <1>3
  <2>3. \A n \in Nodes : n # node(s) => Says(s, n, Len(trace[s]) + 1, judged[s][n])'
    BY <1>2, <2>1
  <2> QED  BY <1>3, <1>4, <2>1, <2>2, <2>3 DEF Judging
<1>8. Accounting(s)'
  <2>1. reported[s] = ledger[s] + turn[s].tok /\ turn[s].calls = <<>>
    BY <1>5 DEF IInv, Parts, Accounting
  <2>2. reported'[s] = ledger[s] + turn'[s].tok
    BY <1>0, <1>3, <1>4, <2>1
  <2> QED  BY <1>3, <1>4, <1>5, <2>1, <2>2, QuietCalls
<1>9. Tainting(s)'
  BY <1>3, <1>4, <1>5, QuietTainting
<1> QED  BY <1>5, <1>6, <1>7, <1>8, <1>9, TurnStepIInv

(* JudgeReturns, whether the judge raised or not. *)
LEMMA JudgeReturnsIInv ==
  ASSUME IInv, NEW s \in Sessions, JudgeReturns(s)
  PROVE  IInv'
<1>0. /\ pc[s] = "judge" /\ UNCHANGED <<tools, judge, inner, trace, rows, row, ledger>>
      /\ pc' = [pc EXCEPT ![s] = "report"]
  BY DEF JudgeReturns, Return, registryVars, diskVars
<1>1. node(s) \in Nodes /\ ~turn[s].judged /\ turn[s].calls = <<>>
  BY <1>0, TurnNode DEF Turning, IInv, Parts, Judging, Accounting, InTurn
<1>2. PICK r \in JudgeReplies[node(s)] :
        \/ /\ RunJudge(r).ok
           /\ judged' = [judged EXCEPT ![s][node(s)] = Record(s)]
           /\ turn' = [turn EXCEPT ![s].judged = TRUE, ![s].tok = @ + RunJudge(r).tok]
           /\ reported' = [reported EXCEPT ![s] = @ + RunJudge(r).tok]
        \/ ~RunJudge(r).ok /\ UNCHANGED <<judged, turn, reported>>
  BY Zenon DEF JudgeReturns
<1>3. RunJudge(r).tok \in Nat
  <2>1. r \in [verdict : {"PASS", "CONCERNS", "FAIL", "unclear"}, tok : Nat]
    BY <1>1, BridgeAssumption
  <2> QED  BY <2>1 DEF RunJudge, JudgeBridge
<1>4. CASE /\ judged' = [judged EXCEPT ![s][node(s)] = Record(s)]
           /\ turn' = [turn EXCEPT ![s].judged = TRUE, ![s].tok = @ + RunJudge(r).tok]
           /\ reported' = [reported EXCEPT ![s] = @ + RunJudge(r).tok]
  <2>1. PICK tok \in Nat : tok = RunJudge(r).tok
    BY <1>3
  <2> QED  BY <1>0, <1>4, <2>1, JudgedIInv
<1>5. CASE UNCHANGED <<judged, turn, reported>>
  <2>1. pc' \in [Sessions -> PCs] /\ pc'[s] = "report" /\ \A q \in Sessions \ {s} : pc'[q] = pc[q]
    BY <1>0 DEF IInv, Types, PCs
  <2>2. TurnStep(s) /\ InTurn(s) /\ InTurn(s)' /\ trace'[s] = trace[s] /\ turn'[s] = turn[s]
    BY <1>0, <1>5, <2>1 DEF TurnStep, InTurn, IInv, Types, Turning
  <2>3. Past(s)'
    BY <2>2, QuietPast
  <2>4. Judging(s)'
    BY <1>0, <1>1, <1>5, <2>2, QuietTurn DEF Judging
  <2>5. Accounting(s)'
    <3>1. reported'[s] = ledger[s] + turn'[s].tok
      BY <1>0, <1>5, <2>2 DEF IInv, Parts, Accounting
    <3> QED  BY <1>0, <1>1, <1>5, <2>1, <2>2, <3>1, QuietCalls
  <2>6. Tainting(s)'
    BY <2>1, <2>2, QuietTainting
  <2> QED  BY <2>2, <2>3, <2>4, <2>5, <2>6, TurnStepIInv
<1> QED  BY <1>2, <1>4, <1>5
(* Report: the llm.call brings trace and ledger up to the callbacks. *)
LEMMA ReportIInv ==
  ASSUME IInv, NEW s \in Sessions, Report(s)
  PROVE  IInv'
<1> DEFINE e == [Event("llm.call", node(s), "", TRUE, turn[s].tok, turn[s].att)
                   EXCEPT !.calls = turn[s].dispatched, !.judged = turn[s].judged]
           L == Len(trace[s])
<1>0. /\ pc[s] = "report" /\ UNCHANGED <<tools, judge, inner, turn, judged, rows, row, reported>>
      /\ pc' = [pc EXCEPT ![s] = "post"] /\ Emit(s, e)
      /\ ledger' = [ledger EXCEPT ![s] = ledger[s] + turn[s].tok]
  BY DEF Report, Native, Stay, registryVars
<1>1. /\ turn[s] \in TurnSet /\ turn[s].att \in Nat /\ turn[s].tok \in Nat /\ turn[s].dispatched \in Nat
      /\ turn[s].judged \in BOOLEAN /\ turn[s].i \in Nat \ {0} /\ L \in Nat
      /\ node(s) \in Nodes /\ node(s) = Plan[s][turn[s].i] /\ reported[s] \in Nat /\ ledger[s] \in Nat
  BY <1>0, TurnFacts, TurnNode DEF IInv, Types, Turning, TurnSet
<1>2. /\ e \in EventSet /\ e.tok = turn[s].tok /\ e.kind = "llm.call" /\ e.node = node(s)
      /\ e.att = turn[s].att /\ e.calls = turn[s].dispatched /\ e.judged = turn[s].judged
  <2> DEFINE d == Event("llm.call", node(s), "", TRUE, turn[s].tok, turn[s].att)
  <2>1. /\ d \in EventSet /\ d.tok = turn[s].tok /\ d.kind = "llm.call" /\ d.node = node(s)
        /\ d.att = turn[s].att
    BY <1>1 DEF Event, EventSet, Judgments, NoJudgment
  <2>2. e = [d EXCEPT !.calls = turn[s].dispatched, !.judged = turn[s].judged]
    OBVIOUS
  <2> HIDE DEF d, e
  <2> QED  BY <1>1, <2>1, <2>2 DEF EventSet
<1> HIDE DEF e
<1>4. /\ trace' \in [Sessions -> Seq(EventSet)] /\ trace'[s] = Append(trace[s], e) /\ Grown(s, e)
      /\ \A q \in Sessions \ {s} : trace'[q] = trace[q]
  BY <1>0, <1>2, EmitGrows DEF IInv
<1>6. /\ pc' \in [Sessions -> PCs] /\ pc'[s] = "post" /\ \A q \in Sessions \ {s} : pc'[q] = pc[q]
      /\ ledger' \in [Sessions -> Nat] /\ ledger'[s] = ledger[s] + turn[s].tok
      /\ \A q \in Sessions \ {s} : ledger'[q] = ledger[q]
  BY <1>0, <1>1 DEF IInv, Types, PCs
<1>7. TurnStep(s)
  BY <1>0, <1>4, <1>6 DEF TurnStep, IInv, Types, Turning
<1>8. node(s)' = node(s) /\ turn'[s] = turn[s]
  BY <1>0 DEF node
<1>9. \A i \in 1..Len(trace'[s]) :
        \/ i \in 1..L /\ trace'[s][i] = trace[s][i]
        \/ i = L + 1 /\ trace'[s][i] = e
  BY <1>4, GrownIndex DEF IInv
<1>10. Past(s)'
  <2>1. \A i \in 1..Len(trace[s]) : trace[s][i].kind \in Working =>
          \E j \in 1..turn[s].i : trace[s][i].node = Plan[s][j]
    BY <1>0 DEF IInv, Parts, Past, Reached, Turning
  <2>2. ASSUME NEW i \in 1..Len(trace'[s]), trace'[s][i].kind \in Working
        PROVE  \E j \in 1..turn[s].i : trace'[s][i].node = Plan[s][j]
    <3>1. CASE i \in 1..L /\ trace'[s][i] = trace[s][i]
      BY <2>1, <2>2, <3>1
    <3>2. CASE trace'[s][i] = e
      BY <1>1, <1>2, <3>2
    <3> QED  BY <1>9, <3>1, <3>2
  <2>3. \A i \in 1..Len(trace'[s]) : trace'[s][i].judged => trace'[s][i].kind = "llm.call"
    BY <1>2, <1>9 DEF IInv, Parts, Past
  <2>4. \A i \in 1..Len(trace[s]) : trace[s][i].node = node(s) =>
         (trace[s][i].kind \in {"tool.call", "llm.call"} => trace[s][i].att <= turn[s].att)
    BY <1>0 DEF IInv, Parts, Past, Turning
  <2>5. \A i \in 1..Len(trace'[s]) : trace'[s][i].node = node(s) =>
         (trace'[s][i].kind \in {"tool.call", "llm.call"} => trace'[s][i].att <= turn[s].att)
    BY SMTT(30), <1>1, <1>2, <1>9, <2>4
  <2> QED  BY <1>6, <1>8, <2>2, <2>3, <2>5 DEF Past, Reached, Turning
<1>11. Judging(s)'
  <2>0. /\ L \in Nat /\ Len(trace'[s]) = L + 1 /\ Len(trace'[s]) \in Nat /\ Len(trace'[s]) >= L
        /\ inner'[s].judge = inner[s].judge /\ judged'[s] = judged[s] /\ trace'[s][L + 1] = e
        /\ \A k \in 1..L : trace'[s][k] = trace[s][k]
    BY <1>0, <1>1, <1>4 DEF Grown
  <2>1. ASSUME NEW n \in Nodes, ~(turn[s].judged /\ n = node(s))
        PROVE  Says(s, n, Len(trace[s]) + 1, judged[s][n])'
    <3>1. PICK j : j = judged[s][n] /\ judged'[s][n] = j
      BY <1>0
    <3>2. PICK m \in (L + 1)..(Len(trace'[s]) + 1) : m = Len(trace'[s]) + 1
      BY <2>0
    <3>3. Says(s, n, L + 1, j)
      BY <1>0, <2>1, <3>1 DEF IInv, Parts, Judging
    <3>4. \A k \in (L + 1)..Len(trace'[s]) : ~(trace'[s][k].node = n /\ trace'[s][k].judged)
      <4>1. \A k \in (L + 1)..Len(trace'[s]) : trace'[s][k] = e
        BY <2>0
      <4> QED  BY <1>2, <2>1, <4>1
    <3>5. Says(s, n, m, j)'
      BY <2>0, <3>3, <3>4, SaysOn
    <3> QED  BY <3>1, <3>2, <3>5 DEF Says, NoJudgment
  <2>2. ASSUME turn[s].judged PROVE Says(s, node(s), Len(trace[s]) + 1, judged[s][node(s)])'
    <3>1. PICK n \in Nodes : n = node(s)
      BY <1>1
    <3>2. judged'[s][n] = [judge |-> inner'[s].judge, att |-> turn[s].att]
      BY <1>0, <2>2, <3>1 DEF IInv, Parts, Judging
    <3>3. PICK k \in 1..(Len(trace'[s]) + 1 - 1) : k = L + 1
      BY <2>0
    <3>4. /\ trace'[s][k].node = n /\ trace'[s][k].judged
          /\ \A m \in (k + 1)..(Len(trace'[s]) + 1 - 1) : ~(trace'[s][m].node = n /\ trace'[s][m].judged)
          /\ judged'[s][n] = [judge |-> inner'[s].judge, att |-> trace'[s][k].att]
      <4>1. trace'[s][k] = e
        BY <2>0, <3>3
      <4>2. (k + 1)..(Len(trace'[s]) + 1 - 1) = {}
        BY <2>0, <3>3
      <4>3. e.judged
        BY <1>2, <2>2
      <4> QED  BY <1>2, <3>1, <3>2, <4>1, <4>2, <4>3
    <3>5. Says(s, n, Len(trace[s]) + 1, judged[s][n])'
      BY <3>4 DEF Says
    <3> QED  BY <1>8, <3>1, <3>5 DEF Says, NoJudgment
  <2>3. ASSUME NEW n \in Nodes PROVE Says(s, n, Len(trace[s]) + 1, judged[s][n])'
    <3>1. CASE turn[s].judged /\ n = node(s)
      <4>1. Says(s, node(s), Len(trace[s]) + 1, judged[s][node(s)])'
        BY <2>2, <3>1
      <4> QED  BY <1>8, <3>1, <4>1 DEF Says, NoJudgment
    <3>2. CASE ~(turn[s].judged /\ n = node(s))
      BY <2>1, <3>2
    <3> QED  BY <3>1, <3>2
  <2>4. ASSUME NEW i \in 1..Len(trace'[s]), trace'[s][i].kind \in {"gate.pass", "gate.fail"}
        PROVE  Says(s, trace[s][i].node, i, trace[s][i].judge)'
    <3>1. i \in 1..Len(trace[s]) /\ trace'[s][i] = trace[s][i] /\ i \in 1..(Len(trace[s]) + 1)
      <4>1. trace'[s][i] # e
        BY <1>2, <2>4
      <4> QED  BY <1>1, <1>9, <4>1
    <3>3. PICK n, j : n = trace[s][i].node /\ j = trace[s][i].judge
      OBVIOUS
    <3>4. Says(s, n, i, j)
      BY <2>4, <3>1, <3>3 DEF IInv, Parts, Judging
    <3>5. Says(s, n, i, j)'
      BY <2>0, <3>1, <3>4, SaysKept
    <3> QED  BY <3>1, <3>3, <3>5 DEF Says, NoJudgment
  <2> QED  BY <1>6, <2>3, <2>4 DEF Judging
<1>12. Accounting(s)'
  <2>0. InTurn(s) /\ ~InTurn(s)' /\ Accounting(s)
    BY <1>0, <1>6 DEF InTurn, IInv, Parts
  <2>1. ledger'[s] = Spend(trace'[s])
    <3>1. Spend(trace'[s]) = Spend(trace[s]) + e.tok /\ ledger[s] = Spend(trace[s])
      BY <1>2, <1>4, <2>0, SpendOf DEF Accounting
    <3> QED  BY <1>2, <1>6, <3>1
  <2>2. reported'[s] = ledger'[s] + 0
    <3>1. reported[s] = ledger[s] + turn[s].tok /\ reported'[s] = reported[s]
      BY <1>0, <2>0 DEF Accounting
    <3> QED  BY <1>1, <1>6, <3>1
  <2>3. \A n, att : At(s, "tool.call", n, att)' = At(s, "tool.call", n, att)
    BY <1>2, <1>4, GrownAt DEF IInv
  <2>4. ASSUME NEW i \in 1..Len(trace'[s]), NEW n, n = trace'[s][i].node, NEW att, att = trace'[s][i].att
        PROVE  /\ trace'[s][i].kind = "llm.call" =>
                    Cardinality({k \in At(s, "tool.call", n, att)' : k < i}) = trace'[s][i].calls
               /\ trace'[s][i].kind = "tool.call" => \E k \in At(s, "llm.call", n, att)' : i < k
    <3>1. CASE i \in 1..L /\ trace'[s][i] = trace[s][i]
      <4>1. At(s, "llm.call", n, att)' = IF n = node(s) /\ att = turn[s].att
              THEN At(s, "llm.call", n, att) \cup {L + 1} ELSE At(s, "llm.call", n, att)
        BY <1>2, <1>4, GrownAt DEF IInv
      <4>2. i < L + 1
        BY <1>1, <3>1
      <4>3. /\ trace[s][i].kind = "llm.call" =>
                 Cardinality({k \in At(s, "tool.call", n, att) : k < i}) = trace[s][i].calls
            /\ trace[s][i].kind = "tool.call" =>
                 \/ \E k \in At(s, "llm.call", n, att) : i < k
                 \/ n = node(s) /\ att = turn[s].att
        BY <2>0, <2>4, <3>1 DEF Accounting
      <4> QED  BY <2>3, <3>1, <4>1, <4>2, <4>3
    <3>2. CASE i = L + 1 /\ trace'[s][i] = e
      <4>1. n = node(s) /\ att = turn[s].att
        BY <1>2, <2>4, <3>2
      <4>2. {k \in At(s, "tool.call", n, att)' : k < i} = At(s, "tool.call", node(s), turn[s].att)
        <5>1. \A k \in At(s, "tool.call", n, att) : k < L + 1
          BY <1>1, AtFacts DEF IInv
        <5> QED  BY <2>3, <3>2, <4>1, <5>1
      <4>3. Cardinality(At(s, "tool.call", node(s), turn[s].att)) + Len(turn[s].calls) = turn[s].dispatched
        BY <2>0 DEF Accounting
      <4>4. Len(turn[s].calls) = 0
        BY <1>0, <2>0 DEF Accounting
      <4>5. Cardinality(At(s, "tool.call", node(s), turn[s].att)) \in Nat
        BY AtFacts DEF IInv
      <4>6. Cardinality(At(s, "tool.call", node(s), turn[s].att)) = turn[s].dispatched
        BY <4>3, <4>4, <4>5
      <4> QED  BY <1>2, <3>2, <4>2, <4>6
    <3> QED  BY <1>9, <3>1, <3>2
  <2>5. \A i \in 1..Len(trace'[s]) : \A n, att : n = trace'[s][i].node /\ att = trace'[s][i].att =>
           /\ trace'[s][i].kind = "llm.call" =>
                Cardinality({k \in At(s, "tool.call", n, att)' : k < i}) = trace'[s][i].calls
           /\ trace'[s][i].kind = "tool.call" =>
                \/ \E k \in At(s, "llm.call", n, att)' : i < k
                \/ InTurn(s)' /\ n = node(s)' /\ att = turn'[s].att
    BY <2>4
  <2> QED  BY <2>0, <2>1, <2>2, <2>5, AccountingFrom
<1>13. Tainting(s)'
  <2>0. Tainting(s)
    BY DEF IInv, Parts
  <2>1. \A i \in 1..Len(trace'[s]) : trace'[s][i].kind = "tool.call" =>
          /\ trace'[s][i].at \in Tools
          /\ trace'[s][i].ok => tools'[trace'[s][i].at] # "none"
    BY <1>0, <1>2, <1>9, <2>0 DEF Tainting
  <2>2. \A n, att : ExternalIn(s, n, att)' <=> ExternalIn(s, n, att)
    <3>1. \A n, att : At(s, "tool.call", n, att)' = At(s, "tool.call", n, att)
      BY <1>2, <1>4, GrownAt DEF IInv
    <3>2. \A n, att : \A i \in At(s, "tool.call", n, att) : trace'[s][i] = trace[s][i]
      BY <1>4, AtFacts DEF IInv, Grown
    <3> QED  BY <1>0, <3>1, <3>2 DEF ExternalIn, IsExternalTool
  <2>3. ExternalIn(s, node(s), turn[s].att)' => turn'[s].tainted
    <3>1. PICK n, att : n = node(s) /\ att = turn[s].att
      OBVIOUS
    <3>2. ExternalIn(s, node(s), turn[s].att)' => ExternalIn(s, n, att)'
      BY <1>8, <3>1 DEF ExternalIn, At
    <3> QED  BY <1>0, <2>0, <2>2, <3>1, <3>2 DEF Tainting, Turning
  <2>4. ASSUME NEW k \in 1..Len(rows[s]) PROVE ExternalIn(s, rows[s][k].node, rows[s][k].att)' => rows'[s][k].tainted
    <3>1. PICK n, att : n = rows[s][k].node /\ att = rows[s][k].att
      OBVIOUS
    <3>2. ExternalIn(s, rows[s][k].node, rows[s][k].att)' => ExternalIn(s, n, att)'
      BY <1>0, <3>1 DEF ExternalIn, At
    <3> QED  BY <1>0, <2>0, <2>2, <3>1, <3>2 DEF Tainting
  <2> QED  BY <1>0, <1>6, <2>0, <2>1, <2>3, <2>4 DEF Tainting
<1> QED  BY <1>7, <1>10, <1>11, <1>12, <1>13, TurnStepIInv
(* A gate event quotes the judge ledger. *)
LEMMA GateEventType ==
  ASSUME IInv, NEW s \in Sessions, pc[s] = "post", NEW ok \in BOOLEAN
  PROVE  /\ GateEvent(s, ok) \in EventSet /\ GateEvent(s, ok).tok = 0 /\ ~GateEvent(s, ok).judged
         /\ GateEvent(s, ok).kind \in {"gate.pass", "gate.fail"} /\ GateEvent(s, ok).node = node(s)
         /\ GateEvent(s, ok).judge = judged[s][node(s)]
<1>1. /\ turn[s].gate \in Nat /\ turn[s].att \in Nat /\ node(s) \in Nodes
      /\ judged[s][node(s)] \in Judgments
  BY TurnNode, SMTT(30) DEF IInv, Types, TurnSet, Turning
<1> DEFINE d == Event(IF ok THEN "gate.pass" ELSE "gate.fail", node(s), turn[s].gate, ok, 0, turn[s].att)
<1>2. /\ d \in EventSet /\ d.tok = 0 /\ ~d.judged /\ d.kind \in {"gate.pass", "gate.fail"}
      /\ d.node = node(s)
  BY <1>1 DEF Event, EventSet, Judgments, NoJudgment
<1>3. GateEvent(s, ok) = [d EXCEPT !.judge = judged[s][node(s)]]
  BY DEF GateEvent, AttrsFor
<1> HIDE DEF d
<1> QED  BY <1>1, <1>2, <1>3 DEF EventSet

(* Gate events appended by a step out of the post-gates. *)
LEMMA GatesIInv ==
  ASSUME IInv, NEW s \in Sessions, pc[s] = "post", Passive(s), Spend(trace'[s]) = Spend(trace[s]),
         trace' \in [Sessions -> Seq(EventSet)], \A q \in Sessions \ {s} : trace'[q] = trace[q],
         \A k \in (Len(trace[s]) + 1)..Len(trace'[s]) :
           /\ trace'[s][k].node = node(s)
           /\ trace'[s][k].judge = judged[s][node(s)],
         UNCHANGED <<tools, judge, inner, judged, rows, row, ledger, reported>>,
         NEW p \in {"post", "commit", "exec", "finish"}, pc' = [pc EXCEPT ![s] = p],
         NEW t \in TurnSet, turn' = [turn EXCEPT ![s] = t],
         p \in {"post", "commit", "exec"} => t.i = turn[s].i,
         p \in {"post", "commit"} => t.att = turn[s].att /\ t.tainted = turn[s].tainted,
         p = "exec" => t.att = turn[s].att + 1 /\ ~t.judged
  PROVE  IInv'
<1>1. /\ pc' \in [Sessions -> PCs] /\ pc'[s] = p /\ turn' \in [Sessions -> TurnSet] /\ turn'[s] = t
      /\ \A q \in Sessions \ {s} : pc'[q] = pc[q] /\ turn'[q] = turn[q]
  BY DEF IInv, Types, PCs
<1>2. node(s) \in Nodes /\ turn[s].i \in Nat \ {0} /\ turn[s].att \in Nat /\ node(s) = Plan[s][turn[s].i]
  BY TurnNode, TurnFacts DEF IInv, Turning
<1>3. OwnStep(s)
  BY <1>1, <1>2 DEF IInv, Types, OwnStep, InTurn
<1>4. CASE p = "finish"
  BY <1>1, <1>3, <1>4, OutsideTurn DEF Turning
<1>5. CASE p = "exec"
  <2>1. Past(s)' /\ ~ExternalIn(s, node(s), turn[s].att)'
    BY <1>1, <1>5, NewTry
  <2>2. Phase(s)'
    BY <1>1, <1>5 DEF IInv, Parts, Phase, Turning
  <2> QED  BY <1>3, <2>1, <2>2, OwnStepIInv
<1>6. CASE p \in {"post", "commit"}
  <2>1. Phase(s)'
    BY <1>1, <1>6 DEF IInv, Parts, Phase, Turning
  <2>2. node(s)' = node(s)
    BY <1>1, <1>6 DEF node
  <2>3. \A i \in 1..Len(trace'[s]) :
          \/ i \in 1..Len(trace[s]) /\ trace'[s][i] = trace[s][i]
          \/ /\ trace'[s][i].kind \notin {"tool.call", "llm.call"} /\ ~trace'[s][i].judged
             /\ trace'[s][i].node = node(s)
    BY TurnFacts DEF IInv, Passive
  <2>4. \A i \in 1..Len(trace[s]) : trace[s][i].kind \in Working =>
          \E j \in 1..turn[s].i : trace[s][i].node = Plan[s][j]
    BY DEF IInv, Parts, Past, Reached, Turning
  <2>5. ASSUME NEW i \in 1..Len(trace'[s]), trace'[s][i].kind \in Working
        PROVE  \E j \in 1..turn[s].i : trace'[s][i].node = Plan[s][j]
    <3>1. CASE i \in 1..Len(trace[s]) /\ trace'[s][i] = trace[s][i]
      BY <2>4, <2>5, <3>1
    <3>2. CASE trace'[s][i].node = node(s)
      BY <1>2, <3>2
    <3> QED  BY <2>3, <3>1, <3>2
  <2>6. \A i \in 1..Len(trace[s]) : trace[s][i].node = node(s) =>
         (trace[s][i].kind \in {"tool.call", "llm.call"} => trace[s][i].att <= turn[s].att)
    BY DEF IInv, Parts, Past, Turning
  <2>7. \A i \in 1..Len(trace'[s]) : trace'[s][i].judged => trace'[s][i].kind = "llm.call"
    BY <2>3 DEF IInv, Parts, Past
  <2>8. \A i \in 1..Len(trace'[s]) : trace'[s][i].node = node(s) =>
         (trace'[s][i].kind \in {"tool.call", "llm.call"} => trace'[s][i].att <= turn[s].att)
    BY <2>3, <2>6
  <2>9. Past(s)'
    BY <1>1, <1>6, <2>2, <2>5, <2>7, <2>8 DEF Past, Reached, Turning
  <2>10. ExternalIn(s, node(s), turn[s].att)' => turn'[s].tainted
    <3>1. PICK n, att : n = node(s) /\ att = turn[s].att
      OBVIOUS
    <3>2. ExternalIn(s, node(s), turn[s].att)' => ExternalIn(s, n, att)'
      BY <1>1, <1>6, <2>2, <3>1 DEF ExternalIn, At
    <3>3. Silent(s)
      BY <1>3 DEF Silent, OwnStep
    <3>4. ExternalIn(s, n, att)' => ExternalIn(s, n, att)
      BY <3>3, SilentExternal
    <3> QED  BY <1>1, <1>6, <3>1, <3>2, <3>4 DEF IInv, Parts, Tainting, Turning
  <2> QED  BY <1>3, <2>1, <2>9, <2>10, OwnStepIInv
<1> QED  BY <1>4, <1>5, <1>6

(* PostGate. *)
LEMMA PostGateIInv ==
  ASSUME IInv, NEW s \in Sessions, PostGate(s)
  PROVE  IInv'
<1>0. /\ pc[s] = "post" /\ UNCHANGED <<tools, judge, inner, judged, rows, row, ledger, reported>>
  BY DEF PostGate, Native, registryVars
<1>1. /\ turn[s] \in TurnSet /\ turn[s].i \in Nat \ {0} /\ turn[s].att \in Nat /\ turn[s].gate \in Nat \ {0}
      /\ Len(trace[s]) \in Nat
  BY TurnFacts DEF IInv, Types, TurnSet
<1>2. ASSUME NEW ok \in BOOLEAN, Emit(s, GateEvent(s, ok))
      PROVE  /\ Passive(s) /\ Spend(trace'[s]) = Spend(trace[s])
             /\ trace' \in [Sessions -> Seq(EventSet)] /\ \A q \in Sessions \ {s} : trace'[q] = trace[q]
             /\ \A k \in (Len(trace[s]) + 1)..Len(trace'[s]) :
                  trace'[s][k].node = node(s) /\ trace'[s][k].judge = judged[s][node(s)]
  <2> DEFINE g == GateEvent(s, ok)
  <2>1. /\ g \in EventSet /\ g.tok = 0 /\ ~g.judged /\ g.kind \in {"gate.pass", "gate.fail"}
        /\ g.node = node(s) /\ g.judge = judged[s][node(s)]
    BY <1>0, GateEventType
  <2> HIDE DEF g
  <2>2. /\ trace' \in [Sessions -> Seq(EventSet)] /\ trace'[s] = Append(trace[s], g) /\ Grown(s, g)
        /\ \A q \in Sessions \ {s} : trace'[q] = trace[q]
    BY <1>2, <2>1, EmitGrows DEF IInv, g
  <2>3. Passive(s) /\ Spend(trace'[s]) = Spend(trace[s])
    BY <2>1, <2>2, GrownPassive, SpendOf DEF IInv
  <2>4. \A k \in (Len(trace[s]) + 1)..Len(trace'[s]) : trace'[s][k] = g
    BY <1>1, <2>2 DEF Grown
  <2> QED  BY <2>1, <2>2, <2>3, <2>4
<1>3. ASSUME trace' = [trace EXCEPT ![s] = @ \o <<GateEvent(s, FALSE), GateEvent(s, FALSE)>>]
      PROVE  /\ Passive(s) /\ Spend(trace'[s]) = Spend(trace[s])
             /\ trace' \in [Sessions -> Seq(EventSet)] /\ \A q \in Sessions \ {s} : trace'[q] = trace[q]
             /\ \A k \in (Len(trace[s]) + 1)..Len(trace'[s]) :
                  trace'[s][k].node = node(s) /\ trace'[s][k].judge = judged[s][node(s)]
  <2> DEFINE g == GateEvent(s, FALSE)
             u == Append(trace[s], g)
             v == Append(u, g)
  <2>1. /\ g \in EventSet /\ g.tok = 0 /\ ~g.judged /\ g.kind \in {"gate.pass", "gate.fail"}
        /\ g.node = node(s) /\ g.judge = judged[s][node(s)]
    BY <1>0, GateEventType
  <2>2. trace' = [trace EXCEPT ![s] = trace[s] \o <<g, g>>]
    BY <1>3
  <2> HIDE DEF g
  <2>3. trace[s] \in Seq(EventSet) /\ Spend(trace[s]) \in Nat
    BY DEF IInv, Types, Parts, Accounting
  <2>4. /\ trace[s] \o <<g, g>> = v /\ u \in Seq(EventSet) /\ v \in Seq(EventSet)
    BY <2>1, <2>3
  <2>5. Len(v) = Len(trace[s]) + 2 /\ \A k \in 1..Len(trace[s]) : v[k] = trace[s][k]
    BY <2>1, <2>3
  <2>6. \A k \in (Len(trace[s]) + 1)..Len(v) : v[k] = g
    <3>1. v[Len(trace[s]) + 1] = g /\ v[Len(trace[s]) + 2] = g
      BY <2>1, <2>3
    <3>2. \A k \in (Len(trace[s]) + 1)..Len(v) : k = Len(trace[s]) + 1 \/ k = Len(trace[s]) + 2
      BY <1>1, <2>5
    <3> QED  BY <3>1, <3>2
  <2>7. Spend(v) = Spend(trace[s])
    <3>1. Spend(u) = Spend(trace[s]) + g.tok
      BY <2>1, <2>3, EventSpend
    <3> HIDE DEF u
    <3>2. Spend(v) = Spend(u) + g.tok
      BY <2>1, <2>4, EventSpend
    <3> QED  BY <2>1, <2>3, <3>1, <3>2
  <2> HIDE DEF u, v
  <2>8. /\ trace'[s] = v /\ trace' \in [Sessions -> Seq(EventSet)]
        /\ \A q \in Sessions \ {s} : trace'[q] = trace[q]
    BY <2>2, <2>4 DEF IInv, Types
  <2>9. Passive(s)
    BY <1>1, <2>1, <2>5, <2>6, <2>8 DEF Passive
  <2> QED  BY <2>1, <2>6, <2>7, <2>8, <2>9
<1>4. PICK v \in Verdicts[node(s)][turn[s].gate] :
       \/ /\ v = "pass"
          /\ Emit(s, GateEvent(s, TRUE))
          /\ turn' = [turn EXCEPT ![s].gate = @ + 1]
          /\ Stay(s, IF turn[s].gate = Len(Verdicts[node(s)]) THEN "commit" ELSE "post")
       \/ /\ v = "retry" /\ turn[s].att < BoundedRetry
          /\ Emit(s, GateEvent(s, FALSE))
          /\ NewAttempt(s) /\ Stay(s, "exec")
       \/ /\ v = "retry" /\ turn[s].att = BoundedRetry
          /\ trace' = [trace EXCEPT ![s] = @ \o <<GateEvent(s, FALSE), GateEvent(s, FALSE)>>]
          /\ Finishing(s, "FAILED")
       \/ /\ v = "reject"
          /\ Emit(s, GateEvent(s, FALSE))
          /\ Finishing(s, "FAILED")
  BY Zenon DEF PostGate
<1>5. CASE /\ Emit(s, GateEvent(s, TRUE))
           /\ turn' = [turn EXCEPT ![s].gate = @ + 1]
           /\ Stay(s, IF turn[s].gate = Len(Verdicts[node(s)]) THEN "commit" ELSE "post")
  <2>1. PICK p \in {"post", "commit"} : pc' = [pc EXCEPT ![s] = p]
    BY <1>5 DEF Stay
  <2> DEFINE t == [turn[s] EXCEPT !.gate = turn[s].gate + 1]
  <2>2. t \in TurnSet /\ t.i = turn[s].i /\ t.att = turn[s].att /\ t.tainted = turn[s].tainted
    <3>1. turn[s].gate + 1 \in Nat \ {0}
      BY <1>1
    <3> QED  BY <1>1, <3>1 DEF TurnSet
  <2>3. turn' = [turn EXCEPT ![s] = t]
    BY <1>5 DEF IInv, Types
  <2> HIDE DEF t
  <2> QED  BY <1>0, <1>2, <1>5, <2>1, <2>2, <2>3, GatesIInv
<1>6. CASE Emit(s, GateEvent(s, FALSE)) /\ NewAttempt(s) /\ Stay(s, "exec")
  <2> DEFINE t == [NoTurn EXCEPT !.i = turn[s].i, !.att = turn[s].att + 1]
  <2>1. t \in TurnSet /\ t.i = turn[s].i /\ t.att = turn[s].att + 1 /\ ~t.judged
    <3>1. turn[s].att + 1 \in Nat
      BY <1>1
    <3> QED  BY <1>1, <3>1, NewTurn
  <2>2. turn' = [turn EXCEPT ![s] = t] /\ pc' = [pc EXCEPT ![s] = "exec"]
    BY <1>6 DEF NewAttempt, Stay
  <2> HIDE DEF t
  <2> QED  BY <1>0, <1>2, <1>6, <2>1, <2>2, GatesIInv
<1>7. ASSUME Finishing(s, "FAILED"),
             \/ Emit(s, GateEvent(s, FALSE))
             \/ trace' = [trace EXCEPT ![s] = @ \o <<GateEvent(s, FALSE), GateEvent(s, FALSE)>>]
      PROVE  IInv'
  <2> DEFINE t == [turn[s] EXCEPT !.end = "FAILED"]
  <2>1. t \in TurnSet
    BY <1>1 DEF TurnSet, States
  <2>2. turn' = [turn EXCEPT ![s] = t] /\ pc' = [pc EXCEPT ![s] = "finish"]
    BY <1>7 DEF Finishing, Stay, IInv, Types
  <2> HIDE DEF t
  <2>3. CASE Emit(s, GateEvent(s, FALSE))
    BY <1>0, <1>2, <2>1, <2>2, <2>3, GatesIInv
  <2>4. CASE trace' = [trace EXCEPT ![s] = @ \o <<GateEvent(s, FALSE), GateEvent(s, FALSE)>>]
    BY <1>0, <1>3, <2>1, <2>2, <2>4, GatesIInv
  <2> QED  BY <1>7, <2>3, <2>4
<1> QED  BY <1>4, <1>5, <1>6, <1>7, Zenon
(* Commit: a row, tainted by what it read and what it imported. *)
LEMMA CommitIInv ==
  ASSUME IInv, NEW s \in Sessions, Commit(s)
  PROVE  IInv'
<1> DEFINE r == [node |-> node(s), att |-> turn[s].att, tainted |-> InputTainted(s) \/ turn[s].tainted]
           R == Len(rows[s])
<1>0. /\ pc[s] = "commit" /\ UNCHANGED <<tools, judge, inner, judged, trace, row, ledger, reported>>
      /\ rows' = [rows EXCEPT ![s] = Append(rows[s], r)]
  BY DEF Commit, Native, registryVars
<1>1. /\ turn[s] \in TurnSet /\ turn[s].i \in Nat \ {0} /\ turn[s].att \in Nat /\ node(s) \in Nodes
      /\ node(s) = Plan[s][turn[s].i] /\ R \in Nat /\ R = turn[s].i - 1 /\ rows[s] \in Seq(RowSet)
      /\ turn[s].i \in 1..Len(Plan[s]) /\ Len(Plan[s]) \in Nat /\ turn[s].tainted \in BOOLEAN
  BY <1>0, TurnNode, TurnFacts, PlanFacts DEF IInv, Types, TurnSet, Turning, Parts, Phase
<1>2. /\ r \in RowSet /\ r.node = node(s) /\ r.att = turn[s].att
      /\ InputTainted(s) \/ turn[s].tainted => r.tainted
  <2>1. InputTainted(s) \in BOOLEAN
    BY DEF InputTainted
  <2> QED  BY <1>1, <2>1 DEF RowSet
<1> HIDE DEF r
<1>3. /\ rows' \in [Sessions -> Seq(RowSet)] /\ Len(rows'[s]) = R + 1 /\ rows'[s][R + 1] = r
      /\ \A k \in 1..R : rows'[s][k] = rows[s][k]
      /\ \A q \in Sessions \ {s} : rows'[q] = rows[q]
  <2>1. Append(rows[s], r) \in Seq(RowSet)
    BY <1>1, <1>2
  <2>2. rows'[s] = Append(rows[s], r)
    BY <1>0 DEF IInv, Types
  <2> QED  BY <1>0, <1>1, <1>2, <2>1, <2>2 DEF IInv, Types
<1>4. PICK p \in {"finish", "node"}, t \in TurnSet :
        /\ pc' = [pc EXCEPT ![s] = p] /\ turn' = [turn EXCEPT ![s] = t]
        /\ p = "node" => t.i = turn[s].i + 1 /\ ~t.judged
  <2>1. CASE Finishing(s, "SUSPENDED")
    <3>1. [turn[s] EXCEPT !.end = "SUSPENDED"] \in TurnSet
      BY <1>1 DEF TurnSet, States
    <3>2. turn' = [turn EXCEPT ![s] = [turn[s] EXCEPT !.end = "SUSPENDED"]] /\ pc' = [pc EXCEPT ![s] = "finish"]
      BY <2>1 DEF Finishing, Stay, IInv, Types
    <3> QED  BY <3>1, <3>2
  <2>2. CASE turn' = [turn EXCEPT ![s] = [NoTurn EXCEPT !.i = turn[s].i + 1]] /\ Stay(s, "node")
    <3>1. turn[s].i + 1 \in Nat \ {0} /\ 0 \in Nat
      BY <1>1
    <3>2. PICK t \in TurnSet : t = [NoTurn EXCEPT !.i = turn[s].i + 1] /\ t.i = turn[s].i + 1 /\ ~t.judged
      BY <3>1, NewTurn
    <3>3. turn' = [turn EXCEPT ![s] = t] /\ pc' = [pc EXCEPT ![s] = "node"]
      BY <2>2, <3>2 DEF Stay
    <3> QED  BY <3>2, <3>3
  <2> QED  BY <2>1, <2>2 DEF Commit
<1>5. /\ pc' \in [Sessions -> PCs] /\ pc'[s] = p /\ turn' \in [Sessions -> TurnSet] /\ turn'[s] = t
      /\ \A q \in Sessions \ {s} : pc'[q] = pc[q] /\ turn'[q] = turn[q]
  BY <1>4 DEF IInv, Types, PCs
<1>6. Types'
  BY <1>0, <1>3, <1>5 DEF IInv, Types
<1>7. tools' = tools /\ \A q \in Sessions \ {s} : Frame(q)
  BY <1>0, <1>3, <1>5 DEF Frame
<1>8. \A k \in 1..Len(rows'[s]) :
        \/ k \in 1..R /\ rows'[s][k] = rows[s][k]
        \/ k = R + 1 /\ rows'[s][k] = r
  <2>1. \A k \in 1..Len(rows'[s]) : k \in 1..R \/ k = R + 1
    BY <1>1, <1>3
  <2> QED  BY <1>3, <2>1, Zenon
<1>9. Phase(s)'
  <2>1. \A k \in 1..Len(rows'[s]) : k <= Len(Plan[s]) /\ rows'[s][k].node = Plan[s][k]
    <3>1. \A k \in 1..R : k <= Len(Plan[s]) /\ rows[s][k].node = Plan[s][k]
      BY DEF IInv, Parts, Phase
    <3>2. R + 1 <= Len(Plan[s]) /\ r.node = Plan[s][R + 1]
      BY <1>1, <1>2
    <3> QED  BY <1>8, <3>1, <3>2
  <2>2. pc'[s] = "node" => Len(rows'[s]) = turn'[s].i - 1
    BY <1>1, <1>3, <1>4, <1>5
  <2>3. inner[s].open /\ ~inner[s].closed /\ ~inner[s].runner
    BY <1>0 DEF IInv, Parts, Phase
  <2> QED  BY <1>0, <1>4, <1>5, <2>1, <2>2, <2>3 DEF Phase, Turning
<1>10. Past(s)'
  <2>1. \A i \in 1..Len(trace[s]) : trace[s][i].kind \in Working =>
          \E j \in 1..turn[s].i : trace[s][i].node = Plan[s][j]
    BY <1>0 DEF IInv, Parts, Past, Reached, Turning
  <2>2. pc'[s] = "node" => turn'[s].i - 1 = turn[s].i
    BY <1>1, <1>4, <1>5
  <2> QED  BY <1>0, <1>4, <1>5, <2>1, <2>2 DEF IInv, Parts, Past, Reached, Turning, Working
<1>11. Silent(s)
  <2>1. Passive(s)
    BY <1>0, UnchangedPassive DEF IInv
  <2> QED  BY <1>0, <1>4, <1>5, <2>1 DEF Silent, InTurn
<1>12. Judging(s)'
  <2>1. Len(trace[s]) \in Nat
    BY TurnFacts DEF IInv
  <2>2. \A k \in (Len(trace[s]) + 1)..Len(trace'[s]) : FALSE
    BY <1>0, <2>1
  <2>3. pc'[s] \in {"node", "exec", "provider"} => ~turn'[s].judged
    BY <1>4, <1>5
  <2> QED  BY <1>11, <2>2, <2>3, SilentJudging
<1>13. Tainting(s)'
  <2>0. Tainting(s)
    BY DEF IInv, Parts
  <2>1. ASSUME NEW k \in 1..Len(rows'[s])
        PROVE  ExternalIn(s, rows[s][k].node, rows[s][k].att)' => rows'[s][k].tainted
    <3>1. PICK n, att : n = rows'[s][k].node /\ att = rows'[s][k].att
      OBVIOUS
    <3>2. ExternalIn(s, rows[s][k].node, rows[s][k].att)' => ExternalIn(s, n, att)
      <4>1. ExternalIn(s, rows[s][k].node, rows[s][k].att)' => ExternalIn(s, n, att)'
        BY <3>1 DEF ExternalIn, At
      <4> QED  BY <1>11, <4>1, SilentExternal
    <3>3. CASE k \in 1..R /\ rows'[s][k] = rows[s][k]
      BY <2>0, <3>1, <3>2, <3>3 DEF Tainting
    <3>4. CASE rows'[s][k] = r
      BY <1>0, <1>2, <2>0, <3>1, <3>2, <3>4 DEF Tainting, Turning
    <3> QED  BY <1>8, <3>3, <3>4
  <2>2. ASSUME NEW k \in 1..Len(rows'[s]), rows'[s][k].tainted, NEW j \in k..Len(rows'[s])
        PROVE  rows'[s][j].tainted
    <3>1. j \in 1..Len(rows'[s]) /\ (k = R + 1 => j = R + 1) /\ (j \in 1..R => j \in k..R)
      BY <1>1, <1>3
    <3>2. CASE j \in 1..R /\ rows'[s][j] = rows[s][j]
      <4>1. k \in 1..R /\ rows'[s][k] = rows[s][k] /\ j \in k..R
        BY <1>1, <1>3, <1>8, <3>1, <3>2
      <4> QED  BY <2>0, <2>2, <3>2, <4>1 DEF Tainting
    <3>3. CASE rows'[s][j] = r
      <4>1. CASE rows'[s][k] = r
        BY <2>2, <3>3, <4>1
      <4>2. CASE k \in 1..R /\ rows'[s][k] = rows[s][k]
        BY <1>2, <2>2, <3>3, <4>2 DEF InputTainted
      <4> QED  BY <1>8, <4>1, <4>2
    <3> QED  BY <1>8, <3>1, <3>2, <3>3
  <2>3. \A i \in 1..Len(trace'[s]) : trace'[s][i].kind = "tool.call" =>
              /\ trace'[s][i].at \in Tools
              /\ trace'[s][i].ok => tools'[trace'[s][i].at] # "none"
    BY <1>11, SilentExternal
  <2>4. pc'[s] # "tool" /\ pc'[s] \notin Turning
    BY <1>4, <1>5 DEF Turning
  <2> QED  BY <2>1, <2>2, <2>3, <2>4 DEF Tainting
<1> QED  BY <1>6, <1>7, <1>9, <1>10, <1>11, <1>12, <1>13, SilentAccounting, OneSession DEF Parts

-----------------------------------------------------------------------------

(* The invariant holds initially. *)
LEMMA InitIInv == Init => IInv
<1> SUFFICES ASSUME Init PROVE IInv
  OBVIOUS
<1>1. NoTurn \in TurnSet /\ NoTurn.i = 1 /\ ~NoTurn.judged
  BY DEF NoTurn, TurnSet, States
<1>2. Unopened \in HandleSet /\ ~Unopened.open /\ ~Unopened.runner /\ Unopened.judge = "none"
  BY DEF Unopened, HandleSet, States, NoTask
<1>3. NoJudgment \in Judgments
  BY DEF NoJudgment, Judgments
<1>4. Types
  BY <1>1, <1>2, <1>3 DEF Init, Types, PCs
<1>5. ASSUME NEW s \in Sessions PROVE Parts(s)
  <2>1. /\ pc[s] = "idle" /\ trace[s] = <<>> /\ rows[s] = <<>> /\ ledger[s] = 0 /\ reported[s] = 0
        /\ judged[s] = [n \in Nodes |-> NoJudgment] /\ inner[s] = Unopened
    BY DEF Init
  <2>2. Phase(s)
    BY <1>2, <2>1 DEF Phase, Turning
  <2>3. Past(s)
    BY <2>1 DEF Past, Turning
  <2>4. Judging(s)
    BY <2>1 DEF Judging, Says
  <2>5. Accounting(s)
    BY <2>1, SpendEmpty DEF Accounting, InTurn
  <2>6. Tainting(s)
    BY <2>1 DEF Tainting, Turning
  <2> QED  BY <2>2, <2>3, <2>4, <2>5, <2>6 DEF Parts
<1> QED  BY <1>4, <1>5 DEF IInv

(* Every step keeps the invariant. *)
LEMMA NextIInv == IInv /\ [Next]_vars => IInv'
<1> SUFFICES ASSUME IInv, [Next]_vars PROVE IInv'
  OBVIOUS
<1>1. CASE UNCHANGED vars
  <2>1. /\ \A s \in Sessions : Frame(s)
        /\ \A t \in Tools : tools[t] # "none" => tools'[t] = tools[t]
    BY <1>1 DEF vars, registryVars, diskVars, Frame
  <2>2. Types'
    BY <1>1 DEF IInv, Types, vars, registryVars, diskVars
  <2> QED  BY <2>1, <2>2, FrameKeeps DEF IInv
<1>2. CASE PythonStep
  <2>1. CASE \/ RegisterProvider \/ ClearJudge \/ (\E j \in Judges : RegisterJudge(j))
             \/ \E t \in Tools, kind \in {"local", "external"} : RegisterTool(t, kind)
    BY <2>1, RegistryIInv
  <2>2. CASE \E s \in Sessions :
               \/ \E arg \in TaskArgs, spec \in BudgetSpecs[s] : SessionOpen(s, arg, spec)
               \/ \E arg \in TaskArgs : SessionRun(s, arg)
               \/ SessionClose(s)
    BY <2>2, SessionOpenIInv, SessionRunIInv, SessionCloseIInv
  <2> QED  BY <1>2, <2>1, <2>2, Zenon DEF PythonStep
<1>3. CASE \E s \in Sessions : RunStep(s)
  <2>1. PICK s \in Sessions : RunStep(s)
    BY <1>3
  <2> QED
    BY <2>1, NextNodeIInv, CallProviderIInv, ProviderReturnsIInv, DispatchIInv, ToolReturnsIInv,
       JudgeReturnsIInv, ReportIInv, PostGateIInv, CommitIInv, ReceiptIInv, FinishIInv, SealIInv
       DEF RunStep
<1> QED  BY <1>1, <1>2, <1>3 DEF Next

(* The invariant holds of every behaviour of the bridge. *)
THEOREM BridgeInvariant == Spec => []IInv
<1> QED  BY InitIInv, NextIInv, PTL DEF Spec

(* Gate events carry the newest completed judgment of their node, by the   *)
(* judge registered when the session opened (JudgeLedger), whatever is     *)
(* registered or cleared meanwhile.                                        *)
THEOREM BridgeJudgments == Spec => []JudgmentRecorded
<1>1. IInv => JudgmentRecorded
  <2> SUFFICES ASSUME IInv, NEW s \in Sessions, NEW i \in 1..Len(trace[s]),
                      trace[s][i].kind \in {"gate.pass", "gate.fail"}
               PROVE  LET e == trace[s][i]
                          calls == {k \in 1..(i - 1) : trace[s][k].node = e.node /\ trace[s][k].judged}
                          newest == CHOOSE k \in calls : \A j \in calls : j <= k
                      IN  e.judge = IF calls = {} THEN NoJudgment
                                    ELSE [judge |-> inner[s].judge, att |-> trace[s][newest].att]
    BY DEF JudgmentRecorded
  <2> DEFINE e == trace[s][i]
             calls == {k \in 1..(i - 1) : trace[s][k].node = e.node /\ trace[s][k].judged}
             newest == CHOOSE k \in calls : \A j \in calls : j <= k
  <2>0. i \in Nat
    BY TurnFacts DEF IInv
  <2>1. Says(s, e.node, i, e.judge)
    BY DEF IInv, Parts, Judging
  <2>2. CASE /\ \A k \in 1..(i - 1) : ~(trace[s][k].node = e.node /\ trace[s][k].judged)
             /\ e.judge = NoJudgment
    BY <2>2
  <2>3. CASE \E k \in 1..(i - 1) :
               /\ trace[s][k].node = e.node /\ trace[s][k].judged
               /\ \A m \in (k + 1)..(i - 1) : ~(trace[s][m].node = e.node /\ trace[s][m].judged)
               /\ e.judge = [judge |-> inner[s].judge, att |-> trace[s][k].att]
    <3>1. PICK k \in 1..(i - 1) :
               /\ trace[s][k].node = e.node /\ trace[s][k].judged
               /\ \A m \in (k + 1)..(i - 1) : ~(trace[s][m].node = e.node /\ trace[s][m].judged)
               /\ e.judge = [judge |-> inner[s].judge, att |-> trace[s][k].att]
      BY <2>3
    <3>2. k \in calls /\ \A j \in calls : j <= k
      BY <2>0, <3>1
    <3>3. calls \subseteq Nat /\ calls # {}
      BY <2>0, <3>2
    <3> HIDE DEF calls
    <3>4. newest \in calls /\ \A j \in calls : j <= newest
      BY <3>2
    <3> HIDE DEF newest
    <3>5. newest = k
      BY <3>2, <3>3, <3>4
    <3>6. e.judge = IF calls = {} THEN NoJudgment
                    ELSE [judge |-> inner[s].judge, att |-> trace[s][newest].att]
      BY <3>1, <3>3, <3>5
    <3> QED  BY <3>6, Zenon DEF calls, newest
  <2> QED  BY <2>1, <2>2, <2>3 DEF Says
<1> QED  BY <1>1, BridgeInvariant, PTL

(* Tokens and tool calls are accounted for: ledger, trace and callbacks    *)
(* agree up to the turn in flight (execute_attached, dispatch_tools).      *)
THEOREM BridgeAccounts == Spec => []CallsAccounted
<1>1. IInv => CallsAccounted
  <2>1. ASSUME IInv, NEW s \in Sessions PROVE TraceSpend(s) = Spend(trace[s]) /\ Accounting(s)
    BY <2>1 DEF TraceSpend, Spend, IInv, Parts
  <2> QED  BY <2>1 DEF CallsAccounted, Accounting
<1> QED  BY <1>1, BridgeInvariant, PTL

(* What an external tool returned into a committed output taints it and    *)
(* all later ones (external_import_verdict).                               *)
THEOREM BridgeTaints == Spec => []ExternalTaints
<1>1. IInv => ExternalTaints
  BY DEF IInv, Parts, Tainting, ExternalTaints, ExternalIn
<1> QED  BY <1>1, BridgeInvariant, PTL

(* A handle that is closed or used up never writes again (borrow_handle,   *)
(* session_run, session_close).                                            *)
THEOREM BridgeSpent == Spec => SpentIsFrozen
<1> DEFINE Frozen == \A s \in Sessions : Spent(s) =>
       <<trace[s], rows[s], row[s], ledger[s]>>' = <<trace[s], rows[s], row[s], ledger[s]>>
<1>1. IInv /\ [Next]_vars => [Frozen]_vars
  <2> SUFFICES ASSUME IInv, Next, NEW s \in Sessions, Spent(s)
               PROVE  /\ trace'[s] = trace[s] /\ rows'[s] = rows[s] /\ row'[s] = row[s]
                      /\ ledger'[s] = ledger[s]
    OBVIOUS
  <2>1. pc[s] = "idle" /\ (inner[s].closed \/ inner[s].open)
    BY DEF IInv, Parts, Phase, Spent, Borrowed
  <2>2. trace \in [Sessions -> Seq(EventSet)] /\ rows \in [Sessions -> Seq(RowSet)]
        /\ row \in [Sessions -> States \cup {"NONE", "RUNNING"}] /\ ledger \in [Sessions -> Nat]
    BY DEF IInv, Types
  <2>3. CASE PythonStep
    <3>1. CASE \E q \in Sessions : \E arg \in TaskArgs, spec \in BudgetSpecs[q] : SessionOpen(q, arg, spec)
      <4>1. PICK q \in Sessions, arg \in TaskArgs : \E spec \in BudgetSpecs[q] : SessionOpen(q, arg, spec)
        BY <3>1
      <4>2. PICK spec \in BudgetSpecs[q] : SessionOpen(q, arg, spec)
        BY <4>1
      <4>3. q # s
        BY <2>1, <4>2 DEF SessionOpen
      <4> QED  BY <2>2, <4>2, <4>3 DEF SessionOpen
    <3>2. CASE ~\E q \in Sessions : \E arg \in TaskArgs, spec \in BudgetSpecs[q] : SessionOpen(q, arg, spec)
      <4>1. UNCHANGED diskVars
        BY <2>3, <3>2 DEF PythonStep, RegisterProvider, RegisterTool, RegisterJudge, ClearJudge,
           SessionRun, SessionClose
      <4> QED  BY <4>1 DEF diskVars
    <3> QED  BY <3>1, <3>2
  <2>4. CASE \E q \in Sessions : RunStep(q)
    <3>1. PICK q \in Sessions : RunStep(q)
      BY <2>4
    <3>2. q # s
      BY <2>1, <3>1 DEF RunStep, NextNode, CallProvider, ProviderReturns, Dispatch, ToolReturns,
         JudgeReturns, Report, PostGate, Commit, RunError, Finish, Seal, Receipt, Native
    <3>3. \/ UNCHANGED trace \/ \E x : trace' = [trace EXCEPT ![q] = x]
      BY <3>1 DEF RunStep, NextNode, CallProvider, ProviderReturns, Dispatch, ToolReturns,
         JudgeReturns, Report, PostGate, Commit, RunError, Finish, Seal, Receipt, Emit, ToolCall, diskVars
    <3>4. \/ UNCHANGED rows \/ \E x : rows' = [rows EXCEPT ![q] = x]
      BY <3>1 DEF RunStep, NextNode, CallProvider, ProviderReturns, Dispatch, ToolReturns,
         JudgeReturns, Report, PostGate, Commit, RunError, Finish, Seal, Receipt, diskVars
    <3>5. \/ UNCHANGED row \/ \E x : row' = [row EXCEPT ![q] = x]
      BY <3>1 DEF RunStep, NextNode, CallProvider, ProviderReturns, Dispatch, ToolReturns,
         JudgeReturns, Report, PostGate, Commit, RunError, Finish, Seal, Receipt, diskVars
    <3>6. \/ UNCHANGED ledger \/ \E x : ledger' = [ledger EXCEPT ![q] = x]
      BY <3>1 DEF RunStep, NextNode, CallProvider, ProviderReturns, Dispatch, ToolReturns,
         JudgeReturns, Report, PostGate, Commit, RunError, Finish, Seal, Receipt, diskVars
    <3> QED  BY <2>2, <3>2, <3>3, <3>4, <3>5, <3>6
  <2> QED  BY <2>3, <2>4 DEF Next
<1> QED  BY <1>1, BridgeInvariant, PTL DEF SpentIsFrozen, Spec
=============================================================================
