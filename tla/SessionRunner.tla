--------------------------- MODULE SessionRunner ---------------------------
(***************************************************************************)
(* The session runner of hesmos-orchestrator (runner.rs), composed with    *)
(* the engine that fixes the commit order (engine.rs), the write-ahead     *)
(* commit store (wal.rs), the handoff router, the gates and the budget     *)
(* meter, and with the two outside actors that interleave with it: the     *)
(* SIGINT handler and a crash of the process.                              *)
(*                                                                         *)
(* Every action appends at most one trace event and writes at most one     *)
(* durable record, so a crash can fall between any two of them.  The       *)
(* durable state is log (events.jsonl), wal and walState (checkpoint.db),  *)
(* responses (the replay cache) and the ledger of BudgetMeter.             *)
(***************************************************************************)
EXTENDS Integers, FiniteSets, WaveOrder, LoopGuardRouter, BudgetMeter, Gates

(* The compiled plan and, for a fork, the origin it replays. *)
CONSTANTS
  Waves,          \* compiled waves: a sequence of sequences of nodes
  Succs,          \* successors of a node, in BTree order
  Role,           \* agent role of a node
  PreGates,       \* per node: baseline pre-gates and stage.pre, in BTree order
  PostGates,      \* per node: baseline post-gates and stage.post, in BTree order
  ForkAt,         \* ForkSource.at, 0 for a session that is not a fork
  OriginTurns     \* the origin's responses/<seq>.json: a function on some seqs

(* What the environment of one instance may do. *)
CONSTANTS
  Turns,             \* executor reports
  ExecFaults,        \* reason codes an executor may fail with
  Transfers,         \* may an input be within (TRUE), over (FALSE) the G0 limit?
  MayViolateCache,   \* may the cache sentinel find a violation?
  MayInterrupt,      \* may SIGINT arrive?
  MayCrash           \* may the process die (or return on an I/O error)?

Turn == [tok : Nat, conf : {"ok", "low"}, out : Payloads, taint : BOOLEAN]
NoTurn == [tok |-> 0, conf |-> "ok", out |-> "good", taint |-> FALSE]

Preds(n) == {m \in Nodes : n \in Members(Succs[m])}

(* The nodes that stand before n in wave order (Runner::ordinal). *)
Before(n) ==
  {m \in Nodes : \E v, w \in 1..Len(Waves) : \E i \in 1..Len(Waves[v]), j \in 1..Len(Waves[w]) :
     Waves[v][i] = m /\ Waves[w][j] = n /\ (v < w \/ (v = w /\ i < j))}

PlanEdges == {e \in Nodes \X Nodes : e[2] \in Members(Succs[e[1]])}

(* What build_waves guarantees (WavesSound of PlanCompiler); a successor   *)
(* list is an ordered set.                                                 *)
ASSUME WavesAssumption ==
  /\ Succs \in [Nodes -> Seq(Nodes)]
  /\ \A n \in Nodes : \A i, j \in 1..Len(Succs[n]) : Succs[n][i] = Succs[n][j] => i = j
  /\ SoundWaves(Waves, Nodes, PlanEdges)

ASSUME InstanceAssumption ==
  /\ "none" \notin Nodes /\ "session" \notin Nodes
  /\ Role \in [Nodes -> Roles]
  /\ DOMAIN Criteria = Nodes
  /\ PreGates \in [Nodes -> Seq(GateIds)]
  /\ PostGates \in [Nodes -> Seq(GateIds)]
  /\ \A n \in Nodes : {"G0", "budget", "permission", "schema"} \subseteq Members(PreGates[n])
  /\ \A n \in Nodes : {"done_criteria", "rubric", "schema"} \subseteq Members(PostGates[n])
  /\ ForkAt \in Nat
  /\ DOMAIN OriginTurns \subseteq Nat
  /\ \A s \in DOMAIN OriginTurns : OriginTurns[s] \in Turn
  /\ Turns \subseteq Turn
  /\ ExecFaults \subseteq {"PROVIDER_FAILURE", "TIMEOUT"}
  /\ Transfers \subseteq BOOLEAN
  /\ MayViolateCache \in BOOLEAN
  /\ MayInterrupt \in BOOLEAN
  /\ MayCrash \in BOOLEAN

(* The origin was a session of this runner on the same plan, which a fork  *)
(* takes from the origin's snapshot (load_fork_plan).  So its files have   *)
(* no gap (ResponseWindow), and taint flowed along its rows, whichever     *)
(* nodes the wave order gave them (CommitOrder, TaintFlows).               *)
ASSUME OriginAssumption ==
  /\ \A m \in DOMAIN OriginTurns : 1..m \subseteq DOMAIN OriginTurns
  /\ \A m \in DOMAIN OriginTurns : \A rows \in [1..m -> Nodes] :
       (\A k \in 1..m : {rows[j] : j \in 1..(k - 1)} = Before(rows[k])) =>
         \A j, k \in 1..m : rows[j] \in Preds(rows[k]) /\ OriginTurns[j].taint
                              => OriginTurns[k].taint

-----------------------------------------------------------------------------

VARIABLES
  pc,          \* the runner's program point
  wave, idx,   \* the wave the run loop holds, and the node index in it
  loc,         \* locals of run_node
  end,         \* how the session ends: a final state and a reason code
  cursor, wavePos,   \* CompiledGraph.cursor (from 1) and wave_commit_pos
  attempts,    \* Runner.attempts
  routedIn,    \* Runner.routed_in: sender of the contract routed into a node
  outputs,     \* Runner.outputs: taint of each committed output
  concerns,    \* Runner.concerns
  state,       \* SessionHandle.state
  log,         \* the trace: events.jsonl
  wal,         \* checkpoint rows, in commit_seq order
  walState,    \* the sessions row's state
  responses,   \* responses/<seq>.json: the turn of each commit seq
  interrupt,   \* the flag the SIGINT handler stores
  interruptAt  \* history: length of the trace when the flag was set

ctlVars == <<pc, wave, idx, loc, end>>
engineVars == <<cursor, wavePos>>
memVars == <<attempts, routedIn, outputs, concerns, state>>
diskVars == <<log, wal, walState, responses>>
intVars == <<interrupt, interruptAt>>
vars == <<ctlVars, engineVars, memVars, diskVars, intVars, routerVars, budgetVars>>

TerminalStates == {"COMPLETED", "SUSPENDED", "HALTED", "FAILED"}
Reasons == {"none", "BUDGET_EXCEEDED", "GATE_REJECT", "PROVIDER_FAILURE", "TIMEOUT"}
             \cup HaltReasons

(* The open phases come first; "dead" is a process that stopped without    *)
(* closing its session.                                                    *)
OpenPCs == {"open", "opened", "compiled", "activate"}
PCs == OpenPCs \cup
       {"wave", "node", "start", "pre", "suspend", "attempt", "exec", "call", "meter",
        "warn", "post", "escalate", "route", "decide", "respond", "settle", "stop",
        "finish", "close", "done", "dead"}

Locals == [gate : Nat \ {0}, edge : Nat \ {0}, from : Nodes \cup {"none"}, fits : BOOLEAN,
           turn : Turn, retried : BOOLEAN, taint : BOOLEAN,
           stop : {"done", "reject", "escalate"}]

CheckpointRow == [node : Nodes, from : Nodes \cup {"none"}, taint : BOOLEAN]

NoLocals == [gate |-> 1, edge |-> 1, from |-> "none", fits |-> TRUE, turn |-> NoTurn,
             retried |-> FALSE, taint |-> FALSE, stop |-> "done"]

End(s, r) == [state |-> s, reason |-> r]
NoEnd == End("none", "none")

(* The node whose boundary is open. *)
node == Waves[wave][idx]

(* A trace event: its kind, its node, the one attribute that matters (a    *)
(* gate, a destination, a stop kind, a final state), the tokens of a call  *)
(* and the reason_code of a gate.fail.                                     *)
EventKinds == {"session.open", "plan.compiled", "node.start", "gate.pass", "gate.fail",
               "llm.call", "budget.event", "handoff.request", "handoff.accept", "node.stop",
               "session.close"}
EventNotes == {"", "cache", "router.v1", "warn", "suspend", "done", "reject", "escalate"}
                \cup GateIds \cup TerminalStates
LoggedEvent ==
  [kind : EventKinds, node : Nodes \cup {"session"}, at : Nodes \cup EventNotes, tok : Nat,
   reason : Reasons]

Event(kind, n, at, tok, reason) ==
  [kind |-> kind, node |-> n, at |-> at, tok |-> tok, reason |-> reason]

(* Runner::emit, for session-level and for node events. *)
EmitSession(kind, at) == log' = Append(log, Event(kind, "session", at, 0, "none"))
Emit(kind, at) == log' = Append(log, Event(kind, node, at, 0, "none"))

(* A gate.fail: the gate, the cache sentinel or the router, and why. *)
EmitFail(by, reason) == log' = Append(log, Event("gate.fail", node, by, 0, reason))

-----------------------------------------------------------------------------
(* Frames and jumps. *)

TraceOnly ==
  UNCHANGED <<engineVars, memVars, wal, walState, responses, intVars, routerVars, budgetVars>>

ControlOnly == TraceOnly /\ UNCHANGED log

Goto(p) == pc' = p /\ UNCHANGED <<wave, idx, loc, end>>

GotoWith(p, l) == pc' = p /\ loc' = l /\ UNCHANGED <<wave, idx, end>>

(* stop_node is the next event of the boundary, and e how the loop leaves. *)
StopWith(kind, e) ==
  /\ pc' = "stop"
  /\ loc' = [loc EXCEPT !.stop = kind]
  /\ end' = e
  /\ UNCHANGED <<wave, idx>>

(* Leave the wave loop before the next boundary. *)
LeaveLoop(e) == pc' = "finish" /\ end' = e /\ UNCHANGED <<wave, idx, loc>>

Interrupted == End("SUSPENDED", "none")
Rejected == End("FAILED", "GATE_REJECT")
OverBudget == End("SUSPENDED", "BUDGET_EXCEEDED")

-----------------------------------------------------------------------------

Init ==
  /\ pc = "open" /\ wave = 1 /\ idx = 1 /\ loc = NoLocals /\ end = NoEnd
  /\ cursor = 1 /\ wavePos = 0
  /\ attempts = [n \in Nodes |-> 0]
  /\ routedIn = [n \in Nodes |-> "none"]
  /\ outputs = [n \in Nodes |-> "none"]
  /\ concerns = 0 /\ state = "INIT"
  /\ log = <<>> /\ wal = <<>> /\ walState = "NONE" /\ responses = <<>>
  /\ interrupt = FALSE /\ interruptAt = 0
  /\ RouterInit
  /\ BudgetInit

(* Runner::open: the sessions row, session.open, plan.compiled, then the   *)
(* row and the handle turn RUNNING.                                        *)
OpenSession ==
  /\ pc = "open"
  /\ Goto("opened")
  /\ walState' = "INIT"
  /\ UNCHANGED <<log, wal, responses, engineVars, memVars, intVars, routerVars, budgetVars>>

EmitSessionOpen ==
  /\ pc = "opened"
  /\ EmitSession("session.open", "")
  /\ Goto("compiled")
  /\ TraceOnly

EmitPlanCompiled ==
  /\ pc = "compiled"
  /\ EmitSession("plan.compiled", "")
  /\ Goto("activate")
  /\ TraceOnly

Activate ==
  /\ pc = "activate"
  /\ Goto("wave")
  /\ walState' = "RUNNING"
  /\ state' = "RUNNING"
  /\ UNCHANGED <<attempts, routedIn, outputs, concerns, log, wal, responses,
                 engineVars, intVars, routerVars, budgetVars>>

(* Mutant: an interrupted wave loop continues instead of breaking. *)
SpinningNextWave ==
  /\ pc = "wave"
  /\ \/ /\ cursor > Len(Waves)
        /\ LeaveLoop(End("COMPLETED", "none"))
     \/ /\ cursor <= Len(Waves) /\ interrupt
        /\ Goto("wave")
     \/ /\ cursor <= Len(Waves) /\ ~interrupt
        /\ pc' = "node" /\ wave' = cursor /\ idx' = 1
        /\ UNCHANGED <<loc, end>>
  /\ ControlOnly

(* Mutant: the last wave counts as past the end. *)
EarlyNextWave ==
  /\ pc = "wave"
  /\ \/ /\ cursor >= Len(Waves)
        /\ LeaveLoop(End("COMPLETED", "none"))
     \/ /\ cursor < Len(Waves) /\ interrupt
        /\ LeaveLoop(Interrupted)
     \/ /\ cursor < Len(Waves) /\ ~interrupt
        /\ pc' = "node" /\ wave' = cursor /\ idx' = 1
        /\ UNCHANGED <<loc, end>>
  /\ ControlOnly

(* Runner::run, head of the wave loop: next_wave, then the interrupt poll. *)
NextWave ==
  /\ pc = "wave"
  /\ \/ /\ cursor > Len(Waves)
        /\ LeaveLoop(End("COMPLETED", "none"))
     \/ /\ cursor <= Len(Waves) /\ interrupt
        /\ LeaveLoop(Interrupted)
     \/ /\ cursor <= Len(Waves) /\ ~interrupt
        /\ pc' = "node" /\ wave' = cursor /\ idx' = 1
        /\ UNCHANGED <<loc, end>>
  /\ ControlOnly

(* Mutant: only the wave head polls the interrupt flag. *)
UnpolledNextNode ==
  /\ pc = "node"
  /\ \/ /\ idx > Len(Waves[wave]) /\ Goto("wave")
     \/ /\ idx <= Len(Waves[wave]) /\ Goto("start")
  /\ ControlOnly

(* Runner::run, head of the node loop: the second interrupt poll. *)
NextNode ==
  /\ pc = "node"
  /\ \/ /\ idx > Len(Waves[wave])
        /\ Goto("wave")
     \/ /\ idx <= Len(Waves[wave]) /\ interrupt
        /\ LeaveLoop(Interrupted)
     \/ /\ idx <= Len(Waves[wave]) /\ ~interrupt
        /\ Goto("start")
  /\ ControlOnly

-----------------------------------------------------------------------------
(* run_node: the boundary of one node. *)

(* Taint::merge over the outputs present. *)
InputTaint(n) == \E m \in Preds(n) : outputs[m] = "tainted"

(* node.start, build_input_envelope and the boundary contract: run_node up *)
(* to the first gate.                                                      *)
StartNode ==
  /\ pc = "start"
  /\ Emit("node.start", "")
  /\ \E f \in Transfers :
       GotoWith("pre", [NoLocals EXCEPT !.from = routedIn[node], !.fits = f,
                                        !.taint = InputTaint(node)])
  /\ TraceOnly

(* The contract the gates of this boundary judge: the one routed in, which *)
(* the router accepted, or a root's own.                                   *)
BoundaryContract ==
  IF loc.from = "none" THEN SyntheticContract(node)
  ELSE HandoffContract(loc.from, node, "ok")

(* Mutant: the pre-gates see a budget snapshot that never reaches a line. *)
BlindPreVerdict ==
  RunGate(PreGates[node][loc.gate], BoundaryContract, "absent", loc.fits, FALSE)

PreVerdict ==
  RunGate(PreGates[node][loc.gate], BoundaryContract, "absent", loc.fits,
          SuspendReached(Role[node]))

PostVerdict ==
  RunGate(PostGates[node][loc.gate], BoundaryContract, loc.turn.out, loc.fits,
          SuspendReached(Role[node]))

(* run_checked_with: every judgment leaves its event. *)
EmitGate(g, v) == IF v = "pass" THEN Emit("gate.pass", g) ELSE EmitFail(g, FailReason(g))

(* One pre-gate.  A Retry verdict panics: nothing has run yet. *)
PreGate ==
  /\ pc = "pre"
  /\ EmitGate(PreGates[node][loc.gate], PreVerdict)
  /\ \/ /\ PreVerdict = "pass"
        /\ IF loc.gate = Len(PreGates[node])
           THEN GotoWith("attempt", [loc EXCEPT !.gate = 1])
           ELSE GotoWith("pre", [loc EXCEPT !.gate = @ + 1])
     \/ PreVerdict = "exceeded" /\ Goto("suspend")
     \/ PreVerdict = "reject" /\ StopWith("reject", Rejected)
     \/ PreVerdict = "retry" /\ Goto("dead")
  /\ TraceOnly

(* emit_budget_event("suspend"), on the way to the boundary's stop. *)
EmitSuspend ==
  /\ pc = "suspend"
  /\ EmitSession("budget.event", "suspend")
  /\ StopWith("escalate", OverBudget)
  /\ TraceOnly

(* Head of the attempt loop: the third interrupt poll. *)
BeginAttempt ==
  /\ pc = "attempt"
  /\ \/ interrupt /\ StopWith("escalate", Interrupted)
     \/ ~interrupt /\ GotoWith("exec", [loc EXCEPT !.gate = 1, !.edge = 1])
  /\ ControlOnly

(* bump_attempt. *)
Bump(n) == attempts' = [attempts EXCEPT ![n] = @ + 1]

(* Mutant: the last retry is granted once too often. *)
GenerousCanRetry == attempts[node] <= BoundedRetry

(* The guard of the runner's own bounded retry. *)
CanRetry == attempts[node] < BoundedRetry

(* Mutant: the boundary forgets that it retried. *)
SilentRetryAttempt ==
  /\ Bump(node)
  /\ Goto("attempt")
  /\ UNCHANGED <<routedIn, outputs, concerns, state, engineVars, wal, walState, responses,
                 intVars, budgetVars>>

(* Mutant: a retry re-enters the boundary at its start. *)
RestartingRetryAttempt ==
  /\ Bump(node)
  /\ GotoWith("start", [loc EXCEPT !.retried = TRUE])
  /\ UNCHANGED <<routedIn, outputs, concerns, state, engineVars, wal, walState, responses,
                 intVars, budgetVars>>

(* Re-enter the attempt loop. *)
RetryAttempt ==
  /\ Bump(node)
  /\ GotoWith("attempt", [loc EXCEPT !.retried = TRUE])
  /\ UNCHANGED <<routedIn, outputs, concerns, state, engineVars, wal, walState, responses,
                 intVars, budgetVars>>

(* Mutant: the fork point itself is outside the replay window. *)
ShortCached == Len(wal) + 1 < ForkAt /\ Len(wal) + 1 \in DOMAIN OriginTurns

(* cached_execution: the next commit is in the replay window, and the      *)
(* origin has a response for it.                                           *)
Cached == Len(wal) + 1 <= ForkAt /\ Len(wal) + 1 \in DOMAIN OriginTurns

(* A cached turn skips the executor and the cache sentinel, and keeps the  *)
(* origin's envelope, taint included.                                      *)
ExecuteCached ==
  /\ pc = "exec" /\ Cached
  /\ GotoWith("call", [loc EXCEPT !.turn = OriginTurns[Len(wal) + 1]])
  /\ ControlOnly

(* Mutant: the output is built fresh, not derived from the input. *)
LaunderingExecuteLive ==
  /\ pc = "exec" /\ ~Cached
  /\ \E t \in Turns : GotoWith("call", [loc EXCEPT !.turn = t])
  /\ ControlOnly

(* A live turn that the cache sentinel lets through; the output envelope   *)
(* derives from the input one, so taint only grows (build_output_envelope).*)
ExecuteLive ==
  /\ pc = "exec" /\ ~Cached
  /\ \E t \in Turns : GotoWith("call", [loc EXCEPT !.turn = [t EXCEPT !.taint = @ \/ loc.taint]])
  /\ ControlOnly

(* The executor failed: bounded retry, then HALTED with its reason. *)
ExecuteFails ==
  /\ pc = "exec" /\ ~Cached
  /\ UNCHANGED <<log, routerVars>>
  /\ \E r \in ExecFaults :
       \/ CanRetry /\ RetryAttempt
       \/ ~CanRetry /\ StopWith("escalate", End("HALTED", r)) /\ ControlOnly

(* The cache sentinel found a violation: no retry, no llm.call, no meter. *)
CacheViolation ==
  /\ pc = "exec" /\ ~Cached /\ MayViolateCache
  /\ EmitFail("cache", "GATE_REJECT")
  /\ StopWith("reject", Rejected)
  /\ TraceOnly

EmitLlmCall ==
  /\ pc = "call"
  /\ log' = Append(log, Event("llm.call", node, "", loc.turn.tok, "none"))
  /\ Goto("meter")
  /\ TraceOnly

(* S15: the ledger row of the turn.  A suspend verdict is dropped here, it *)
(* waits for the commit boundary.                                          *)
MeterTurn ==
  /\ pc = "meter"
  /\ Meter(Role[node], loc.turn.tok)
  /\ Goto(IF MeterVerdict(Role[node], loc.turn.tok) = "warn" THEN "warn" ELSE "post")
  /\ UNCHANGED <<engineVars, memVars, diskVars, intVars, routerVars>>

EmitWarn ==
  /\ pc = "warn"
  /\ EmitSession("budget.event", "warn")
  /\ Goto("post")
  /\ TraceOnly

-----------------------------------------------------------------------------

(* One post-gate; the first non-pass ends the scan.  A budget gate here    *)
(* suspends without a budget.event.                                        *)
PostGate ==
  /\ pc = "post"
  /\ EmitGate(PostGates[node][loc.gate], PostVerdict)
  /\ UNCHANGED routerVars
  /\ \/ /\ PostVerdict = "pass"
        /\ IF loc.gate = Len(PostGates[node])
           THEN Goto("route")
           ELSE GotoWith("post", [loc EXCEPT !.gate = @ + 1])
        /\ TraceOnly
     \/ PostVerdict = "retry" /\ CanRetry /\ RetryAttempt
     \/ PostVerdict = "retry" /\ ~CanRetry /\ Goto("escalate") /\ TraceOnly
     \/ PostVerdict = "exceeded" /\ StopWith("escalate", OverBudget) /\ TraceOnly
     \/ PostVerdict = "reject" /\ StopWith("reject", Rejected) /\ TraceOnly

(* The failing gate runs once more, carrying the escalation attributes. *)
Escalate ==
  /\ pc = "escalate"
  /\ EmitGate(PostGates[node][loc.gate], PostVerdict)
  /\ StopWith("reject", Rejected)
  /\ TraceOnly

-----------------------------------------------------------------------------
(* route_and_commit. *)

(* Mutant: the first contract routed into a node is the one kept. *)
FirstRouteInto(to) ==
  routedIn' = IF routedIn[to] = "none" THEN [routedIn EXCEPT ![to] = node] ELSE routedIn

(* The contract routed last into a node is its boundary contract. *)
RouteInto(to) == routedIn' = [routedIn EXCEPT ![to] = node]

RequestHandoff ==
  /\ pc = "route" /\ loc.edge <= Len(Succs[node])
  /\ Emit("handoff.request", Succs[node][loc.edge])
  /\ Goto("decide")
  /\ TraceOnly

(* The router's answer on the current edge, with the event it leaves. *)
DecideHandoff ==
  LET to == Succs[node][loc.edge]
      j  == Judgment(HandoffContract(node, to, loc.turn.conf))
      d  == RouteDecision(node, to, j)
  IN
  /\ pc = "decide"
  /\ Route(node, to, j)
  /\ \/ /\ d = "accept"
        /\ Emit("handoff.accept", to)
        /\ RouteInto(to)
        /\ GotoWith("route", [loc EXCEPT !.edge = @ + 1])
        /\ UNCHANGED <<attempts, outputs, concerns, state, engineVars, wal, walState,
                       responses, intVars, budgetVars>>
     \/ /\ d = "retry_bounded"
        /\ UNCHANGED log
        /\ RetryAttempt
     \/ /\ d = "return_to_sender"
        /\ EmitFail("router.v1", "GATE_REJECT")
        /\ StopWith("reject", Rejected)
        /\ UNCHANGED <<engineVars, memVars, wal, walState, responses, intVars, budgetVars>>
     \/ /\ d = "halt"
        /\ EmitFail("router.v1", Evaluate(node, to))
        /\ StopWith("escalate", End("HALTED", Evaluate(node, to)))
        /\ UNCHANGED <<engineVars, memVars, wal, walState, responses, intVars, budgetVars>>

(* Mutant: a finished wave leaves the commit position where it was. *)
StuckAdvance ==
  IF wavePos + 1 = Len(Waves[cursor])
  THEN cursor' = cursor + 1 /\ wavePos' = wavePos
  ELSE cursor' = cursor /\ wavePos' = wavePos + 1

(* DeterministicEngine::commit: the position of the next commit. *)
Advance ==
  IF wavePos + 1 = Len(Waves[cursor])
  THEN cursor' = cursor + 1 /\ wavePos' = 0
  ELSE cursor' = cursor /\ wavePos' = wavePos + 1

(* Mutant: the row is written as soon as the first edge is routed. *)
EarlyEdgesRouted == loc.edge > 1 \/ Succs[node] = <<>>

(* Every successor has accepted. *)
EdgesRouted == loc.edge > Len(Succs[node])

(* S14: the engine's receipt and the checkpoint row, one transaction.  The *)
(* engine asserts that node is the one the wave order expects: see         *)
(* EngineInStep.                                                           *)
CommitPoint ==
  /\ pc = "route" /\ EdgesRouted
  /\ Advance
  /\ wal' = Append(wal, [node |-> node, from |-> loc.from, taint |-> loc.turn.taint])
  /\ Goto("respond")
  /\ UNCHANGED <<memVars, log, walState, responses, intVars, routerVars, budgetVars>>

(* The response files with seq k added. *)
WithResponse(k) ==
  [j \in DOMAIN responses \cup {k} |-> IF j = k THEN loc.turn ELSE responses[j]]

(* Mutant: response files are numbered from the next seq. *)
AheadWriteResponse ==
  /\ pc = "respond"
  /\ responses' = WithResponse(Len(wal) + 1)
  /\ outputs' = [outputs EXCEPT ![node] = IF loc.turn.taint THEN "tainted" ELSE "clean"]
  /\ Goto("settle")
  /\ UNCHANGED <<attempts, routedIn, concerns, state, log, wal, walState, engineVars,
                 intVars, routerVars, budgetVars>>

(* persist_commit's response file, in one step (a crash inside fs::write   *)
(* leaves a torn file, which a fork refuses to read); then the output      *)
(* becomes the successors' input source.                                   *)
WriteResponse ==
  /\ pc = "respond"
  /\ responses' = WithResponse(Len(wal))
  /\ outputs' = [outputs EXCEPT ![node] = IF loc.turn.taint THEN "tainted" ELSE "clean"]
  /\ Goto("settle")
  /\ UNCHANGED <<attempts, routedIn, concerns, state, log, wal, walState, engineVars,
                 intVars, routerVars, budgetVars>>

(* Mutant: the post-commit verdict is dropped like the one of the turn. *)
DroppedSettle ==
  /\ pc = "settle"
  /\ Meter(Role[node], 0)
  /\ UNCHANGED <<attempts, routedIn, outputs, state, engineVars, diskVars, intVars, routerVars>>
  /\ concerns' = IF loc.retried THEN concerns + 1 ELSE concerns
  /\ StopWith("done", NoEnd)

(* The post-commit budget check, a zero-token ledger row: a suspend        *)
(* verdict ends the session, a warn verdict is dropped.                    *)
Settle ==
  /\ pc = "settle"
  /\ Meter(Role[node], 0)
  /\ UNCHANGED <<attempts, routedIn, outputs, state, engineVars, diskVars, intVars, routerVars>>
  /\ \/ /\ MeterVerdict(Role[node], 0) = "exceeded"
        /\ Goto("suspend")
        /\ UNCHANGED concerns
     \/ /\ MeterVerdict(Role[node], 0) # "exceeded"
        /\ concerns' = IF loc.retried THEN concerns + 1 ELSE concerns
        /\ StopWith("done", NoEnd)

(* Mutant: only an escalation leaves the wave loop, a rejection goes on. *)
LenientStopNode ==
  /\ pc = "stop"
  /\ Emit("node.stop", loc.stop)
  /\ IF loc.stop # "escalate"
     THEN pc' = "node" /\ idx' = idx + 1 /\ UNCHANGED <<wave, loc, end>>
     ELSE Goto("finish")
  /\ TraceOnly

(* stop_node, and the wave loop's reaction to how the boundary ended. *)
StopNode ==
  /\ pc = "stop"
  /\ Emit("node.stop", loc.stop)
  /\ IF end = NoEnd
     THEN pc' = "node" /\ idx' = idx + 1 /\ UNCHANGED <<wave, loc, end>>
     ELSE Goto("finish")
  /\ TraceOnly

-----------------------------------------------------------------------------

(* Tail of Runner::run: the final state, then session.close. *)
Finish ==
  /\ pc = "finish"
  /\ state' = end.state
  /\ walState' = end.state
  /\ Goto("close")
  /\ UNCHANGED <<attempts, routedIn, outputs, concerns, log, wal, responses, engineVars,
                 intVars, routerVars, budgetVars>>

CloseSession ==
  /\ pc = "close"
  /\ EmitSession("session.close", state)
  /\ Goto("done")
  /\ TraceOnly

(* The SIGINT handler stores the flag, at any moment of the run. *)
Interrupt ==
  /\ MayInterrupt
  /\ pc \notin OpenPCs \cup {"done", "dead"}
  /\ ~interrupt
  /\ interrupt' = TRUE
  /\ interruptAt' = Len(log)
  /\ UNCHANGED <<ctlVars, engineVars, memVars, diskVars, routerVars, budgetVars>>

(* The process dies between two writes; an I/O error that run returns, or  *)
(* a panic, leaves the same durable state.                                 *)
Crash ==
  /\ MayCrash
  /\ pc \notin {"done", "dead"}
  /\ Goto("dead")
  /\ ControlOnly

RunnerStep ==
  \/ OpenSession \/ EmitSessionOpen \/ EmitPlanCompiled \/ Activate
  \/ NextWave \/ NextNode \/ StartNode \/ PreGate \/ EmitSuspend
  \/ BeginAttempt \/ ExecuteCached \/ ExecuteLive \/ ExecuteFails \/ CacheViolation
  \/ EmitLlmCall \/ MeterTurn \/ EmitWarn \/ PostGate \/ Escalate
  \/ RequestHandoff \/ DecideHandoff \/ CommitPoint \/ WriteResponse \/ Settle
  \/ StopNode \/ Finish \/ CloseSession

Next == RunnerStep \/ Interrupt \/ Crash

Spec == Init /\ [][Next]_vars

(* The runner is one thread that never waits for another: it keeps taking  *)
(* steps as long as the process lives (the executor call is assumed to     *)
(* return).  Nothing forces a signal or a crash.                           *)
FairSpec == Spec /\ WF_vars(RunnerStep)

-----------------------------------------------------------------------------

(* Reading the trace and the rows. *)

At(kind, n) == {i \in 1..Len(log) : log[i].kind = kind /\ log[i].node = n}

Committed == {wal[k].node : k \in 1..Len(wal)}

CommittedBefore(k) == {wal[j].node : j \in 1..(k - 1)}

(* The trace t as a bill to the nodes N: the events of others are free. *)
Share(t, N) ==
  [k \in 1..Len(t) |-> IF t[k].node \in N THEN t[k] ELSE [t[k] EXCEPT !.tok = 0]]

(* The tokens of the nodes N in the trace t. *)
TraceSpend(t, N) ==
  LET bill == Share(t, N)
      sum[k \in 0..Len(bill)] == IF k = 0 THEN 0 ELSE sum[k - 1] + bill[k].tok
  IN  sum[Len(bill)]

(* The ledger and the totals of every scope are those of the trace t. *)
Booked(t) ==
  /\ TraceSpend(t, Nodes) = sessionSpent
  /\ TraceSpend(t, Nodes) = teamSpent
  /\ \A r \in Roles : TraceSpend(t, {n \in Nodes : Role[n] = r}) = agentSpent[r]

-----------------------------------------------------------------------------

TypeOK ==
  /\ pc \in PCs
  /\ wave \in 1..(Len(Waves) + 1) /\ idx \in Nat \ {0}
  /\ loc \in Locals
  /\ end \in [state : TerminalStates \cup {"none"}, reason : Reasons]
  /\ cursor \in 1..(Len(Waves) + 1) /\ wavePos \in Nat
  /\ attempts \in [Nodes -> Nat]
  /\ routedIn \in [Nodes -> Nodes \cup {"none"}]
  /\ outputs \in [Nodes -> {"none", "clean", "tainted"}]
  /\ concerns \in Nat
  /\ state \in {"INIT", "RUNNING"} \cup TerminalStates
  /\ log \in Seq(LoggedEvent)
  /\ walState \in {"NONE", "INIT", "RUNNING"} \cup TerminalStates
  /\ wal \in Seq(CheckpointRow)
  /\ responses \in [DOMAIN responses -> Turn] /\ DOMAIN responses \subseteq Nat
  /\ interrupt \in BOOLEAN /\ interruptAt \in Nat
  /\ RouterTypeOK
  /\ BudgetTypeOK

(* The wave loop and the engine agree on whose turn it is: the assertion   *)
(* of DeterministicEngine::commit ("commit order violation") never fires,  *)
(* and no commit runs past the last wave.                                  *)
EngineInStep ==
  pc = "route" => cursor <= Len(Waves) /\ wavePos < Len(Waves[cursor])
                    /\ Waves[cursor][wavePos + 1] = node

(* The checkpoint rows are a prefix of the wave order, whatever was        *)
(* retried, interrupted or lost in a crash: row k holds the node that has  *)
(* exactly the nodes of the earlier rows before it.                        *)
CommitOrder ==
  \A k \in 1..Len(wal) : CommittedBefore(k) = Before(wal[k].node)

(* Every row is backed by the trace, in the durable order "event append    *)
(* EARLIER than commit": all pre-gates passed between node.start and the   *)
(* last llm.call of its node, and after that call all post-gates passed,   *)
(* every successor accepted and nothing failed.                            *)
CommitBacked ==
  \A k \in 1..Len(wal) :
    LET n == wal[k].node
        calls == At("llm.call", n)
        last == CHOOSE i \in calls : \A j \in calls : j <= i
        passed(S) == {log[i].at : i \in At("gate.pass", n) \cap S}
    IN  /\ calls # {}
        /\ Members(PreGates[n]) \subseteq passed(1..last)
        /\ Members(PostGates[n]) \subseteq passed(last..Len(log))
        /\ {log[i].at : i \in At("handoff.accept", n) \cap (last..Len(log))} = Members(Succs[n])
        /\ At("gate.fail", n) \cap (last..Len(log)) = {}

(* A crash loses at most the response file of the newest row, and no       *)
(* response exists without its row: a fork never replays an uncommitted    *)
(* turn.                                                                   *)
ResponseWindow == DOMAIN responses \in {1..Len(wal), 1..(Len(wal) - 1)}

(* The trace tells the truth about the budget.  Ledger sums equal event    *)
(* sums (US-20 AC3), and so do the in-memory totals of the team and of     *)
(* every role, the three sums each threshold is judged by: they are those  *)
(* of the trace, or of the trace without its newest event when that is an  *)
(* llm.call not metered yet.  A refused turn (cache violation, executor    *)
(* failure) leaves neither, a repeated one both.  And there are no more    *)
(* warnings than scopes that fired, though the runner evaluates twice per  *)
(* boundary.                                                               *)
LedgerMatchesTrace ==
  LET warns == {i \in At("budget.event", "session") : log[i].at = "warn"}
  IN  /\ \/ Booked(log)
         \/ /\ log # <<>> /\ log[Len(log)].kind = "llm.call"
            /\ Booked(SubSeq(log, 1, Len(log) - 1))
      /\ Cardinality(warns) <= Cardinality(warnFired)

(* The first llm.call of a boundary never runs with a scope at its suspend *)
(* line: the budget pre-gate still holds when the executor is reached,     *)
(* through failed executions and retries (SS-15 rule 4).                   *)
FirstCallPreBlocked ==
  pc \in {"exec", "call"} /\ At("llm.call", node) = {} => ~SuspendReached(Role[node])

(* A boundary that commits over a line is the last: when a node starts,    *)
(* the role that committed last is under all its suspend lines, the        *)
(* session's and the team's included.                                      *)
NoStartOverBudget ==
  pc = "start" /\ wal # <<>> => ~SuspendReached(Role[wal[Len(wal)].node])

(* Retries are bounded by the two counters together: the runner's own      *)
(* budget, plus at most as many grants of the router, and every execution  *)
(* that reached the trace was counted.                                     *)
AttemptBound ==
  \A n \in Nodes :
    /\ attempts[n] <= BoundedRetry + retries[n]
    /\ attempts[n] <= 2 * BoundedRetry
    /\ Cardinality(At("llm.call", n)) <= attempts[n] + 1

(* Handoffs survive the retries of their sender: an edge of a compiled     *)
(* plan is accepted at most once and never trips the recurrence guard, and *)
(* a row stores the contract of the predecessor that committed last, none  *)
(* exactly for a root (routed_in: "stored with that node's checkpoint").   *)
RoutedOnce ==
  /\ halted # "REPETITIVE_HANDOFF"
  /\ \A n \in Nodes : \A i, j \in At("handoff.accept", n) : log[i].at = log[j].at => i = j
  /\ \A k \in 1..Len(wal) :
       LET n == wal[k].node IN
       IF Preds(n) = {} THEN wal[k].from = "none"
       ELSE wal[k].from \in Preds(n) /\ Preds(n) \ {wal[k].from} \subseteq Before(wal[k].from)

(* Contamination cannot be laundered (S5): a committed output is tainted   *)
(* when any committed predecessor's output is.                             *)
TaintFlows ==
  \A j, k \in 1..Len(wal) :
    wal[j].node \in Preds(wal[k].node) /\ wal[j].taint => wal[k].taint

(* A fork reproduces its origin: every commit in the replay window for     *)
(* which the origin kept a response has that very turn, whatever the live  *)
(* executor would have answered, and its response file says so again.      *)
ReplayedPrefix ==
  \A k \in DOMAIN responses :
    k <= ForkAt /\ k \in DOMAIN OriginTurns =>
      responses[k] = OriginTurns[k] /\ wal[k].taint = OriginTurns[k].taint

(* Boundaries are bracketed: node.start and node.stop fire once per node,  *)
(* however often it retried; no other node's event falls inside; a stop    *)
(* other than "done" is followed by session.close only; "done" means a row *)
(* was committed and "reject" that none was.                               *)
NodeBrackets ==
  \A n \in Nodes :
    LET starts == At("node.start", n)
        stops == At("node.stop", n)
    IN  /\ Cardinality(starts) <= 1
        /\ \A i \in stops : \A j \in (i + 1)..Len(log) :
             /\ log[j].node # n
             /\ log[i].at # "done" => log[j].kind = "session.close"
        /\ \A i \in starts : \A j \in (i + 1)..Len(log) :
             log[j].node \in Nodes \ {n} => \E k \in stops : i < k /\ k < j
        /\ \A i \in stops :
             /\ log[i].at = "done" => n \in Committed
             /\ log[i].at = "reject" => n \notin Committed

(* COMPLETED is never written early or wrongly: every node is committed    *)
(* and cached, the concerns are exactly the boundaries that retried, and   *)
(* session.close repeats the state the row already has.                    *)
CompletedMeansAll ==
  /\ walState = "COMPLETED" =>
       /\ Committed = Nodes /\ DOMAIN responses = 1..Cardinality(Nodes)
       /\ concerns = Cardinality({n \in Nodes : attempts[n] > 0})
  /\ \A i \in At("session.close", "session") : log[i].at = walState /\ i = Len(log)

(* After SIGINT at most one more boundary starts or one more model call is *)
(* made, not both: "the next check suspends the session".                  *)
InterruptStops ==
  interrupt => Cardinality({i \in (interruptAt + 1)..Len(log) :
                              log[i].kind \in {"node.start", "llm.call"}}) <= 1

(* Every session ends: it closes, or its process died.  Retries, reruns of *)
(* gates and routing cannot go on for ever.                                *)
Terminates == <>(pc \in {"done", "dead"})

Promise == INSTANCE SessionSpec WITH st <- walState, done <- Committed, Edges <- PlanEdges

(* The runner keeps the session's promise to the readers of its store: its *)
(* checkpoint.db only ever takes steps of SessionSpec, through retries,    *)
(* suspensions, interrupts and crashes.                                    *)
KeepsPromise == Promise!Spec

=============================================================================
