------------------------------ MODULE PyBridge ------------------------------
(***************************************************************************)
(* The Python bindings: the native module _ffi (hesmos-ffi: lib.rs,        *)
(* composition.rs, callbacks.rs), which opens and runs sessions for Python *)
(* and calls back into it, and the package's Session, provider, tool and   *)
(* judge wrappers (bindings/python/hesmos).                                *)
(*                                                                         *)
(* The native code holds the GIL, so it is atomic from one callback to the *)
(* next: gil names the session whose native code runs.  Inside a callback  *)
(* the GIL is free, and any Python code may run: it may register or clear  *)
(* callbacks, open, run or close other sessions, or call the session that  *)
(* is waiting for the callback (which its borrowed handle refuses).        *)
(*                                                                         *)
(* The runner under the bridge is SessionRunner; here it is reduced to the *)
(* order in which it uses the bridge: pre-gates, execution, llm.call and   *)
(* meter, post-gates, commit.                                              *)
(***************************************************************************)
EXTENDS Integers, Sequences, FiniteSets

CONSTANTS
  Sessions,      \* hesmos.Session objects
  Plan,          \* per session: the nodes of its plan in commit order
  PlanTask,      \* the task field of the plan
  TaskArgs,      \* task arguments Python passes to run
  Tools,         \* tool names
  Judges,        \* judge registrations (prompt_hash, temperature, model_version)
  BudgetSpecs,   \* per session: the budgets Python may open it with
  NoBudget,      \* no budget argument: unbounded
  BoundedRetry,  \* policy: attempts after the first
  Responses,     \* per node: HTTP responses the GLM adapter may receive
  ToolReplies,   \* what a tool callback may return
  JudgeReplies,  \* per node: what the judge's model may answer
  Verdicts,      \* per node: what each of its post-gates may say
  MaxJudges      \* bound: judge registrations and clears

VARIABLES
  providers,   \* Registry.providers: is the model of the plans registered?
  tools,       \* Registry.tools and external_tools
  judge,       \* Registry.judges["default"]
  judgeOps,    \* registrations and clears of the judge so far
  gil,         \* the session whose native code holds the GIL
  inner,       \* Inner of each native handle
  pc,          \* where the native call on a handle stands
  turn,        \* locals of the runner and of PyBridgeExecutor
  judged,      \* JudgeLedger of each session
  trace,       \* events.jsonl of each session
  rows,        \* checkpoint rows of each session
  row,         \* state of the sessions row
  ledger,      \* token total of the session's ledger
  reported     \* history: tokens reported by callbacks that returned well

registryVars == <<providers, tools, judge, judgeOps>>
diskVars == <<trace, rows, row, ledger>>
vars == <<registryVars, gil, inner, pc, turn, judged, diskVars, reported>>

Nodes == UNION {{Plan[s][i] : i \in 1..Len(Plan[s])} : s \in Sessions}
Texts == {"blank", "t", "u"}
NoTask == "absent"

ASSUME BridgeAssumption ==
  /\ "free" \notin Sessions /\ "none" \notin Judges \cup Nodes
  /\ PlanTask \in Texts \cup {NoTask} /\ TaskArgs \subseteq Texts \cup {NoTask}
  /\ \A s \in Sessions : BudgetSpecs[s] \subseteq Int \cup {NoBudget}
  /\ \A s \in Sessions : /\ Plan[s] \in Seq(Nodes)
                         /\ \A i, j \in 1..Len(Plan[s]) : Plan[s][i] = Plan[s][j] => i = j
  /\ \A n \in Nodes : Responses[n] \subseteq [status : Nat, body : STRING, input : Nat, output : Nat,
                                            cacheRead : Nat, cacheWrite : Nat, calls : Seq(Tools)]
  /\ BoundedRetry \in Nat /\ MaxJudges \in Nat
  /\ \A n \in Nodes : Verdicts[n] \in Seq(SUBSET {"pass", "retry", "reject"}) /\ Verdicts[n] # <<>>
  /\ ToolReplies \subseteq {"raised", "unmarked", "Clean", "Tainted"}
  /\ \A n \in Nodes : JudgeReplies[n] \subseteq [verdict : {"PASS", "CONCERNS", "FAIL", "unclear"}, tok : Nat]

NoJudgment == [judge |-> "none", att |-> 0]
NoTurn == [i |-> 1, att |-> 0, calls |-> <<>>, dispatched |-> 0, tok |-> 0, tainted |-> FALSE,
           judged |-> FALSE, gate |-> 1, end |-> "none"]
Unopened == [open |-> FALSE, task |-> NoTask, cap |-> NoBudget, judge |-> "none",
             runner |-> FALSE, final |-> "none", closed |-> FALSE]

(* A trace event.  at is the tool, a gate number or a final state; att, and *)
(* the fields judged and calls of an llm.call, are history.                 *)
Event(kind, node, at, ok, tok, att) ==
  [kind |-> kind, node |-> node, at |-> at, ok |-> ok, tok |-> tok, att |-> att,
   judge |-> NoJudgment, calls |-> 0, judged |-> FALSE]

Emit(s, e) == trace' = [trace EXCEPT ![s] = Append(@, e)]

node(s) == Plan[s][turn[s].i]

-----------------------------------------------------------------------------
(* The boundary: what Python values become. *)

(* merge_task: the goal of the session, or "FFI-SCHEMA".  Two spellings that *)
(* agree up to blanks are one text here.                                     *)
MergeTask(planTask, arg) ==
  IF planTask # NoTask /\ arg # NoTask
  THEN IF planTask = arg THEN arg ELSE "FFI-SCHEMA"
  ELSE LET given == IF planTask # NoTask THEN planTask ELSE arg
       IN  IF given \in {NoTask, "blank"} THEN "FFI-SCHEMA" ELSE given

(* validate_budget_spec: {tokens: int >= 0}, or no budget at all. *)
ValidBudget(spec) == spec # NoBudget => spec >= 0

(* GlmAdapter.__call__: one POST; an HTTP error, a body that is no JSON, a    *)
(* wrapped gateway error and missing usage all raise.  The billed input is   *)
(* the uncached, the cache-read and the cache-written part together.         *)
GlmCall(r) ==
  IF r.status # 200 \/ r.body \in {"not json", "gateway error", "no usage"}
  THEN [raised |-> TRUE, tokens |-> FALSE, tok |-> 0, calls |-> <<>>]
  ELSE [raised |-> FALSE, tokens |-> r.body # "bare", calls |-> r.calls,
        tok |-> r.input + r.cacheRead + r.cacheWrite + r.output]

(* validate_reply_shape: a reply without its token counts ("bare": a         *)
(* provider that is not the adapter) is refused, never counted as zero.      *)
ValidReply(reply) == ~reply.raised /\ reply.tokens

(* parse_verdict in make_bridge's bridge: a reply that opens with no verdict *)
(* raises.                                                                   *)
JudgeBridge(r) == [raised |-> r.verdict = "unclear", tok |-> r.tok]

(* run_judge: the tokens of a judge that raised never cross the boundary. *)
RunJudge(r) ==
  LET reply == JudgeBridge(r) IN
  [ok |-> ~reply.raised, tok |-> IF reply.raised THEN 0 ELSE reply.tok]

(* The wrapper of Session.tool: the ToolResult mirror requires the mark, so  *)
(* an unmarked result raises at Python's edge.                               *)
ToolBridge(reply) == IF reply = "unmarked" THEN "raised" ELSE reply

(* validate_tool_result: an object with a call id, a content and a mark. *)
ValidToolResult(result) == result \in {"Clean", "Tainted"}

(* lookup_tool and is_external_tool. *)
LookupTool(t) == tools[t] # "none"
IsExternalTool(t) == tools[t] = "external"

(* external_import_verdict: an external import has to be marked. *)
ImportMarked(external, taint) == external => taint = "Tainted"

(* dispatch_one after the callback. *)
Accepts(t, reply) ==
  LET result == ToolBridge(reply) IN
  ValidToolResult(result) /\ ImportMarked(IsExternalTool(t), result)

(* tainted_origin of an accepted result. *)
TaintedOrigin(reply) == reply = "Tainted"

-----------------------------------------------------------------------------
(* The registry, which all sessions share. *)

(* Mutant: registering a tool again replaces it. *)
ReplacingRegisterTool(t, kind) ==
  /\ gil = "free"
  /\ tools' = [tools EXCEPT ![t] = kind]
  /\ UNCHANGED <<providers, judge, judgeOps, gil, inner, pc, turn, judged, diskVars,
                 reported>>

(* register_tool, with its externalness; a duplicate is FFI-CONTRACT. *)
RegisterTool(t, kind) ==
  /\ gil = "free" /\ tools[t] = "none"
  /\ tools' = [tools EXCEPT ![t] = kind]
  /\ UNCHANGED <<providers, judge, judgeOps, gil, inner, pc, turn, judged, diskVars,
                 reported>>

RegisterProvider ==
  /\ gil = "free" /\ ~providers
  /\ providers' = TRUE
  /\ UNCHANGED <<tools, judge, judgeOps, gil, inner, pc, turn, judged, diskVars,
                 reported>>

(* register_judge replaces. *)
RegisterJudge(j) ==
  /\ gil = "free" /\ judgeOps < MaxJudges
  /\ judge' = j
  /\ judgeOps' = judgeOps + 1
  /\ UNCHANGED <<providers, tools, gil, inner, pc, turn, judged, diskVars, reported>>

ClearJudge ==
  /\ gil = "free" /\ judgeOps < MaxJudges /\ judge # "none"
  /\ judge' = "none"
  /\ judgeOps' = judgeOps + 1
  /\ UNCHANGED <<providers, tools, gil, inner, pc, turn, judged, diskVars, reported>>

(* lookup_judge. *)
LookupJudge == judge

-----------------------------------------------------------------------------
(* Opening. *)

(* Session.run's deferred open.  Every refusal (budget schema, task, compile *)
(* probe, model mix, policy) comes before the session directory exists and   *)
(* changes nothing; a blank goal is CE-05.  Then the judge is snapshotted,   *)
(* the runner opens the session and its row turns RUNNING.                   *)
SessionOpen(s, arg, spec) ==
  /\ gil = "free" /\ ~inner[s].open /\ ~inner[s].closed
  /\ ValidBudget(spec)
  /\ MergeTask(PlanTask, arg) \notin {"FFI-SCHEMA", "blank"}
  /\ inner' = [inner EXCEPT ![s] = [@ EXCEPT !.open = TRUE, !.runner = TRUE,
                                             !.judge = LookupJudge, !.cap = spec,
                                             !.task = MergeTask(PlanTask, arg)]]
  /\ row' = [row EXCEPT ![s] = "RUNNING"]
  /\ trace' = [trace EXCEPT ![s] = <<Event("session.open", "none", "", TRUE, 0, 0),
                                     Event("plan.compiled", "none", "", TRUE, 0, 0)>>]
  /\ UNCHANGED <<registryVars, gil, pc, turn, judged, rows, ledger, reported>>

(* borrow_handle: a handle is borrowed for as long as a call on it runs,     *)
(* callbacks included.                                                       *)
Borrowed(s) == pc[s] # "idle"

(* session_run, past its checks: not closed, never run, and the task the     *)
(* session was opened with (the plan is compared the same way).              *)
SessionRun(s, arg) ==
  /\ gil = "free" /\ ~Borrowed(s)
  /\ inner[s].open /\ ~inner[s].closed /\ inner[s].runner
  /\ MergeTask(PlanTask, arg) = inner[s].task
  /\ gil' = s
  /\ inner' = [inner EXCEPT ![s].runner = FALSE]
  /\ pc' = [pc EXCEPT ![s] = "node"]
  /\ turn' = [turn EXCEPT ![s] = NoTurn]
  /\ UNCHANGED <<registryVars, judged, diskVars, reported>>

(* Mutant: close does not ask whether the handle is borrowed. *)
UnborrowedSessionClose(s) ==
  /\ gil = "free" /\ ~inner[s].closed
  /\ inner' = [inner EXCEPT ![s] = [@ EXCEPT !.closed = TRUE, !.runner = FALSE]]
  /\ UNCHANGED <<registryVars, gil, pc, turn, judged, diskVars, reported>>

(* session_close, behind Session.close: idempotent, and terminal.            *)
SessionClose(s) ==
  /\ gil = "free" /\ ~Borrowed(s) /\ ~inner[s].closed
  /\ inner' = [inner EXCEPT ![s] = [@ EXCEPT !.closed = TRUE, !.runner = FALSE]]
  /\ UNCHANGED <<registryVars, gil, pc, turn, judged, diskVars, reported>>

-----------------------------------------------------------------------------
(* Running: the steps of the native code of s, from callback to callback. *)

Native(s, p) == gil = s /\ pc[s] = p

(* A call into Python: the GIL is free until the callback returns. *)
CallOut(s, p) == pc' = [pc EXCEPT ![s] = p] /\ gil' = "free"

(* A callback of s returns to native code at p. *)
Return(s, p) == gil = "free" /\ gil' = s /\ pc' = [pc EXCEPT ![s] = p]

Stay(s, p) == pc' = [pc EXCEPT ![s] = p] /\ UNCHANGED gil

Finishing(s, state) ==
  turn' = [turn EXCEPT ![s].end = state] /\ Stay(s, "finish")

OverCap(s) == inner[s].cap # NoBudget /\ ledger[s] >= inner[s].cap

(* The next boundary: node.start and the pre-gates, which pass, reject, or   *)
(* suspend under a budget of zero (any other that is reached has suspended   *)
(* the session at the commit before); no node left completes the session.    *)
NextNode(s) ==
  /\ Native(s, "node")
  /\ \/ turn[s].i > Len(Plan[s]) /\ Finishing(s, "COMPLETED") /\ UNCHANGED trace
     \/ /\ turn[s].i <= Len(Plan[s])
        /\ Emit(s, Event("node.start", node(s), "", TRUE, 0, 0))
        /\ \/ Finishing(s, "FAILED")
           \/ OverCap(s) /\ Finishing(s, "SUSPENDED")
           \/ ~OverCap(s) /\ Stay(s, "exec") /\ UNCHANGED turn
  /\ UNCHANGED <<registryVars, inner, judged, rows, row, ledger, reported>>

NewAttempt(s) == turn' = [turn EXCEPT ![s] = [NoTurn EXCEPT !.i = turn[s].i, !.att = turn[s].att + 1]]

(* A failed execution: bounded retry, then HALTED (PROVIDER_FAILURE).        *)
Failure(s) ==
  IF turn[s].att < BoundedRetry
  THEN NewAttempt(s) /\ pc' = [pc EXCEPT ![s] = "exec"]
  ELSE turn' = [turn EXCEPT ![s].end = "HALTED"] /\ pc' = [pc EXCEPT ![s] = "finish"]

(* execute_attached: the provider is looked up at every call. *)
CallProvider(s) ==
  /\ Native(s, "exec")
  /\ \/ providers /\ CallOut(s, "provider") /\ UNCHANGED turn
     \/ ~providers /\ Failure(s) /\ UNCHANGED gil
  /\ UNCHANGED <<registryVars, inner, judged, diskVars, reported>>

(* The provider callback returns; a reply that is refused is a failed turn. *)
ProviderReturns(s) ==
  /\ pc[s] = "provider" /\ gil = "free" /\ gil' = s
  /\ \E r \in Responses[node(s)] :
       LET reply == GlmCall(r) IN
       \/ /\ ValidReply(reply)
          /\ turn' = [turn EXCEPT ![s] = [@ EXCEPT !.tok = reply.tok, !.calls = reply.calls,
                                                   !.dispatched = Len(reply.calls)]]
          /\ pc' = [pc EXCEPT ![s] = "dispatch"]
          /\ reported' = [reported EXCEPT ![s] = @ + reply.tok]
       \/ ~ValidReply(reply) /\ Failure(s) /\ UNCHANGED reported
  /\ UNCHANGED <<registryVars, inner, judged, diskVars>>

(* tool.call, whatever became of the call. *)
ToolCall(s, ok) ==
  Emit(s, Event("tool.call", node(s), Head(turn[s].calls), ok, 0, turn[s].att))

(* Mutant: a call to a tool nobody registered leaves no event. *)
SilentDispatch(s) ==
  /\ Native(s, "dispatch")
  /\ \/ /\ turn[s].calls # <<>> /\ ~LookupTool(Head(turn[s].calls))
        /\ turn' = [turn EXCEPT ![s].calls = Tail(@)]
        /\ UNCHANGED <<pc, gil, trace>>
     \/ /\ turn[s].calls # <<>> /\ LookupTool(Head(turn[s].calls))
        /\ CallOut(s, "tool") /\ UNCHANGED <<trace, turn>>
     \/ turn[s].calls = <<>> /\ inner[s].judge # "none" /\ CallOut(s, "judge") /\ UNCHANGED <<trace, turn>>
     \/ turn[s].calls = <<>> /\ inner[s].judge = "none" /\ Stay(s, "report") /\ UNCHANGED <<trace, turn>>
  /\ UNCHANGED <<registryVars, inner, judged, rows, row, ledger, reported>>

(* dispatch_tools: one call after the other; an unregistered tool is a       *)
(* recorded rejection.  Then the session's own judge, if it has one.         *)
Dispatch(s) ==
  /\ Native(s, "dispatch")
  /\ \/ /\ turn[s].calls # <<>> /\ ~LookupTool(Head(turn[s].calls))
        /\ ToolCall(s, FALSE)
        /\ turn' = [turn EXCEPT ![s].calls = Tail(@)]
        /\ UNCHANGED <<pc, gil>>
     \/ /\ turn[s].calls # <<>> /\ LookupTool(Head(turn[s].calls))
        /\ CallOut(s, "tool") /\ UNCHANGED <<trace, turn>>
     \/ turn[s].calls = <<>> /\ inner[s].judge # "none" /\ CallOut(s, "judge") /\ UNCHANGED <<trace, turn>>
     \/ turn[s].calls = <<>> /\ inner[s].judge = "none" /\ Stay(s, "report") /\ UNCHANGED <<trace, turn>>
  /\ UNCHANGED <<registryVars, inner, judged, rows, row, ledger, reported>>

(* A tool callback returns: the result is accepted or refused, and an        *)
(* accepted tainted one marks the output.                                    *)
ToolReturns(s) ==
  /\ pc[s] = "tool" /\ Return(s, "dispatch")
  /\ \E reply \in ToolReplies :
       LET ok == Accepts(Head(turn[s].calls), reply) IN
       /\ ToolCall(s, ok)
       /\ turn' = [turn EXCEPT ![s].calls = Tail(@),
                               ![s].tainted = @ \/ (ok /\ TaintedOrigin(reply))]
  /\ UNCHANGED <<registryVars, inner, judged, rows, row, ledger, reported>>

(* Mutant: the judge is the one registered when it answers. *)
LeakingRecord(s) == [judge |-> judge, att |-> turn[s].att]

(* JudgeLedger::record, under the node: the registration's metadata. *)
Record(s) == [judge |-> inner[s].judge, att |-> turn[s].att]

(* The judge returns: its tokens join the turn's and its metadata goes to    *)
(* the ledger; a judge that raises leaves the ledger as it was.              *)
JudgeReturns(s) ==
  /\ pc[s] = "judge" /\ Return(s, "report")
  /\ \E r \in JudgeReplies[node(s)] :
       LET reply == RunJudge(r) IN
       \/ /\ reply.ok
          /\ judged' = [judged EXCEPT ![s][node(s)] = Record(s)]
          /\ turn' = [turn EXCEPT ![s].judged = TRUE, ![s].tok = @ + reply.tok]
          /\ reported' = [reported EXCEPT ![s] = @ + reply.tok]
       \/ ~reply.ok /\ UNCHANGED <<judged, turn, reported>>
  /\ UNCHANGED <<registryVars, inner, diskVars>>

(* The report back in the runner: llm.call, then the meter.  The prompt hash *)
(* it carries is the one frozen at open, so the cache sentinel is content.   *)
Report(s) ==
  /\ Native(s, "report") /\ Stay(s, "post")
  /\ Emit(s, [Event("llm.call", node(s), "", TRUE, turn[s].tok, turn[s].att)
                EXCEPT !.calls = turn[s].dispatched, !.judged = turn[s].judged])
  /\ ledger' = [ledger EXCEPT ![s] = @ + turn[s].tok]
  /\ UNCHANGED <<registryVars, inner, turn, judged, rows, row, reported>>

(* JudgeLedger::attrs_for: cloned, not removed. *)
AttrsFor(s, n) == judged[s][n]

(* A gate event of run_gate: post-gates carry the node's judge attributes. *)
GateEvent(s, ok) ==
  [Event(IF ok THEN "gate.pass" ELSE "gate.fail", node(s), turn[s].gate, ok, 0, turn[s].att)
     EXCEPT !.judge = AttrsFor(s, node(s))]

(* One post-gate: pass; retry, which when the bound is reached runs the gate *)
(* once more and fails the session; or reject.                               *)
PostGate(s) ==
  /\ Native(s, "post")
  /\ \E v \in Verdicts[node(s)][turn[s].gate] :
       \/ /\ v = "pass"
          /\ Emit(s, GateEvent(s, TRUE))
          /\ turn' = [turn EXCEPT ![s].gate = @ + 1]
          /\ Stay(s, IF turn[s].gate = Len(Verdicts[node(s)]) THEN "commit" ELSE "post")
       \/ /\ v = "retry" /\ turn[s].att < BoundedRetry
          /\ Emit(s, GateEvent(s, FALSE))
          /\ NewAttempt(s) /\ Stay(s, "exec")
       \/ /\ v = "retry" /\ turn[s].att = BoundedRetry
          /\ trace' = [trace EXCEPT ![s] = @ \o <<GateEvent(s, FALSE), GateEvent(s, FALSE)>>]
          /\ Finishing(s, "FAILED")
       \/ /\ v = "reject"
          /\ Emit(s, GateEvent(s, FALSE))
          /\ Finishing(s, "FAILED")
  /\ UNCHANGED <<registryVars, inner, judged, rows, row, ledger, reported>>

(* Taint of the outputs a node reads: all earlier ones of the chain. *)
InputTainted(s) == \E k \in 1..Len(rows[s]) : rows[s][k].tainted

(* The checkpoint row, with the output's taint, and the post-commit budget   *)
(* check.                                                                    *)
Commit(s) ==
  /\ Native(s, "commit")
  /\ rows' = [rows EXCEPT ![s] = Append(@, [node |-> node(s), att |-> turn[s].att,
                                            tainted |-> InputTainted(s) \/ turn[s].tainted])]
  /\ IF OverCap(s) THEN Finishing(s, "SUSPENDED")
     ELSE turn' = [turn EXCEPT ![s] = [NoTurn EXCEPT !.i = turn[s].i + 1]] /\ Stay(s, "node")
  /\ UNCHANGED <<registryVars, inner, judged, trace, row, ledger, reported>>

(* Runner::run fails on the store: session_run raises, and the runner, which *)
(* it consumed, is gone.                                                     *)
RunError(s) ==
  /\ gil = s /\ pc[s] \in {"commit", "finish"}
  /\ gil' = "free" /\ pc' = [pc EXCEPT ![s] = "idle"]
  /\ UNCHANGED <<registryVars, inner, turn, judged, diskVars, reported>>

(* Tail of Runner::run; only a completed session goes on to its seal. *)
Finish(s) ==
  /\ Native(s, "finish")
  /\ row' = [row EXCEPT ![s] = turn[s].end]
  /\ Emit(s, Event("session.close", "none", turn[s].end, TRUE, 0, 0))
  /\ Stay(s, IF turn[s].end = "COMPLETED" THEN "seal" ELSE "return")
  /\ UNCHANGED <<registryVars, inner, turn, judged, rows, ledger, reported>>

(* seal_completed: sealed (an audit engine that is absent, exit 127, is      *)
(* tolerated), sealed but refused by the audit, or not reopened at all; the  *)
(* last two raise, and the terminal snapshot is never stored.                *)
Seal(s) ==
  /\ Native(s, "seal")
  /\ \/ Emit(s, Event("trace.seal", "none", "", TRUE, 0, 0)) /\ Stay(s, "return")
     \/ /\ \/ Emit(s, Event("trace.seal", "none", "", FALSE, 0, 0))
           \/ UNCHANGED trace
        /\ gil' = "free" /\ pc' = [pc EXCEPT ![s] = "idle"]
  /\ UNCHANGED <<registryVars, inner, turn, judged, rows, row, ledger, reported>>

(* The terminal snapshot and the receipt. *)
Receipt(s) ==
  /\ Native(s, "return")
  /\ inner' = [inner EXCEPT ![s].final = turn[s].end]
  /\ gil' = "free" /\ pc' = [pc EXCEPT ![s] = "idle"]
  /\ UNCHANGED <<registryVars, turn, judged, diskVars, reported>>

-----------------------------------------------------------------------------

Init ==
  /\ providers = FALSE /\ tools = [t \in Tools |-> "none"] /\ judge = "none" /\ judgeOps = 0
  /\ gil = "free"
  /\ inner = [s \in Sessions |-> Unopened]
  /\ pc = [s \in Sessions |-> "idle"]
  /\ turn = [s \in Sessions |-> NoTurn]
  /\ judged = [s \in Sessions |-> [n \in Nodes |-> NoJudgment]]
  /\ trace = [s \in Sessions |-> <<>>]
  /\ rows = [s \in Sessions |-> <<>>]
  /\ row = [s \in Sessions |-> "NONE"]
  /\ ledger = [s \in Sessions |-> 0]
  /\ reported = [s \in Sessions |-> 0]

(* What Python code may do whenever it runs. *)
PythonStep ==
  \/ RegisterProvider
  \/ \E t \in Tools, kind \in {"local", "external"} : RegisterTool(t, kind)
  \/ \E j \in Judges : RegisterJudge(j)
  \/ ClearJudge
  \/ \E s \in Sessions :
       \/ \E arg \in TaskArgs, spec \in BudgetSpecs[s] : SessionOpen(s, arg, spec)
       \/ \E arg \in TaskArgs : SessionRun(s, arg)
       \/ SessionClose(s)

(* The rest of a session_run, callbacks included. *)
RunStep(s) ==
  \/ NextNode(s) \/ CallProvider(s) \/ ProviderReturns(s) \/ Dispatch(s) \/ ToolReturns(s)
  \/ JudgeReturns(s) \/ Report(s) \/ PostGate(s) \/ Commit(s) \/ RunError(s) \/ Finish(s)
  \/ Seal(s) \/ Receipt(s)

Next == PythonStep \/ \E s \in Sessions : RunStep(s)

Spec == Init /\ [][Next]_vars

-----------------------------------------------------------------------------

At(s, kind, n, att) ==
  {i \in 1..Len(trace[s]) : trace[s][i].kind = kind /\ trace[s][i].node = n /\ trace[s][i].att = att}

TraceSpend(s) ==
  LET sum[k \in 0..Len(trace[s])] == IF k = 0 THEN 0 ELSE sum[k - 1] + trace[s][k].tok
  IN  sum[Len(trace[s])]

InTurn(s) == pc[s] \in {"dispatch", "tool", "judge", "report"}

(* The gate events of a node carry the newest completed judgment of that     *)
(* node by the judge that was registered when the session was opened, and    *)
(* none before there is one: no judge registered, replaced or cleared while  *)
(* the session runs leaks into it, and no completed judgment skips a gate    *)
(* (JudgeLedger: "the ONLY path a judgment can take").                       *)
JudgmentRecorded ==
  \A s \in Sessions : \A i \in 1..Len(trace[s]) :
    LET e == trace[s][i]
        calls == {k \in 1..(i - 1) : trace[s][k].node = e.node /\ trace[s][k].judged}
        newest == CHOOSE k \in calls : \A j \in calls : j <= k
    IN  e.kind \in {"gate.pass", "gate.fail"} =>
          e.judge = IF calls = {} THEN NoJudgment
                    ELSE [judge |-> inner[s].judge, att |-> trace[s][newest].att]

(* Every call is accounted for.  Every token a provider or a judge reported  *)
(* is in the ledger and in an llm.call, once (SS-17 rule 3, US-20 AC3), but  *)
(* for those of the turn in flight: retries, refused tools and failing       *)
(* judges lose or double none.  Every tool call of a reply leaves one        *)
(* tool.call, accepted or not, before the llm.call of its attempt, and once  *)
(* its turn is over no tool.call is without that llm.call.                   *)
CallsAccounted ==
  \A s \in Sessions :
    /\ ledger[s] = TraceSpend(s)
    /\ reported[s] = ledger[s] + IF InTurn(s) THEN turn[s].tok ELSE 0
    /\ \A i \in 1..Len(trace[s]) :
         LET e == trace[s][i] IN
         /\ e.kind = "llm.call" =>
              Cardinality({k \in At(s, "tool.call", e.node, e.att) : k < i}) = e.calls
         /\ e.kind = "tool.call" =>
              \/ \E k \in At(s, "llm.call", e.node, e.att) : i < k
              \/ InTurn(s) /\ e.node = node(s) /\ e.att = turn[s].att

(* What an external tool returned into a committed output taints it and all  *)
(* later ones (SS-20 rule 1): a tool cannot shed the externalness it was     *)
(* registered with, nor import a Clean result.                               *)
ExternalTaints ==
  \A s \in Sessions : \A k \in 1..Len(rows[s]) :
    (\E i \in At(s, "tool.call", rows[s][k].node, rows[s][k].att) :
       trace[s][i].ok /\ IsExternalTool(trace[s][i].at))
      => \A j \in k..Len(rows[s]) : rows[s][j].tainted

(* A handle that is closed or used up never writes again: not through a      *)
(* reentrant call from a callback, nor through a second run.                 *)
Spent(s) == inner[s].closed \/ (inner[s].open /\ ~inner[s].runner /\ ~Borrowed(s))

SpentIsFrozen ==
  [][\A s \in Sessions : Spent(s) =>
       <<trace[s], rows[s], row[s], ledger[s]>>' = <<trace[s], rows[s], row[s], ledger[s]>>]_vars

=============================================================================
