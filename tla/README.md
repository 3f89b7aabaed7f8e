# hesmos in TLA+

hesmos runs a *plan*, a graph of agent stages, as one *session*: it compiles the
plan into waves, executes the nodes of each wave one by one through an executor
(a model provider), judges every result with gates, routes handoff contracts to
the successors, commits each node to a checkpoint store, meters tokens against a
budget, and records everything in a hash-chained trace that is sealed and joined
to an external audit at the end. This directory models that core, checks it with
TLC and proves its central properties with TLAPS. Paths below are relative to
`src/`; `PROJECT.json` maps every definition to the lines it stands for.

## 1. Inventory

| Component | Source | State it keeps | Operations |
|---|---|---|---|
| plan compilation | `crates/hesmos-orchestrator/src/compile.rs`, `waves.rs`, `prng.rs` | none (a function of the plan and the seed) | `fold`, template checks, Kahn levels, cycle search |
| graph engine | `.../engine.rs` | waves, cursor, position in the wave, commits | `compile`, `next_wave`, `commit` |
| session runner | `.../runner.rs` | attempts, routed-in contracts, outputs, concerns, handle, interrupt flag | `open`, `run`, `run_node`, `route_and_commit`, `persist_commit`, `interrupt` |
| handoff router | `.../router.rs` | recurrence window, total, halt latch, retries per sender | `route` |
| checkpoint store | `.../wal.rs` | sessions row, checkpoint rows (SQLite) | `insert_session`, `update_state`, `commit_point`, reads |
| gates, contract matrix | `crates/hesmos-guard/src/gate.rs`, `gates/`, `contract_check.rs` | none | `run_checked_with`, one check per gate, `validate` |
| budget | `crates/hesmos-budget/src/`, `hesmos/src/composition.rs` | ledger, sums per scope, fired warnings | `meter`, `evaluate`, `snapshot` |
| session states | `crates/hesmos-core/src/session.rs` | state | `transition` (table ST-1) |
| event log and seal | `crates/hesmos-trace/src/log.rs`, `seal.rs` | `events.jsonl`, next seq, previous hash | `open`, `emit`, `verify`, `load`, `seal` |
| platform port | `.../platform.rs` | none (spawns `bathos`) | `audit_append`, `audit_verify`, `model_validate` |
| CLI run and close | `hesmos/src/cmd/run.rs` | session directory | `open_session_runner`, `run_session`, `close_session`, fork handling |
| trace readers, replay | `hesmos/src/cmd/trace.rs`, `cmd/budget.rs`, `crates/hesmos-trace/src/query.rs` | none | `show`, `replay`, `budget`, commit markers, terminal facts, structure comparison |
| evaluation | `hesmos/src/cmd/eval.rs` | golden file, fork directories | `eval`, `--bless` |
| Python bindings | `crates/hesmos-ffi/src/`, `bindings/python/hesmos/` | registry of callbacks (one per process), native handles, judge ledger | `session_open`, `session_run`, `session_close`, `register_*`, callbacks |
| gateway | `gateway/src/` | event store, one broadcast ring per subscriber | event pages, stream, timeline page |

**How they interact.** `open_session_runner` probes the compiler, opens the log
and the ledger and builds the `Runner` from trait objects: executor, gates,
budget, router, cache sentinel, event sink. The runner is the only caller of all
of them, on one thread; the only other actor is whoever sets the interrupt flag.
Four stores are written in a fixed order and are all that survives a crash:
the trace (append, flush), the ledger, the checkpoint rows, the response files.
After the run, `close_session` reopens the log, seals it and calls the audit.
The same runner sits behind the Python bindings, where executor, tools and judge are
callbacks during which any Python code may run, and behind `eval`, where commands
share a golden file and fork directories. Readers (`trace`, `budget`, the gateway)
take the stores as they find them, at any moment or after a death.

**What is hard.** The interrupt flag is set at any moment and polled at three
places. Three retry paths share one counter and two limits. One budget verdict is
dropped and asked again later. Handoffs are accepted edge by edge before the
commit. A crash may fall between any two durable writes and inside an append. The
engine panics when its own cursor and the runner's loop disagree. Seal and audit
are a sequence without undo. A callback may come back to the session that waits for
it. Two commands may meet in one fork directory or golden file. A stream drops events
when its client is slow. Readers join stores that were written at different points,
some by position only. `PROJECT.json` lists these as `hazards`, each at its
line, with the properties that would catch it.

**What makes each part correct.** Compiler: waves place every stage once and after
its predecessors, a cycle is found and named. Router: caps, no recurrence, final
halt. Runner: commits in wave order, backed by the trace; bounded retries; taint
never lost; COMPLETED only when everything is committed; every session ends.
Budget: ledger and trace agree, no boundary begins over a line. Log and seal: what
verifies is what was emitted, exit 0 means sealed, the audit knows no more than
the log. Readers: markers, reason, verdict and percentage are those of the session
that wrote them. Bindings: a session keeps its judge, every token and tool call is
booked once, taint of external tools survives, a spent handle is inert. Gateway: no
gap but the documented one, and delivery. Evaluation: exit bands mean what they say
and approvals survive.

## 2. Modules

```
LoopGuardRouter --- RouterEnv --- MCRouter                SessionRunner_proofs
       |
       +-- BudgetMeter, Gates, WaveOrder
       |
SessionRunner ---- SessionSpec (abstract)                 SessionRunner_proofs
       |
TraceReaders (TraceViews) --- MCRunner
PlanCompiler (WaveOrder) --- MCPlanCompiler               PlanCompiler_proofs
TraceLog --- SessionClose --- MCSessionClose              SessionClose_proofs
ForkDirectory --- MCForkDirectory                         ForkDirectory_proofs
Eval (TraceViews) --- MCEval                              Eval_proofs
Gateway (TraceViews) --- MCGateway                        Gateway_proofs
PyBridge --- MCPyBridge                                   PyBridge_proofs
```

* **LoopGuardRouter** is `LoopGuardState` and `LoopGuardRouter::route`: variables
  `window`, `total`, `halted`, `retries`; `Evaluate` and `Record` are the methods of
  those names, `Route` one call. A contract is its two ends and the matrix's
  judgment. **RouterEnv** offers it any sequence of contracts and keeps two
  histories (accepted pairs, retries granted).
* **BudgetMeter** is `BudgetMeter::meter` with the ledger as its running sum, the
  team and agent sums and `warn_fired`. A line is the truncated percentage of a cap,
  as `envelope.rs` computes it.
* **Gates** gives the verdict of each built-in gate, and of the contract matrix, as
  a function of what the boundary shows. Payloads are classes (good, empty, ...),
  not strings; scores only exist where a verdict depends on them.
* **SessionRunner** composes the three with the engine's cursor, the store, the
  response files and the trace. `pc` names the points of `open`, `run`, `run_node`
  and `route_and_commit`; there is one action between two durable writes (or two
  polls of the flag), so that `Interrupt` and `Crash` can fall between any two of
  them. An action contains everything its code does up to the next write. An event
  keeps its kind, its node, the attribute that a reader tells apart (`at`: the gate,
  the destination, the kind of stop, the final state), the tokens of a call and the
  `reason_code` of a `gate.fail`: `FailReason` for a gate, `GATE_REJECT` for the cache
  sentinel and a returned contract, the loop guard's code for a halt. The
  executor is any executor: it answers any `Turn` of the instance or fails. With
  `ForkAt > 0` the cache of an origin session answers first.
* **SessionSpec** is what a reader of `checkpoint.db` may rely on: the ST-1 table,
  checkpoints only while RUNNING and after all predecessors, COMPLETED only with
  every node checkpointed. `KeepsPromise` instantiates it with `st <- walState` and
  `done <- Committed`.
* **PlanCompiler** is `fold`, the engine's own checks, the level loop and the
  depth-first search with its path, colours and untried successors made explicit.
  The order within a wave and the order of the search are any order, so nothing
  depends on the seed.
* **WaveOrder** holds the definitions the compiler promises and the runner assumes.
* **TraceLog** is the file: complete lines, and a tail that is absent, torn or an
  event without its newline. A hash *is* the history it digests, so equal hashes
  mean equal histories. **SessionClose** is the life of one log: run, close, seal,
  audit, readers at any time, a crash at any byte, one damaged line.

* **ForkDirectory** is the one directory several processes may meet in: replays of
  the same commit derive the same id. It has the steps of `trace replay`,
  `clear_stale_fork`, `open_session_runner`, `Runner::open` and `close_session` that
  touch the disk. Names and open files are distinct, so a handle survives the removal
  of its name, and `remove_dir_all` works entry by entry on the directory it opened.
  The run itself is reduced to appends and one path-based write. Replays are
  deterministic and `ts` is not hashed, so equal seqs mean equal hashes here.

* **TraceViews** holds the readers' functions of an event sequence: the rows of
  `trace show` and of the dashboard (two implementations of one fold), the commit
  markers, the terminal facts, and the structure that `replay` and `eval` compare.
  **TraceReaders** applies them to what `SessionRunner` has written, at every moment,
  and adds what `hesmos budget` and the summary of `hesmos run` join.
* **Eval** is `hesmos eval` and its `--bless` as processes that share the golden
  file and the fork directories. The composition of a fork is one step here; the
  golden file is absent, torn or whole, because `fs::write` truncates first. Five
  history variables record what was approved and which of the two lossy paths (a
  bless over a torn file, a bless over a newer one) was taken. `Cases`, `Events` and
  `Traces` say what suites may list and what a fork of a commit point may record.
* **Gateway** is the store behind `CorePort`, the pages, the stream with its ring,
  and a client that does what `docs/trace-render-spec.md` tells it to. The client is
  external.
* **PyBridge** is the bridge under a `hesmos.Session`: the native code runs from
  callback to callback with the GIL (`gil`), and inside a callback any Python step
  may happen. The runner is reduced to the order in which it uses the bridge; what it
  does otherwise is `SessionRunner`'s. `BudgetSpecs`, `TaskArgs`, `Responses`,
  `ToolReplies` and `JudgeReplies` hold what Python may pass in, ill-formed values
  included, and the shape checks decide.
* **TraceFolds** states no part of the code: it has the lemmas on recursive functions of
  a trace that several proofs share (a loop over its events computes what it says, the
  sum of its tokens grows by the last event's), and the induction they rest on.

Data left out: payload contents, provider names, timestamps, receipt hashes,
`min_score`, and `cost_usd` (which the code never sets).

## 3. Runs

| Run | Instance | What it shows |
|---|---|---|
| `router` | 3 nodes (symmetric), cap 4, window 2, one retry, 6 contracts | No accepted handoff repeats one within the window; a halt is final. Six contracts reach the cap, evict from the window and exhaust a sender. |
| `diamond` | a -> {b, c} -> d, one retry, low confidence, empty answers, provider failures, session cap 7 and turns of 1 and 2 tokens, SIGINT and a crash anywhere | Rows, responses and trace stay consistent; after the signal at most one more boundary or call begins; markers and budget report are right at every moment, and final state, reason code, verdict and concerns at the end (router halts do not occur at this cap of handoffs; `RunnerEnd` has them); the session implements `SessionSpec` and ends. The diamond is the smallest plan with a fan-out, a wave of two and a join; the cap is reached only by sessions that retry, so all four ends occur. |
| `retry` | x -> {y, z}, bounded_retry 2, every kind of answer and fault, a role with cap 0 | Executions are bounded by the two counters together; no boundary makes its first call over a suspend line (a zero line is the only one a pre-gate ever meets, see below; its node still starts). |
| `budget` | x -> {y, z}, session cap 6, team 5, agent 4, turns of 0, 1 and 3 tokens, optional gates | The ledger and the in-memory sums of the session, the team and every role are those of the trace, but for the one call not metered yet; there are no more warnings than scopes that fired. The caps let each scope be the first to be reached. |
| `fork` | diamond with a tail, forked at commit 2 of a tainted origin, crash anywhere | The replayed prefix is the origin's; taint reaches every descendant, live or cached. |
| `compile` | every graph on 3 nodes under every pattern, every loop-free graph on 4, every combination of plan faults | Waves are sound, reported cycles are real, both layers of checks agree. |
| `close` | 3 events before the close, crash at any byte, one damaged line, an audit that may refuse, fail or be absent | What verifies is what was emitted; exit 0 means sealed and intact; the audit is backed by the log. |
| `fork_dir` | three replays of one commit, one after the other or overlapping, a crash or a refusal at any step | A foreign occupant is never touched. Alone, a replay that succeeds leaves its own evidence only, and only a death before the sessions row or inside the removal leaves a directory later replays refuse. Together, replays that start at once are kept apart by the primary key of the sessions row as long as nobody clears. |
| `ffi` | two sessions (two nodes, one node), one tool, local or external, one judge registered or cleared twice, one retry, budgets of 7, 0, -1 and none | Gate events carry the newest completed judgment of the session's own judge; every token and tool call is booked once; external taint survives; a closed or used-up handle writes nothing. |
| `gateway` | up to 5 events, each of any kind a row treats differently, pages of 2, ring of 2, socket of 1, one client | A client shows events once and in order and misses at most the window between its last page and its subscription; everything else reaches it; both timelines fold alike. Clients do not interact, so one is enough; five events overrun ring and socket together and need three pages. |
| `eval` | three commands (symmetric), a suite file of five possible contents (edited, colliding ids, a missing session, no case), two sound origins, forks with several possible traces | Exit 0 means all cases showed what was approved for them, 20 that one did not; approvals survive blesses of other cases; only whole runs are judged. |

One more run states what a comment of the source says and ends in a violation
(details under `findings`): in `single_writer` a replay clears the directory of one
that still runs, which then seals the other's log (`log.rs:20`, `cmd/run.rs:303`).

Other differences met while modelling, not kept as runs. In the core: the budget gate
guards the first call of a boundary, not its retries (`runner.rs:975` against
`thresholds.rs:49` and `budget_state.rs:27`; `FirstCallPreBlocked` says what holds); a
failed audit leaves a log that ends in `trace.seal` (`seal.rs:73` against
`seal.rs:11`); a gate retry and a routing
retry do not share one budget, so a node may run `2 * bounded_retry + 1` times
(`AttemptBound` has the exact bound; `guard/retry.rs:3` says otherwise); the
interrupt flag is also polled inside a boundary, between its pre-gates and its
execution (`cmd/run.rs:381`); a retried boundary whose
commit suspends the session is not counted as a concern (`runner.rs:1156` returns
before 1166); the handoff that reaches the cap is still accepted and its
destination may start (`router.rs:132`); when two scopes cross their warn lines with
one turn, the second crossing is consumed by the post-commit evaluation and never
reported (`runner.rs:1156`); blank done criteria pass the contract matrix and are
refused only after execution (`contract_check.rs:64`, `done_criteria.rs:45`); the
budget pre-gate only ever fires for a line of zero, since a line reached by
spending already stopped the session at the commit before; a torn last line makes
the log unreadable for good, as nothing truncates it.

In the readers: `gate.rs:166` calls a boundary CONCERNS "exactly when at least one
gate Retry occurred", while the runner also counts retries after executor failures
and low-confidence handoffs (`runner.rs:851`, `964`); `EndReported` has the exact
relation. The reason that `terminal_facts` finds for a provider halt is not always
absent, as its comment says (`trace.rs:371`): after a retry that a gate asked for it is
that gate's `GATE_REJECT`. And it is a reason code, not a gate: two sessions ended by
different gates read alike.

In the bindings: an attempt whose judge fails shows the judgment of the attempt
before (`composition.rs:321`), where the comment at 452 has "no attrs"; tokens a
failing judge spent are not counted (449 says every call counts); a blank task in
the plan with an explicit argument is refused as a conflict (873); after a failed
seal or a run error a handle has neither a runner nor a final snapshot, so
`session_status` fails (`lib.rs:649` says one of the two always answers).

In the front ends: a client that pages and then subscribes, as
`docs/trace-render-spec.md:90` and `stream.rs:47` tell it to, can miss the events in
between for good (`window` in `MissesOnlyWindow`); the events of a registered session
that has none yet are 404; a bless after a torn golden file, or one that overlaps
another, drops approvals silently (`eval.rs:343`; `lossy` in `ApprovalsKept`).

**Bounds.** `MaxRoutes` (router), `MaxEvents` (close, fork and gateway runs) and
`MaxJudges` (bindings) cap what the environment offers; all are past the point where
every guard has fired. The runner needs no bound: its own retry limits end it.
`MayInterrupt`, `MayCrash`, `MayViolateCache`, `MayDamage` and `Overlap` switch the
environment's actions on per run; each is on in at least one. `CHECK_DEADLOCK FALSE`
is set because a session, a compilation, a router of a finished session, a command
and a closed process really stop.

**Fairness.** `Terminates` assumes weak fairness of the runner's step: it is one
thread that is never blocked by anything in the model (an executor that never
answers is outside it; the executor contract has timeouts as failures). `Reaches`
assumes it of the server's forwarding task and of the client's loop, which read
frames and send requests as long as they can; it does not assume that events come.
Crash, interrupt and a broken connection are never fair.

## 4. Proofs

All proofs hold for every value of the constants under the modules' named
assumptions.

**Router** (`SessionRunner_proofs`, `EnvInv`, from `RouterAssumption`: the policy's numbers are
naturals). `NoPingPong` speaks of the accepted history, the code of its window, so
the invariant says that the window is the tail of the history, as long as it may be,
that the total is the history's length, that the latch is set once the cap is
reached, and that grants never exceed what was spent. Theorems: `RouterTypes`,
`HandoffsCapped`, `RouterNoPingPong`, `RetriesBudgeted`, `HaltLatched`; of
these the runs check `NoPingPong` and `HaltIsFinal`, the others rest on the proof.

**Compiler** (`PlanCompiler_proofs`, from `PlansAssumption`: finitely many names).
While levels are built, what is built is sound and closed under predecessors; while
the search runs, a node is in progress exactly when it is on the path, the path has
no repetition and follows edges, and what is untried are successors. Theorems:
`CompilerTypes`, `CompiledWavesSound`, `ReportedCycleReal`. `ChecksAlwaysAgree` needs
three parts more (`AInv`). `Fitting`: what `fold` accepts has the shape the engine
checks again, and an inferred pattern fits because a connected line without branches
has one root. `Layered`: under a sequential plan a level has one node, under a
parallel one the first level is the last. `Searched`: the nodes that the search has
left are closed under successors and hold no cycle, while the nodes without a level
hold one (none of them is without a predecessor among them), so the search cannot
leave them all.

**Runner** (`SessionRunner_proofs`, `IInv`; from the assumptions of the modules it extends
and `WavesAssumption`, which is what `CompiledWavesSound` establishes). The
invariant has four parts: `Position` ties the loop's wave and index to the engine's
cursor at each program point; `Indices` keeps gate and edge indices in range; `Life`
says which states and ends are possible at each point; `Rows` says that the
committed nodes are exactly those placed before the cursor. `Position` is what makes
it inductive: the rows alone do not say whose turn is next. Theorems:
`RunnerTypes`, `EngineNeverViolated` (the panic of `engine.rs:177` cannot happen),
`RowsInWaveOrder`, `RunnerKeepsPromise` (refinement of `SessionSpec`).

**Runner and its trace** (`SessionRunner_proofs`, `TInv` and `RInv`). What the
trace promises cannot be proved from `IInv`, which does not mention it. The argument
has three layers. `Shapes` shows that every step, `Interrupt` and `Crash` included,
is one of the shapes of `Step`, which say what a step does to the trace, the rows,
the files, the counters and the loop's locals and no more. `TInv` has one part per
promise, each preserved over a `Step` by a lemma of its own that leans on a few of
the others:
`Answered` and `Replayed` (files against rows, with the gap that a crash may leave),
`Tainted` (from the outputs to the input to the turn to the row), `Untouched` (a node
ahead has left no event and no count), `Counted` (a boundary that has not called in
this attempt still owes one), `Concerned`, `Completed`, `Bracketed`, `Backing` (how
far the events of the open boundary have come, gate by gate and edge by edge),
`Routed` and `Contracts` (accepted edges are edges of the plan, each once, and the
router's window holds some of them, so the recurrence guard has nothing to find),
`Stopping` (which starts and calls are still allowed after the signal), `Limited` and
`Metered`. Theorems: `RunnerAnswers`, `RunnerReplays`, `RunnerTaints`,
`RunnerBacked`, `RunnerRoutes`, `RunnerBrackets`, `RunnerCompletes`,
`RunnerRetries`, `RunnerInterrupts`, `RunnerBudget`, `RunnerLedger`: all safety
invariants of `SessionRunner` that the runs check.

`Metered` is about three sums, for any assignment of roles: a call is on the bill of its
node (`ShareGrows`), so one call moves the trace's sum of every scope that has the node,
and the ledger's turn moves the same ones (`CallBooked`).

`RInv` adds four parts, for the readers (`TraceReaders`): `Worded` (which verdict or
budget event is the last one, which end it stands for, and whose reason code each
`gate.fail` gives: the router's is the end's own, a gate's only depends on the gate), `Explained` (a node that
was never retried left no `gate.fail` and no open handoff; one that was shows it by a
`gate.fail`, by fewer calls than attempts or by an open handoff), `Afforded` (the
newest row of a completed session is under its lines) and `Marked` (the scan of
`boundary_final_passes` holds one mark per row, closed boundaries first, with the pass
that the next row will take held back). The scan is a recursive function;
`ScanComputes` and `ScanAppend` treat it as `TraceFolds` does the sums (below).
Theorems: `RunnerMarkers`, `RunnerEnd`, `RunnerAffords`: all that `TraceReaders`
states.

They rest on one assumption more, `OriginAssumption`, which only forks use: the
origin's response files have no gap, and its taint flowed along its rows, as
`RunnerAnswers` and `RunnerTaints` say of a session of the same plan. A fork of a
fork, or of a session that died, satisfies it; outside it is an origin whose rows or
files were edited, or whose cache was read only in part, which `runner.rs:1397`
tolerates (a file that is missing is a turn to execute; one that does not parse is an
error that ends the process, `runner.rs:1412`, which is a `Crash` here).

**Fork directory** (`ForkDirectory_proofs`, for any number of replays). A foreign
occupant stops every process at its lineage check (`Foreign`). Until somebody clears
the directory there is one log file and one database, whose row the only writer won
(`Uncleared`, `OneClaim`). A process that runs alone finds no directory once it is
past the clear, and afterwards its own files only (`OneAtATime`, `Sequential`); a
directory without a lineage has a process halfway or a death that explains it
(`Explained`). Theorems: `ForkForeignKept`, `ForkOneWriter`, `ForkBlocked`,
`ForkFresh` (an action property).

**Bindings** (`PyBridge_proofs`, for any sessions, plans, tools, judges and replies
under `BridgeAssumption`). The invariant is one per session, in five parts (`Phase`,
`Past`, `Judging`, `Accounting`, `Tainting`); a step of one session leaves the parts
of the others alone, since the registry they share never forgets a tool
(`FrameKeeps`). Theorems: `BridgeJudgments`, `BridgeAccounts`, `BridgeTaints`,
`BridgeSpent` (an action property).

The token sums of both ledgers, the two timelines and the structure that `eval`
compares are recursive functions over the trace. The library's induction theorems take
a predicate, which the provers here cannot instantiate; `TraceFolds` makes the induction
over sets of naturals instead (`SetInduction`: a set that has 0 and every successor is
`Nat`). `Recursion` follows: a loop that folds a step over the events has a value at
every turn, so a recursive function is what its definition says.

**Log and close** (`SessionClose_proofs`, for any event kinds and any number of
events under `TraceLog`'s and `CloseAssumption`). `Chained` is about the file: as
long as nothing damaged it, it is what was emitted, each event follows the one before
it and the writer's handle is at its end; a damaged one has a fault that no append
repairs (`DamageShows`: a changed kind breaks its own hash, a removed line the
sequence numbers after it). `Sealing` is about the process: how far
`session.close`, the seal and the audit have come at each program point. Theorems:
`CloseVerified`, `CloseExit`, `CloseAudit`.

**Gateway** (`Gateway_proofs`, for any clients, page size, ring and socket). `Caught`
says of each client that there is a seq up to which it has everything but its
`window`, and that the frames on its socket, and then its ring unless that lagged, go
on from there without a gap. A page moves that seq to its own end, the subscription
opens the window between the last page and the newest event, and a lagged ring closes
the socket before anything after the gap can be shown. Theorems: `OnlyWindowMissed`
and `TimelinesAgree`, the latter for every trace: the loops of the two `render_rows`
are recursive functions, the pending fold of one is the two counters of the other
(`Same`), turn by turn.

**Evaluation** (`Eval_proofs`, for any number of commands, any suites, origins and
traces under `EvalAssumption`: suites list cases, commit 0 of a sound origin can be
forked, and what a fork may record are sequences of events). No property speaks of one
command alone, so the invariant says what a command may rely on while others run. A
fork belongs to the command that runs it until another clears it: no two commands that
were not cleared run the same fork (`Apart`), and its log with what the runner has yet
to emit is one of the traces of its commit point (`Owned`), which is what makes a
structure that of a whole run (`Whole`). The verdicts so far are those of
the first cases of the suite, as the golden file that was read has it (`Judged`); what
that file holds, what any command read of it and what was given are approvals
(`Approvals`). For the file to be what was given, a bless that is about to write must
hold it too, unless something was lost or the file is newer than what it read
(`Kept`, `Fresh`). `OtherKeeps` shows that a step of one command leaves the others'
parts alone, `StepOf` puts the two halves of a step together. Two lemmas are about the
comparison: `StructureType` (what `project_structure` makes of any trace is a structure)
and `CompareExact` (`compare_structure` finds a difference exactly when there is one:
what the zip leaves out, the counts show). Theorems: `ExitBandSound`,
`ApprovalsSurvive`, `WholeRunsJudged`.

Every part of an inductive invariant was checked by TLC on the runs' instances before
it was proved.

**Only model-checked.** Every safety property that a passing run checks, the action
properties and the refinement of `SessionSpec` included, is also a theorem. Liveness
(`Terminates`, `Reaches`) stays with TLC: it needs fairness, whose `ENABLED` the prover
does not handle. So does the violation that `single_writer` shows, which is a
counterexample and needs no proof.

## 5. Not modelled

Of the front ends: HTML, terminal texts and JSON bodies, argument parsing, the prompt
builder, value marshalling, HTTP and MCP transport, the OpenTelemetry sink. The
gateway's list, budget and policy pages are single reads of its store. `LeaseRegistry` and `RetryTracker` have no caller outside
tests. YAML and the flow grammar are Booleans of a raw plan. A response file is written in one step:
`fs::write` (`runner.rs:1458`) truncates first, so a crash may also leave a torn file,
which no later step of that session reads and which ends a fork with an error. The
width of the `u8` counters is not modelled; `AttemptBound` gives the bound that decides whether it
matters. Truncation of whole lines between the run and the seal cannot be detected
by the code and is not among the damages. SQLite transactions are atomic. The column
`sessions.chain_head` is written from the runner's copy of the head before
`session.close` (`runner.rs:713`) and is no head of the log; nothing reads it against
the log, so there is no promise to check.

## 6. Plan

1. *(done)* Router and its proof; runner with budget, gates, engine and store;
   compiler; log, seal and audit; fork directories; invariants and refinement proofs.
2. *(done)* Trace readers against the runner's history.
3. *(done)* The Python bindings over callbacks.
4. *(done)* The gateway's stream, and evaluation over sessions.
5. *(done)* Proofs of what the runner's trace, rows, files and ledger promise, of the
   fork directory for any number of processes, and of the bindings for any number of
   sessions; of the log's close, of what the readers derive from the trace, of the
   compiler's checks, of the gateway's stream and timelines, and of the evaluation
   harness.
