---------------------------- MODULE TraceReaders ----------------------------
(***************************************************************************)
(* The readers of a session's evidence, at any moment of the session or    *)
(* after its death: what TraceViews derives from the trace and the rows    *)
(* that SessionRunner has written so far.                                  *)
(***************************************************************************)
EXTENDS SessionRunner, TraceViews

(* Every row of the store is marked in `trace show`, on the gate.pass that   *)
(* committed it: the marker of row k is the last gate event of its node, a   *)
(* pass of its last post-gate, though markers are paired with rows by        *)
(* position only, and a process may have died between any two writes         *)
(* (commit_markers: "Crash windows yield NO marker").                        *)
MarkersRight ==
  LET markers == CommitMarkers(log, Len(wal)) IN
  /\ Len(markers) = Len(wal)
  /\ \A k \in 1..Len(wal) :
       LET n == wal[k].node
           m == markers[k]
       IN  /\ log[m] = Event("gate.pass", n, PostGates[n][Len(PostGates[n])], 0, "none")
           /\ \A i \in At("gate.pass", n) \cup At("gate.fail", n) : i <= m

(* derive_boundary_verdict: the last verdict of a boundary, and whether a    *)
(* gate asked for a retry on the way there.                                  *)
DeriveBoundaryVerdict(retried, passed) ==
  IF ~passed THEN "FAIL" ELSE IF retried THEN "CONCERNS" ELSE "PASS"

(* session_verdict over the boundaries of a session. *)
SessionVerdict(boundaries) ==
  IF "FAIL" \in boundaries THEN "FAIL"
  ELSE IF "CONCERNS" \in boundaries THEN "CONCERNS" ELSE "PASS"

GateEvents(n) == At("gate.pass", n) \cup At("gate.fail", n)
Judged == {n \in Nodes : GateEvents(n) # {}}

(* The verdict of n's boundary, from the gate events it left. *)
BoundaryVerdict(n) ==
  DeriveBoundaryVerdict(At("gate.fail", n) # {},
                        \E i \in At("gate.pass", n) : \A j \in GateEvents(n) : j <= i)

(* Retries of n that no gate asked for: a failed execution leaves no event,  *)
(* and a handoff of low confidence only its request.                         *)
RetriedUnjudged(n) ==
  \/ attempts[n] + 1 > Cardinality(At("llm.call", n))
  \/ Cardinality(At("handoff.request", n)) > Cardinality(At("handoff.accept", n))

(* render_summary: the numbers at the end of `hesmos run`, of which the      *)
(* concerns alone are the runner's and not the trace's.                      *)
Summary ==
  LET count(kind) == Cardinality({i \in 1..Len(log) : log[i].kind = kind}) IN
  [pass |-> count("gate.pass"), concerns |-> concerns, fail |-> count("gate.fail"),
   handoffs |-> count("handoff.request")]

(* The reasons of an end that an event of the trace tells. *)
Evidenced == {"BUDGET_EXCEEDED", "GATE_REJECT"} \cup HaltReasons

(* What is read off a closed session is how it ended.  The reason `trace     *)
(* replay` names is the session's own whenever the budget, a gate or the     *)
(* router ended it: neither an objection that a retry got over nor a budget  *)
(* event stands in its place (terminal_facts).  An end that leaves no        *)
(* event of its own (COMPLETED, an executor fault, SIGINT) has the reason of *)
(* a gate that objected before a retry, if one did.  And the verdict: a FAIL *)
(* boundary is in every FAILED and in no COMPLETED session, and the concerns *)
(* that `hesmos run` sums up are the CONCERNS boundaries of the trace and    *)
(* those retried without a gate's verdict.                                   *)
EndReported ==
  pc = "done" =>
    LET facts == TerminalFacts(log)
        fails == {i \in 1..Len(log) : log[i].kind = "gate.fail"}
        verdict == SessionVerdict({BoundaryVerdict(n) : n \in Judged})
    IN  /\ facts.state = walState
        /\ facts.reason = IF end.reason \in Evidenced THEN end.reason
                          ELSE IF fails = {} THEN "none" ELSE "GATE_REJECT"
        /\ walState = "FAILED" => verdict = "FAIL"
        /\ walState = "COMPLETED" =>
             /\ verdict # "FAIL"
             /\ verdict = "CONCERNS" => Summary.concerns > 0 /\ Summary.fail > 0
             /\ Summary.concerns =
                  Cardinality({n \in Nodes : BoundaryVerdict(n) = "CONCERNS" \/ RetriedUnjudged(n)})

(* session_facts and session_totals: what `hesmos budget` reads of the       *)
(* store, the limit and the state from the session row and the total from    *)
(* the ledger.                                                               *)
SessionFacts == [limit |-> SessionCap, state |-> walState, total |-> sessionSpent]

(* The percentage that show_session prints: the total, capped, of the cap. *)
Percent(spent, cap) ==
  IF cap = 0 THEN 100 ELSE ((IF spent < cap THEN spent ELSE cap) * 100) \div cap

(* show_session: the percentage, the state, and the levels of the budget     *)
(* events, which come from the trace: the ledger has no level.  A session    *)
(* without a cap prints no percentage.                                       *)
BudgetReport ==
  [percent |-> IF SessionFacts.limit = NoCap THEN {}
               ELSE {Percent(SessionFacts.total, SessionFacts.limit)},
   state   |-> SessionFacts.state,
   levels  |-> {log[i].at : i \in {i \in 1..Len(log) : log[i].kind = "budget.event"}}]

(* Spending over a line ends the session, and `hesmos budget` says so: no    *)
(* node starts after a commit over a line, what it calls COMPLETED is under  *)
(* the suspend percentage (unless the plan has no stage that could commit)   *)
(* and never suspended, and a recorded suspend is a SUSPENDED state.  The    *)
(* three sources it joins are written at different points of the boundary    *)
(* (SS-15 rule 4).                                                           *)
OverBudgetStops ==
  /\ NoStartOverBudget
  /\ BudgetReport.state = "COMPLETED" =>
       /\ wal # <<>> => \A p \in BudgetReport.percent : p < SuspendPct
       /\ "suspend" \notin BudgetReport.levels
  /\ pc = "done" /\ "suspend" \in BudgetReport.levels => BudgetReport.state = "SUSPENDED"

=============================================================================
