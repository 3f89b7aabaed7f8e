---------------------------- MODULE BudgetMeter ----------------------------
(***************************************************************************)
(* Session budget: the frozen envelope (hesmos-budget envelope.rs), the    *)
(* threshold engine (thresholds.rs), the metering ledger (ledger.rs) and   *)
(* the BudgetMeter adapter that joins them behind the runner's seam        *)
(* (hesmos/src/composition.rs; hesmos-ffi carries an identical copy).      *)
(*                                                                         *)
(* Like LoopGuardRouter this module has no specification of its own:       *)
(* SessionRunner drives it.                                                *)
(***************************************************************************)
EXTENDS Naturals

CONSTANTS
  Roles,         \* agent roles
  NoCap,         \* the absent cap (Option::None)
  SessionCap,    \* envelope.session_max_tokens
  TeamCap,       \* envelope.team_max_tokens
  AgentCap,      \* envelope.agent_max_tokens, total: NoCap for a role without one
  WarnPct,       \* envelope.warn_pct
  SuspendPct     \* envelope.suspend_pct

ASSUME BudgetAssumption ==
  /\ NoCap \notin Nat
  /\ SessionCap \in Nat \cup {NoCap}
  /\ TeamCap \in Nat \cup {NoCap}
  /\ AgentCap \in [Roles -> Nat \cup {NoCap}]
  /\ WarnPct \in Nat
  /\ SuspendPct \in Nat
  /\ WarnPct <= SuspendPct

VARIABLES
  sessionSpent,   \* SUM over the session's ledger rows (durable)
  ledgerRows,     \* number of ledger rows (durable)
  agentSpent,     \* BudgetMeter.agent_spent
  teamSpent,      \* BudgetMeter.team_spent: this session's contribution only
  warnFired       \* BudgetEngine.warn_fired: scopes that already warned

budgetVars == <<sessionSpent, ledgerRows, agentSpent, teamSpent, warnFired>>

Scopes == {"session", "team", "agent"}
Verdicts == {"clear", "warn", "exceeded"}

BudgetTypeOK ==
  /\ sessionSpent \in Nat
  /\ ledgerRows \in Nat
  /\ agentSpent \in [Roles -> Nat]
  /\ teamSpent \in Nat
  /\ warnFired \subseteq Scopes

BudgetInit ==
  /\ sessionSpent = 0
  /\ ledgerRows = 0
  /\ agentSpent = [r \in Roles |-> 0]
  /\ teamSpent = 0
  /\ warnFired = {}

-----------------------------------------------------------------------------

(* pct_of with BudgetState::line_reached: an absent cap never fires, a cap *)
(* fires on reaching its truncated percentage.                             *)
LineReached(cap, pct, spent) == cap # NoCap /\ spent >= (cap * pct) \div 100

(* The line of a scope, given the spend of each scope. *)
ScopeReached(scope, pct, role, ss, ts, as) ==
  CASE scope = "session" -> LineReached(SessionCap, pct, ss)
    [] scope = "team"    -> LineReached(TeamCap, pct, ts)
    [] scope = "agent"   -> LineReached(AgentCap[role], pct, as)

(* BudgetState::suspend_reached on the snapshot for role: the budget       *)
(* pre-gate's question.                                                    *)
SuspendReached(role) ==
  \E sc \in Scopes : ScopeReached(sc, SuspendPct, role, sessionSpent, teamSpent, agentSpent[role])

(* Scopes at or over their warn line that have not warned yet. *)
UnfiredWarns(role, ss, ts, as) ==
  {sc \in Scopes \ warnFired : ScopeReached(sc, WarnPct, role, ss, ts, as)}

(* The scope the engine warns for: the fixed order session, team, agent. *)
FirstScope(S) ==
  IF "session" \in S THEN "session" ELSE IF "team" \in S THEN "team" ELSE "agent"

(* BudgetEngine::evaluate on the given spends: any suspend line first,     *)
(* then the first unfired warn line.                                       *)
Evaluation(role, ss, ts, as) ==
  IF \E sc \in Scopes : ScopeReached(sc, SuspendPct, role, ss, ts, as) THEN "exceeded"
  ELSE IF UnfiredWarns(role, ss, ts, as) # {} THEN "warn"
  ELSE "clear"

(* What BudgetMeter::meter answers when tok more tokens are recorded. *)
MeterVerdict(role, tok) ==
  Evaluation(role, sessionSpent + tok, teamSpent + tok, agentSpent[role] + tok)

(* Ledger::record, one row more; session_totals sums the rows. *)
RecordEntry(tok) == sessionSpent' = sessionSpent + tok /\ ledgerRows' = ledgerRows + 1

(* Mutant: a verdict over the line returns before the totals advance. *)
EarlyReturnMeter(role, tok) ==
  LET over == MeterVerdict(role, tok) = "exceeded"
      unfired == UnfiredWarns(role, sessionSpent + tok, teamSpent + tok, agentSpent[role] + tok) IN
  /\ RecordEntry(tok)
  /\ agentSpent' = IF over THEN agentSpent ELSE [agentSpent EXCEPT ![role] = @ + tok]
  /\ teamSpent' = IF over THEN teamSpent ELSE teamSpent + tok
  /\ warnFired' = IF MeterVerdict(role, tok) = "warn"
                  THEN warnFired \cup {FirstScope(unfired)} ELSE warnFired

(* BudgetMeter::meter: the ledger row, the two in-memory totals, and the   *)
(* fired flag of the scope that warned.                                    *)
Meter(role, tok) ==
  LET unfired == UnfiredWarns(role, sessionSpent + tok, teamSpent + tok, agentSpent[role] + tok) IN
  /\ RecordEntry(tok)
  /\ agentSpent' = [agentSpent EXCEPT ![role] = @ + tok]
  /\ teamSpent' = teamSpent + tok
  /\ warnFired' = IF MeterVerdict(role, tok) = "warn"
                  THEN warnFired \cup {FirstScope(unfired)} ELSE warnFired

=============================================================================
