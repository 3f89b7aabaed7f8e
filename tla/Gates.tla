------------------------------- MODULE Gates -------------------------------
(***************************************************************************)
(* The judging half of hesmos-guard: the handoff contract and its field    *)
(* matrix (contract_check.rs) and the built-in gates (gates/*.rs) behind   *)
(* the GuardGates adapter.  Gates are pure: a verdict is a function of     *)
(* what the boundary shows them.                                           *)
(***************************************************************************)
EXTENDS Naturals, Sequences

CONSTANTS
  Criteria,   \* per node: its done_criteria, see CriteriaKinds
  Widens      \* edges <<from, to>> whose destination holds a tool or a network
              \* target that the sender's profile lacks

(* done_criteria: no items, items that are all blank, some real item. *)
CriteriaKinds == {"none", "blank", "full"}

ASSUME GatesAssumption ==
  /\ Criteria \in [DOMAIN Criteria -> CriteriaKinds]
  /\ Widens \subseteq (DOMAIN Criteria) \X (DOMAIN Criteria)

(* What the gates tell apart in an output payload: null, a {role, content} *)
(* chat dict, an empty object, anything else.                              *)
Payloads == {"null", "chat", "empty", "good"}

GateIds == {"G0", "permission", "budget", "schema", "contract", "done_criteria",
            "rubric", "over_delegation"}

Verdict == {"pass", "retry", "reject", "exceeded"}

-----------------------------------------------------------------------------

(* build_handoff_contract: the runner authors every field, so only the     *)
(* destination's criteria and the sender's confidence vary.                *)
HandoffContract(from, to, conf) ==
  [from |-> from, goals |-> TRUE, invariants |-> TRUE, criteria |-> Criteria[to],
   artifacts |-> FALSE, failed |-> FALSE, assumptions |-> TRUE, confidence |-> conf,
   widens |-> <<from, to>> \in Widens]

(* synthetic_boundary_contract: a root's own declaration; blank goals, no  *)
(* invariants, no assumptions, no confidence, an empty permission cap.     *)
SyntheticContract(n) ==
  [from |-> n, goals |-> FALSE, invariants |-> FALSE, criteria |-> Criteria[n],
   artifacts |-> FALSE, failed |-> FALSE, assumptions |-> FALSE, confidence |-> "absent",
   widens |-> FALSE]

(* contract_check::validate: the first hard row in matrix order decides,   *)
(* and a soft row only when no hard one does.  goals folds rows 1 and 2.   *)
Validate(c) ==
  IF ~c.goals \/ ~c.invariants THEN "reject"
  ELSE IF c.criteria = "none" THEN "reject_no_retry"
  ELSE IF ~c.assumptions \/ c.confidence = "absent" THEN "reject"
  ELSE IF c.confidence = "low" THEN "bounded_retry"
  ELSE IF ~c.artifacts THEN "post_gate_fail"
  ELSE IF ~c.failed THEN "warn_proceed"
  ELSE "accept"

(* The three arms that the router and the contract gate make of it. *)
Judgment(c) ==
  LET v == Validate(c) IN
  IF v \in {"accept", "post_gate_fail", "warn_proceed"} THEN "accept"
  ELSE IF v = "bounded_retry" THEN "bounded_retry"
  ELSE "reject"

-----------------------------------------------------------------------------

(* RubricGate::check, in tenths: 6 for a payload, 2 for content, 2 for     *)
(* criteria.  out is "absent" before execution.                            *)
RubricScore(c, out) ==
  (IF out \in {"absent", "null"} THEN 0 ELSE IF out = "empty" THEN 6 ELSE 8)
    + (IF c.criteria = "full" THEN 2 ELSE 0)

RubricVerdict(c, out) ==
  IF RubricScore(c, out) >= 10 THEN "pass"
  ELSE IF RubricScore(c, out) = 0 THEN "reject" ELSE "retry"

(* DoneCriteriaGate::check: nothing to examine may come with a retry,      *)
(* criteria with no real item never.                                       *)
DoneCriteriaVerdict(c, out) ==
  IF out \in {"absent", "null"} THEN "retry"
  ELSE IF c.criteria = "full" THEN "pass" ELSE "reject"

(* SchemaGate::check: before execution it judges the runner's own          *)
(* {task, inputs} object, which always passes; after it, the output.       *)
SchemaVerdict(out) == IF out \in {"null", "chat"} THEN "reject" ELSE "pass"

ContractVerdict(c) ==
  CASE Judgment(c) = "accept" -> "pass"
    [] Judgment(c) = "bounded_retry" -> "retry"
    [] Judgment(c) = "reject" -> "reject"

(* G0Gate::check: the input transfer is within max_transfer_tokens. *)
G0Verdict(fits) == IF fits THEN "pass" ELSE "reject"

(* PermissionGate::check: a compiled node always has a profile, so what is    *)
(* left is the cap: within the grantor's own tools and network targets.       *)
PermissionVerdict(c) == IF c.widens THEN "reject" ELSE "pass"

(* BudgetGate::check: the one gate that reports an exhausted budget; it never *)
(* rejects.                                                                   *)
BudgetVerdict(spent) == IF spent THEN "exceeded" ELSE "pass"

(* The reason_code of a gate that does not pass, by the gate's id. *)
FailReason(g) == IF g = "budget" THEN "BUDGET_EXCEEDED" ELSE "GATE_REJECT"

(* OverDelegationGate::check judges Control envelopes only, and every         *)
(* boundary's input is a Task.                                                *)
OverDelegationVerdict == "pass"

(* GuardGates::run_gate: gate g on boundary contract c with output out; fits  *)
(* says the input transfer is within max_transfer_tokens, spent that the      *)
(* budget snapshot is at a suspend line.                                      *)
RunGate(g, c, out, fits, spent) ==
  CASE g = "G0"              -> G0Verdict(fits)
    [] g = "permission"      -> PermissionVerdict(c)
    [] g = "budget"          -> BudgetVerdict(spent)
    [] g = "schema"          -> SchemaVerdict(out)
    [] g = "contract"        -> ContractVerdict(c)
    [] g = "done_criteria"   -> DoneCriteriaVerdict(c, out)
    [] g = "rubric"          -> RubricVerdict(c, out)
    [] g = "over_delegation" -> OverDelegationVerdict

=============================================================================
