-------------------------- MODULE LoopGuardRouter --------------------------
(***************************************************************************)
(* The handoff router of hesmos-orchestrator (router.rs): contract         *)
(* judgement, then loop guards, then the decision, in that fixed order.    *)
(*                                                                         *)
(* The module holds the router's state and its one operation, Route.  It   *)
(* has no specification of its own: RouterEnv drives it with every         *)
(* sequence of contracts, SessionRunner with the ones a session produces.  *)
(***************************************************************************)
EXTENDS Naturals, Sequences

CONSTANTS
  Nodes,            \* the plan's node ids
  MaxHandoffs,      \* policy.max_handoffs: cumulative handoff cap
  PingPongWindow,   \* policy.ping_pong_window: 0 disables the recurrence guard
  BoundedRetry      \* policy.bounded_retry: retries per sender

ASSUME RouterAssumption ==
  /\ MaxHandoffs \in Nat
  /\ PingPongWindow \in Nat
  /\ BoundedRetry \in Nat

VARIABLES
  window,     \* LoopGuardState.window: the last accepted (from, to) pairs
  total,      \* LoopGuardState.total: accepted handoffs so far
  halted,     \* LoopGuardState.halted: the latched halt reason, or "none"
  retries     \* LoopGuardRouter.retries: below-floor contracts per sender

routerVars == <<window, total, halted, retries>>

HaltReasons == {"MAX_HANDOFFS", "REPETITIVE_HANDOFF"}

(* What the contract validator answered, folded to the three arms route    *)
(* distinguishes: accept (soft consequences included), hard reject (a      *)
(* contract without a destination takes the same arm) and below-floor      *)
(* confidence.                                                             *)
Judgments == {"accept", "reject", "bounded_retry"}

Decisions == {"accept", "return_to_sender", "retry_bounded", "halt"}

RouterTypeOK ==
  /\ window \in Seq(Nodes \X Nodes)
  /\ total \in Nat
  /\ halted \in HaltReasons \cup {"none"}
  /\ retries \in [Nodes -> Nat]

RouterInit ==
  /\ window = <<>>
  /\ total = 0
  /\ halted = "none"
  /\ retries = [n \in Nodes |-> 0]

-----------------------------------------------------------------------------

(* The pair {from, to} occurs in the window, in either direction. *)
Repeated(from, to) ==
  \E i \in 1..Len(window) : window[i] \in {<<from, to>>, <<to, from>>}

(* Mutant: the latch is not consulted, only the cap and the window are. *)
UnlatchedEvaluate(from, to) ==
  IF total >= MaxHandoffs THEN "MAX_HANDOFFS"
  ELSE IF Repeated(from, to) THEN "REPETITIVE_HANDOFF"
  ELSE "none"

(* LoopGuardState::evaluate: the latch dominates, then the cap, then       *)
(* ping-pong.  "none" is the Clear verdict.                                *)
Evaluate(from, to) ==
  IF halted # "none" THEN halted
  ELSE IF total >= MaxHandoffs THEN "MAX_HANDOFFS"
  ELSE IF Repeated(from, to) THEN "REPETITIVE_HANDOFF"
  ELSE "none"

(* Mutant: the window evicts one pair too early, and reaching the cap does *)
(* not latch.                                                              *)
EagerEvictRecord(from, to) ==
  /\ window' = IF PingPongWindow = 0 THEN window
               ELSE Append(IF Len(window) + 1 >= PingPongWindow /\ window # <<>>
                           THEN Tail(window) ELSE window,
                           <<from, to>>)
  /\ total' = total + 1
  /\ UNCHANGED halted

(* LoopGuardState::record: evict the oldest pair of a full window, push    *)
(* the new one, count it, latch on reaching the cap.  A zero window keeps  *)
(* no pairs.                                                               *)
Record(from, to) ==
  /\ window' = IF PingPongWindow = 0 THEN window
               ELSE Append(IF Len(window) >= PingPongWindow THEN Tail(window) ELSE window,
                           <<from, to>>)
  /\ total' = total + 1
  /\ halted' = IF total + 1 >= MaxHandoffs /\ (PingPongWindow = 0 \/ halted = "none")
               THEN "MAX_HANDOFFS" ELSE halted

(* The decision route reaches for a contract judged j on edge from -> to. *)
RouteDecision(from, to, j) ==
  IF j = "reject" THEN "return_to_sender"
  ELSE IF j = "bounded_retry"
       THEN IF retries[from] < BoundedRetry THEN "retry_bounded" ELSE "return_to_sender"
  ELSE IF Evaluate(from, to) # "none" THEN "halt"
  ELSE "accept"

(* LoopGuardRouter::route for a contract with a destination: what each     *)
(* decision does to the router's own state.                                *)
Route(from, to, j) ==
  \/ /\ j = "reject"
     /\ UNCHANGED routerVars
  \/ /\ j = "bounded_retry"
     /\ retries' = [retries EXCEPT ![from] = @ + 1]
     /\ UNCHANGED <<window, total, halted>>
  \/ /\ j = "accept"
     /\ Evaluate(from, to) # "none"
     /\ halted' = Evaluate(from, to)
     /\ UNCHANGED <<window, total, retries>>
  \/ /\ j = "accept"
     /\ Evaluate(from, to) = "none"
     /\ Record(from, to)
     /\ UNCHANGED retries

=============================================================================
