----------------------------- MODULE RouterEnv -----------------------------
(***************************************************************************)
(* The router under an environment that offers it any contract, in any     *)
(* order: edges may repeat, run backwards or form cycles, which is the     *)
(* recurrence the loop guards exist for (a compiled plan never has it, so  *)
(* a session alone cannot exercise them).                                  *)
(***************************************************************************)
EXTENDS LoopGuardRouter

CONSTANT MaxRoutes   \* bound: how many contracts the environment offers

ASSUME MaxRoutesAssumption == MaxRoutes \in Nat

VARIABLES
  accepted,   \* history: the pairs of every accepted handoff, in order
  granted,    \* history: retries granted per sender
  offers      \* contracts offered so far

envVars == <<window, total, halted, retries, accepted, granted, offers>>

EnvInit ==
  /\ RouterInit
  /\ accepted = <<>>
  /\ granted = [n \in Nodes |-> 0]
  /\ offers = 0

(* One call of route, with its decision recorded in the histories. *)
Offer(from, to, j) ==
  LET d == RouteDecision(from, to, j) IN
  /\ offers < MaxRoutes
  /\ offers' = offers + 1
  /\ Route(from, to, j)
  /\ accepted' = IF d = "accept" THEN Append(accepted, <<from, to>>) ELSE accepted
  /\ granted' = IF d = "retry_bounded" THEN [granted EXCEPT ![from] = @ + 1] ELSE granted

EnvNext == \E from, to \in Nodes, j \in Judgments : Offer(from, to, j)

EnvSpec == EnvInit /\ [][EnvNext]_envVars

-----------------------------------------------------------------------------

EnvTypeOK ==
  /\ RouterTypeOK
  /\ accepted \in Seq(Nodes \X Nodes)
  /\ granted \in [Nodes -> Nat]
  /\ offers \in Nat

(* Never more than max_handoffs handoffs are accepted, however the         *)
(* contracts repeat, and reaching the cap has latched a halt (router.rs    *)
(* module comment: "no handoff #21 exists").                               *)
HandoffCap ==
  /\ Len(accepted) <= MaxHandoffs
  /\ Len(accepted) > 0 /\ Len(accepted) = MaxHandoffs => halted # "none"

(* No node pair is accepted twice, in either direction, within             *)
(* ping_pong_window consecutive accepted handoffs: the eviction of the     *)
(* oldest pair never shortens the guard's memory below the window.         *)
NoPingPong ==
  \A i, j \in 1..Len(accepted) :
    (i < j /\ j - i <= PingPongWindow) =>
      accepted[j] \notin {accepted[i], <<accepted[i][2], accepted[i][1]>>}

(* A sender is granted at most bounded_retry route retries in a session,   *)
(* across all its edges.                                                   *)
RetryBudget == \A n \in Nodes : granted[n] <= BoundedRetry

(* The halt is a latch: from the first halt on the reason never changes    *)
(* and no handoff is accepted, whatever is offered.                        *)
HaltIsFinal ==
  [][halted # "none" => (halted' = halted /\ accepted' = accepted)]_envVars

=============================================================================
