----------------------------- MODULE MCPyBridge -----------------------------
(* TLC instance of PyBridge: two sessions that share the registry, one with  *)
(* a chain of two nodes and one with a single node.                          *)
EXTENDS PyBridge, TLC

TwoPlans == "p" :> <<"a", "b">> @@ "q" :> <<"b">>
TaskArguments == {NoTask, "t", "u"}
Budgets == "p" :> {7} @@ "q" :> {NoBudget, 0, -1}

Http(status, body, calls) ==
  [status |-> status, body |-> body, input |-> 1, cacheRead |-> 1, cacheWrite |-> 0,
   output |-> 1, calls |-> calls]

\* Node a may call the tool, fail, be judged or not, and be retried; node b
\* answers plainly and may be rejected.
NodeResponses ==
  "a" :> {Http(200, "message", <<"w">>), Http(200, "bare", <<"w">>), Http(500, "", <<>>)}
  @@ "b" :> {Http(200, "message", <<>>)}
NodeJudgments ==
  "a" :> {[verdict |-> "PASS", tok |-> 1], [verdict |-> "unclear", tok |-> 1]}
  @@ "b" :> {[verdict |-> "CONCERNS", tok |-> 1]}
NodeVerdicts == "a" :> <<{"pass"}, {"pass", "retry"}>> @@ "b" :> <<{"pass"}, {"pass", "reject"}>>
=============================================================================
