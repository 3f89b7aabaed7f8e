--------------------------- MODULE MCPlanCompiler ---------------------------
(* TLC instance of PlanCompiler.  Shapes: every graph on three nodes, self *)
(* loops and cycles included, under every pattern.  Wide: every graph on   *)
(* four nodes without self loops.  Broken: every combination of faults, so *)
(* that the order of the checks matters, and the plan without stages.      *)
EXTENDS PlanCompiler

Three == {"a", "b", "c"}
Four == Three \cup {"d"}
MCNames == Four \cup {"u"}

Raw(ids, pattern, routers, edges) ==
  [ids |-> ids, unprofiled |-> {}, routers |-> routers, task |-> TRUE, depends |-> {},
   flow |-> {}, flowOk |-> TRUE, edges |-> edges, budgetOk |-> TRUE, pattern |-> pattern]

Shapes ==
  {Raw(<<"a", "b", "c">>, p, r, e) :
     p \in Patterns \cup {"none"}, r \in {{}, {"b"}}, e \in SUBSET (Three \X Three)}

Wide ==
  {Raw(<<"d", "c", "b", "a">>, "none", {}, e) :
     e \in SUBSET {f \in Four \X Four : f[1] # f[2]}}

Faulty(ids, unprofiled, depends) ==
  {[ids |-> ids, unprofiled |-> unprofiled, routers |-> {}, task |-> t, depends |-> depends,
    flow |-> f, flowOk |-> g, edges |-> e, budgetOk |-> b, pattern |-> p] :
     t \in BOOLEAN, f \in {{}, {<<"a", "b">>}}, g \in BOOLEAN, e \in {{}, {<<"a", "u">>}},
     b \in BOOLEAN, p \in {"none", "parallel"}}

Broken ==
  Faulty(<<>>, {}, {}) \cup Faulty(<<"a", "a">>, {}, {})
    \cup UNION {Faulty(<<"a", "b">>, x, d) : x \in {{}, {"b"}}, d \in {{}, {<<"u", "b">>}}}

MCRawPlans == Shapes \cup Wide \cup Broken
=============================================================================
