------------------------------ MODULE MCRunner ------------------------------
(* TLC instances of SessionRunner and of its readers, on two plans: the    *)
(* diamond a -> {b, c} -> d has a fan-out, a wave of two and a join; the   *)
(* fan-out x -> {y, z} leaves room for wider nondeterminism.               *)
EXTENDS TraceReaders, TLC

BasePre == <<"G0", "budget", "permission", "schema">>
BasePost == <<"done_criteria", "rubric", "schema">>

Tn(tok, conf, out, taint) == [tok |-> tok, conf |-> conf, out |-> out, taint |-> taint]

\* The diamond.
DiamondNodes == {"a", "b", "c", "d"}
DiamondWaves == <<<<"a">>, <<"b", "c">>, <<"d">>>>
DiamondSuccs == "a" :> <<"b", "c">> @@ "b" :> <<"d">> @@ "c" :> <<"d">> @@ "d" :> <<>>
DiamondRole == "a" :> "r" @@ "b" :> "s" @@ "c" :> "r" @@ "d" :> "s"
DiamondFull == [n \in DiamondNodes |-> "full"]
DiamondPre == [n \in DiamondNodes |-> BasePre]
DiamondPost == [n \in DiamondNodes |-> BasePost]

\* The diamond with a tail d -> e -> f that the handoff cap cuts.
TailNodes == DiamondNodes \cup {"e", "f"}
TailWaves == DiamondWaves \o <<<<"e">>, <<"f">>>>
TailSuccs == "d" :> <<"e">> @@ "e" :> <<"f">> @@ "f" :> <<>> @@ DiamondSuccs
TailRole == DiamondRole @@ "e" :> "r" @@ "f" :> "s"
TailFull == [n \in TailNodes |-> "full"]
TailPre == [n \in TailNodes |-> BasePre]
TailPost == [n \in TailNodes |-> BasePost]

\* The fan-out.
FanNodes == {"x", "y", "z"}
FanWaves == <<<<"x">>, <<"y", "z">>>>
FanSuccs == "x" :> <<"y", "z">> @@ "y" :> <<>> @@ "z" :> <<>>
FanRole == "x" :> "r" @@ "y" :> "s" @@ "z" :> "r"
RetryRole == "x" :> "r" @@ "y" :> "s" @@ "z" :> "t"
FanFull == [n \in FanNodes |-> "full"]
FanPre == [n \in FanNodes |-> BasePre]
FanPost == [n \in FanNodes |-> BasePost]

\* The fan-out with optional gates: a contract and an over_delegation gate, a
\* budget gate after execution, and a rubric gate before it, which panics.
GatedPre == "x" :> BasePre
            @@ "y" :> <<"G0", "budget", "contract", "over_delegation", "permission", "schema">>
            @@ "z" :> <<"G0", "budget", "permission", "rubric", "schema">>
GatedPost == "x" :> BasePost
             @@ "y" :> <<"budget", "done_criteria", "rubric", "schema">>
             @@ "z" :> BasePost

None == {}
NoOrigin == <<>>
Always == {TRUE}
Either == BOOLEAN
OneFault == {"PROVIDER_FAILURE"}
BothFaults == {"PROVIDER_FAILURE", "TIMEOUT"}

Uncapped == "r" :> NoCap @@ "s" :> NoCap
ZeroCap == "r" :> NoCap @@ "s" :> NoCap @@ "t" :> 0
AgentCaps == "r" :> 4 @@ "s" :> NoCap

\* One good answer; good answers with taint and low confidence; every kind of
\* answer; answers of several sizes that pass or retry.
GoodTurn == {Tn(1, "ok", "good", FALSE)}
RoutedTurns == GoodTurn \cup {Tn(1, "ok", "good", TRUE), Tn(1, "low", "good", FALSE)}
AllTurns == {Tn(1, "ok", out, FALSE) : out \in Payloads} \cup {Tn(2, "low", "good", FALSE)}
SizedTurns == {Tn(k, "ok", out, FALSE) : k \in {0, 1, 3}, out \in {"good", "empty"}}
MixedTurns == GoodTurn \cup {Tn(1, "low", "good", FALSE), Tn(2, "ok", "empty", FALSE)}

\* An origin of the diamond whose first three responses survive, tainted from
\* the first node on.
Origin == <<Tn(1, "ok", "good", TRUE), Tn(2, "ok", "good", TRUE), Tn(2, "ok", "good", TRUE)>>
=============================================================================
