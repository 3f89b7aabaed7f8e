------------------------------- MODULE MCEval -------------------------------
(* Two recorded sessions, one of them forked at a commit point, and a suite *)
(* file that is edited: a case moves to another session, ids collide, two   *)
(* cases share a session that is not there, no case is left.                *)
EXTENDS Eval, TLC

Ev(kind, gate, reason, left) ==
  [kind |-> kind, node |-> "a", wave |-> 0, gate |-> gate, reason |-> reason, left |-> left]

Started == Ev("node.start", "none", "none", "none")
Passed == Ev("gate.pass", "rubric", "none", "none")
Retried == Ev("gate.fail", "rubric", "GATE_REJECT", "1")
Returned == Ev("gate.fail", "router.v1", "GATE_REJECT", "none")
Halted == Ev("gate.fail", "router.v1", "MAX_HANDOFFS", "none")

\* The second trace of s1 extends the first; in s2 a gate asks for a retry, or
\* the router rejects or halts: the same gate with another reason.
MCTraces ==
  ( <<"s1", 0>> :> {<<Started, Passed>>, <<Started>>} ) @@
  ( <<"s2", 0>> :> {<<Returned>>} ) @@
  ( <<"s2", 1>> :> {<<Retried>>, <<Returned>>, <<Halted>>} )

Of(id, session, at) == [id |-> id, session |-> session, at |-> at]

MCEvents == {Started, Passed, Retried, Returned, Halted}
MCCases == {Of(id, session, at) : id \in {"c1", "c2"}, session \in {"s1", "s2", "s3"}, at \in 0..1}

MCSuites == {
  <<Of("c1", "s1", 0), Of("c2", "s2", 1)>>,
  <<Of("c1", "s2", 1)>>,
  <<Of("c1", "s1", 0), Of("c1", "s2", 1)>>,
  <<Of("c1", "s3", 0), Of("c2", "s3", 0)>>,
  <<>> }

Symmetry == Permutations(Procs)
=============================================================================
