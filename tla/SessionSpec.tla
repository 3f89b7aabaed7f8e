---------------------------- MODULE SessionSpec ----------------------------
(***************************************************************************)
(* What a session promises to whoever reads its checkpoint.db afterwards   *)
(* (trace replay, the CLI): the state column follows the ST-1 table of     *)
(* hesmos-core session.rs, a node is checkpointed once and only after its  *)
(* predecessors, nothing is checkpointed outside RUNNING, and COMPLETED    *)
(* means that every node was.  Nothing is said of gates, budgets, retries, *)
(* traces or the order inside a wave; a crash is a session that stops.     *)
(***************************************************************************)
EXTENDS FiniteSets

CONSTANTS
  Nodes,
  Edges     \* the plan's dependencies, a set of pairs of nodes

VARIABLES
  st,       \* the sessions row's state; "NONE" before the row exists
  done      \* the checkpointed nodes

sessionVars == <<st, done>>

Init == st = "NONE" /\ done = {}

Create == st = "NONE" /\ st' = "INIT" /\ UNCHANGED done

Activate == st = "INIT" /\ st' = "RUNNING" /\ UNCHANGED done

Checkpoint(n) ==
  /\ st = "RUNNING"
  /\ n \notin done
  /\ \A m \in Nodes : <<m, n>> \in Edges => m \in done
  /\ done' = done \cup {n}
  /\ UNCHANGED st

Finish(s) ==
  /\ st = "RUNNING"
  /\ s = "COMPLETED" => done = Nodes
  /\ st' = s
  /\ UNCHANGED done

Next ==
  \/ Create
  \/ Activate
  \/ \E n \in Nodes : Checkpoint(n)
  \/ \E s \in {"COMPLETED", "SUSPENDED", "HALTED", "FAILED"} : Finish(s)

Spec == Init /\ [][Next]_sessionVars

=============================================================================
