----------------------------- MODULE TraceViews -----------------------------
(***************************************************************************)
(* What the readers of a stored trace derive from it, as functions of a    *)
(* sequence of events: the views of `trace show` and of the dashboard's    *)
(* timeline (hesmos/src/cmd/trace.rs, gateway/src/ui/mod.rs), the commit   *)
(* markers and terminal facts, and the structure that `trace replay` and   *)
(* `eval` compare (crates/hesmos-trace/src/query.rs).                      *)
(*                                                                         *)
(* An event has a kind and, as at, the attribute its reader looks at: the  *)
(* gate, the level of a budget.event, the final state; a gate.fail has its *)
(* reason_code, too.  Positions stand for seqs.                            *)
(***************************************************************************)
EXTENDS Naturals, Sequences

IsCall(e) == e.kind \in {"llm.call", "tool.call"}

-----------------------------------------------------------------------------
(* Views.  A row is an event or a fold: the counts of the calls it hides. *)

EventRow(i) == [fold |-> FALSE, seq |-> i, llm |-> 0, tool |-> 0]
FoldRow(llm, tool) == [fold |-> TRUE, seq |-> 0, llm |-> llm, tool |-> tool]

One(b) == IF b THEN 1 ELSE 0

(* render_rows of the CLI: a pending fold is opened by the first call and    *)
(* taken by the next other event; the last one is shown after the loop.      *)
CliRows(events) ==
  LET scan[k \in 0..Len(events)] ==
        IF k = 0 THEN [rows |-> <<>>, fold |-> <<>>]
        ELSE LET s == scan[k - 1]
                 e == events[k]
                 llm == One(e.kind = "llm.call")
                 tool == One(e.kind = "tool.call")
             IN  IF IsCall(e)
                 THEN [s EXCEPT !.fold = IF @ = <<>> THEN <<FoldRow(llm, tool)>>
                                         ELSE <<FoldRow(@[1].llm + llm, @[1].tool + tool)>>]
                 ELSE [rows |-> s.rows \o s.fold \o <<EventRow(k)>>, fold |-> <<>>]
  IN  scan[Len(events)].rows \o scan[Len(events)].fold

(* Filter::matches of the dashboard and the --gate and --handoff flags. *)
Matches(filter, e) ==
  CASE filter = "all" -> TRUE
    [] filter = "gate" -> e.kind \in {"gate.pass", "gate.fail"}
    [] filter = "handoff" -> e.kind \in {"handoff.request", "handoff.accept"}
    [] filter = "budget" -> e.kind = "budget.event"

(* Mutant: no flush after the loop. *)
UnflushedD2Rows(events, filter) ==
  LET scan[k \in 0..Len(events)] ==
        IF k = 0 THEN [rows |-> <<>>, llm |-> 0, tool |-> 0]
        ELSE LET s == scan[k - 1]
                 e == events[k]
                 flushed == IF filter = "all" /\ s.llm + s.tool > 0
                            THEN Append(s.rows, FoldRow(s.llm, s.tool)) ELSE s.rows
             IN  IF IsCall(e)
                 THEN IF filter # "all" THEN s
                      ELSE [s EXCEPT !.llm = @ + One(e.kind = "llm.call"),
                                     !.tool = @ + One(e.kind = "tool.call")]
                 ELSE IF ~Matches(filter, e) THEN s
                 ELSE [rows |-> Append(flushed, EventRow(k)), llm |-> 0, tool |-> 0]
  IN  scan[Len(events)].rows

(* render_rows of the dashboard: two counters, flushed before every row and  *)
(* at the end; a filter drops calls and disables folding.                    *)
D2Rows(events, filter) ==
  LET scan[k \in 0..Len(events)] ==
        IF k = 0 THEN [rows |-> <<>>, llm |-> 0, tool |-> 0]
        ELSE LET s == scan[k - 1]
                 e == events[k]
                 flushed == IF filter = "all" /\ s.llm + s.tool > 0
                            THEN Append(s.rows, FoldRow(s.llm, s.tool)) ELSE s.rows
             IN  IF IsCall(e)
                 THEN IF filter # "all" THEN s
                      ELSE [s EXCEPT !.llm = @ + One(e.kind = "llm.call"),
                                     !.tool = @ + One(e.kind = "tool.call")]
                 ELSE IF ~Matches(filter, e) THEN s
                 ELSE [rows |-> Append(flushed, EventRow(k)), llm |-> 0, tool |-> 0]
      last == scan[Len(events)]
  IN  IF filter = "all" /\ last.llm + last.tool > 0
      THEN Append(last.rows, FoldRow(last.llm, last.tool)) ELSE last.rows

-----------------------------------------------------------------------------
(* Markers and terminal facts. *)

(* Mutant: a boundary without its node.stop has no final pass. *)
ClosedBoundaryFinalPasses(events) ==
  LET scan[k \in 0..Len(events)] ==
        IF k = 0 THEN [out |-> <<>>, last |-> <<>>]
        ELSE LET s == scan[k - 1]
                 kind == events[k].kind
             IN  CASE kind = "gate.pass" -> [s EXCEPT !.last = <<k>>]
                   [] kind = "gate.fail" -> [s EXCEPT !.last = <<>>]
                   [] kind \in {"node.stop", "session.close"} ->
                        [out |-> s.out \o s.last, last |-> <<>>]
                   [] OTHER -> s
  IN  scan[Len(events)].out

(* boundary_final_passes: the last gate.pass of each boundary, unless a      *)
(* gate.fail follows it; a boundary still open at the end counts too.        *)
BoundaryFinalPasses(events) ==
  LET scan[k \in 0..Len(events)] ==
        IF k = 0 THEN [out |-> <<>>, last |-> <<>>]
        ELSE LET s == scan[k - 1]
                 kind == events[k].kind
             IN  CASE kind = "gate.pass" -> [s EXCEPT !.last = <<k>>]
                   [] kind = "gate.fail" -> [s EXCEPT !.last = <<>>]
                   [] kind \in {"node.stop", "session.close"} ->
                        [out |-> s.out \o s.last, last |-> <<>>]
                   [] OTHER -> s
  IN  scan[Len(events)].out \o scan[Len(events)].last

(* commit_markers: the k-th candidate is zipped with the k-th commit row, so *)
(* candidates beyond the rows (and rows beyond the candidates) get none.     *)
CommitMarkers(events, commits) ==
  LET passes == BoundaryFinalPasses(events)
      n == IF Len(passes) < commits THEN Len(passes) ELSE commits
  IN  SubSeq(passes, 1, n)

(* Header of show: RUNNING until a session.close says otherwise. *)
HeaderStatus(events) ==
  LET closes == {i \in 1..Len(events) : events[i].kind = "session.close"}
  IN  IF closes = {} THEN "RUNNING"
      ELSE events[CHOOSE i \in closes : \A j \in closes : j <= i].at

(* Mutant: a suspend-line event is no reason. *)
GateOnlyTerminalFacts(events) ==
  LET reasons == {i \in 1..Len(events) : events[i].kind = "gate.fail"}
      last == CHOOSE i \in reasons : \A j \in reasons : j <= i
  IN  [state |-> HeaderStatus(events), reason |-> IF reasons = {} THEN "none" ELSE events[last].reason]

(* terminal_facts: the final state, and the reason_code of the newest        *)
(* gate.fail, unless a suspend-line budget.event is newer.                   *)
TerminalFacts(events) ==
  LET suspends == {i \in 1..Len(events) : events[i].kind = "budget.event" /\ events[i].at = "suspend"}
      reasons == {i \in 1..Len(events) : events[i].kind = "gate.fail"} \cup suspends
      last == CHOOSE i \in reasons : \A j \in reasons : j <= i
  IN  [state |-> HeaderStatus(events),
       reason |-> IF reasons = {} THEN "none"
                  ELSE IF last \in suspends THEN "BUDGET_EXCEEDED" ELSE events[last].reason]
-----------------------------------------------------------------------------
(* Structure: what eval and replay compare. *)

NoStructure == [nodes |-> <<>>, gates |-> <<>>]
NodeStep(e) == [node |-> e.node, wave |-> e.wave]

(* A pass has no reason and no attempts left. *)
GateStep(e) ==
  LET fail == e.kind = "gate.fail" IN
  [node |-> e.node, gate |-> e.gate, verdict |-> e.kind,
   reason |-> IF fail THEN e.reason ELSE "none", left |-> IF fail THEN e.left ELSE "none"]

(* project_structure: the path of node starts and the gate verdicts, each in *)
(* event order.                                                              *)
ProjectStructure(events) ==
  LET scan[k \in 0..Len(events)] ==
        IF k = 0 THEN NoStructure
        ELSE LET s == scan[k - 1]
                 e == events[k]
             IN  CASE e.kind = "node.start" -> [s EXCEPT !.nodes = Append(@, NodeStep(e))]
                   [] e.kind \in {"gate.pass", "gate.fail"} -> [s EXCEPT !.gates = Append(@, GateStep(e))]
                   [] OTHER -> s
  IN  scan[Len(events)]

(* iter().zip(): the shorter sequence ends it. *)
ZipDiffers(s, t) == \E i \in 1..(IF Len(s) < Len(t) THEN Len(s) ELSE Len(t)) : s[i] # t[i]

(* Mutant: element-wise only. *)
ZipCompareStructure(expected, actual) ==
  ~ZipDiffers(expected.nodes, actual.nodes) /\ ~ZipDiffers(expected.gates, actual.gates)

(* compare_structure: no difference in the counts and none element-wise; the *)
(* cap on reported differences cannot hide the last one.                     *)
CompareStructure(expected, actual) ==
  /\ Len(expected.nodes) = Len(actual.nodes) /\ ~ZipDiffers(expected.nodes, actual.nodes)
  /\ Len(expected.gates) = Len(actual.gates) /\ ~ZipDiffers(expected.gates, actual.gates)
=============================================================================
