---------------------------- MODULE SessionClose ----------------------------
(***************************************************************************)
(* The life of one session's log: the run that writes it, close_session    *)
(* (cmd/run.rs) that reopens it, seals a completed session (seal.rs) and   *)
(* joins the seal to the bathos audit (platform.rs), readers at any time,  *)
(* a crash at any byte, and one damage of the stored lines.                *)
(***************************************************************************)
EXTENDS TraceLog

CONSTANTS
  MaxEvents,   \* bound: events before session.close
  MayDamage    \* may a stored line be damaged by something else?

ASSUME CloseAssumption ==
  MaxEvents \in Nat /\ MayDamage \in BOOLEAN /\ "session.close" \in Kinds

VARIABLES
  pc,        \* program point of the process
  completed, \* the session's final state is COMPLETED
  exit,      \* the exit band of the process, "none" while it runs
  sealHead,  \* seal's local head: the head it loaded
  emitted,   \* history: the events whose append returned
  audit,     \* external: the heads the bathos audit recorded
  damaged    \* the stored lines were damaged

vars == <<lines, tail, pending, next, prev, pc, completed, exit, sealHead, emitted, audit,
          damaged>>

Init ==
  /\ TraceInit
  /\ pc = "open" /\ completed = FALSE /\ exit = "none"
  /\ sealHead = GENESIS
  /\ emitted = <<>> /\ audit = <<>> /\ damaged = FALSE

(* The process leaves with an exit band. *)
Exit(band) == pc' = "done" /\ exit' = band
Step(p) == pc' = p /\ UNCHANGED exit

(* open_session_runner: a fresh log. *)
OpenRun ==
  /\ pc = "open"
  /\ Open
  /\ Step("run")
  /\ UNCHANGED <<completed, sealHead, emitted, audit, damaged>>

(* Runner::emit, up to and including session.close. *)
EmitEvent(kind) ==
  /\ pc = "run"
  /\ kind = "session.close" \/ Len(emitted) < MaxEvents
  /\ BeginAppend(kind, <<>>)
  /\ UNCHANGED <<pc, completed, exit, sealHead, emitted, audit, damaged>>

WriteOn ==
  /\ pc \in {"run", "sealing"}
  /\ AlmostAppended
  /\ UNCHANGED <<pc, completed, exit, sealHead, emitted, audit, damaged>>

(* emit returns; session.close ends the run, and its handle is dropped. *)
Written ==
  /\ pc \in {"run", "sealing"}
  /\ EndAppend
  /\ emitted' = Append(emitted, pending)
  /\ \/ /\ pending.kind = "session.close"
        /\ Step("close")
        /\ completed' \in BOOLEAN
     \/ /\ pending.kind = "trace.seal"
        /\ Step("audit")
        /\ UNCHANGED completed
     \/ /\ pending.kind \notin {"session.close", "trace.seal"}
        /\ UNCHANGED <<pc, exit, completed>>
  /\ UNCHANGED <<sealHead, audit, damaged>>

(* close_session: only a completed session is sealed, on a reopened log. *)
Reopen ==
  /\ pc = "close"
  /\ \/ /\ ~completed
        /\ Step("tally") /\ UNCHANGED <<fileVars, handleVars>>
     \/ /\ completed /\ Intact(View)
        /\ Open /\ Step("seal")
     \/ /\ completed /\ ~Intact(View)
        /\ Exit("platform") /\ UNCHANGED <<fileVars, handleVars>>
  /\ UNCHANGED <<completed, sealHead, emitted, audit, damaged>>

(* Mutant: the head goes to the audit before the seal event is written. *)
AuditFirstSealLoad ==
  /\ pc = "seal"
  /\ IF ~Intact(View) THEN Exit("platform") /\ UNCHANGED sealHead
     ELSE IF Sealed(View) THEN Exit("usage") /\ UNCHANGED sealHead
     ELSE sealHead' = HeadOf(View) /\ Step("audit")
  /\ UNCHANGED <<fileVars, handleVars, completed, emitted, audit, damaged>>

(* seal: load once more, refuse a faulted or a sealed log, take the head. *)
SealLoad ==
  /\ pc = "seal"
  /\ IF ~Intact(View) THEN Exit("platform") /\ UNCHANGED sealHead
     ELSE IF Sealed(View) THEN Exit("usage") /\ UNCHANGED sealHead
     ELSE sealHead' = HeadOf(View) /\ Step("sealing")
  /\ UNCHANGED <<fileVars, handleVars, completed, emitted, audit, damaged>>

(* The trace.seal event, naming the head before it. *)
EmitSeal ==
  /\ pc = "sealing"
  /\ BeginAppend("trace.seal", sealHead)
  /\ UNCHANGED <<pc, completed, exit, sealHead, emitted, audit, damaged>>

(* audit_append.  The engine records the head, or refuses, or cannot be    *)
(* spawned (127), which defers the join.                                   *)
AuditAppend ==
  /\ pc = "audit"
  /\ \/ audit' = Append(audit, sealHead) /\ Step("verify")
     \/ UNCHANGED audit /\ Exit("platform")
     \/ UNCHANGED audit /\ Step("tally")
  /\ UNCHANGED <<fileVars, handleVars, completed, sealHead, emitted, damaged>>

(* audit_verify: ok, or a broken audit chain, or 127 again. *)
AuditVerify ==
  /\ pc = "verify"
  /\ Step("tally") \/ Exit("platform")
  /\ UNCHANGED <<fileVars, handleVars, completed, sealHead, emitted, audit, damaged>>

(* Mutant: the tallies are taken from memory. *)
BlindTally ==
  /\ pc = "tally"
  /\ Exit(IF completed THEN "ok" ELSE "reason")
  /\ UNCHANGED <<fileVars, handleVars, completed, sealHead, emitted, audit, damaged>>

(* The tallies of the summary read the log again (load_events). *)
Tally ==
  /\ pc = "tally"
  /\ \/ Intact(View) /\ Exit(IF completed THEN "ok" ELSE "reason")
     \/ ~Intact(View) /\ Exit("platform")
  /\ UNCHANGED <<fileVars, handleVars, completed, sealHead, emitted, audit, damaged>>

(* The process dies; a failed write panics with the bytes written so far. *)
Crash ==
  /\ pc \notin {"done", "dead"}
  /\ pc' = "dead"
  /\ UNCHANGED <<fileVars, handleVars, completed, exit, sealHead, emitted, audit, damaged>>

(* Something else edits a stored line, or removes one that is not the      *)
(* last.  (Cutting the tail off leaves a shorter chain that is intact.)    *)
Damage(i) ==
  /\ MayDamage /\ ~damaged /\ pc # "done" /\ tail = "none"
  /\ damaged' = TRUE
  /\ \/ \E k \in Kinds \ {lines[i].kind} : lines' = [lines EXCEPT ![i].kind = k]
     \/ i < Len(lines) /\ lines' = SubSeq(lines, 1, i - 1) \o SubSeq(lines, i + 1, Len(lines))
  /\ UNCHANGED <<tail, pending, handleVars, pc, completed, exit, sealHead, emitted, audit>>

Next ==
  \/ OpenRun \/ (\E kind \in Kinds : EmitEvent(kind)) \/ WriteOn \/ Written
  \/ Reopen \/ SealLoad \/ EmitSeal \/ AuditAppend \/ AuditVerify \/ Tally
  \/ Crash \/ (\E i \in 1..Len(lines) : Damage(i))

Spec == Init /\ [][Next]_vars

-----------------------------------------------------------------------------

IsPrefixOf(s, t) == Len(s) <= Len(t) /\ s = SubSeq(t, 1, Len(s))

(* What verifies is what was emitted: a log that scans clean holds the     *)
(* events of the session in order, with at most the one being written at   *)
(* its end, through crashes at any byte, reopening, sealing and damage     *)
(* (SS-02: append-only, chain-linked).  And what was emitted is never      *)
(* accused: a reader of an undamaged log, the running session's too, gets  *)
(* a prefix, and the only fault it sees is the unparsable last line of a   *)
(* torn write.                                                             *)
VerifiedIsEmitted ==
  /\ Intact(View) => IsPrefixOf(View, Append(emitted, pending))
  /\ ~damaged =>
       /\ IsPrefixOf(LoadedEvents(View), Append(emitted, pending))
       /\ ~Intact(View) => FirstFault(View) = Len(View) /\ tail = "torn"

(* Exit 0 tells the truth: the log verifies, nothing emitted is missing,   *)
(* and it ends in the one trace.seal, right after session.close, whose     *)
(* chain_head_hash is the head before it.                                  *)
ExitOkMeansSealed ==
  exit = "ok" =>
    /\ Intact(lines) /\ lines = emitted
    /\ Sealed(lines) /\ Len(lines) > 1
    /\ lines[Len(lines) - 1].kind = "session.close"
    /\ lines[Len(lines)].head = lines[Len(lines) - 1].hash
    /\ \A i \in 1..(Len(lines) - 1) : lines[i].kind # "trace.seal"

(* The audit never knows more than the log: a recorded head belongs to a   *)
(* trace.seal that is durable, and is recorded once.                       *)
AuditBacked ==
  audit # <<>> =>
    /\ Len(audit) = 1
    /\ Sealed(emitted) /\ emitted[Len(emitted)].head = audit[1]
    /\ completed

=============================================================================
