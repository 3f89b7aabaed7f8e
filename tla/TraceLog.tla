------------------------------ MODULE TraceLog ------------------------------
(***************************************************************************)
(* The event log of hesmos-trace (log.rs): one append-only file of chained *)
(* events per session, and the ways of reading it back.                    *)
(*                                                                         *)
(* A hash is the history it digests, so two events hash alike only when    *)
(* everything before them is alike.  Of an event's attributes only the     *)
(* seal's chain_head_hash is kept (head); ts is never hashed.  The module  *)
(* holds the file and the operations on it; SessionClose drives them.      *)
(***************************************************************************)
EXTENDS Integers, Sequences

CONSTANT Kinds    \* the kinds of the events a session emits, besides its seal

ASSUME KindsAssumption == "trace.seal" \notin Kinds /\ "garbage" \notin Kinds

AllKinds == Kinds \cup {"trace.seal"}

Hash == Seq(Int \X (AllKinds \cup {"garbage"}))

GENESIS == <<>>

(* A line of the file: an event, or bytes that do not parse as one. *)
Line == [seq : Int, kind : AllKinds \cup {"garbage"}, head : Hash, prev : Hash, hash : Hash]

Garbage == [seq |-> -1, kind |-> "garbage", head |-> <<>>, prev |-> <<>>, hash |-> <<>>]

(* chain_hash(prev_hash, seq, kind, attrs). *)
ChainHash(prev, seq, kind, head) == Append(prev, <<seq, kind>>) \o head

VARIABLES
  lines,     \* the complete lines of events.jsonl
  tail,      \* bytes after the last newline: "none", "torn" (part of an event) or
             \* "bare" (a whole event, its newline missing)
  pending,   \* the event try_append is writing, when tail # "none"
  next,      \* LogState.next_seq of the open handle
  prev       \* LogState.prev_hash of the open handle

fileVars == <<lines, tail, pending>>
handleVars == <<next, prev>>

-----------------------------------------------------------------------------
(* Reading. *)

(* What BufRead::lines yields: an unterminated last line counts. *)
View ==
  CASE tail = "none" -> lines
    [] tail = "torn" -> Append(lines, Garbage)
    [] tail = "bare" -> Append(lines, pending)

HeadOf(v) == IF v = <<>> THEN GENESIS ELSE v[Len(v)].hash

PrevOf(v, i) == IF i = 1 THEN GENESIS ELSE v[i - 1].hash

(* Mutant: stored hashes are compared with each other, never recomputed. *)
TrustingFaultAt(v, i) ==
  IF v[i].kind = "garbage" THEN "invalid_line"
  ELSE IF v[i].seq # i - 1 THEN "seq_gap"
  ELSE IF v[i].prev # PrevOf(v, i) THEN "broken_link"
  ELSE "none"

(* scan, one line: the first check that fails. *)
FaultAt(v, i) ==
  IF v[i].kind = "garbage" THEN "invalid_line"
  ELSE IF v[i].seq # i - 1 THEN "seq_gap"
  ELSE IF v[i].prev # PrevOf(v, i) THEN "broken_link"
  ELSE IF v[i].hash # ChainHash(v[i].prev, v[i].seq, v[i].kind, v[i].head) THEN "hash_mismatch"
  ELSE "none"

(* scan and verify succeed. *)
Intact(v) == \A i \in 1..Len(v) : FaultAt(v, i) = "none"

FirstFault(v) ==
  CHOOSE i \in 1..Len(v) : FaultAt(v, i) # "none" /\ \A j \in 1..(i - 1) : FaultAt(v, j) = "none"

(* load_path: the events up to the first fault, the faulted one included   *)
(* unless it did not parse.                                                *)
LoadedEvents(v) ==
  IF Intact(v) THEN v
  ELSE SubSeq(v, 1, IF v[FirstFault(v)].kind = "garbage" THEN FirstFault(v) - 1
                    ELSE FirstFault(v))

(* The log is shown as sealed (sealed_note), and seal refuses it. *)
Sealed(v) == v # <<>> /\ v[Len(v)].kind = "trace.seal"

-----------------------------------------------------------------------------
(* Writing. *)

TraceInit ==
  /\ lines = <<>> /\ tail = "none" /\ pending = Garbage
  /\ next = 0 /\ prev = GENESIS

(* EventLog::open on an intact file; a fault refuses it. *)
Open ==
  /\ Intact(View)
  /\ next' = Len(View) /\ prev' = HeadOf(View)
  /\ UNCHANGED fileVars

(* try_append up to its first bytes in the file. *)
BeginAppend(kind, head) ==
  /\ tail = "none"
  /\ tail' = "torn"
  /\ pending' = [seq |-> next, kind |-> kind, head |-> head, prev |-> prev,
                 hash |-> ChainHash(prev, next, kind, head)]
  /\ UNCHANGED <<lines, handleVars>>

(* All of the event but its newline is in the file. *)
AlmostAppended ==
  /\ tail = "torn"
  /\ tail' = "bare"
  /\ UNCHANGED <<lines, pending, handleVars>>

(* The line is complete and the handle moves on. *)
EndAppend ==
  /\ tail = "bare"
  /\ lines' = Append(lines, pending)
  /\ tail' = "none" /\ pending' = Garbage
  /\ next' = pending.seq + 1
  /\ prev' = pending.hash

=============================================================================
