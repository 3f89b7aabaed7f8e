------------------------- MODULE SessionClose_proofs -------------------------
(***************************************************************************)
(* Proofs about SessionClose, for any kinds of events and any number of    *)
(* them.                                                                   *)
(*                                                                         *)
(* The invariant has two halves.  Chained is about the file: as long as    *)
(* nothing damaged it, it holds what was emitted, each event follows the   *)
(* one before it, and the handle of a writer is at its end; once damaged,  *)
(* some line is faulty and stays so, for appending repairs nothing.        *)
(* Sealing is about the process: how far session.close, the seal and the   *)
(* audit have come at each program point.                                  *)
(***************************************************************************)
EXTENDS SessionClose, TLAPS

(* Program points, and exit bands. *)
PCs == {"open", "run", "close", "seal", "sealing", "audit", "verify", "tally", "done", "dead"}
Bands == {"none", "ok", "reason", "platform", "usage"}

(* The types of the state. *)
Types ==
  /\ lines \in Seq(Line) /\ tail \in {"none", "torn", "bare"} /\ pending \in Line
  /\ next \in Int /\ prev \in Hash
  /\ pc \in PCs /\ completed \in BOOLEAN /\ exit \in Bands
  /\ sealHead \in Hash /\ emitted \in Seq(Line) /\ audit \in Seq(Hash) /\ damaged \in BOOLEAN

(* Event e is the next one of the chain v. *)
Follows(v, e) ==
  /\ e.kind # "garbage" /\ e.seq = Len(v) /\ e.prev = HeadOf(v)
  /\ e.hash = ChainHash(e.prev, e.seq, e.kind, e.head)

(* The file: the chain of what was emitted, or one that no reader accepts. *)
Chained ==
  /\ damaged => ~Intact(lines)
  /\ ~damaged =>
       /\ lines = emitted /\ Intact(lines)
       /\ tail # "none" => Follows(lines, pending)
       /\ tail = "none" /\ pc \in {"run", "seal", "sealing"} =>
            next = Len(lines) /\ prev = HeadOf(lines)

(* No seal yet; the run is over; the run is over and sealed. *)
Unsealed(v) == \A i \in 1..Len(v) : v[i].kind # "trace.seal"
Closed(v) == v # <<>> /\ v[Len(v)].kind = "session.close"
ClosedAndSealed(v) ==
  /\ Len(v) > 1 /\ v[Len(v)].kind = "trace.seal" /\ v[Len(v) - 1].kind = "session.close"
  /\ v[Len(v)].head = v[Len(v) - 1].hash
  /\ \A i \in 1..(Len(v) - 1) : v[i].kind # "trace.seal"

(* What was emitted so far, and what the seal, the audit and the exit band *)
(* say of it.                                                              *)
Sealing ==
  /\ pc \notin {"run", "sealing", "dead"} => tail = "none"
  /\ pc = "run" /\ tail # "none" => pending.kind \in Kinds
  /\ pc = "sealing" /\ tail # "none" => pending.kind = "trace.seal" /\ pending.head = sealHead
  /\ pc \in {"open", "run", "close", "seal", "sealing"} => Unsealed(emitted)
  /\ pc \in {"close", "seal", "sealing"} => Closed(emitted)
  /\ pc \in {"seal", "sealing", "audit", "verify"} => completed
  /\ pc = "sealing" => sealHead = HeadOf(emitted)
  /\ pc \in {"audit", "verify"} \/ (pc = "tally" /\ completed) \/ exit = "ok" \/ audit # <<>> =>
       ClosedAndSealed(emitted)
  /\ pc \in {"audit", "verify"} \/ audit # <<>> => emitted[Len(emitted)].head = sealHead
  /\ audit # <<>> => completed /\ audit = <<sealHead>> /\ pc \in {"verify", "tally", "done", "dead"}
  /\ exit = "ok" => pc = "done" /\ ~damaged
  /\ pc # "done" => exit = "none"

(* The inductive invariant. *)
IInv == Types /\ Chained /\ Sealing

-----------------------------------------------------------------------------
(* Chains. *)

(* A line without a fault is the next one after those before it. *)
LEMMA Faultless ==
  ASSUME NEW v \in Seq(Line), NEW i \in 1..Len(v)
  PROVE  FaultAt(v, i) = "none" <=>
           /\ v[i].kind # "garbage" /\ v[i].seq = i - 1 /\ v[i].prev = PrevOf(v, i)
           /\ v[i].hash = ChainHash(v[i].prev, v[i].seq, v[i].kind, v[i].head)
<1> QED  BY DEF FaultAt

(* Garbage is a line, and hashes are hashes. *)
LEMMA LineTypes ==
  /\ Garbage \in Line /\ GENESIS \in Hash
  /\ \A p, h \in Hash : \A s \in Int : \A k \in AllKinds : ChainHash(p, s, k, h) \in Hash
  /\ \A v \in Seq(Line) : HeadOf(v) \in Hash
<1>1. GENESIS \in Hash /\ <<>> \in Hash
  BY DEF GENESIS, Hash
<1>2. Garbage \in Line
  BY <1>1 DEF Garbage, Line
<1>3. ASSUME NEW p \in Hash, NEW h \in Hash, NEW s \in Int, NEW k \in AllKinds
      PROVE  ChainHash(p, s, k, h) \in Hash
  <2> DEFINE Link == Int \X (AllKinds \cup {"garbage"})
  <2>1. <<s, k>> \in Link
    OBVIOUS
  <2> HIDE DEF Link
  <2>2. p \in Seq(Link) /\ h \in Seq(Link)
    BY DEF Hash, Link
  <2>3. Append(p, <<s, k>>) \in Seq(Link)
    BY <2>1, <2>2
  <2>4. Append(p, <<s, k>>) \o h \in Seq(Link)
    BY <2>2, <2>3
  <2> QED  BY <2>4 DEF Hash, ChainHash, Link
<1>4. ASSUME NEW v \in Seq(Line) PROVE HeadOf(v) \in Hash
  <2>1. CASE v = <<>>
    BY <2>1, <1>1 DEF HeadOf
  <2>2. CASE v # <<>>
    <3>1. v[Len(v)] \in Line
      BY <2>2
    <3> QED  BY <2>2, <3>1 DEF HeadOf, Line
  <2> QED  BY <2>1, <2>2
<1> QED  BY <1>1, <1>2, <1>3, <1>4

(* Appending changes nothing before it. *)
LEMMA Appending ==
  ASSUME NEW v \in Seq(Line), NEW e \in Line
  PROVE  /\ Append(v, e) \in Seq(Line) /\ Len(Append(v, e)) = Len(v) + 1
         /\ Append(v, e)[Len(v) + 1] = e
         /\ \A i \in 1..Len(v) : Append(v, e)[i] = v[i]
         /\ \A i \in 1..Len(v) : FaultAt(Append(v, e), i) = FaultAt(v, i)
         /\ HeadOf(Append(v, e)) = e.hash
<1> DEFINE w == Append(v, e)
<1>1. /\ w \in Seq(Line) /\ Len(w) = Len(v) + 1 /\ w[Len(v) + 1] = e
      /\ \A i \in 1..Len(v) : w[i] = v[i]
  OBVIOUS
<1> HIDE DEF w
<1>2. ASSUME NEW i \in 1..Len(v) PROVE FaultAt(w, i) = FaultAt(v, i)
  <2>1. w[i] = v[i]
    BY <1>1
  <2>2. PrevOf(w, i) = PrevOf(v, i)
    <3>1. CASE i = 1
      BY <3>1 DEF PrevOf
    <3>2. CASE i # 1
      <4>1. w[i - 1] = v[i - 1]
        BY <1>1, <3>2
      <4> QED  BY <3>2, <4>1 DEF PrevOf
    <3> QED  BY <3>1, <3>2
  <2> QED  BY <2>1, <2>2 DEF FaultAt
<1>3. HeadOf(w) = e.hash
  <2>1. w # <<>>
    BY <1>1
  <2> QED  BY <1>1, <2>1 DEF HeadOf
<1> QED  BY <1>1, <1>2, <1>3 DEF w

(* The next event of an intact chain keeps it intact. *)
LEMMA FollowsKeeps ==
  ASSUME NEW v \in Seq(Line), NEW e \in Line, Intact(v), Follows(v, e)
  PROVE  Intact(Append(v, e))
<1> DEFINE w == Append(v, e)
<1>1. /\ w \in Seq(Line) /\ Len(w) = Len(v) + 1 /\ w[Len(v) + 1] = e
      /\ \A i \in 1..Len(v) : w[i] = v[i]
      /\ \A i \in 1..Len(v) : FaultAt(w, i) = FaultAt(v, i)
  BY Appending
<1> HIDE DEF w
<1>2. PrevOf(w, Len(v) + 1) = HeadOf(v)
  <2>1. CASE v = <<>>
    BY <2>1 DEF PrevOf, HeadOf
  <2>2. CASE v # <<>>
    <3>1. Len(v) \in Nat /\ Len(v) # 0
      BY <2>2
    <3>2. w[Len(v)] = v[Len(v)]
      BY <1>1, <3>1
    <3> QED  BY <2>2, <3>1, <3>2 DEF PrevOf, HeadOf
  <2> QED  BY <2>1, <2>2
<1>3. FaultAt(w, Len(v) + 1) = "none"
  <2>1. Len(v) + 1 \in 1..Len(w) /\ (Len(v) + 1) - 1 = Len(v)
    BY <1>1
  <2> QED  BY <1>1, <1>2, <2>1, Faultless DEF Follows
<1>4. ASSUME NEW i \in 1..Len(w) PROVE FaultAt(w, i) = "none"
  <2>1. i \in 1..Len(v) \/ i = Len(v) + 1
    BY <1>1
  <2> QED  BY <1>1, <1>3, <2>1 DEF Intact
<1> QED  BY <1>4 DEF Intact, w

(* No appended line repairs a chain. *)
LEMMA FaultStays ==
  ASSUME NEW v \in Seq(Line), NEW e \in Line, ~Intact(v)
  PROVE  ~Intact(Append(v, e))
<1>1. PICK i \in 1..Len(v) : FaultAt(v, i) # "none"
  BY DEF Intact
<1>2. i \in 1..Len(Append(v, e))
  BY Appending
<1> QED  BY <1>1, <1>2, Appending DEF Intact

(* What the readers see: the lines, one line more, or one unparsable line  *)
(* more.                                                                   *)
LEMMA Views ==
  ASSUME Types
  PROVE  /\ View \in Seq(Line)
         /\ tail = "none" => View = lines
         /\ tail = "torn" => View = Append(lines, Garbage)
         /\ tail = "bare" => View = Append(lines, pending)
<1>1. /\ tail = "none" => View = lines
      /\ tail = "torn" => View = Append(lines, Garbage)
      /\ tail = "bare" => View = Append(lines, pending)
  BY DEF View
<1> QED  BY <1>1, LineTypes, Appending DEF Types

(* A reader accepts undamaged lines only. *)
LEMMA IntactUndamaged ==
  ASSUME Types, Chained, Intact(View)
  PROVE  ~damaged
<1> SUFFICES ASSUME ~Intact(lines) PROVE FALSE
  BY DEF Chained
<1> QED  BY Views, FaultStays, LineTypes DEF Types

-----------------------------------------------------------------------------
(* The steps of the process. *)

(* A step that writes nothing leaves the file as it was. *)
LEMMA StillChained ==
  ASSUME Chained, UNCHANGED <<fileVars, handleVars, emitted, damaged>>,
         pc' \in {"run", "seal", "sealing"} => pc \in {"run", "seal", "sealing"}
  PROVE  Chained'
<1> QED  BY DEF Chained, fileVars, handleVars, Intact, FaultAt, PrevOf, HeadOf, Follows, ChainHash

(* At first the log is empty and nobody has read or written it. *)
LEMMA InitIInv == Init => IInv
<1> SUFFICES ASSUME Init PROVE IInv
  OBVIOUS
<1>1. Types
  <2>1. GENESIS \in Hash /\ Garbage \in Line
    BY LineTypes
  <2>2. lines \in Seq(Line) /\ emitted \in Seq(Line) /\ audit \in Seq(Hash)
    BY DEF Init, TraceInit
  <2>3. /\ tail = "none" /\ pc = "open" /\ exit = "none" /\ ~completed /\ ~damaged
        /\ completed \in BOOLEAN /\ damaged \in BOOLEAN
        /\ pending = Garbage /\ next = 0 /\ prev = GENESIS /\ sealHead = GENESIS
    BY DEF Init, TraceInit
  <2> QED  BY <2>1, <2>2, <2>3 DEF Types, PCs, Bands
<1>2. Chained
  BY DEF Init, TraceInit, Chained, Intact
<1>3. Sealing
  BY DEF Init, TraceInit, Sealing, Unsealed
<1> QED  BY <1>1, <1>2, <1>3 DEF IInv

(* A reopened log is undamaged, and its handle is at the end. *)
LEMMA Opened ==
  ASSUME Types, Chained, Open, tail = "none", UNCHANGED <<emitted, damaged>>
  PROVE  /\ ~damaged /\ UNCHANGED fileVars
         /\ next' \in Int /\ prev' \in Hash /\ Chained'
<1>1. ~damaged /\ View = lines
  BY IntactUndamaged, Views DEF Open
<1>2. next' = Len(lines) /\ prev' = HeadOf(lines) /\ UNCHANGED fileVars
  BY <1>1 DEF Open
<1>3. next' \in Int /\ prev' \in Hash
  BY <1>2, LineTypes DEF Types
<1>4. UNCHANGED <<lines, tail, pending, emitted, damaged>>
  BY <1>2 DEF fileVars
<1>5. HeadOf(lines)' = HeadOf(lines) /\ Intact(lines)' = Intact(lines)
  BY <1>4 DEF HeadOf, Intact, FaultAt, PrevOf, ChainHash
<1>6. lines = emitted /\ Intact(lines)
  BY <1>1 DEF Chained
<1>7. Chained'
  BY <1>1, <1>2, <1>4, <1>5, <1>6 DEF Chained
<1> QED  BY <1>1, <1>2, <1>3, <1>7

(* The run begins on an intact log (open_session_runner). *)
LEMMA OpenRunStep == IInv /\ OpenRun => IInv'
<1> SUFFICES ASSUME IInv, OpenRun PROVE IInv'
  OBVIOUS
<1>1. /\ pc = "open" /\ tail = "none" /\ pc' = "run" /\ exit' = exit
      /\ UNCHANGED <<completed, sealHead, emitted, audit, damaged>>
  BY DEF IInv, Sealing, OpenRun, Step
<1>2. UNCHANGED fileVars /\ next' \in Int /\ prev' \in Hash /\ Chained'
  BY <1>1, Opened DEF IInv, OpenRun
<1>3. Types'
  BY <1>1, <1>2 DEF IInv, Types, PCs, fileVars
<1>4. Sealing'
  BY <1>1, <1>2 DEF IInv, Sealing, Unsealed, ClosedAndSealed, fileVars
<1> QED  BY <1>2, <1>3, <1>4 DEF IInv

(* An append begins at the end of the chain. *)
LEMMA Begun ==
  ASSUME Types, Chained, pc \in {"run", "sealing"}, pc' = pc,
         NEW kind \in AllKinds, NEW head \in Hash, BeginAppend(kind, head),
         UNCHANGED <<emitted, damaged>>
  PROVE  /\ tail' = "torn" /\ pending' \in Line /\ pending'.kind = kind /\ pending'.head = head
         /\ UNCHANGED <<lines, next, prev>> /\ Chained'
<1>1. /\ tail = "none" /\ tail' = "torn" /\ UNCHANGED <<lines, next, prev>>
      /\ pending' = [seq |-> next, kind |-> kind, head |-> head, prev |-> prev,
                     hash |-> ChainHash(prev, next, kind, head)]
  BY DEF BeginAppend, handleVars
<1>2. ChainHash(prev, next, kind, head) \in Hash
  BY LineTypes DEF Types
<1>3. pending' \in Line /\ pending'.kind = kind /\ pending'.head = head
  BY <1>1, <1>2 DEF Types, Line
<1>4. kind # "garbage"
  BY KindsAssumption DEF AllKinds
<1>5. Intact(lines)' = Intact(lines) /\ HeadOf(lines)' = HeadOf(lines)
  BY <1>1 DEF HeadOf, Intact, FaultAt, PrevOf, ChainHash
<1>6. ~damaged => Follows(lines, pending)'
  BY <1>1, <1>4, <1>5 DEF Chained, Follows, ChainHash
<1>7. Chained'
  BY <1>1, <1>5, <1>6 DEF Chained
<1> QED  BY <1>1, <1>3, <1>7

(* The run begins an event of its own, never a seal (Runner::emit). *)
LEMMA EmitEventStep ==
  ASSUME IInv, NEW kind \in Kinds, EmitEvent(kind)
  PROVE  IInv'
<1>1. /\ pc = "run" /\ UNCHANGED <<pc, completed, exit, sealHead, emitted, audit, damaged>>
      /\ BeginAppend(kind, <<>>) /\ kind \in AllKinds /\ <<>> \in Hash
  BY DEF EmitEvent, AllKinds, Hash
<1>2. /\ tail' = "torn" /\ pending' \in Line /\ pending'.kind = kind
      /\ UNCHANGED <<lines, next, prev>> /\ Chained'
  BY <1>1, Begun DEF IInv
<1>3. Types'
  BY <1>1, <1>2 DEF IInv, Types
<1>4. Sealing'
  BY <1>1, <1>2 DEF IInv, Sealing, Unsealed, ClosedAndSealed
<1> QED  BY <1>2, <1>3, <1>4 DEF IInv

(* The seal names the head it loaded (seal). *)
LEMMA EmitSealStep == IInv /\ EmitSeal => IInv'
<1> SUFFICES ASSUME IInv, EmitSeal PROVE IInv'
  OBVIOUS
<1>1. /\ pc = "sealing" /\ UNCHANGED <<pc, completed, exit, sealHead, emitted, audit, damaged>>
      /\ BeginAppend("trace.seal", sealHead) /\ "trace.seal" \in AllKinds /\ sealHead \in Hash
  BY DEF EmitSeal, AllKinds, IInv, Types
<1>2. /\ tail' = "torn" /\ pending' \in Line
      /\ pending'.kind = "trace.seal" /\ pending'.head = sealHead
      /\ UNCHANGED <<lines, next, prev>> /\ Chained'
  BY <1>1, Begun DEF IInv
<1>3. Types'
  BY <1>1, <1>2 DEF IInv, Types
<1>4. HeadOf(emitted)' = HeadOf(emitted)
  BY <1>1 DEF HeadOf
<1>5. Sealing'
  BY <1>1, <1>2, <1>4 DEF IInv, Sealing, Unsealed, ClosedAndSealed
<1> QED  BY <1>2, <1>3, <1>5 DEF IInv

(* More bytes of an event say nothing new of the chain. *)
LEMMA WriteOnStep == IInv /\ WriteOn => IInv'
<1> SUFFICES ASSUME IInv, WriteOn PROVE IInv'
  OBVIOUS
<1>1. /\ pc \in {"run", "sealing"} /\ tail = "torn" /\ tail' = "bare"
      /\ UNCHANGED <<pc, completed, exit, sealHead, emitted, audit, damaged>>
      /\ UNCHANGED <<lines, pending, next, prev>>
  BY DEF WriteOn, AlmostAppended, handleVars
<1>2. Types'
  BY <1>1 DEF IInv, Types
<1>3. /\ Intact(lines)' = Intact(lines) /\ HeadOf(emitted)' = HeadOf(emitted)
      /\ Follows(lines, pending)' = Follows(lines, pending)
  BY <1>1 DEF HeadOf, Intact, FaultAt, PrevOf, ChainHash, Follows
<1>4. Chained'
  BY <1>1, <1>3 DEF IInv, Chained
<1>5. Sealing'
  BY <1>1, <1>3 DEF IInv, Sealing, Unsealed, Closed, ClosedAndSealed
<1> QED  BY <1>2, <1>4, <1>5 DEF IInv

(* The line that is complete extends the chain and moves the handle on. *)
LEMMA Ended ==
  ASSUME Types, Chained, EndAppend, emitted' = Append(emitted, pending), damaged' = damaged
  PROVE  /\ lines' \in Seq(Line) /\ emitted' \in Seq(Line) /\ tail' = "none"
         /\ pending' \in Line /\ next' \in Int /\ prev' \in Hash /\ Chained'
<1>1. /\ tail = "bare" /\ tail' = "none" /\ lines' = Append(lines, pending)
      /\ pending' = Garbage /\ next' = pending.seq + 1 /\ prev' = pending.hash
  BY DEF EndAppend
<1>2. /\ lines' \in Seq(Line) /\ emitted' \in Seq(Line) /\ pending' \in Line
      /\ next' \in Int /\ prev' \in Hash
  <2>1. pending.seq \in Int /\ pending.hash \in Hash
    BY DEF Types, Line
  <2> QED  BY <1>1, <2>1, Appending, LineTypes DEF Types
<1>3. ASSUME damaged PROVE ~Intact(lines)'
  <2>1. ~Intact(Append(lines, pending))
    BY <1>3, FaultStays DEF Types, Chained
  <2> QED  BY <1>1, <2>1 DEF Intact, FaultAt, PrevOf, ChainHash
<1>4. ASSUME ~damaged
      PROVE  lines' = emitted' /\ Intact(lines)' /\ next' = Len(lines') /\ prev' = HeadOf(lines)'
  <2>1. lines = emitted /\ Intact(lines) /\ Follows(lines, pending)
    BY <1>1, <1>4 DEF Chained
  <2>2. /\ Intact(Append(lines, pending)) /\ HeadOf(Append(lines, pending)) = pending.hash
        /\ Len(Append(lines, pending)) = Len(lines) + 1
    BY <2>1, FollowsKeeps, Appending DEF Types
  <2>3. next' = Len(lines')
    BY <1>1, <2>1, <2>2 DEF Follows
  <2>4. Intact(lines)' /\ prev' = HeadOf(lines)'
    BY <1>1, <2>2 DEF HeadOf, Intact, FaultAt, PrevOf, ChainHash
  <2> QED  BY <1>1, <2>1, <2>3, <2>4
<1>5. Chained'
  BY <1>1, <1>3, <1>4 DEF Chained
<1> QED  BY <1>1, <1>2, <1>5

(* An event that is written is session.close, a seal, or neither. *)
LEMMA WrittenStep == IInv /\ Written => IInv'
<1> SUFFICES ASSUME IInv, Written PROVE IInv'
  OBVIOUS
<1>1. /\ pc \in {"run", "sealing"} /\ tail = "bare" /\ emitted' = Append(emitted, pending)
      /\ UNCHANGED <<sealHead, audit, damaged>> /\ EndAppend
  BY DEF Written, EndAppend
<1>2. /\ lines' \in Seq(Line) /\ emitted' \in Seq(Line) /\ tail' = "none"
      /\ pending' \in Line /\ next' \in Int /\ prev' \in Hash /\ Chained'
  BY <1>1, Ended DEF IInv
<1>3. /\ Len(emitted') = Len(emitted) + 1 /\ emitted'[Len(emitted) + 1] = pending
      /\ \A i \in 1..Len(emitted) : emitted'[i] = emitted[i]
      /\ emitted \in Seq(Line)
  BY <1>1, Appending DEF IInv, Types
<1>4. Unsealed(emitted) /\ audit = <<>> /\ exit = "none"
  BY <1>1 DEF IInv, Sealing
<1>5. CASE pc = "run"
  <2>1. pending.kind \in Kinds /\ pending.kind # "trace.seal"
    BY <1>1, <1>5, KindsAssumption DEF IInv, Sealing
  <2>2. /\ exit' = exit /\ completed' \in BOOLEAN
        /\ pending.kind = "session.close" => pc' = "close"
        /\ pending.kind # "session.close" => pc' = "run"
    BY <1>5, <2>1 DEF Written, Step, IInv, Types
  <2>3. Unsealed(emitted)'
    BY <1>3, <1>4, <2>1 DEF Unsealed
  <2>4. pc' = "close" => Closed(emitted)'
    BY <1>3, <2>2 DEF Closed
  <2>5. Types'
    BY <1>1, <1>2, <2>2 DEF IInv, Types, PCs
  <2>6. Sealing'
    BY <1>1, <1>2, <1>4, <2>2, <2>3, <2>4 DEF Sealing
  <2> QED  BY <1>2, <2>5, <2>6 DEF IInv
<1>6. CASE pc = "sealing"
  <2>1. /\ pending.kind = "trace.seal" /\ pending.head = sealHead /\ completed
        /\ Closed(emitted) /\ sealHead = HeadOf(emitted)
    BY <1>1, <1>6 DEF IInv, Sealing
  <2>2. pc' = "audit" /\ exit' = exit /\ completed' = completed
    BY <2>1 DEF Written, Step
  <2>3. Len(emitted) \in Nat /\ Len(emitted) # 0 /\ sealHead = emitted[Len(emitted)].hash
    BY <1>3, <2>1 DEF Closed, HeadOf
  <2>4. ClosedAndSealed(emitted)' /\ emitted'[Len(emitted')].head = sealHead
    <3> DEFINE e == emitted'
    <3>1. /\ Len(e) = Len(emitted) + 1 /\ e[Len(e)] = pending /\ e[Len(e) - 1] = emitted[Len(emitted)]
      BY <1>3, <2>3
    <3>2. \A i \in 1..(Len(e) - 1) : e[i].kind # "trace.seal"
      BY <1>3, <1>4, <2>3 DEF Unsealed
    <3> HIDE DEF e
    <3>3. ClosedAndSealed(e)
      BY <2>1, <2>3, <3>1, <3>2 DEF ClosedAndSealed, Closed
    <3> QED  BY <2>1, <3>1, <3>3 DEF e, ClosedAndSealed
  <2>5. Types'
    BY <1>1, <1>2, <2>2 DEF IInv, Types, PCs
  <2>6. Sealing'
    BY <1>1, <1>2, <1>4, <2>1, <2>2, <2>4 DEF Sealing
  <2> QED  BY <1>2, <2>5, <2>6 DEF IInv
<1> QED  BY <1>1, <1>5, <1>6

(* Only an intact log is reopened for a seal (close_session). *)
LEMMA ReopenStep == IInv /\ Reopen => IInv'
<1> SUFFICES ASSUME IInv, Reopen PROVE IInv'
  OBVIOUS
<1>1. /\ pc = "close" /\ tail = "none" /\ exit = "none" /\ audit = <<>>
      /\ UNCHANGED <<completed, sealHead, emitted, audit, damaged>>
  BY DEF IInv, Sealing, Reopen
<1>2. /\ UNCHANGED fileVars /\ next' \in Int /\ prev' \in Hash /\ Chained'
      /\ \/ ~completed /\ pc' = "tally" /\ exit' = exit
         \/ completed /\ pc' = "seal" /\ exit' = exit
         \/ pc' = "done" /\ exit' = "platform"
  <2>1. CASE Open /\ Step("seal") /\ completed
    BY <1>1, <2>1, Opened DEF IInv, Step
  <2>2. CASE ~completed /\ Step("tally") /\ UNCHANGED <<fileVars, handleVars>>
    BY <1>1, <2>2, StillChained DEF IInv, Types, Step, handleVars
  <2>3. CASE Exit("platform") /\ UNCHANGED <<fileVars, handleVars>>
    BY <1>1, <2>3, StillChained DEF IInv, Types, Exit, handleVars
  <2> QED  BY <2>1, <2>2, <2>3 DEF Reopen
<1>3. Types'
  BY <1>1, <1>2 DEF IInv, Types, PCs, Bands, fileVars
<1>4. Sealing'
  BY <1>1, <1>2 DEF IInv, Sealing, Unsealed, Closed, ClosedAndSealed, fileVars
<1> QED  BY <1>2, <1>3, <1>4 DEF IInv

(* The head that is loaded is that of what was emitted (seal). *)
LEMMA SealLoadStep == IInv /\ SealLoad => IInv'
<1> SUFFICES ASSUME IInv, SealLoad PROVE IInv'
  OBVIOUS
<1>1. /\ pc = "seal" /\ tail = "none" /\ exit = "none" /\ audit = <<>>
      /\ UNCHANGED <<fileVars, handleVars, completed, emitted, audit, damaged>>
  BY DEF IInv, Sealing, SealLoad
<1>2. \/ pc' = "done" /\ exit' \in {"platform", "usage"} /\ UNCHANGED sealHead
      \/ Intact(View) /\ sealHead' = HeadOf(View) /\ pc' = "sealing" /\ exit' = exit
  BY DEF SealLoad, Exit, Step
<1>3. Chained'
  BY <1>1, <1>2, StillChained DEF IInv
<1>4. pc' = "sealing" => sealHead' = HeadOf(emitted) /\ sealHead' \in Hash
  <2>1. View = lines /\ HeadOf(lines) \in Hash
    BY <1>1, Views, LineTypes DEF IInv, Types
  <2>2. Intact(View) => lines = emitted
    BY IntactUndamaged DEF IInv, Chained
  <2> QED  BY <1>2, <2>1, <2>2
<1>5. Types'
  BY <1>1, <1>2, <1>4 DEF IInv, Types, PCs, Bands, fileVars, handleVars
<1>6. HeadOf(emitted)' = HeadOf(emitted)
  BY <1>1 DEF HeadOf
<1>7. Sealing'
  BY <1>1, <1>2, <1>4, <1>6 DEF IInv, Sealing, Unsealed, Closed, ClosedAndSealed, fileVars
<1> QED  BY <1>3, <1>5, <1>7 DEF IInv

(* The head goes to the audit once, after its seal (audit_append). *)
LEMMA AuditAppendStep == IInv /\ AuditAppend => IInv'
<1> SUFFICES ASSUME IInv, AuditAppend PROVE IInv'
  OBVIOUS
<1>1. /\ pc = "audit" /\ tail = "none" /\ exit = "none" /\ audit = <<>> /\ completed
      /\ UNCHANGED <<fileVars, handleVars, completed, sealHead, emitted, damaged>>
  BY DEF IInv, Sealing, AuditAppend
<1>2. \/ audit' = <<sealHead>> /\ pc' = "verify" /\ exit' = exit
      \/ audit' = audit /\ pc' = "done" /\ exit' = "platform"
      \/ audit' = audit /\ pc' = "tally" /\ exit' = exit
  BY <1>1 DEF AuditAppend, Step, Exit
<1>3. Chained'
  BY <1>1, <1>2, StillChained DEF IInv
<1>4. Types'
  <2>1. audit' \in Seq(Hash)
    <3>1. sealHead \in Hash /\ audit \in Seq(Hash)
      BY DEF IInv, Types
    <3>2. <<sealHead>> \in Seq(Hash)
      BY <3>1
    <3> QED  BY <1>2, <3>1, <3>2
  <2> QED  BY <1>1, <1>2, <2>1 DEF IInv, Types, PCs, Bands, fileVars, handleVars
<1>5. Sealing'
  BY <1>1, <1>2 DEF IInv, Sealing, ClosedAndSealed, fileVars
<1> QED  BY <1>3, <1>4, <1>5 DEF IInv

(* The audit is verified, which changes nothing (audit_verify). *)
LEMMA AuditVerifyStep == IInv /\ AuditVerify => IInv'
<1> SUFFICES ASSUME IInv, AuditVerify PROVE IInv'
  OBVIOUS
<1>1. /\ pc = "verify" /\ tail = "none" /\ exit = "none"
      /\ UNCHANGED <<fileVars, handleVars, completed, sealHead, emitted, audit, damaged>>
  BY DEF IInv, Sealing, AuditVerify
<1>2. (pc' = "tally" /\ exit' = exit) \/ (pc' = "done" /\ exit' = "platform")
  BY DEF AuditVerify, Step, Exit
<1>3. Chained'
  BY <1>1, <1>2, StillChained DEF IInv
<1>4. Types'
  BY <1>1, <1>2 DEF IInv, Types, PCs, Bands, fileVars, handleVars
<1>5. Sealing'
  BY <1>1, <1>2 DEF IInv, Sealing, ClosedAndSealed, fileVars
<1> QED  BY <1>3, <1>4, <1>5 DEF IInv

(* Exit 0 is given over an intact log only (close_session). *)
LEMMA TallyStep == IInv /\ Tally => IInv'
<1> SUFFICES ASSUME IInv, Tally PROVE IInv'
  OBVIOUS
<1>1. /\ pc = "tally" /\ tail = "none" /\ exit = "none" /\ pc' = "done"
      /\ UNCHANGED <<fileVars, handleVars, completed, sealHead, emitted, audit, damaged>>
  BY DEF IInv, Sealing, Tally, Exit
<1>2. \/ Intact(View) /\ exit' = (IF completed THEN "ok" ELSE "reason")
      \/ exit' = "platform"
  BY DEF Tally, Exit
<1>3. exit' = "ok" => ~damaged /\ completed
  BY <1>2, IntactUndamaged DEF IInv
<1>4. Chained'
  BY <1>1, StillChained DEF IInv
<1>5. Types'
  BY <1>1, <1>2 DEF IInv, Types, PCs, Bands, fileVars, handleVars
<1>6. Sealing'
  BY <1>1, <1>2, <1>3 DEF IInv, Sealing, ClosedAndSealed, fileVars
<1> QED  BY <1>4, <1>5, <1>6 DEF IInv

(* A death leaves the file as it is. *)
LEMMA CrashStep == IInv /\ Crash => IInv'
<1> SUFFICES ASSUME IInv, Crash PROVE IInv'
  OBVIOUS
<1>1. /\ pc # "done" /\ pc' = "dead"
      /\ UNCHANGED <<fileVars, handleVars, completed, exit, sealHead, emitted, audit, damaged>>
  BY DEF Crash
<1>2. Chained'
  BY <1>1, StillChained DEF IInv
<1>3. Types'
  BY <1>1 DEF IInv, Types, PCs, fileVars, handleVars
<1>4. Sealing'
  BY <1>1 DEF IInv, Sealing, ClosedAndSealed, fileVars
<1> QED  BY <1>2, <1>3, <1>4 DEF IInv

(* The second of two sequences begins where the first ends. *)
LEMMA Joined ==
  ASSUME NEW S, NEW a \in Seq(S), NEW b \in Seq(S), b # <<>>
  PROVE  a \o b \in Seq(S) /\ Len(a \o b) = Len(a) + Len(b) /\ (a \o b)[Len(a) + 1] = b[1]
<1> QED  OBVIOUS

(* A line of an intact chain cannot change its kind, nor leave, without a  *)
(* fault.                                                                  *)
LEMMA DamageShows ==
  ASSUME NEW v \in Seq(Line), NEW i \in 1..Len(v), NEW w, Intact(v),
         \/ \E k \in Kinds \ {v[i].kind} : w = [v EXCEPT ![i].kind = k]
         \/ i < Len(v) /\ w = SubSeq(v, 1, i - 1) \o SubSeq(v, i + 1, Len(v))
  PROVE  w \in Seq(Line) /\ ~Intact(w)
<1>0. v[i] \in Line /\ FaultAt(v, i) = "none"
  BY DEF Intact
<1>1. ASSUME NEW k \in Kinds \ {v[i].kind}, w = [v EXCEPT ![i].kind = k]
      PROVE  w \in Seq(Line) /\ ~Intact(w)
  <2> DEFINE e == [v[i] EXCEPT !.kind = k]
  <2>1. /\ e \in Line /\ e.kind = k /\ e.seq = v[i].seq /\ e.prev = v[i].prev
        /\ e.head = v[i].head /\ e.hash = v[i].hash
    BY <1>0 DEF Line, AllKinds
  <2>2. w = [v EXCEPT ![i] = e]
    BY <1>1
  <2> HIDE DEF e
  <2>3. w \in Seq(Line) /\ Len(w) = Len(v) /\ w[i] = e
    BY <2>1, <2>2
  <2>4. ChainHash(e.prev, e.seq, e.kind, e.head) # ChainHash(e.prev, e.seq, v[i].kind, e.head)
    <3> DEFINE p == v[i].prev
               n == v[i].seq
               h == v[i].head
               old == v[i].kind
               Link == Int \X (AllKinds \cup {"garbage"})
    <3>1. p \in Seq(Link) /\ h \in Seq(Link) /\ <<n, k>> \in Link /\ <<n, old>> \in Link
      BY <1>0 DEF Line, Hash, AllKinds
    <3>2. <<n, k>> # <<n, old>>
      BY <1>1
    <3> HIDE DEF p, n, h, old, Link
    <3>3. ASSUME NEW x \in Link PROVE (Append(p, x) \o h)[Len(p) + 1] = x
      <4>1. Append(p, x) \in Seq(Link) /\ Len(Append(p, x)) = Len(p) + 1 /\ Append(p, x)[Len(p) + 1] = x
        BY <3>1
      <4> QED  BY <3>1, <4>1
    <3>4. Append(p, <<n, k>>) \o h # Append(p, <<n, old>>) \o h
      BY <3>1, <3>2, <3>3
    <3> QED  BY <2>1, <3>4 DEF ChainHash, p, n, h, old
  <2>5. v[i].hash = ChainHash(e.prev, e.seq, v[i].kind, e.head)
    BY <1>0, <2>1, Faultless
  <2>6. FaultAt(w, i) # "none"
    BY <2>1, <2>3, <2>4, <2>5, Faultless
  <2> QED  BY <2>3, <2>6 DEF Intact
<1>2. ASSUME i < Len(v), w = SubSeq(v, 1, i - 1) \o SubSeq(v, i + 1, Len(v))
      PROVE  w \in Seq(Line) /\ ~Intact(w)
  <2> DEFINE a == SubSeq(v, 1, i - 1)
             b == SubSeq(v, i + 1, Len(v))
  <2>1. a \in Seq(Line) /\ Len(a) = i - 1 /\ b \in Seq(Line) /\ Len(b) = Len(v) - i /\ b[1] = v[i + 1]
    BY <1>2
  <2> HIDE DEF a, b
  <2>2. w = a \o b
    BY <1>2 DEF a, b
  <2>3. w \in Seq(Line) /\ Len(w) = Len(v) - 1 /\ w[i] = v[i + 1]
    <3>1. Len(v) \in Nat /\ i \in Nat /\ Len(b) \in Nat /\ b # <<>> /\ i = Len(a) + 1
      BY <1>2, <2>1
    <3>2. w \in Seq(Line) /\ Len(w) = Len(a) + Len(b) /\ w[Len(a) + 1] = b[1]
      BY <2>1, <2>2, <3>1, Joined
    <3>3. Len(w) = Len(v) - 1
      <4>1. \A x, y \in Nat : (x - 1) + (y - x) = y - 1
        OBVIOUS
      <4>2. Len(a) = i - 1 /\ Len(b) = Len(v) - i
        BY <2>1
      <4>3. Len(w) = (i - 1) + (Len(v) - i)
        BY <3>2, <4>2
      <4> QED  BY <3>1, <4>1, <4>3
    <3> QED  BY <2>1, <3>1, <3>2, <3>3
  <2>4. i + 1 \in 1..Len(v) /\ i \in 1..Len(w) /\ (i + 1) - 1 = i
    BY <1>2, <2>3
  <2>5. FaultAt(v, i + 1) = "none"
    BY <2>4 DEF Intact
  <2>6. w[i].seq = i
    BY <2>3, <2>4, <2>5, Faultless
  <2>7. FaultAt(w, i) # "none"
    <3>1. i # i - 1
      BY <2>4
    <3> QED  BY <2>3, <2>4, <2>6, <3>1, Faultless
  <2> QED  BY <2>3, <2>4, <2>7 DEF Intact
<1> QED  BY <1>1, <1>2

(* A damage is a fault for good. *)
LEMMA DamageStep ==
  ASSUME IInv, NEW i \in 1..Len(lines), Damage(i)
  PROVE  IInv'
<1>1. /\ ~damaged /\ damaged' = TRUE /\ pc # "done" /\ tail = "none"
      /\ UNCHANGED <<tail, pending, next, prev, pc, completed, exit, sealHead, emitted, audit>>
      /\ \/ \E k \in Kinds \ {lines[i].kind} : lines' = [lines EXCEPT ![i].kind = k]
         \/ i < Len(lines) /\ lines' = SubSeq(lines, 1, i - 1) \o SubSeq(lines, i + 1, Len(lines))
  BY DEF Damage, handleVars
<1>2. lines' \in Seq(Line) /\ ~Intact(lines')
  <2>1. lines \in Seq(Line) /\ Intact(lines)
    BY <1>1 DEF IInv, Types, Chained
  <2> QED  BY <1>1, <2>1, DamageShows
<1>3. Types'
  BY <1>1, <1>2 DEF IInv, Types
<1>4. Chained'
  BY <1>1, <1>2 DEF Chained, Intact, FaultAt, PrevOf, ChainHash
<1>5. HeadOf(emitted)' = HeadOf(emitted)
  BY <1>1 DEF HeadOf
<1>6. Sealing'
  BY <1>1, <1>5 DEF IInv, Sealing, Unsealed, Closed, ClosedAndSealed
<1> QED  BY <1>3, <1>4, <1>6 DEF IInv

(* Every step preserves the invariant. *)
LEMMA NextIInv == IInv /\ [Next]_vars => IInv'
<1> SUFFICES ASSUME IInv, [Next]_vars PROVE IInv'
  OBVIOUS
<1>1. CASE UNCHANGED vars
  <2>1. Chained'
    BY <1>1, StillChained DEF IInv, vars, fileVars, handleVars
  <2>2. HeadOf(emitted)' = HeadOf(emitted)
    BY <1>1 DEF vars, HeadOf
  <2>3. Types' /\ Sealing'
    BY <1>1, <2>2 DEF IInv, vars, Types, Sealing, Unsealed, Closed, ClosedAndSealed
  <2> QED  BY <2>1, <2>3 DEF IInv
<1> QED  BY <1>1, OpenRunStep, EmitEventStep, WriteOnStep, WrittenStep, ReopenStep, SealLoadStep,
            EmitSealStep, AuditAppendStep, AuditVerifyStep, TallyStep, CrashStep, DamageStep DEF Next

(* The invariant holds of every session's log, however many events it has, *)
(* wherever the process dies and whatever is damaged.                      *)
THEOREM CloseInvariant == Spec => []IInv
<1> QED  BY InitIInv, NextIInv, PTL DEF Spec

-----------------------------------------------------------------------------
(* What the invariant says. *)

(* A chain is a prefix of what it grows to. *)
LEMMA PrefixOfAppend ==
  ASSUME NEW v \in Seq(Line), NEW e \in Line
  PROVE  IsPrefixOf(v, Append(v, e)) /\ IsPrefixOf(Append(v, e), Append(v, e))
<1> DEFINE w == Append(v, e)
<1>1. w \in Seq(Line) /\ Len(w) = Len(v) + 1 /\ \A i \in 1..Len(v) : w[i] = v[i]
  BY Appending
<1> HIDE DEF w
<1>2. SubSeq(w, 1, Len(v)) = v
  <2> DEFINE u == SubSeq(w, 1, Len(v))
  <2>1. u \in Seq(Line) /\ Len(u) = Len(v) /\ \A i \in 1..Len(v) : u[i] = w[i]
    BY <1>1
  <2> HIDE DEF u
  <2>2. u = v
    BY <1>1, <2>1
  <2> QED  BY <2>2 DEF u
<1>3. SubSeq(w, 1, Len(w)) = w
  <2> DEFINE u == SubSeq(w, 1, Len(w))
  <2>1. u \in Seq(Line) /\ Len(u) = Len(w) /\ \A i \in 1..Len(w) : u[i] = w[i]
    BY <1>1
  <2> HIDE DEF u
  <2>2. u = w
    BY <1>1, <2>1
  <2> QED  BY <2>2 DEF u
<1>4. IsPrefixOf(v, w) /\ IsPrefixOf(w, w)
  BY <1>1, <1>2, <1>3 DEF IsPrefixOf
<1> QED  BY <1>4 DEF w

(* A torn write is loaded as the lines before it. *)
LEMMA TornLoads ==
  ASSUME NEW v \in Seq(Line), Intact(v)
  PROVE  LET w == Append(v, Garbage) IN
         ~Intact(w) /\ FirstFault(w) = Len(w) /\ LoadedEvents(w) = v
<1> DEFINE w == Append(v, Garbage)
<1>1. /\ w \in Seq(Line) /\ Len(w) = Len(v) + 1 /\ w[Len(w)] = Garbage /\ Len(v) \in Nat
      /\ \A i \in 1..Len(v) : FaultAt(w, i) = FaultAt(v, i)
  BY Appending, LineTypes
<1>2. SubSeq(w, 1, Len(v)) = v
  BY PrefixOfAppend, LineTypes DEF IsPrefixOf
<1> HIDE DEF w
<1>3. Garbage.kind = "garbage"
  BY DEF Garbage
<1>4. FaultAt(w, Len(w)) # "none" /\ \A i \in 1..Len(v) : FaultAt(w, i) = "none"
  BY <1>1, <1>3 DEF FaultAt, Intact
<1>5. ~Intact(w)
  BY <1>1, <1>4 DEF Intact
<1>6. FirstFault(w) = Len(w)
  <2> DEFINE First(i) == FaultAt(w, i) # "none" /\ \A j \in 1..(i - 1) : FaultAt(w, j) = "none"
  <2>1. Len(w) \in 1..Len(w) /\ First(Len(w))
    BY <1>1, <1>4
  <2>2. ASSUME NEW i \in 1..Len(w), First(i) PROVE i = Len(w)
    BY <1>1, <1>4, <2>2
  <2> HIDE DEF First
  <2>3. (CHOOSE i \in 1..Len(w) : First(i)) = Len(w)
    BY <2>1, <2>2
  <2> QED  BY <2>3 DEF FirstFault, First
<1>7. LoadedEvents(w) = v
  <2>1. LoadedEvents(w) = SubSeq(w, 1, Len(w) - 1)
    BY <1>1, <1>3, <1>5, <1>6 DEF LoadedEvents
  <2> QED  BY <1>1, <1>2, <2>1
<1> QED  BY <1>5, <1>6, <1>7 DEF w

(* What verifies is what was emitted, and what was emitted is never        *)
(* accused (EventLog::verify, load_path).                                  *)
THEOREM CloseVerified == Spec => []VerifiedIsEmitted
<1>1. ASSUME IInv PROVE VerifiedIsEmitted
  <2>1. CASE damaged
    BY <1>1, <2>1, IntactUndamaged DEF IInv, VerifiedIsEmitted
  <2>2. CASE ~damaged
    <3>1. lines = emitted /\ Intact(lines) /\ lines \in Seq(Line) /\ pending \in Line
      BY <1>1, <2>2 DEF IInv, Types, Chained
    <3>2. IsPrefixOf(lines, Append(emitted, pending))
      BY <3>1, PrefixOfAppend
    <3>3. CASE tail = "none"
      <4>1. View = lines
        BY <1>1, <3>3, Views DEF IInv
      <4> QED  BY <3>1, <3>2, <4>1 DEF VerifiedIsEmitted, LoadedEvents
    <3>4. CASE tail = "bare"
      <4>1. View = Append(lines, pending) /\ Intact(View)
        BY <1>1, <2>2, <3>1, <3>4, Views, FollowsKeeps DEF IInv, Chained
      <4>2. IsPrefixOf(View, Append(emitted, pending))
        BY <3>1, <4>1, PrefixOfAppend
      <4> QED  BY <4>1, <4>2 DEF VerifiedIsEmitted, LoadedEvents
    <3>5. CASE tail = "torn"
      <4>1. View = Append(lines, Garbage)
        BY <1>1, <3>5, Views DEF IInv
      <4>2. ~Intact(View) /\ FirstFault(View) = Len(View) /\ LoadedEvents(View) = lines
        BY <3>1, <4>1, TornLoads
      <4> QED  BY <3>2, <3>5, <4>2 DEF VerifiedIsEmitted
    <3> QED  BY <1>1, <3>3, <3>4, <3>5 DEF IInv, Types
  <2> QED  BY <2>1, <2>2
<1> QED  BY <1>1, CloseInvariant, PTL

(* Exit 0 means a log that is intact, complete and sealed once, after      *)
(* session.close and over the head before it (close_session, seal).        *)
THEOREM CloseExit == Spec => []ExitOkMeansSealed
<1>1. ASSUME IInv, exit = "ok"
      PROVE  /\ Intact(lines) /\ lines = emitted
             /\ Sealed(lines) /\ Len(lines) > 1
             /\ lines[Len(lines) - 1].kind = "session.close"
             /\ lines[Len(lines)].head = lines[Len(lines) - 1].hash
             /\ \A i \in 1..(Len(lines) - 1) : lines[i].kind # "trace.seal"
  <2>1. ClosedAndSealed(emitted) /\ lines = emitted /\ Intact(lines) /\ lines \in Seq(Line)
    BY <1>1 DEF IInv, Types, Chained, Sealing
  <2> QED  BY <2>1 DEF ClosedAndSealed, Sealed
<1>2. IInv => ExitOkMeansSealed
  BY <1>1 DEF ExitOkMeansSealed
<1> QED  BY <1>2, CloseInvariant, PTL

(* The audit knows a head only of a durable seal, and once (audit_append   *)
(* after the seal event).                                                  *)
THEOREM CloseAudit == Spec => []AuditBacked
<1>1. ASSUME IInv, audit # <<>>
      PROVE  /\ Len(audit) = 1
             /\ Sealed(emitted) /\ emitted[Len(emitted)].head = audit[1]
             /\ completed
  <2>1. /\ ClosedAndSealed(emitted) /\ completed /\ audit = <<sealHead>>
        /\ emitted[Len(emitted)].head = sealHead /\ emitted \in Seq(Line)
    BY <1>1 DEF IInv, Types, Sealing
  <2> QED  BY <2>1 DEF ClosedAndSealed, Sealed
<1>2. IInv => AuditBacked
  BY <1>1 DEF AuditBacked
<1> QED  BY <1>2, CloseInvariant, PTL

=============================================================================
