----------------------------- MODULE Eval_proofs -----------------------------
(***************************************************************************)
(* For any commands, suites, origins and traces: exit bands mean what they *)
(* say, approvals survive and only whole runs are judged.                  *)
(*                                                                         *)
(* A fork belongs to the command that runs it until another command clears *)
(* it (Owned, Apart): its log and what the runner has yet to emit are a    *)
(* whole run.  What the golden file holds, and what any command read of    *)
(* it, was approved (Approvals), and it is what was given unless something *)
(* was lost (Kept, Fresh).  A structure is a recursive function of the     *)
(* trace, so its type needs an induction (StructureType).                  *)
(***************************************************************************)
EXTENDS Eval, TraceFolds, SequenceTheorems

(* What project_structure makes of a trace of these events. *)
Structures == [nodes : Seq({NodeStep(e) : e \in Events}), gates : Seq({GateStep(e) : e \in Events})]
(* What the cases of the suites name. *)
Ids == {c.id : c \in Cases}
Sessions == {c.session : c \in Cases}
(* What the golden file holds for a case, and what became of one. *)
Samples == [session : Sessions, structure : Structures]
Results == [id : Ids, verdict : {"pass", "mismatch", "error", "blessed"},
            structure : Structures, cut : BOOLEAN]
(* Fork directories and program points. *)
Forks == [there : BOOLEAN, row : BOOLEAN, log : Seq(Events)]
PCs == {"idle", "prepare", "open", "run", "load", "golden", "truncate", "write", "done", "dead"}

(* A map from case ids to samples, all of them approved. *)
Backed(m, approvals) ==
  /\ m = [i \in DOMAIN m |-> m[i]] /\ DOMAIN m \subseteq Ids
  /\ \A i \in DOMAIN m : m[i] \in Samples /\ [id |-> i, sample |-> m[i]] \in approvals

(* The state's types. *)
Typed ==
  /\ fork \in [Keys -> Forks]
  /\ pc \in [Procs -> PCs] /\ exit \in [Procs -> {"none", "ok", "regression", "compile"}]
  /\ job \in [Procs -> [suite : Seq(Cases), bless : Blesses]]
  /\ case \in [Procs -> Nat]
  /\ seen = [p \in Procs |-> seen[p]] /\ \A p \in Procs : seen[p].version \in Nat
  /\ run \in [Procs -> Seq(Events)]
  /\ verdicts \in [Procs -> Seq(Results)]
  /\ version \in Nat /\ cut \in [Procs -> BOOLEAN] /\ lossy \in BOOLEAN

(* Where a command is: its case is one of its suite, past the first steps  *)
(* the key of that case is known, and only an end has an exit band.        *)
AtCase == {"prepare", "open", "run", "load", "golden", "truncate", "write"}
Phase(p) ==
  /\ pc[p] \in AtCase => case[p] \in 1..Len(job[p].suite)
  /\ pc[p] \in {"open", "run", "load"} => Key(p) \in Keys
  /\ exit[p] # "none" <=> pc[p] = "done"
  /\ pc[p] \in {"idle", "dead"} => ~IsBless(p) /\ verdicts[p] = <<>>
  /\ pc[p] \in {"golden", "truncate", "write"} => IsBless(p) /\ Len(verdicts[p]) = 1
  /\ pc[p] = "load" => run[p] = <<>>

(* The fork that a command runs is its own until another command clears    *)
(* it: what is in the log and what the runner has yet to emit are a whole  *)
(* run of the case.                                                        *)
Running(p) == pc[p] \in {"run", "load"} /\ ~cut[p]
Owned(p) ==
  Running(p) => fork[Key(p)].there /\ fork[Key(p)].log \o run[p] \in Traces[Key(p)]
Apart == \A p, q \in Procs : Running(p) /\ Running(q) /\ Key(p) = Key(q) => p = q

(* The verdicts so far are those of the first cases, as the golden file    *)
(* that was read has it; an end that is no error had all of them.          *)
Shows(p, i) == [session |-> job[p].suite[i].session, structure |-> verdicts[p][i].structure]
Judged(p) ==
  ~IsBless(p) =>
    /\ pc[p] \in {"prepare", "open", "run", "load"} => Len(verdicts[p]) = case[p] - 1
    /\ exit[p] \in {"ok", "regression"} =>
         Len(verdicts[p]) = Len(job[p].suite) /\ exit[p] = Band(verdicts[p])
    /\ \A i \in 1..Len(verdicts[p]) :
         LET id == job[p].suite[i].id
             v == verdicts[p][i].verdict
         IN  /\ i <= Len(job[p].suite) /\ verdicts[p][i].id = id /\ v # "blessed"
             /\ v # "error" => id \in DOMAIN seen[p].samples
             /\ v # "error" => (v = "pass" <=> Shows(p, i) = seen[p].samples[id])

(* Every verdict rests on a whole run, as JudgedWhole has it. *)
Whole(p) ==
  \A i \in 1..Len(verdicts[p]) :
    LET r == verdicts[p][i]
        suite == job[p].suite
    IN  \/ r.verdict = "error" \/ r.cut
        \/ \E j \in 1..Len(suite) :
             /\ suite[j].id = r.id
             /\ \E t \in Traces[<<suite[j].session, suite[j].at>>] : r.structure = ProjectStructure(t)

(* Only approvals are ever in the golden file, in what was read of it or   *)
(* in the history.                                                         *)
Approvals ==
  /\ Backed(golden.samples, approved) /\ Backed(given, approved)
  /\ \A p \in Procs : Backed(seen[p].samples, approved)

(* The golden file holds what was given, and so does what a bless is about *)
(* to write back, unless something was lost or the file is newer.          *)
Kept ==
  /\ golden.state = "absent" => golden.samples = <<>> /\ given = <<>>
  /\ golden.state = "torn" => golden.samples = <<>>
  /\ golden.state \in {"absent", "torn", "ok"}
  /\ golden.state = "ok" /\ ~lossy => golden.samples = given
Fresh(p) ==
  pc[p] \in {"truncate", "write"} =>
    /\ seen[p].version <= version
    /\ ~lossy /\ seen[p].version = version => seen[p].samples = given

OnCommand(p) == Phase(p) /\ Owned(p) /\ Judged(p) /\ Whole(p) /\ Fresh(p)

IInv == Typed /\ Apart /\ Approvals /\ Kept /\ \A p \in Procs : OnCommand(p)

-----------------------------------------------------------------------------
(* project_structure as a loop, and a turn of it. *)
StructureStep(s, e) ==
  CASE e.kind = "node.start" -> [s EXCEPT !.nodes = Append(@, NodeStep(e))]
    [] e.kind \in {"gate.pass", "gate.fail"} -> [s EXCEPT !.gates = Append(@, GateStep(e))]
    [] OTHER -> s

StructureScan(t) ==
  LET scan[k \in 0..Len(t)] == IF k = 0 THEN NoStructure ELSE StructureStep(scan[k - 1], t[k])
  IN  scan

(* A turn keeps the type. *)
LEMMA StructureStepType ==
  ASSUME NEW s \in Structures, NEW e \in Events
  PROVE  StructureStep(s, e) \in Structures
<1> DEFINE N == {NodeStep(x) : x \in Events}
           G == {GateStep(x) : x \in Events}
<1>1. s.nodes \in Seq(N) /\ s.gates \in Seq(G) /\ s = [nodes |-> s.nodes, gates |-> s.gates]
  BY DEF Structures
<1>2. NodeStep(e) \in N /\ GateStep(e) \in G
  OBVIOUS
<1> HIDE DEF N, G
<1>3. Append(s.nodes, NodeStep(e)) \in Seq(N) /\ Append(s.gates, GateStep(e)) \in Seq(G)
  BY <1>1, <1>2
<1>4. Structures = [nodes : Seq(N), gates : Seq(G)]
  BY DEF Structures, N, G
<1>5. /\ [s EXCEPT !.nodes = Append(@, NodeStep(e))] \in Structures
      /\ [s EXCEPT !.gates = Append(@, GateStep(e))] \in Structures
  BY <1>1, <1>3, <1>4
<1>6. CASE e.kind = "node.start"
  BY <1>5, <1>6 DEF StructureStep
<1>7. CASE e.kind # "node.start" /\ e.kind \in {"gate.pass", "gate.fail"}
  BY <1>5, <1>7 DEF StructureStep
<1>8. CASE e.kind # "node.start" /\ e.kind \notin {"gate.pass", "gate.fail"}
  BY <1>8 DEF StructureStep
<1> QED  BY <1>6, <1>7, <1>8

(* A structure without steps. *)
LEMMA NoStructureType == NoStructure \in Structures
<1>1. <<>> \in Seq({NodeStep(x) : x \in Events}) /\ <<>> \in Seq({GateStep(x) : x \in Events})
  OBVIOUS
<1> QED  BY <1>1 DEF NoStructure, Structures

(* What project_structure makes of a trace is a structure. *)
LEMMA StructureType ==
  ASSUME NEW t \in Seq(Events)
  PROVE  ProjectStructure(t) \in Structures
<1> DEFINE n == Len(t)
           step == [k \in 1..n |-> [s \in Structures |-> StructureStep(s, t[k])]]
           F(f) == [k \in 0..n |-> IF k = 0 THEN NoStructure ELSE StructureStep(f[k - 1], t[k])]
           scan == CHOOSE f : f = F(f)
<1>1. n \in Nat /\ \A k \in 1..n : k \in Nat /\ t[k] \in Events
  OBVIOUS
<1>2. step \in [1..n -> [Structures -> Structures]]
  <2>1. \A k \in 1..n, s \in Structures : StructureStep(s, t[k]) \in Structures
    BY <1>1, StructureStepType
  <2> QED  BY <2>1
<1>3. \A k \in 1..n, s \in Structures : step[k][s] = StructureStep(s, t[k])
  OBVIOUS
<1> HIDE DEF step
<1>4. PICK f : Follows(f, Structures, NoStructure, n, step)
  <2> HIDE DEF n
  <2> QED  BY <1>1, <1>2, NoStructureType, Recursion
<1>5. f = F(f)
  <2>1. \A k \in 1..n : k - 1 \in 0..n
    BY <1>1
  <2>2. \A k \in 1..n : f[k] = StructureStep(f[k - 1], t[k])
    BY <1>3, <1>4, <2>1 DEF Follows
  <2>3. \A k \in 0..n : k = 0 \/ k \in 1..n
    BY <1>1
  <2> QED  BY <1>4, <2>2, <2>3 DEF Follows
<1>6. scan = F(scan)
  BY <1>5
<1>7. StructureScan(t) = scan
  BY DEF StructureScan
<1>8. /\ scan[0] = NoStructure
      /\ \A k \in 1..n : scan[k] = StructureStep(scan[k - 1], t[k])
  <2> HIDE DEF scan
  <2> QED  BY <1>1, <1>6
<1> HIDE DEF scan, n
<1> DEFINE T == {m \in Nat : m <= n => scan[m] \in Structures}
<1>9. 0 \in T
  BY <1>8, NoStructureType
<1>10. ASSUME NEW m \in T PROVE m + 1 \in T
  <2>1. CASE m + 1 <= n
    <3>1. m + 1 \in 1..n /\ (m + 1) - 1 = m /\ m <= n /\ m + 1 \in Nat
      BY <1>1, <2>1
    <3>2. scan[m + 1] = StructureStep(scan[m], t[m + 1])
      BY <1>8, <3>1
    <3>3. StructureStep(scan[m], t[m + 1]) \in Structures
      BY <1>1, <1>10, <3>1, StructureStepType
    <3> QED  BY <3>1, <3>2, <3>3
  <2>2. CASE ~(m + 1 <= n)
    BY <2>2
  <2> QED  BY <2>1, <2>2
<1>11. T = Nat
  <2> HIDE DEF T
  <2>1. T \in SUBSET Nat
    BY DEF T
  <2> QED  BY <1>9, <1>10, <2>1, SetInduction
<1>12. scan[n] \in Structures
  BY <1>1, <1>11
<1>13. ProjectStructure(t) = StructureScan(t)[n]
  BY DEF ProjectStructure, StructureScan, StructureStep, n
<1> QED  BY <1>7, <1>12, <1>13

(* compare_structure finds a difference exactly when there is one: what    *)
(* the zip leaves out, the counts show.                                    *)
LEMMA CompareExact ==
  ASSUME NEW x \in Structures, NEW y \in Structures
  PROVE  CompareStructure(x, y) <=> x = y
<1> DEFINE N == {NodeStep(e) : e \in Events}
           G == {GateStep(e) : e \in Events}
<1>1. /\ x.nodes \in Seq(N) /\ y.nodes \in Seq(N) /\ x.gates \in Seq(G) /\ y.gates \in Seq(G)
      /\ x = [nodes |-> x.nodes, gates |-> x.gates] /\ y = [nodes |-> y.nodes, gates |-> y.gates]
  BY DEF Structures
<1> HIDE DEF N, G
<1>2. ASSUME NEW S, NEW s \in Seq(S), NEW t \in Seq(S)
      PROVE  Len(s) = Len(t) /\ ~ZipDiffers(s, t) <=> s = t
  <2>1. CASE s = t
    BY <2>1 DEF ZipDiffers
  <2>2. CASE Len(s) = Len(t) /\ ~ZipDiffers(s, t)
    <3>1. \A i \in 1..Len(s) : s[i] = t[i]
      BY <2>2 DEF ZipDiffers
    <3> QED  BY <2>2, <3>1, SeqEqual
  <2> QED  BY <2>1, <2>2
<1>3. /\ Len(x.nodes) = Len(y.nodes) /\ ~ZipDiffers(x.nodes, y.nodes) <=> x.nodes = y.nodes
      /\ Len(x.gates) = Len(y.gates) /\ ~ZipDiffers(x.gates, y.gates) <=> x.gates = y.gates
  BY <1>1, <1>2
<1>4. x = y <=> x.nodes = y.nodes /\ x.gates = y.gates
  BY <1>1
<1> QED  BY <1>3, <1>4 DEF CompareStructure

(* An emitted event moves from what is to come to the log. *)
LEMMA Emitted ==
  ASSUME NEW l \in Seq(Events), NEW r \in Seq(Events), r # <<>>
  PROVE  /\ Append(l, Head(r)) \o Tail(r) = l \o r
         /\ Append(l, Head(r)) \in Seq(Events) /\ Tail(r) \in Seq(Events)
         /\ Len(r) = 1 => Tail(r) = <<>>
<1>1. Head(r) \in Events /\ Tail(r) \in Seq(Events) /\ r = <<Head(r)>> \o Tail(r) /\ <<Head(r)>> \in Seq(Events)
  BY HeadTailProperties
<1>2. Append(l, Head(r)) = l \o <<Head(r)>>
  BY <1>1, AppendIsConcat
<1>3. (l \o <<Head(r)>>) \o Tail(r) = l \o (<<Head(r)>> \o Tail(r))
  BY <1>1, ConcatAssociative
<1>4. Append(l, Head(r)) \in Seq(Events)
  BY <1>1
<1>5. ASSUME Len(r) = 1 PROVE Tail(r) = <<>>
  <2>1. Len(Tail(r)) = 0
    BY <1>5
  <2> QED  BY <1>1, <2>1, EmptySeq
<1> QED  BY <1>1, <1>2, <1>3, <1>4, <1>5

-----------------------------------------------------------------------------
(* A command that another one's step leaves alone. *)
Steady(q) ==
  /\ pc'[q] = pc[q] /\ exit'[q] = exit[q] /\ job'[q] = job[q] /\ case'[q] = case[q]
  /\ seen'[q] = seen[q] /\ run'[q] = run[q] /\ verdicts'[q] = verdicts[q]

(* What happens to its fork, if it still runs it. *)
Undisturbed(q) ==
  /\ cut'[q] = cut[q] \/ cut'[q]
  /\ Running(q)' => fork'[Key(q)] = fork[Key(q)]

(* What happens to the golden file's history. *)
Onward ==
  \/ version' = version /\ (lossy => lossy') /\ (lossy' \/ given' = given)
  \/ version' = version + 1

(* Its part of the invariant holds on. *)
LEMMA OtherKeeps ==
  ASSUME Typed, NEW q \in Procs, OnCommand(q), Steady(q), Undisturbed(q), Onward
  PROVE  OnCommand(q)'
<1>1. /\ Key(q)' = Key(q) /\ IsBless(q)' = IsBless(q)
      /\ \A i : Shows(q, i)' = Shows(q, i)
  BY DEF Steady, Key, Case, IsBless, Shows
<1>2. Phase(q)'
  BY <1>1 DEF OnCommand, Phase, Steady
<1>3. Owned(q)'
  <2> SUFFICES ASSUME Running(q)'
               PROVE  fork'[Key(q)].there /\ fork'[Key(q)].log \o run'[q] \in Traces[Key(q)]
    BY <1>1 DEF Owned
  <2>1. Running(q)
    BY DEF Running, Steady, Undisturbed
  <2>2. fork'[Key(q)] = fork[Key(q)] /\ run'[q] = run[q]
    BY DEF Undisturbed, Steady
  <2> QED  BY <2>1, <2>2 DEF OnCommand, Owned
<1>4. Judged(q)'
  BY <1>1 DEF OnCommand, Judged, Steady
<1>5. Whole(q)'
  BY DEF OnCommand, Whole, Steady
<1>6. Fresh(q)'
  <2>1. version \in Nat /\ seen[q].version \in Nat /\ seen'[q] = seen[q] /\ pc'[q] = pc[q]
    BY DEF Typed, Steady
  <2>2. Fresh(q)
    BY DEF OnCommand
  <2> QED  BY <2>1, <2>2 DEF Fresh, Onward
<1> QED  BY <1>2, <1>3, <1>4, <1>5, <1>6 DEF OnCommand

(* A step of one command, put together. *)
LEMMA StepOf ==
  ASSUME IInv, NEW p \in Procs, Typed', OnCommand(p)', Onward, Approvals', Kept',
         \A q \in Procs : q # p => Steady(q) /\ Undisturbed(q),
         Running(p)' => Key(p)' = Key(p) /\ (Running(p) \/ \A q \in Procs : q # p /\ Running(q) => Key(q) # Key(p))
  PROVE  IInv'
<1>1. \A q \in Procs : OnCommand(q)'
  BY OtherKeeps DEF IInv
<1>2. ASSUME NEW q \in Procs, q # p, Running(q)' PROVE Running(q) /\ Key(q)' = Key(q)
  BY <1>2 DEF Running, Undisturbed, Steady, Key, Case
<1>3. Apart'
  <2> SUFFICES ASSUME NEW q \in Procs, NEW r \in Procs, Running(q)', Running(r)', Key(q)' = Key(r)'
               PROVE  q = r
    BY DEF Apart
  <2>1. CASE q # p /\ r # p
    BY <1>2, <2>1 DEF IInv, Apart
  <2>2. CASE q = p /\ r # p
    BY <1>2, <2>2 DEF IInv, Apart
  <2>3. CASE q # p /\ r = p
    BY <1>2, <2>3 DEF IInv, Apart
  <2> QED  BY <2>1, <2>2, <2>3
<1> QED  BY <1>1, <1>3 DEF IInv

(* Steps that leave the golden file and its history alone. *)
LEMMA SameApprovals ==
  ASSUME IInv, UNCHANGED <<golden, given, approved, lossy>>,
         \A q \in Procs : seen'[q] = seen[q] \/ seen'[q].samples = golden.samples
  PROVE  Approvals' /\ Kept'
BY DEF IInv, Approvals, Kept

(* The exit band of eval. *)
LEMMA BandType ==
  ASSUME NEW results
  PROVE  Band(results) \in {"ok", "regression", "compile"}
BY DEF Band

(* A case of eval is done, or it fails. *)
LEMMA CaseDoneIInv ==
  ASSUME IInv, NEW p \in Procs, pc[p] \in {"prepare", "open", "run", "load"}, ~IsBless(p),
         NEW r \in Results, CaseDone(p, r), r.id = Case(p).id, r.verdict # "blessed",
         r.verdict # "error" =>
           /\ r.id \in DOMAIN seen[p].samples
           /\ r.verdict = "pass" <=>
                [session |-> Case(p).session, structure |-> r.structure] = seen[p].samples[r.id],
         r.verdict = "error" \/ r.cut \/ \E t \in Traces[Key(p)] : r.structure = ProjectStructure(t),
         UNCHANGED <<job, seen, golden, historyVars>>,
         run' \in [Procs -> Seq(Events)], \A q \in Procs : q # p => run'[q] = run[q],
         fork' \in [Keys -> Forks], \A q \in Procs : q # p /\ Running(q) => fork'[Key(q)] = fork[Key(q)]
  PROVE  IInv'
<1> DEFINE v == verdicts[p]
           suite == job[p].suite
           n == case[p]
<1>1. /\ n \in 1..Len(suite) /\ n \in Nat /\ suite \in Seq(Cases) /\ Len(suite) \in Nat
      /\ v \in Seq(Results) /\ Len(v) = n - 1
      /\ exit[p] = "none"
  <2>1. Typed /\ Phase(p) /\ Judged(p)
    BY DEF IInv, OnCommand
  <2>2. exit[p] \in {"none", "ok", "regression", "compile"} /\ job[p] \in [suite : Seq(Cases), bless : Blesses]
    BY <2>1 DEF Typed
  <2> QED  BY <2>1, <2>2 DEF Typed, Phase, Judged, AtCase
<1> DEFINE w == Append(v, r)
<1>2. /\ w \in Seq(Results) /\ Len(w) = n /\ w[n] = r /\ \A i \in 1..(n - 1) : w[i] = v[i]
      /\ \A i \in 1..n : i \in 1..(n - 1) \/ i = n
  BY <1>1
<1>3. verdicts' = [verdicts EXCEPT ![p] = w] /\ cut' = [cut EXCEPT ![p] = FALSE]
  BY DEF CaseDone
<1> HIDE DEF w
<1>4. \/ n = Len(suite) /\ case' = case /\ pc' = [pc EXCEPT ![p] = "done"]
           /\ exit' = [exit EXCEPT ![p] = Band(w)]
      \/ n # Len(suite) /\ case' = [case EXCEPT ![p] = n + 1]
           /\ pc' = [pc EXCEPT ![p] = "prepare"] /\ exit' = exit
  <2>1. verdicts'[p] = w
    BY <1>3 DEF IInv, Typed
  <2>2. CASE n = Len(suite)
    <3>1. Exit(p, Band(verdicts'[p])) /\ UNCHANGED case
      BY <2>2 DEF CaseDone
    <3> QED  BY <2>1, <2>2, <3>1 DEF Exit
  <2>3. CASE n # Len(suite)
    <3>1. Goto(p, "prepare") /\ case' = [case EXCEPT ![p] = n + 1]
      BY <2>3 DEF CaseDone
    <3> QED  BY <2>3, <3>1 DEF Goto
  <2> QED  BY <2>2, <2>3
<1>5. Typed'
  <2>1. /\ exit \in [Procs -> {"none", "ok", "regression", "compile"}] /\ pc \in [Procs -> PCs]
        /\ case \in [Procs -> Nat] /\ n + 1 \in Nat
        /\ Band(w) \in {"none", "ok", "regression", "compile"} /\ "done" \in PCs /\ "prepare" \in PCs
    BY <1>1, BandType DEF IInv, Typed, PCs
  <2>5. exit' \in [Procs -> {"none", "ok", "regression", "compile"}]
    BY <1>4, <2>1
  <2>3. pc' \in [Procs -> PCs]
    BY <1>4, <2>1
  <2>4. case' \in [Procs -> Nat]
    BY <1>4, <2>1
  <2>2. verdicts' \in [Procs -> Seq(Results)] /\ cut' \in [Procs -> BOOLEAN]
    BY <1>2, <1>3 DEF IInv, Typed
  <2> QED  BY <2>2, <2>3, <2>4, <2>5 DEF IInv, Typed, historyVars
<1>6. /\ verdicts'[p] = w /\ job'[p] = job[p] /\ seen'[p] = seen[p] /\ cut'[p] = FALSE
      /\ pc'[p] \in {"prepare", "done"} /\ ~IsBless(p)'
      /\ pc'[p] = "done" => exit'[p] = Band(w) /\ n = Len(suite)
      /\ pc'[p] = "prepare" => exit'[p] = "none" /\ case'[p] = n + 1 /\ n < Len(suite)
  BY <1>1, <1>3, <1>4 DEF IInv, Typed, IsBless
<1>7. OnCommand(p)'
  <2>1. Phase(p)'
    <3>1. n + 1 \in 1..Len(suite) \/ ~(n < Len(suite))
      BY <1>1
    <3> QED  BY <1>6, <3>1, BandType DEF Phase, AtCase
  <2>2. Owned(p)'
    BY <1>6 DEF Owned, Running
  <2>3. Judged(p)'
    <3>1. Len(w) = (n + 1) - 1
      BY <1>1, <1>2
    <3>2. ASSUME NEW i \in 1..Len(w)
          PROVE  LET id == suite[i].id
                     u == w[i].verdict
                 IN  /\ i <= Len(suite) /\ w[i].id = id /\ u # "blessed"
                     /\ u # "error" => id \in DOMAIN seen[p].samples
                     /\ u # "error" => (u = "pass" <=>
                          [session |-> suite[i].session, structure |-> w[i].structure] = seen[p].samples[id])
      <4>1. CASE i \in 1..(n - 1)
        <5>1. w[i] = v[i] /\ i \in 1..Len(v)
          BY <1>1, <1>2, <4>1
        <5>2. Judged(p)
          BY DEF IInv, OnCommand
        <5> QED  BY <5>1, <5>2 DEF Judged, Shows
      <4>2. CASE i = n
        <5>1. suite[i] = Case(p) /\ w[i] = r
          BY <1>2, <4>2 DEF Case
        <5> QED  BY <1>1, <4>2, <5>1
      <4> QED  BY <1>2, <4>1, <4>2
    <3> QED  BY <1>2, <1>6, <3>1, <3>2 DEF Judged, Shows
  <2>4. Whole(p)'
    <3>1. ASSUME NEW i \in 1..Len(w)
          PROVE  \/ w[i].verdict = "error" \/ w[i].cut
                 \/ \E j \in 1..Len(suite) :
                      /\ suite[j].id = w[i].id
                      /\ \E t \in Traces[<<suite[j].session, suite[j].at>>] :
                           w[i].structure = ProjectStructure(t)
      <4>1. CASE i \in 1..(n - 1)
        <5>1. w[i] = v[i] /\ i \in 1..Len(v)
          BY <1>1, <1>2, <4>1
        <5>2. Whole(p)
          BY DEF IInv, OnCommand
        <5> QED  BY <5>1, <5>2 DEF Whole
      <4>2. CASE i = n
        <5>1. suite[n] = Case(p) /\ w[i] = r /\ Key(p) = <<suite[n].session, suite[n].at>>
          BY <1>2, <4>2 DEF Case, Key
        <5> QED  BY <1>1, <5>1
      <4> QED  BY <1>2, <4>1, <4>2
    <3> QED  BY <1>6, <3>1 DEF Whole
  <2>5. Fresh(p)'
    BY <1>6 DEF Fresh
  <2> QED  BY <2>1, <2>2, <2>3, <2>4, <2>5 DEF OnCommand
<1>8. \A q \in Procs : q # p => Steady(q) /\ Undisturbed(q)
  <2> TAKE q \in Procs
  <2> HAVE q # p
  <2>1. /\ pc'[q] = pc[q] /\ exit'[q] = exit[q] /\ case'[q] = case[q] /\ verdicts'[q] = verdicts[q]
        /\ cut'[q] = cut[q]
    BY <1>3, <1>4 DEF IInv, Typed
  <2>2. Running(q)' => Running(q)
    BY <2>1 DEF Running
  <2> QED  BY <2>1, <2>2 DEF Steady, Undisturbed
<1>9. ~Running(p)'
  BY <1>6 DEF Running
<1>10. Approvals' /\ Kept'
  BY SameApprovals DEF historyVars
<1> QED  BY <1>5, <1>7, <1>8, <1>9, <1>10, StepOf DEF Onward, historyVars

(* The case a command is at. *)
LEMMA CaseType ==
  ASSUME IInv, NEW p \in Procs, pc[p] \in AtCase
  PROVE  /\ case[p] \in 1..Len(job[p].suite) /\ Case(p) = job[p].suite[case[p]]
         /\ Case(p) \in Cases /\ Case(p).id \in Ids /\ Case(p).session \in Sessions
         /\ exit[p] = "none" /\ cut[p] \in BOOLEAN
<1>1. Typed /\ Phase(p)
  BY DEF IInv, OnCommand
<1>2. job[p] \in [suite : Seq(Cases), bless : Blesses] /\ cut[p] \in BOOLEAN
  BY <1>1 DEF Typed
<1>3. exit[p] = "none" /\ case[p] \in 1..Len(job[p].suite)
  BY <1>1 DEF Phase, AtCase
<1>4. Case(p) \in Cases
  BY <1>2, <1>3 DEF Case
<1> QED  BY <1>2, <1>3, <1>4 DEF Case, Ids, Sessions

(* A cleared and a fresh fork. *)
LEMMA ForkType ==
  ASSUME NEW b \in BOOLEAN, NEW c \in BOOLEAN
  PROVE  /\ NoFork \in Forks /\ [there |-> b, row |-> c, log |-> <<>>] \in Forks
         /\ [NoFork EXCEPT !.there = TRUE] \in Forks
<1>1. <<>> \in Seq(Events)
  OBVIOUS
<1>2. ASSUME NEW l \in Seq(Events)
      PROVE  /\ [there |-> b, row |-> c, log |-> l] \in Forks
             /\ [[there |-> FALSE, row |-> FALSE, log |-> l] EXCEPT !.there = TRUE] \in Forks
  BY DEF Forks
<1> QED  BY <1>1, <1>2 DEF NoFork, Forks

(* A bless moves on: its case, its verdicts and its job stay. *)
LEMMA BlessMoves ==
  ASSUME IInv, NEW p \in Procs, IsBless(p), pc[p] \in AtCase, NEW l \in PCs,
         NEW band \in {"none", "ok", "compile"}, l = "done" <=> band # "none",
         l \in {"golden", "truncate", "write"} => Len(verdicts'[p]) = 1,
         l \notin {"idle", "dead", "open", "run", "load"},
         pc' = [pc EXCEPT ![p] = l], exit' = [exit EXCEPT ![p] = band],
         verdicts'[p] = verdicts[p] \/ Whole(p)', job' = job, case' = case,
         Fresh(p)'
  PROVE  OnCommand(p)'
<1>1. /\ pc'[p] = l /\ exit'[p] = band /\ job'[p] = job[p] /\ case'[p] = case[p] /\ IsBless(p)'
      /\ case[p] \in 1..Len(job[p].suite)
  BY CaseType DEF IInv, Typed, IsBless
<1>2. Phase(p)'
  BY <1>1 DEF Phase
<1>3. Owned(p)' /\ Judged(p)'
  BY <1>1 DEF Owned, Running, Judged
<1>4. ASSUME verdicts'[p] = verdicts[p] PROVE Whole(p)'
  <2>1. Whole(p)
    BY DEF IInv, OnCommand
  <2> QED  BY <1>1, <1>4, <2>1 DEF Whole
<1> QED  BY <1>2, <1>3, <1>4 DEF OnCommand

(* A case fails: an error of eval, the end of a bless. *)
LEMMA CaseFailsIInv ==
  ASSUME IInv, NEW p \in Procs, pc[p] \in {"prepare", "open", "run", "load"}, CaseFails(p),
         UNCHANGED <<job, seen, golden, fork, historyVars>>,
         run' \in [Procs -> Seq(Events)], \A q \in Procs : q # p => run'[q] = run[q]
  PROVE  IInv'
<1>1. pc[p] \in AtCase
  BY DEF AtCase
<1>2. CASE ~IsBless(p)
  <2> DEFINE r == Result(p, "error", NoStructure)
  <2>1. CaseDone(p, r)
    BY <1>2 DEF CaseFails
  <2>2. r \in Results /\ r.id = Case(p).id /\ r.verdict = "error"
    BY <1>1, CaseType, NoStructureType DEF Result, Results
  <2> HIDE DEF r
  <2>3. fork' \in [Keys -> Forks] /\ \A q \in Procs : fork'[Key(q)] = fork[Key(q)]
    BY DEF IInv, Typed
  <2> QED  BY <1>2, <2>1, <2>2, <2>3, CaseDoneIInv
<1>3. CASE IsBless(p)
  <2>1. /\ pc' = [pc EXCEPT ![p] = "done"] /\ exit' = [exit EXCEPT ![p] = "compile"]
        /\ UNCHANGED <<verdicts, cut, case>>
    BY <1>3 DEF CaseFails, Exit
  <2>2. pc'[p] = "done" /\ "done" \in PCs
    BY <2>1 DEF IInv, Typed, PCs
  <2>3. Fresh(p)' /\ ~Running(p)'
    BY <2>2 DEF Fresh, Running
  <2>4. OnCommand(p)'
    BY <1>1, <1>3, <2>1, <2>2, <2>3, BlessMoves
  <2>5. Typed'
    BY <2>1, <2>2 DEF IInv, Typed, historyVars
  <2>6. \A q \in Procs : q # p => Steady(q) /\ Undisturbed(q)
    BY <2>1 DEF IInv, Typed, Steady, Undisturbed
  <2>7. Approvals' /\ Kept'
    BY SameApprovals DEF historyVars
  <2> QED  BY <2>3, <2>4, <2>5, <2>6, <2>7, StepOf DEF Onward, historyVars
<1> QED  BY <1>2, <1>3

(* The fork is cleared: whoever still runs it knows no longer what it has. *)
LEMMA PrepareIInv ==
  ASSUME IInv, NEW p \in Procs, Prepare(p)
  PROVE  IInv'
<1>1. CASE Refused(p) /\ CaseFails(p) /\ UNCHANGED fork
  <2>1. run' \in [Procs -> Seq(Events)] /\ \A q \in Procs : run'[q] = run[q]
    BY DEF Prepare, IInv, Typed
  <2> QED  BY <1>1, <2>1, CaseFailsIInv DEF Prepare
<1>2. CASE /\ ~Refused(p)
           /\ Goto(p, "open")
           /\ fork' = [fork EXCEPT ![Key(p)] = NoFork]
           /\ cut' = [q \in Procs |-> cut[q] \/ (pc[q] \in {"run", "load"} /\ Key(q) = Key(p))]
           /\ UNCHANGED <<verdicts, case>>
  <2>1. /\ pc[p] = "prepare" /\ pc' = [pc EXCEPT ![p] = "open"] /\ exit' = exit
        /\ UNCHANGED <<golden, job, seen, run, verdicts, case, version, lossy, given, approved>>
    BY <1>2 DEF Prepare, Goto, historyVars
  <2>2. Key(p) \in Keys /\ pc'[p] = "open" /\ Key(p)' = Key(p) /\ IsBless(p)' = IsBless(p)
    BY <1>2, <2>1 DEF Refused, Evaluable, IInv, Typed, Key, Case, IsBless
  <2>3. Typed'
    <3>1. pc' \in [Procs -> PCs]
      BY <2>1 DEF IInv, Typed, PCs
    <3>2. fork' \in [Keys -> Forks]
      BY <1>2, ForkType DEF IInv, Typed
    <3>3. cut' \in [Procs -> BOOLEAN]
      BY <1>2 DEF IInv, Typed
    <3> QED  BY <2>1, <3>1, <3>2, <3>3 DEF IInv, Typed
  <2>4. OnCommand(p)'
    <3>1. Phase(p) /\ Judged(p) /\ Whole(p)
      BY DEF IInv, OnCommand
    <3>2. Phase(p)'
      BY <2>1, <2>2, <3>1 DEF Phase, AtCase
    <3>3. Judged(p)'
      BY <2>1, <2>2, <3>1 DEF Judged, Shows
    <3>4. Whole(p)'
      BY <2>1, <3>1 DEF Whole
    <3>5. Owned(p)' /\ Fresh(p)'
      BY <2>2 DEF Owned, Running, Fresh
    <3> QED  BY <3>2, <3>3, <3>4, <3>5 DEF OnCommand
  <2>5. \A q \in Procs : q # p => Steady(q) /\ Undisturbed(q)
    <3> TAKE q \in Procs
    <3> HAVE q # p
    <3>1. Steady(q)
      BY <2>1 DEF IInv, Typed, Steady
    <3>2. cut'[q] = (cut[q] \/ (pc[q] \in {"run", "load"} /\ Key(q) = Key(p)))
      BY <1>2
    <3>3. cut'[q] = cut[q] \/ cut'[q]
      BY <3>2 DEF IInv, Typed
    <3>4. ASSUME Running(q)' PROVE fork'[Key(q)] = fork[Key(q)]
      <4>1. Key(q) # Key(p)
        BY <3>1, <3>2, <3>4 DEF Running, Steady
      <4> QED  BY <1>2, <4>1 DEF IInv, Typed
    <3> QED  BY <3>1, <3>3, <3>4 DEF Undisturbed
  <2>6. ~Running(p)'
    BY <2>2 DEF Running
  <2>7. Approvals' /\ Kept'
    BY <2>1, SameApprovals
  <2> QED  BY <2>1, <2>3, <2>4, <2>5, <2>6, <2>7, StepOf DEF Onward
<1> QED  BY <1>1, <1>2 DEF Prepare

(* A command that opens the fork is alone in it. *)
LEMMA OpenIInv ==
  ASSUME IInv, NEW p \in Procs, Open(p)
  PROVE  IInv'
<1>1. CASE fork[Key(p)].there /\ CaseFails(p) /\ UNCHANGED <<fork, run>>
  <2>1. run' \in [Procs -> Seq(Events)] /\ \A q \in Procs : run'[q] = run[q]
    BY <1>1 DEF IInv, Typed
  <2> QED  BY <1>1, <2>1, CaseFailsIInv DEF Open
<1>2. CASE /\ ~fork[Key(p)].there
           /\ Goto(p, "run")
           /\ fork' = [fork EXCEPT ![Key(p)] = [there |-> TRUE, row |-> TRUE, log |-> <<>>]]
           /\ \E t \in Traces[Key(p)] : run' = [run EXCEPT ![p] = t]
           /\ UNCHANGED <<verdicts, cut, case>>
  <2>1. /\ pc[p] = "open" /\ pc' = [pc EXCEPT ![p] = "run"] /\ exit' = exit
        /\ UNCHANGED <<golden, job, seen, verdicts, cut, case, version, lossy, given, approved>>
    BY <1>2 DEF Open, Goto, historyVars
  <2>2. Key(p) \in Keys
    BY <2>1 DEF IInv, OnCommand, Phase
  <2>3. PICK t \in Traces[Key(p)] : run' = [run EXCEPT ![p] = t]
    BY <1>2
  <2>4. t \in Seq(Events) /\ <<>> \o t = t
    BY <2>2, EvalAssumption
  <2>5. /\ pc'[p] = "run" /\ Key(p)' = Key(p) /\ IsBless(p)' = IsBless(p) /\ run'[p] = t
        /\ fork'[Key(p)] = [there |-> TRUE, row |-> TRUE, log |-> <<>>]
    BY <1>2, <2>1, <2>2, <2>3 DEF IInv, Typed, Key, Case, IsBless
  <2>6. Typed'
    <3>1. pc' \in [Procs -> PCs]
      BY <2>1 DEF IInv, Typed, PCs
    <3>2. fork' \in [Keys -> Forks]
      BY <1>2, ForkType DEF IInv, Typed
    <3>3. run' \in [Procs -> Seq(Events)]
      BY <2>3, <2>4 DEF IInv, Typed
    <3> QED  BY <2>1, <3>1, <3>2, <3>3 DEF IInv, Typed
  <2>7. OnCommand(p)'
    <3>1. Phase(p) /\ Judged(p) /\ Whole(p)
      BY DEF IInv, OnCommand
    <3>2. Phase(p)'
      BY <2>1, <2>2, <2>5, <3>1 DEF Phase, AtCase
    <3>3. Judged(p)'
      BY <2>1, <2>5, <3>1 DEF Judged, Shows
    <3>4. Whole(p)'
      BY <2>1, <3>1 DEF Whole
    <3>5. Owned(p)'
      BY <2>3, <2>4, <2>5 DEF Owned
    <3>6. Fresh(p)'
      BY <2>5 DEF Fresh
    <3> QED  BY <3>2, <3>3, <3>4, <3>5, <3>6 DEF OnCommand
  <2>8. \A q \in Procs : q # p /\ Running(q) => Key(q) # Key(p)
    BY <1>2 DEF IInv, OnCommand, Owned
  <2>9. \A q \in Procs : q # p => Steady(q) /\ Undisturbed(q)
    <3> TAKE q \in Procs
    <3> HAVE q # p
    <3>1. Steady(q)
      BY <2>1, <2>3 DEF IInv, Typed, Steady
    <3>2. Running(q)' => Running(q)
      BY <2>1, <3>1 DEF Running, Steady
    <3>3. Running(q)' => fork'[Key(q)] = fork[Key(q)]
      BY <1>2, <2>8, <3>2 DEF IInv, Typed
    <3> QED  BY <2>1, <3>1, <3>3 DEF Undisturbed
  <2>10. Approvals' /\ Kept'
    BY <2>1, SameApprovals
  <2> QED  BY <2>1, <2>5, <2>6, <2>7, <2>8, <2>9, <2>10, StepOf DEF Onward
<1> QED  BY <1>1, <1>2 DEF Open

(* An event goes to the log, or to a file without a name. *)
LEMMA EmitIInv ==
  ASSUME IInv, NEW p \in Procs, Emit(p)
  PROVE  IInv'
<1> DEFINE l == fork[Key(p)].log
           r == run[p]
           next == IF Len(r) = 1 THEN "load" ELSE "run"
<1>1. /\ pc[p] = "run" /\ r # <<>> /\ run' = [run EXCEPT ![p] = Tail(r)]
      /\ pc' = [pc EXCEPT ![p] = next] /\ exit' = exit
      /\ UNCHANGED <<golden, job, case, seen, verdicts, cut, version, lossy, given, approved>>
  BY DEF Emit, Goto, historyVars
<1>2. Key(p) \in Keys /\ fork[Key(p)] \in Forks /\ l \in Seq(Events) /\ r \in Seq(Events)
  BY <1>1 DEF IInv, Typed, OnCommand, Phase, Forks
<1>3. /\ Append(l, Head(r)) \o Tail(r) = l \o r
      /\ Append(l, Head(r)) \in Seq(Events) /\ Tail(r) \in Seq(Events)
      /\ Len(r) = 1 => Tail(r) = <<>>
  BY <1>1, <1>2, Emitted
<1> DEFINE m == Append(l, Head(r))
<1>4. fork' = IF cut[p] THEN fork ELSE [fork EXCEPT ![Key(p)].log = m]
  BY DEF Emit
<1>5. next \in {"run", "load"} /\ next \in PCs
  BY DEF PCs
<1>6. /\ pc'[p] = next /\ Key(p)' = Key(p) /\ IsBless(p)' = IsBless(p) /\ run'[p] = Tail(r)
      /\ Running(p)' = Running(p)
  BY <1>1, <1>5 DEF IInv, Typed, Key, Case, IsBless, Running
<1>7. pc'[p] = "load" => run'[p] = <<>>
  BY <1>3, <1>6
<1> HIDE DEF m, r, l, next
<1>8. Typed'
  <2>1. pc' \in [Procs -> PCs] /\ run' \in [Procs -> Seq(Events)]
    BY <1>1, <1>3, <1>5 DEF IInv, Typed
  <2>2. fork' \in [Keys -> Forks]
    BY <1>2, <1>3, <1>4 DEF IInv, Typed, Forks, m
  <2> QED  BY <1>1, <2>1, <2>2 DEF IInv, Typed
<1>9. OnCommand(p)'
  <2>1. Phase(p) /\ Judged(p) /\ Whole(p) /\ Owned(p)
    BY DEF IInv, OnCommand
  <2>2. Phase(p)'
    BY <1>1, <1>5, <1>6, <1>7, <2>1 DEF Phase, AtCase
  <2>3. Judged(p)'
    BY <1>1, <1>5, <1>6, <2>1 DEF Judged, Shows
  <2>4. Whole(p)'
    BY <1>1, <2>1 DEF Whole
  <2>5. ASSUME Running(p)'
        PROVE  fork'[Key(p)].there /\ fork'[Key(p)].log \o run'[p] \in Traces[Key(p)]
    <3>1. Running(p) /\ ~cut[p]
      BY <1>6, <2>5 DEF Running
    <3>2. fork'[Key(p)] = [fork[Key(p)] EXCEPT !.log = m]
      BY <1>2, <1>4, <3>1 DEF IInv, Typed
    <3>3. fork'[Key(p)].there = fork[Key(p)].there /\ fork'[Key(p)].log = m
      BY <1>2, <3>2 DEF Forks
    <3>4. fork[Key(p)].there /\ l \o r \in Traces[Key(p)]
      BY <2>1, <3>1 DEF Owned, l, r
    <3> QED  BY <1>3, <1>6, <3>3, <3>4 DEF m
  <2>6. Owned(p)'
    BY <1>6, <2>5 DEF Owned
  <2>7. Fresh(p)'
    BY <1>5, <1>6 DEF Fresh
  <2> QED  BY <2>2, <2>3, <2>4, <2>6, <2>7 DEF OnCommand
<1>10. \A q \in Procs : q # p => Steady(q) /\ Undisturbed(q)
  <2> TAKE q \in Procs
  <2> HAVE q # p
  <2>1. Steady(q)
    BY <1>1 DEF IInv, Typed, Steady
  <2>2. ASSUME Running(q)' PROVE fork'[Key(q)] = fork[Key(q)]
    <3>1. Running(q)
      BY <1>1, <2>1, <2>2 DEF Running, Steady
    <3>2. cut[p] \/ Key(q) # Key(p)
      BY <1>1, <3>1 DEF IInv, Apart, Running
    <3> QED  BY <1>4, <3>2 DEF IInv, Typed
  <2> QED  BY <1>1, <2>1, <2>2 DEF Undisturbed
<1>11. Approvals' /\ Kept'
  BY <1>1, SameApprovals
<1> QED  BY <1>1, <1>6, <1>8, <1>9, <1>10, <1>11, StepOf DEF Onward

(* The runner of a cleared fork may fail. *)
LEMMA RunFailsIInv ==
  ASSUME IInv, NEW p \in Procs, RunFails(p)
  PROVE  IInv'
<1>1. run' \in [Procs -> Seq(Events)] /\ \A q \in Procs : q # p => run'[q] = run[q]
  BY DEF RunFails, IInv, Typed
<1> QED  BY <1>1, CaseFailsIInv DEF RunFails

(* A verdict is what the golden file that was read says of the structure. *)
LEMMA VerdictSays ==
  ASSUME IInv, NEW p \in Procs, NEW s \in Structures
  PROVE  LET v == Verdict(p, s)
             id == Case(p).id
         IN  /\ v \in {"pass", "mismatch", "error"}
             /\ v # "error" => id \in DOMAIN seen[p].samples
             /\ v # "error" => (v = "pass" <=>
                  [session |-> Case(p).session, structure |-> s] = seen[p].samples[id])
<1> DEFINE id == Case(p).id
           old == seen[p].samples[id]
<1>1. CASE id \in DOMAIN seen[p].samples
  <2>1. old \in Samples
    BY <1>1 DEF IInv, Approvals, Backed
  <2>2. old.structure \in Structures /\ old = [session |-> old.session, structure |-> old.structure]
    BY <2>1 DEF Samples
  <2>3. CompareStructure(old.structure, s) <=> old.structure = s
    BY <2>2, CompareExact
  <2> HIDE DEF id
  <2>4. old.session = Case(p).session =>
           (CompareStructure(old.structure, s) <=> [session |-> Case(p).session, structure |-> s] = old)
    BY <2>2, <2>3
  <2> QED  BY <1>1, <2>4 DEF Verdict, id
<1>2. CASE id \notin DOMAIN seen[p].samples
  BY <1>2 DEF Verdict
<1> QED  BY <1>1, <1>2

(* The log is read: a whole run of the case, unless it was cleared. *)
LEMMA LoadIInv ==
  ASSUME IInv, NEW p \in Procs, Load(p)
  PROVE  IInv'
<1> DEFINE at == fork[Key(p)]
           s == ProjectStructure(at.log)
<1>1. /\ pc[p] = "load" /\ pc[p] \in AtCase
      /\ UNCHANGED <<golden, job, seen, run, version, lossy, given, approved>>
      /\ fork' = IF at.there THEN fork ELSE [fork EXCEPT ![Key(p)] = [NoFork EXCEPT !.there = TRUE]]
  BY DEF Load, AtCase, historyVars
<1>2. Key(p) \in Keys /\ at \in Forks /\ at.log \in Seq(Events) /\ run[p] = <<>>
  BY <1>1 DEF IInv, Typed, OnCommand, Phase, Forks
<1>3. s \in Structures
  BY <1>2, StructureType
<1>4. cut[p] \/ at.log \in Traces[Key(p)]
  <2>1. ASSUME ~cut[p] PROVE at.log \o <<>> \in Traces[Key(p)]
    BY <1>1, <1>2, <2>1 DEF IInv, OnCommand, Owned, Running
  <2>2. at.log \o <<>> = at.log
    BY <1>2
  <2> QED  BY <2>1, <2>2
<1>5. fork' \in [Keys -> Forks]
  BY <1>1, ForkType DEF IInv, Typed
<1>6. ASSUME NEW q \in Procs, q # p, Running(q) PROVE fork'[Key(q)] = fork[Key(q)]
  <2>1. fork[Key(q)].there
    BY <1>6 DEF IInv, OnCommand, Owned
  <2>2. at.there \/ Key(q) # Key(p)
    BY <2>1
  <2> QED  BY <1>1, <2>2 DEF IInv, Typed
<1>7. CASE ~IsBless(p)
  <2> DEFINE r == Result(p, Verdict(p, s), s)
  <2>1. CaseDone(p, r)
    BY <1>7 DEF Load
  <2>2. /\ r.id = Case(p).id /\ r.verdict = Verdict(p, s) /\ r.structure = s /\ r.cut = cut[p]
        /\ r = [id |-> Case(p).id, verdict |-> Verdict(p, s), structure |-> s, cut |-> cut[p]]
    BY DEF Result
  <2> HIDE DEF r, s, at
  <2>3. r \in Results /\ r.verdict # "blessed"
    BY <1>1, <1>3, <2>2, CaseType, VerdictSays DEF Results
  <2>4. r.verdict # "error" =>
           /\ r.id \in DOMAIN seen[p].samples
           /\ r.verdict = "pass" <=>
                [session |-> Case(p).session, structure |-> r.structure] = seen[p].samples[r.id]
    BY <1>3, <2>2, VerdictSays
  <2>5. r.cut \/ \E t \in Traces[Key(p)] : r.structure = ProjectStructure(t)
    BY <1>4, <2>2 DEF s, at
  <2>6. run' \in [Procs -> Seq(Events)] /\ \A q \in Procs : run'[q] = run[q]
    BY <1>1 DEF IInv, Typed
  <2>7. UNCHANGED <<job, seen, golden, historyVars>>
    BY <1>1 DEF historyVars
  <2> QED  BY <1>1, <1>5, <1>6, <1>7, <2>1, <2>2, <2>3, <2>4, <2>5, <2>6, <2>7, CaseDoneIInv
<1>8. CASE IsBless(p)
  <2> DEFINE r == Result(p, "blessed", s)
  <2>1. /\ pc' = [pc EXCEPT ![p] = "golden"] /\ exit' = exit /\ UNCHANGED <<case, cut>>
        /\ verdicts' = [verdicts EXCEPT ![p] = <<r>>]
    BY <1>8 DEF Load, Goto
  <2>2. /\ r.id = Case(p).id /\ r.verdict = "blessed" /\ r.structure = s /\ r.cut = cut[p]
        /\ r = [id |-> Case(p).id, verdict |-> "blessed", structure |-> s, cut |-> cut[p]]
    BY DEF Result
  <2> HIDE DEF r, s, at
  <2>3. r \in Results
    BY <1>1, <1>3, <2>2, CaseType DEF Results
  <2>4. /\ verdicts'[p] = <<r>> /\ Len(<<r>>) = 1 /\ <<r>> \in Seq(Results) /\ \A i \in 1..1 : <<r>>[i] = r
        /\ pc'[p] = "golden" /\ "golden" \in PCs /\ exit[p] = "none" /\ exit' = [exit EXCEPT ![p] = "none"]
    BY <1>1, <2>1, <2>3, CaseType DEF IInv, Typed, PCs
  <2>5. Whole(p)'
    <3>1. /\ case[p] \in 1..Len(job[p].suite) /\ Case(p) = job[p].suite[case[p]]
          /\ Key(p) = <<job[p].suite[case[p]].session, job[p].suite[case[p]].at>>
      BY <1>1, CaseType DEF Key
    <3>2. r.cut \/ \E t \in Traces[Key(p)] : r.structure = ProjectStructure(t)
      BY <1>4, <2>2 DEF s, at
    <3>3. \/ r.cut
          \/ \E j \in 1..Len(job[p].suite) :
               /\ job[p].suite[j].id = r.id
               /\ \E t \in Traces[<<job[p].suite[j].session, job[p].suite[j].at>>] :
                    r.structure = ProjectStructure(t)
      BY <2>2, <3>1, <3>2
    <3> QED  BY <1>1, <2>4, <3>3 DEF Whole
  <2>6. Fresh(p)' /\ ~Running(p)'
    BY <2>4 DEF Fresh, Running
  <2>7. OnCommand(p)'
    BY <1>1, <1>8, <2>1, <2>4, <2>5, <2>6, BlessMoves
  <2>8. Typed'
    BY <1>1, <1>5, <2>1, <2>4 DEF IInv, Typed
  <2>9. \A q \in Procs : q # p => Steady(q) /\ Undisturbed(q)
    <3> TAKE q \in Procs
    <3> HAVE q # p
    <3>1. Steady(q)
      BY <1>1, <2>1 DEF IInv, Typed, Steady
    <3>2. Running(q)' => Running(q)
      BY <2>1, <3>1 DEF Running, Steady
    <3> QED  BY <1>6, <2>1, <3>1, <3>2 DEF Undisturbed
  <2>10. Approvals' /\ Kept'
    BY <1>1, SameApprovals
  <2> QED  BY <1>1, <2>6, <2>7, <2>8, <2>9, <2>10, StepOf DEF Onward
<1> QED  BY <1>7, <1>8

(* An approval joins the others. *)
LEMMA WithBacked ==
  ASSUME NEW m, NEW A, Backed(m, A), NEW id \in Ids, NEW x \in Samples, NEW B,
         A \cup {[id |-> id, sample |-> x]} \subseteq B
  PROVE  Backed(With(m, id, x), B)
BY DEF Backed, With

(* No approvals. *)
LEMMA NoneBacked ==
  ASSUME NEW A
  PROVE  Backed(<<>>, A)
<1>1. <<>> = [i \in {} |-> <<>>[i]] /\ DOMAIN <<>> = {}
  OBVIOUS
<1> QED  BY <1>1 DEF Backed

(* What a bless is about to approve. *)
LEMMA SampleType ==
  ASSUME IInv, NEW p \in Procs, pc[p] \in {"golden", "truncate", "write"}
  PROVE  /\ Sample(p) \in Samples /\ Case(p).id \in Ids
         /\ pc[p] \in AtCase /\ IsBless(p) /\ Len(verdicts[p]) = 1 /\ exit[p] = "none"
<1>1. IsBless(p) /\ Len(verdicts[p]) = 1 /\ pc[p] \in AtCase /\ verdicts[p] \in Seq(Results)
  BY DEF IInv, Typed, OnCommand, Phase, AtCase
<1>2. verdicts[p][1] \in Results
  BY <1>1
<1>3. verdicts[p][1].structure \in Structures
  BY <1>2 DEF Results
<1> QED  BY <1>1, <1>3, CaseType DEF Sample, Samples

(* An unchanged sample is approved once more, a new one is yet to be written. *)
LEMMA ReadForBlessIInv ==
  ASSUME IInv, NEW p \in Procs, ReadForBless(p)
  PROVE  IInv'
<1> DEFINE id == Case(p).id
           x == Sample(p)
           old == golden.samples
           unchanged == id \in DOMAIN old /\ old[id] = x
<1>1. /\ pc[p] = "golden" /\ seen' = [seen EXCEPT ![p] = ReadGolden]
      /\ lossy' = (lossy \/ golden.state = "torn")
      /\ UNCHANGED <<golden, fork, job, case, run, verdicts, version, cut>>
  BY DEF ReadForBless
<1>2. /\ seen'[p] = ReadGolden /\ seen'[p].samples = old /\ seen'[p].version = version
      /\ \A q \in Procs : q # p => seen'[q] = seen[q]
      /\ seen' = [q \in Procs |-> seen'[q]]
  BY <1>1 DEF IInv, Typed, ReadGolden
<1>3. x \in Samples /\ id \in Ids /\ pc[p] \in AtCase /\ IsBless(p) /\ Len(verdicts[p]) = 1 /\ exit[p] = "none"
  BY <1>1, SampleType
<1>4. Typed /\ Kept /\ Approvals /\ version \in Nat /\ lossy \in BOOLEAN /\ lossy' \in BOOLEAN
  BY <1>1 DEF IInv, Typed
<1>5. CASE unchanged
  <2>1. /\ pc' = [pc EXCEPT ![p] = "done"] /\ exit' = [exit EXCEPT ![p] = "ok"]
        /\ given' = With(given, id, x) /\ approved' = approved \cup {[id |-> id, sample |-> x]}
    BY <1>2, <1>5 DEF ReadForBless, Exit, Approve
  <2>2. golden.state = "ok"
    <3>1. old # <<>>
      BY <1>5
    <3> QED  BY <1>4, <3>1 DEF Kept
  <2>3. ~lossy' => given' = given
    <3> SUFFICES ASSUME ~lossy' PROVE given' = given
      OBVIOUS
    <3>1. old = given
      BY <1>1, <1>4, <2>2 DEF Kept
    <3>2. given = [i \in DOMAIN given |-> given[i]]
      BY <1>4 DEF Approvals, Backed
    <3> HIDE DEF id, x, old
    <3>3. DOMAIN given \cup {id} = DOMAIN given /\ given[id] = x
      BY <1>5, <3>1
    <3>4. With(given, id, x) = [i \in DOMAIN given |-> given[i]]
      BY <3>3 DEF With
    <3> QED  BY <2>1, <3>2, <3>4
  <2>4. Kept'
    BY <1>1, <1>4, <2>2, <2>3 DEF Kept
  <2>5. Approvals'
    <3>1. \A m : Backed(m, approved) => Backed(m, approved')
      BY <2>1 DEF Backed
    <3>2. Backed(given', approved')
      <4> HIDE DEF id, x
      <4> QED  BY <1>3, <1>4, <2>1, WithBacked DEF Approvals
    <3> QED  BY <1>1, <1>2, <1>4, <3>1, <3>2 DEF Approvals
  <2>6. pc'[p] = "done" /\ "done" \in PCs
    BY <1>4, <2>1 DEF Typed, PCs
  <2>7. Fresh(p)' /\ ~Running(p)'
    BY <2>6 DEF Fresh, Running
  <2>8. OnCommand(p)'
    BY <1>1, <1>3, <2>1, <2>6, <2>7, BlessMoves
  <2>9. Typed'
    <3>1. pc' \in [Procs -> PCs] /\ exit' \in [Procs -> {"none", "ok", "regression", "compile"}]
      BY <1>4, <2>1, <2>6 DEF Typed
    <3>2. \A q \in Procs : seen'[q].version \in Nat
      BY <1>2, <1>4 DEF Typed
    <3> QED  BY <1>1, <1>2, <1>4, <3>1, <3>2 DEF Typed
  <2>10. \A q \in Procs : q # p => Steady(q) /\ Undisturbed(q)
    BY <1>1, <1>2, <1>4, <2>1 DEF Typed, Steady, Undisturbed
  <2>11. Onward
    BY <1>1, <2>3 DEF Onward
  <2> QED  BY <2>4, <2>5, <2>7, <2>8, <2>9, <2>10, <2>11, StepOf
<1>6. CASE ~unchanged
  <2>1. /\ pc' = [pc EXCEPT ![p] = "truncate"] /\ exit' = exit /\ UNCHANGED <<given, approved>>
    BY <1>2, <1>6 DEF ReadForBless, Goto
  <2>2. Kept'
    BY <1>1, <1>4, <2>1 DEF Kept
  <2>3. Approvals'
    BY <1>1, <1>2, <1>4, <2>1 DEF Approvals
  <2>4. pc'[p] = "truncate" /\ "truncate" \in PCs /\ exit' = [exit EXCEPT ![p] = "none"]
    BY <1>3, <1>4, <2>1 DEF Typed, PCs
  <2>5. Fresh(p)'
    <3>1. ~lossy' => old = given'
      BY <1>1, <1>4, <2>1 DEF Kept
    <3> QED  BY <1>1, <1>2, <1>4, <3>1 DEF Fresh
  <2>6. ~Running(p)'
    BY <2>4 DEF Running
  <2>7. OnCommand(p)'
    BY <1>1, <1>3, <2>1, <2>4, <2>5, BlessMoves
  <2>8. Typed'
    <3>1. pc' \in [Procs -> PCs]
      BY <1>4, <2>1, <2>4 DEF Typed
    <3>2. \A q \in Procs : seen'[q].version \in Nat
      BY <1>2, <1>4 DEF Typed
    <3> QED  BY <1>1, <1>2, <1>4, <2>1, <3>1, <3>2 DEF Typed
  <2>9. \A q \in Procs : q # p => Steady(q) /\ Undisturbed(q)
    BY <1>1, <1>2, <1>4, <2>1 DEF Typed, Steady, Undisturbed
  <2>10. Onward
    BY <1>1, <2>1 DEF Onward
  <2> QED  BY <2>2, <2>3, <2>6, <2>7, <2>8, <2>9, <2>10, StepOf
<1> QED  BY <1>5, <1>6

(* The golden file is empty for a moment. *)
LEMMA TruncateIInv ==
  ASSUME IInv, NEW p \in Procs, Truncate(p)
  PROVE  IInv'
<1>1. /\ pc[p] = "truncate" /\ golden' = [state |-> "torn", samples |-> <<>>]
      /\ pc' = [pc EXCEPT ![p] = "write"] /\ exit' = exit
      /\ UNCHANGED <<fork, job, case, seen, run, verdicts, cut, version, lossy, given, approved>>
  BY DEF Truncate, Goto, historyVars
<1>2. IsBless(p) /\ Len(verdicts[p]) = 1 /\ exit[p] = "none" /\ pc[p] \in AtCase
  BY <1>1, SampleType
<1>3. pc'[p] = "write" /\ "write" \in PCs /\ exit' = [exit EXCEPT ![p] = "none"]
  BY <1>1, <1>2 DEF IInv, Typed, PCs
<1>4. Kept'
  BY <1>1 DEF Kept
<1>5. Approvals'
  BY <1>1, NoneBacked DEF IInv, Approvals
<1>6. Fresh(p)' /\ ~Running(p)'
  BY <1>1, <1>3 DEF IInv, OnCommand, Fresh, Running
<1>7. OnCommand(p)'
  BY <1>1, <1>2, <1>3, <1>6, BlessMoves
<1>8. Typed'
  BY <1>1, <1>3 DEF IInv, Typed
<1>9. \A q \in Procs : q # p => Steady(q) /\ Undisturbed(q)
  BY <1>1 DEF IInv, Typed, Steady, Undisturbed
<1> QED  BY <1>1, <1>4, <1>5, <1>6, <1>7, <1>8, <1>9, StepOf DEF Onward

(* What was read is written with the approval. *)
LEMMA WriteIInv ==
  ASSUME IInv, NEW p \in Procs, Write(p)
  PROVE  IInv'
<1> DEFINE id == Case(p).id
           x == Sample(p)
<1>1. /\ pc[p] = "write" /\ golden' = [state |-> "ok", samples |-> With(seen[p].samples, id, x)]
      /\ pc' = [pc EXCEPT ![p] = "done"] /\ exit' = [exit EXCEPT ![p] = "ok"]
      /\ given' = With(given, id, x) /\ approved' = approved \cup {[id |-> id, sample |-> x]}
      /\ version' = version + 1 /\ lossy' = (lossy \/ version # seen[p].version)
      /\ UNCHANGED <<fork, job, case, seen, run, verdicts, cut>>
  BY DEF Write, Exit, Approve
<1>2. x \in Samples /\ id \in Ids /\ IsBless(p) /\ Len(verdicts[p]) = 1 /\ pc[p] \in AtCase
  BY <1>1, SampleType
<1>3. pc'[p] = "done" /\ "done" \in PCs /\ version \in Nat /\ lossy' \in BOOLEAN /\ version' \in Nat
  BY <1>1 DEF IInv, Typed, PCs
<1>4. Kept'
  <2>1. ~lossy' => seen[p].samples = given
    BY <1>1 DEF IInv, OnCommand, Fresh
  <2> HIDE DEF id, x
  <2> QED  BY <1>1, <2>1 DEF Kept
<1>5. Approvals'
  <2>1. \A m : Backed(m, approved) => Backed(m, approved')
    BY <1>1 DEF Backed
  <2>2. Approvals
    BY DEF IInv
  <2> HIDE DEF id, x
  <2>3. Backed(golden'.samples, approved')
    BY <1>1, <1>2, <2>2, WithBacked DEF Approvals
  <2>4. Backed(given', approved')
    BY <1>1, <1>2, <2>2, WithBacked DEF Approvals
  <2> QED  BY <1>1, <2>1, <2>2, <2>3, <2>4 DEF Approvals
<1>6. Fresh(p)' /\ ~Running(p)'
  BY <1>3 DEF Fresh, Running
<1>7. OnCommand(p)'
  BY <1>1, <1>2, <1>3, <1>6, BlessMoves
<1>8. Typed'
  BY <1>1, <1>3 DEF IInv, Typed
<1>9. \A q \in Procs : q # p => Steady(q) /\ Undisturbed(q)
  BY <1>1 DEF IInv, Typed, Steady, Undisturbed
<1> QED  BY <1>1, <1>4, <1>5, <1>6, <1>7, <1>8, <1>9, StepOf DEF Onward

(* A dead command has nothing left. *)
LEMMA CrashIInv ==
  ASSUME IInv, NEW p \in Procs, Crash(p)
  PROVE  IInv'
<1>1. /\ Live(p) /\ pc' = [pc EXCEPT ![p] = "dead"]
      /\ job' = [job EXCEPT ![p] = NoJob] /\ case' = [case EXCEPT ![p] = 0]
      /\ seen' = [seen EXCEPT ![p] = Unread] /\ cut' = [cut EXCEPT ![p] = FALSE]
      /\ run' = [run EXCEPT ![p] = <<>>] /\ verdicts' = [verdicts EXCEPT ![p] = <<>>]
      /\ UNCHANGED <<golden, fork, exit, version, lossy, given, approved>>
  BY DEF Crash, historyVars
<1>2. /\ pc'[p] = "dead" /\ "dead" \in PCs /\ verdicts'[p] = <<>> /\ job'[p] = NoJob /\ seen'[p] = Unread
      /\ exit'[p] = "none" /\ Len(<<>>) = 0 /\ <<>> \in Seq(Events) /\ <<>> \in Seq(Results) /\ <<>> \in Seq(Cases)
  BY <1>1 DEF IInv, Typed, PCs, OnCommand, Phase, Live
<1>3. ~IsBless(p)' /\ NoJob \in [suite : Seq(Cases), bless : Blesses]
  BY <1>2 DEF IsBless, NoJob, Blesses
<1>4. OnCommand(p)'
  <2>1. Phase(p)'
    BY <1>2, <1>3 DEF Phase, AtCase
  <2>2. Owned(p)' /\ Fresh(p)'
    BY <1>2 DEF Owned, Running, Fresh
  <2>3. Judged(p)' /\ Whole(p)'
    BY <1>2 DEF Judged, Whole
  <2> QED  BY <2>1, <2>2, <2>3 DEF OnCommand
<1>5. Typed'
  <2>1. /\ seen' = [q \in Procs |-> seen'[q]] /\ \A q \in Procs : seen'[q].version \in Nat
    BY <1>1 DEF IInv, Typed, Unread
  <2>2. job' \in [Procs -> [suite : Seq(Cases), bless : Blesses]]
    BY <1>1, <1>3 DEF IInv, Typed
  <2>3. /\ pc' \in [Procs -> PCs] /\ case' \in [Procs -> Nat] /\ cut' \in [Procs -> BOOLEAN]
        /\ run' \in [Procs -> Seq(Events)] /\ verdicts' \in [Procs -> Seq(Results)]
    BY <1>1, <1>2 DEF IInv, Typed
  <2> QED  BY <1>1, <2>1, <2>2, <2>3 DEF IInv, Typed
<1>6. \A q \in Procs : q # p => Steady(q) /\ Undisturbed(q)
  <2> TAKE q \in Procs
  <2> HAVE q # p
  <2>1. Steady(q) /\ cut'[q] = cut[q]
    BY <1>1 DEF IInv, Typed, Steady
  <2> QED  BY <1>1, <2>1 DEF Undisturbed
<1>7. Approvals' /\ Kept'
  <2>1. Backed(Unread.samples, approved')
    BY NoneBacked DEF Unread
  <2>2. \A q \in Procs : q # p => seen'[q] = seen[q]
    BY <1>1 DEF IInv, Typed
  <2> QED  BY <1>1, <1>2, <2>1, <2>2 DEF IInv, Approvals, Kept
<1>8. ~Running(p)'
  BY <1>2 DEF Running
<1> QED  BY <1>1, <1>4, <1>5, <1>6, <1>7, <1>8, StepOf DEF Onward

(* A command starts with no verdicts, at its first case or at the one it blesses. *)
LEMMA StartIInv ==
  ASSUME IInv, NEW p \in Procs, NEW suite \in Suites, NEW bless \in Blesses, Start(p, suite, bless)
  PROVE  IInv'
<1>1. /\ pc[p] = "idle" /\ UNCHANGED <<golden, fork, run, verdicts, cut, version, lossy, given, approved>>
  BY DEF Start, historyVars
<1>2. /\ verdicts[p] = <<>> /\ verdicts'[p] = <<>> /\ ~IsBless(p) /\ exit[p] = "none" /\ Len(<<>>) = 0
      /\ suite \in Seq(Cases) /\ Len(suite) \in Nat
  BY <1>1, EvalAssumption DEF IInv, OnCommand, Phase
<1> DEFINE rejected == \/ Duplicate(suite)
                       \/ bless # "no" /\ \A i \in 1..Len(suite) : Bound(suite, bless) # {i}
           first == IF bless = "no" THEN 1 ELSE CHOOSE i \in Bound(suite, bless) : TRUE
<1>3. CASE rejected
  <2>1. /\ pc' = [pc EXCEPT ![p] = "done"] /\ exit' = [exit EXCEPT ![p] = "compile"]
        /\ UNCHANGED <<job, case, seen>>
    BY <1>3 DEF Start, Exit
  <2>2. pc'[p] = "done" /\ exit'[p] = "compile" /\ "done" \in PCs /\ ~IsBless(p)'
    BY <1>2, <2>1 DEF IInv, Typed, PCs, IsBless
  <2>3. OnCommand(p)'
    <3>1. Phase(p)'
      BY <2>2 DEF Phase, AtCase
    <3>2. Owned(p)' /\ Fresh(p)'
      BY <2>2 DEF Owned, Running, Fresh
    <3>3. Judged(p)' /\ Whole(p)'
      BY <1>2, <2>2 DEF Judged, Whole
    <3> QED  BY <3>1, <3>2, <3>3 DEF OnCommand
  <2>4. Typed'
    BY <1>1, <2>1, <2>2 DEF IInv, Typed
  <2>5. \A q \in Procs : q # p => Steady(q) /\ Undisturbed(q)
    BY <1>1, <2>1 DEF IInv, Typed, Steady, Undisturbed
  <2>6. Approvals' /\ Kept'
    BY <1>1, <2>1, SameApprovals
  <2>7. ~Running(p)'
    BY <2>2 DEF Running
  <2> QED  BY <1>1, <2>3, <2>4, <2>5, <2>6, <2>7, StepOf DEF Onward
<1>4. CASE ~rejected
  <2>1. /\ IF suite = <<>> THEN Exit(p, Band(<<>>)) ELSE Goto(p, "prepare")
        /\ job' = [job EXCEPT ![p] = [suite |-> suite, bless |-> bless]]
        /\ case' = [case EXCEPT ![p] = first]
        /\ seen' = IF bless = "no" THEN [seen EXCEPT ![p] = ReadGolden] ELSE seen
    BY <1>4 DEF Start
  <2>2. /\ first \in Nat
        /\ suite # <<>> => first \in 1..Len(suite)
        /\ bless # "no" => suite # <<>>
    <3>1. CASE bless = "no"
      BY <1>2, <3>1
    <3>2. CASE bless # "no"
      <4>1. PICK i \in 1..Len(suite) : Bound(suite, bless) = {i}
        BY <1>4, <3>2
      <4>2. first = i
        BY <3>2, <4>1
      <4> QED  BY <1>2, <4>1, <4>2
    <3> QED  BY <3>1, <3>2
  <2> HIDE DEF first, rejected
  <2>3. \/ suite = <<>> /\ bless = "no" /\ pc' = [pc EXCEPT ![p] = "done"] /\ exit' = [exit EXCEPT ![p] = Band(<<>>)]
        \/ suite # <<>> /\ pc' = [pc EXCEPT ![p] = "prepare"] /\ exit' = [exit EXCEPT ![p] = "none"]
    BY <1>2, <2>1, <2>2 DEF Exit, Goto, IInv, Typed
  <2>4. /\ job'[p] = [suite |-> suite, bless |-> bless] /\ case'[p] = first
        /\ \/ suite = <<>> /\ bless = "no" /\ pc'[p] = "done" /\ exit'[p] = Band(<<>>)
           \/ suite # <<>> /\ pc'[p] = "prepare" /\ exit'[p] = "none"
    BY <2>1, <2>3 DEF IInv, Typed
  <2>5. IsBless(p)' <=> bless # "no"
    BY <2>4 DEF IsBless
  <2>6. OnCommand(p)'
    <3>1. Phase(p)'
      BY <2>2, <2>4, BandType DEF Phase, AtCase
    <3>2. Owned(p)' /\ Fresh(p)'
      BY <2>4 DEF Owned, Running, Fresh
    <3>3. Whole(p)'
      BY <1>2 DEF Whole
    <3>4. Judged(p)'
      <4>1. bless = "no" => first = 1
        BY DEF first
      <4> QED  BY <1>2, <2>4, <2>5, <4>1 DEF Judged
    <3> QED  BY <3>1, <3>2, <3>3, <3>4 DEF OnCommand
  <2>7. Typed'
    <3>1. /\ pc' \in [Procs -> PCs] /\ exit' \in [Procs -> {"none", "ok", "regression", "compile"}]
      BY <2>3, BandType DEF IInv, Typed, PCs
    <3>2. /\ job' \in [Procs -> [suite : Seq(Cases), bless : Blesses]] /\ case' \in [Procs -> Nat]
      BY <1>2, <2>1, <2>2 DEF IInv, Typed
    <3>3. /\ seen' = [q \in Procs |-> seen'[q]] /\ \A q \in Procs : seen'[q].version \in Nat
      BY <2>1 DEF IInv, Typed, ReadGolden
    <3> QED  BY <1>1, <3>1, <3>2, <3>3 DEF IInv, Typed
  <2>8. \A q \in Procs : q # p => Steady(q) /\ Undisturbed(q)
    BY <1>1, <2>1, <2>3 DEF IInv, Typed, Steady, Undisturbed
  <2>9. Approvals' /\ Kept'
    <3>1. \A q \in Procs : seen'[q] = seen[q] \/ seen'[q].samples = golden.samples
      BY <2>1 DEF IInv, Typed, ReadGolden
    <3> QED  BY <1>1, <3>1, SameApprovals
  <2>10. ~Running(p)'
    BY <2>4 DEF Running
  <2> QED  BY <1>1, <2>6, <2>7, <2>8, <2>9, <2>10, StepOf DEF Onward
<1> QED  BY <1>3, <1>4

-----------------------------------------------------------------------------
(* Before the first command. *)
LEMMA InitIInv == Init => IInv
<1> SUFFICES ASSUME Init PROVE IInv
  OBVIOUS
<1>1. /\ <<>> \in Seq(Events) /\ <<>> \in Seq(Results) /\ <<>> \in Seq(Cases) /\ Len(<<>>) = 0
      /\ FALSE \in BOOLEAN /\ 0 \in Nat
  OBVIOUS
<1>2. Typed
  <2>1. NoFork \in Forks /\ NoJob \in [suite : Seq(Cases), bless : Blesses] /\ "idle" \in PCs
        /\ Unread.version = 0
    BY <1>1, ForkType DEF NoJob, Blesses, PCs, Unread
  <2> QED  BY <1>1, <2>1 DEF Init, Typed
<1>3. Apart
  BY DEF Init, Apart, Running
<1>4. Approvals /\ Kept
  BY NoneBacked DEF Init, Approvals, Kept, Absent, Unread
<1>5. ASSUME NEW p \in Procs PROVE OnCommand(p)
  <2>1. pc[p] = "idle" /\ exit[p] = "none" /\ verdicts[p] = <<>> /\ ~IsBless(p)
    BY DEF Init, IsBless, NoJob
  <2> QED  BY <1>1, <2>1 DEF OnCommand, Phase, Owned, Running, Judged, Whole, Fresh, AtCase
<1> QED  BY <1>2, <1>3, <1>4, <1>5 DEF IInv

(* Every step keeps the invariant. *)
LEMMA NextIInv == IInv /\ [Next]_vars => IInv'
<1> SUFFICES ASSUME IInv, [Next]_vars PROVE IInv'
  OBVIOUS
<1>1. CASE UNCHANGED vars
  <2>1. Typed' /\ Approvals' /\ Kept'
    BY <1>1, SameApprovals DEF vars, historyVars, IInv, Typed
  <2>2. \A p \in Procs : Steady(p) /\ Undisturbed(p)
    BY <1>1 DEF vars, Steady, Undisturbed
  <2>3. Onward
    BY <1>1 DEF vars, historyVars, Onward
  <2>4. \A p \in Procs : OnCommand(p)'
    BY <2>2, <2>3, OtherKeeps DEF IInv
  <2>5. Apart'
    BY <1>1 DEF vars, IInv, Apart, Running, Key, Case
  <2> QED  BY <2>1, <2>4, <2>5 DEF IInv
<1>2. CASE Next
  <2> PICK p \in Procs :
        \/ \E suite \in Suites, bless \in Blesses : Start(p, suite, bless)
        \/ Prepare(p) \/ Open(p) \/ Emit(p) \/ RunFails(p) \/ Load(p)
        \/ ReadForBless(p) \/ Truncate(p) \/ Write(p) \/ Crash(p)
    BY <1>2 DEF Next
  <2>1. CASE \E suite \in Suites, bless \in Blesses : Start(p, suite, bless)
    BY <2>1, StartIInv
  <2>2. CASE Prepare(p)
    BY <2>2, PrepareIInv
  <2>3. CASE Open(p)
    BY <2>3, OpenIInv
  <2>4. CASE Emit(p)
    BY <2>4, EmitIInv
  <2>5. CASE RunFails(p)
    BY <2>5, RunFailsIInv
  <2>6. CASE Load(p)
    BY <2>6, LoadIInv
  <2>7. CASE ReadForBless(p)
    BY <2>7, ReadForBlessIInv
  <2>8. CASE Truncate(p)
    BY <2>8, TruncateIInv
  <2>9. CASE Write(p)
    BY <2>9, WriteIInv
  <2>10. CASE Crash(p)
    BY <2>10, CrashIInv
  <2> QED  BY <2>1, <2>2, <2>3, <2>4, <2>5, <2>6, <2>7, <2>8, <2>9, <2>10
<1> QED  BY <1>1, <1>2

(* The inductive invariant holds: forks are owned, verdicts rest on what *)
(* was read, and only approvals are in the golden file.                  *)
THEOREM EvalInvariant == Spec => []IInv
BY InitIInv, NextIInv, PTL DEF Spec

(* CLI-5's bands mean what they say: 0 only when every case showed what    *)
(* had been approved for it, 20 only when every case was judged and one of *)
(* them showed something else than the golden file the command read.       *)
THEOREM ExitBandSound == Spec => []ExitBand
<1>1. IInv => ExitBand
  <2> SUFFICES ASSUME IInv, NEW p \in Procs, ~IsBless(p)
               PROVE  LET suite == job[p].suite
                          AsRead(i) == suite[i].id \in DOMAIN seen[p].samples
                                       /\ Shows(p, i) = seen[p].samples[suite[i].id]
                      IN  /\ exit[p] = "ok" =>
                               \A i \in 1..Len(suite) : [id |-> suite[i].id, sample |-> Shows(p, i)] \in approved
                          /\ exit[p] = "regression" =>
                               /\ \A i \in 1..Len(suite) : suite[i].id \in DOMAIN seen[p].samples
                               /\ \E i \in 1..Len(suite) : ~AsRead(i)
    BY DEF ExitBand, Shows
  <2> DEFINE suite == job[p].suite
             v(i) == verdicts[p][i].verdict
  <2>1. /\ Judged(p) /\ Backed(seen[p].samples, approved)
        /\ verdicts[p] \in Seq(Results) /\ Len(verdicts[p]) \in Nat
    BY DEF IInv, OnCommand, Approvals, Typed
  <2>2. /\ exit[p] \in {"ok", "regression"} =>
             Len(verdicts[p]) = Len(suite) /\ exit[p] = Band(verdicts[p])
        /\ \A i \in 1..Len(verdicts[p]) :
             /\ v(i) # "blessed"
             /\ v(i) # "error" => suite[i].id \in DOMAIN seen[p].samples
             /\ v(i) # "error" => (v(i) = "pass" <=> Shows(p, i) = seen[p].samples[suite[i].id])
    BY <2>1 DEF Judged
  <2>3. \A i \in 1..Len(verdicts[p]) : v(i) \in {"pass", "mismatch", "error"}
    <3>1. \A i \in 1..Len(verdicts[p]) : verdicts[p][i] \in Results
      BY <2>1
    <3> QED  BY <2>2, <3>1 DEF Results
  <2>4. ASSUME exit[p] = "ok", NEW i \in 1..Len(suite)
        PROVE  [id |-> suite[i].id, sample |-> Shows(p, i)] \in approved
    <3>1. v(i) = "pass"
      BY <2>2, <2>3, <2>4 DEF Band
    <3>2. suite[i].id \in DOMAIN seen[p].samples /\ Shows(p, i) = seen[p].samples[suite[i].id]
      BY <2>2, <2>4, <3>1
    <3> QED  BY <2>1, <3>2 DEF Backed
  <2>5. ASSUME exit[p] = "regression"
        PROVE  /\ \A i \in 1..Len(suite) : suite[i].id \in DOMAIN seen[p].samples
               /\ \E i \in 1..Len(suite) : Shows(p, i) # seen[p].samples[suite[i].id]
    <3>1. /\ \A i \in 1..Len(suite) : v(i) # "error"
          /\ \E i \in 1..Len(suite) : v(i) = "mismatch"
      BY <2>2, <2>5 DEF Band
    <3> QED  BY <2>2, <2>5, <3>1
  <2> HIDE DEF v
  <2> QED  BY <2>4, <2>5
<1> QED  BY <1>1, EvalInvariant, PTL

(* A bless keeps the approvals of the other cases, unless it read a file *)
(* cut short or wrote over a newer one.                                  *)
THEOREM ApprovalsSurvive == Spec => []ApprovalsKept
<1>1. IInv => ApprovalsKept
  BY DEF IInv, Kept, ApprovalsKept
<1> QED  BY <1>1, EvalInvariant, PTL

(* What is judged or approved is the structure of a whole run of the case, *)
(* unless another command cleared the fork before it was read.             *)
THEOREM WholeRunsJudged == Spec => []JudgedWhole
<1>1. IInv => JudgedWhole
  BY DEF IInv, OnCommand, Whole, JudgedWhole
<1> QED  BY <1>1, EvalInvariant, PTL
=============================================================================
