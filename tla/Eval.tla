-------------------------------- MODULE Eval --------------------------------
(***************************************************************************)
(* The evaluation harness, hesmos eval <suite> [--bless <session>]         *)
(* (hesmos/src/cmd/eval.rs): every case of a suite forks a recorded        *)
(* session, and the structure of the fork's trace is compared with the     *)
(* golden file, or written to it by a bless.  Commands run in processes of *)
(* their own that share the golden file and the fork directories, may      *)
(* overlap and may die anywhere; the suite file is edited between them.    *)
(*                                                                         *)
(* A fork directory is its log and whether it has a sessions row; its      *)
(* composition is one step here, and ForkDirectory takes it apart.         *)
(***************************************************************************)
EXTENDS TraceViews

CONSTANTS
  Procs,    \* commands
  Cases,    \* cases of a suite, [id, session, at]
  Suites,   \* contents of the suite file: sequences of cases
  Events,   \* events, as TraceViews reads them
  Traces,   \* the events a fork of <<session, at>> may record: a set of sequences
  Sound     \* origins whose directory, chain, row and plan snapshot pass the checks

Keys == DOMAIN Traces

(* A key is a commit point of its origin or 0. *)
ASSUME EvalAssumption ==
  /\ Suites \subseteq Seq(Cases)
  /\ \A c \in Cases : c.session \in Sound => <<c.session, 0>> \in Keys
  /\ \A k \in Keys : Traces[k] \subseteq Seq(Events)

VARIABLES
  golden,    \* the golden file: absent, torn or ok with its samples
  fork,      \* the fork directories: is there one, its row, its log
  pc, exit,  \* program point and exit band of each command
  job,       \* its suite and, for a bless, the session
  case,      \* the case it is at
  seen,      \* the golden file it read
  run,       \* events its runner has yet to emit
  verdicts,  \* what became of its cases
  version,   \* history: writes of the golden file
  cut,       \* history: its current fork was cleared by another command
  lossy,     \* history: a bless read a torn file, or wrote over a newer one
  given,     \* history: the newest approval of each case id
  approved   \* history: every approval

vars == <<golden, fork, pc, exit, job, case, seen, run, verdicts,
          version, cut, lossy, given, approved>>
historyVars == <<version, lossy, given, approved>>

NoFork == [there |-> FALSE, row |-> FALSE, log |-> <<>>]
Absent == [state |-> "absent", samples |-> <<>>]
NoJob == [suite |-> <<>>, bless |-> "no"]
Unread == [state |-> "unread", samples |-> <<>>, version |-> 0]

Init ==
  /\ golden = Absent
  /\ fork = [k \in Keys |-> NoFork]
  /\ pc = [p \in Procs |-> "idle"] /\ exit = [p \in Procs |-> "none"]
  /\ job = [p \in Procs |-> NoJob]
  /\ case = [p \in Procs |-> 0]
  /\ seen = [p \in Procs |-> Unread]
  /\ run = [p \in Procs |-> <<>>] /\ verdicts = [p \in Procs |-> <<>>]
  /\ version = 0 /\ cut = [p \in Procs |-> FALSE] /\ lossy = FALSE
  /\ given = <<>> /\ approved = {}

-----------------------------------------------------------------------------

Live(p) == pc[p] \notin {"idle", "done", "dead"}
Case(p) == job[p].suite[case[p]]
Key(p) == <<Case(p).session, Case(p).at>>
IsBless(p) == job[p].bless # "no"

Goto(p, l) == pc' = [pc EXCEPT ![p] = l] /\ UNCHANGED exit
Exit(p, band) == pc' = [pc EXCEPT ![p] = "done"] /\ exit' = [exit EXCEPT ![p] = band]

Duplicate(suite) == \E i, j \in 1..Len(suite) : i # j /\ suite[i].id = suite[j].id

(* matching of bless. *)
Bound(suite, session) == {i \in 1..Len(suite) : suite[i].session = session}

(* read_golden: absent and unparsable files alike are no golden file. *)
ReadGolden == [state |-> IF golden.state = "ok" THEN "ok" ELSE "none",
               samples |-> golden.samples, version |-> version]

(* report: an error outweighs a mismatch. *)
Band(results) ==
  LET kinds == {results[i].verdict : i \in 1..Len(results)}
  IN  IF "error" \in kinds THEN "compile" ELSE IF "mismatch" \in kinds THEN "regression" ELSE "ok"

(* execute_captured, and bless up to its case: the suite is read and its ids *)
(* are checked; eval reads the golden file once, before its first case, and  *)
(* a suite without cases is reported at once.                                *)
Start(p, suite, bless) ==
  /\ pc[p] = "idle"
  /\ IF Duplicate(suite) \/ (bless # "no" /\ \A i \in 1..Len(suite) : Bound(suite, bless) # {i})
       THEN Exit(p, "compile") /\ UNCHANGED <<job, case, seen>>
       ELSE /\ IF suite = <<>> THEN Exit(p, Band(<<>>)) ELSE Goto(p, "prepare")
            /\ job' = [job EXCEPT ![p] = [suite |-> suite, bless |-> bless]]
            /\ case' = [case EXCEPT ![p] = IF bless = "no" THEN 1
                                           ELSE CHOOSE i \in Bound(suite, bless) : TRUE]
            /\ seen' = IF bless = "no" THEN [seen EXCEPT ![p] = ReadGolden] ELSE seen
  /\ UNCHANGED <<golden, fork, run, verdicts, cut, historyVars>>

Result(p, verdict, structure) ==
  [id |-> Case(p).id, verdict |-> verdict, structure |-> structure, cut |-> cut[p]]

(* The result joins the others, and the loop of execute_captured takes the   *)
(* next case or reports.                                                     *)
CaseDone(p, result) ==
  /\ verdicts' = [verdicts EXCEPT ![p] = Append(@, result)]
  /\ cut' = [cut EXCEPT ![p] = FALSE]
  /\ IF case[p] = Len(job[p].suite)
       THEN Exit(p, Band(verdicts'[p])) /\ UNCHANGED case
       ELSE Goto(p, "prepare") /\ case' = [case EXCEPT ![p] = @ + 1]

(* execute_case fails: an error verdict of eval, the end of bless. *)
CaseFails(p) ==
  IF IsBless(p) THEN Exit(p, "compile") /\ UNCHANGED <<verdicts, cut, case>>
  ELSE CaseDone(p, Result(p, "error", NoStructure))

(* execute_case up to its run: the origin's log, chain and row, the commit   *)
(* point, the plan and the budget; none of them writes.                      *)
Evaluable(p) == Case(p).session \in Sound /\ Key(p) \in Keys

Refused(p) == IF Evaluable(p) THEN fork[Key(p)].there /\ ~fork[Key(p)].row ELSE TRUE

(* clear_stale_fork: gone is whatever this fork left, with the log of the    *)
(* command that is still writing it; a directory without a row is refused.   *)
Prepare(p) ==
  /\ pc[p] = "prepare"
  /\ \/ Refused(p) /\ CaseFails(p) /\ UNCHANGED fork
     \/ /\ ~Refused(p)
        /\ Goto(p, "open")
        /\ fork' = [fork EXCEPT ![Key(p)] = NoFork]
        /\ cut' = [q \in Procs |-> cut[q] \/ (pc[q] \in {"run", "load"} /\ Key(q) = Key(p))]
        /\ UNCHANGED <<verdicts, case>>
  /\ UNCHANGED <<golden, job, seen, run, historyVars>>

(* open_session_runner: an occupied directory is refused. *)
Open(p) ==
  /\ pc[p] = "open"
  /\ \/ fork[Key(p)].there /\ CaseFails(p) /\ UNCHANGED <<fork, run>>
     \/ /\ ~fork[Key(p)].there
        /\ Goto(p, "run")
        /\ fork' = [fork EXCEPT ![Key(p)] = [there |-> TRUE, row |-> TRUE, log |-> <<>>]]
        /\ \E t \in Traces[Key(p)] : run' = [run EXCEPT ![p] = t]
        /\ UNCHANGED <<verdicts, cut, case>>
  /\ UNCHANGED <<golden, job, seen, historyVars>>

(* Runner::run: an event, to the file the runner holds. *)
Emit(p) ==
  /\ pc[p] = "run" /\ run[p] # <<>>
  /\ run' = [run EXCEPT ![p] = Tail(@)]
  /\ fork' = IF cut[p] THEN fork ELSE [fork EXCEPT ![Key(p)].log = Append(@, Head(run[p]))]
  /\ Goto(p, IF Len(run[p]) = 1 THEN "load" ELSE "run")
  /\ UNCHANGED <<golden, job, case, seen, verdicts, cut, historyVars>>

(* Runner::run fails: its database lost its name. *)
RunFails(p) ==
  /\ pc[p] \in {"run", "load"} /\ cut[p]
  /\ CaseFails(p)
  /\ run' = [run EXCEPT ![p] = <<>>]
  /\ UNCHANGED <<golden, fork, job, seen, historyVars>>

(* run_case: the verdict on what was observed. *)
Verdict(p, structure) ==
  LET id == Case(p).id IN
  IF seen[p].state # "ok" \/ id \notin DOMAIN seen[p].samples THEN "error"
  ELSE IF seen[p].samples[id].session # Case(p).session THEN "error"
  ELSE IF CompareStructure(seen[p].samples[id].structure, structure) THEN "pass" ELSE "mismatch"

(* Mutant: the trace is read while the runner still runs. *)
EarlyLoad(p) ==
  /\ pc[p] \in {"run", "load"}
  /\ LET at == fork[Key(p)]
         structure == ProjectStructure(at.log)
     IN  /\ fork' = IF at.there THEN fork ELSE [fork EXCEPT ![Key(p)] = [NoFork EXCEPT !.there = TRUE]]
         /\ IF IsBless(p)
              THEN /\ Goto(p, "golden") /\ UNCHANGED <<case, cut>>
                   /\ verdicts' = [verdicts EXCEPT ![p] = <<Result(p, "blessed", structure)>>]
              ELSE CaseDone(p, Result(p, Verdict(p, structure), structure))
  /\ UNCHANGED <<golden, job, seen, run, historyVars>>

(* load_events and project_structure, by the path: what another command has  *)
(* put there by now, and an empty log, created on the spot, if it is gone.   *)
Load(p) ==
  /\ pc[p] = "load"
  /\ LET at == fork[Key(p)]
         structure == ProjectStructure(at.log)
     IN  /\ fork' = IF at.there THEN fork ELSE [fork EXCEPT ![Key(p)] = [NoFork EXCEPT !.there = TRUE]]
         /\ IF IsBless(p)
              THEN /\ Goto(p, "golden") /\ UNCHANGED <<case, cut>>
                   /\ verdicts' = [verdicts EXCEPT ![p] = <<Result(p, "blessed", structure)>>]
              ELSE CaseDone(p, Result(p, Verdict(p, structure), structure))
  /\ UNCHANGED <<golden, job, seen, run, historyVars>>

-----------------------------------------------------------------------------
(* bless, from the golden file on. *)

Sample(p) == [session |-> Case(p).session, structure |-> verdicts[p][1].structure]

With(samples, id, sample) ==
  [i \in DOMAIN samples \cup {id} |-> IF i = id THEN sample ELSE samples[i]]

Approve(p) ==
  /\ given' = With(given, Case(p).id, Sample(p))
  /\ approved' = approved \cup {[id |-> Case(p).id, sample |-> Sample(p)]}

(* An unreadable file counts as an empty one; an unchanged sample is a no-op. *)
ReadForBless(p) ==
  /\ pc[p] = "golden"
  /\ seen' = [seen EXCEPT ![p] = ReadGolden]
  /\ LET old == seen'[p].samples
         unchanged == Case(p).id \in DOMAIN old /\ old[Case(p).id] = Sample(p)
     IN  IF unchanged THEN Exit(p, "ok") /\ Approve(p)
                      ELSE Goto(p, "truncate") /\ UNCHANGED <<given, approved>>
  /\ lossy' = (lossy \/ golden.state = "torn")
  /\ UNCHANGED <<golden, fork, job, case, run, verdicts, version, cut>>

(* fs::write, first half: the file is opened and truncated. *)
Truncate(p) ==
  /\ pc[p] = "truncate"
  /\ golden' = [state |-> "torn", samples |-> <<>>]
  /\ Goto(p, "write")
  /\ UNCHANGED <<fork, job, case, seen, run, verdicts, cut, historyVars>>

(* Mutant: only the approved sample is written. *)
SoleWrite(p) ==
  /\ pc[p] = "write"
  /\ golden' = [state |-> "ok", samples |-> With(<<>>, Case(p).id, Sample(p))]
  /\ Exit(p, "ok")
  /\ Approve(p)
  /\ version' = version + 1
  /\ lossy' = (lossy \/ version # seen[p].version)
  /\ UNCHANGED <<fork, job, case, seen, run, verdicts, cut>>

(* fs::write, second half: the samples read before, with the new one. *)
Write(p) ==
  /\ pc[p] = "write"
  /\ golden' = [state |-> "ok", samples |-> With(seen[p].samples, Case(p).id, Sample(p))]
  /\ Exit(p, "ok")
  /\ Approve(p)
  /\ version' = version + 1
  /\ lossy' = (lossy \/ version # seen[p].version)
  /\ UNCHANGED <<fork, job, case, seen, run, verdicts, cut>>

(* The command dies, and its memory goes with it. *)
Crash(p) ==
  /\ Live(p)
  /\ pc' = [pc EXCEPT ![p] = "dead"]
  /\ job' = [job EXCEPT ![p] = NoJob] /\ case' = [case EXCEPT ![p] = 0]
  /\ seen' = [seen EXCEPT ![p] = Unread] /\ cut' = [cut EXCEPT ![p] = FALSE]
  /\ run' = [run EXCEPT ![p] = <<>>] /\ verdicts' = [verdicts EXCEPT ![p] = <<>>]
  /\ UNCHANGED <<golden, fork, exit, historyVars>>

Blesses == {"no"} \cup {k[1] : k \in Keys}

Next ==
  \E p \in Procs :
    \/ \E suite \in Suites, bless \in Blesses : Start(p, suite, bless)
    \/ Prepare(p) \/ Open(p) \/ Emit(p) \/ RunFails(p) \/ Load(p)
    \/ ReadForBless(p) \/ Truncate(p) \/ Write(p) \/ Crash(p)

Spec == Init /\ [][Next]_vars

-----------------------------------------------------------------------------

(* The exit bands of CLI-5 mean what they say: 0 only when what every case   *)
(* showed had been approved, by some bless, for that case and that session;  *)
(* 20 only when every case was judged and one of them showed something else  *)
(* than the golden file the command read, whatever other commands did to the *)
(* file, the forks and the suite in between.                                 *)
ExitBand ==
  \A p \in Procs : ~IsBless(p) =>
    LET suite == job[p].suite
        Shown(i) == [session |-> suite[i].session, structure |-> verdicts[p][i].structure]
        AsRead(i) == suite[i].id \in DOMAIN seen[p].samples /\ Shown(i) = seen[p].samples[suite[i].id]
    IN  /\ exit[p] = "ok" =>
             \A i \in 1..Len(suite) : [id |-> suite[i].id, sample |-> Shown(i)] \in approved
        /\ exit[p] = "regression" =>
             /\ \A i \in 1..Len(suite) : suite[i].id \in DOMAIN seen[p].samples
             /\ \E i \in 1..Len(suite) : ~AsRead(i)

(* "partial approvals are the normal mid-migration state" (eval.rs): a bless *)
(* keeps the approvals of the other cases.  An approval that was reported as *)
(* recorded is in the golden file until the case is approved again, unless a *)
(* bless read a file cut short, or wrote over one newer than what it read.   *)
ApprovalsKept ==
  golden.state = "ok" /\ ~lossy => golden.samples = given

(* "the golden comes from an actual fork execution" (bless): what is judged  *)
(* or approved is the structure of a whole run of that case, never of a part *)
(* of one, unless another command cleared the fork before it was read.       *)
JudgedWhole ==
  \A p \in Procs : \A i \in 1..Len(verdicts[p]) :
    LET r == verdicts[p][i]
        suite == job[p].suite
    IN  \/ r.verdict = "error" \/ r.cut
        \/ \E j \in 1..Len(suite) :
             /\ suite[j].id = r.id
             /\ \E t \in Traces[<<suite[j].session, suite[j].at>>] : r.structure = ProjectStructure(t)

=============================================================================
