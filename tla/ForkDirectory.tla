--------------------------- MODULE ForkDirectory ---------------------------
(***************************************************************************)
(* The directory of one fork: trace replay (cmd/trace.rs) and eval derive  *)
(* the same session id from the same origin and commit point, clear what   *)
(* an earlier replay left (clear_stale_fork), and compose, run, seal and   *)
(* read the session in it (cmd/run.rs).  Processes run one after the other *)
(* or overlap, and may die between any two steps.                          *)
(*                                                                         *)
(* Paths and open files differ: events.jsonl and checkpoint.db are names   *)
(* of numbered files, and a handle keeps its file when the name goes.  A   *)
(* replay is deterministic and ts is not hashed, so of an event only its   *)
(* seq can be at fault; by is history.                                     *)
(***************************************************************************)
EXTENDS Naturals, Sequences

CONSTANTS
  Procs,       \* the processes that replay the origin at the same commit
  Overlap,     \* may they run at the same time?  One of these, chosen once
  MaxEvents    \* bound: events a run emits

ASSUME ForkAssumption == Overlap \subseteq BOOLEAN /\ MaxEvents \in Nat \ {0}

VARIABLES
  dir,       \* the directory at the fork's path: 0 for none
  dirs,      \* how many were created
  names,     \* the entries of that directory
  logFile,   \* the file events.jsonl names, when it is an entry
  logs,      \* the contents of every log file
  dbFile,    \* the file checkpoint.db names, when it is an entry
  rows,      \* the lineage in every database: its sessions row
  pc, exit,  \* program point and exit band of each process
  handle,    \* the open EventLog: its file and next_seq
  conn,      \* the database the runner's SessionWal is connected to
  held,      \* remove_dir_all: the directory it opened
  left,      \* remove_dir_all: entries listed and not removed yet
  overlap,   \* may processes run at the same time?
  born,      \* history: what occupied the path first
  cleared,   \* history: did a process ever clear the directory?
  diedAt     \* history: where a process died

diskVars == <<dir, dirs, names, logFile, logs, dbFile, rows>>
procVars == <<handle, conn, held, left>>
vars == <<diskVars, procVars, pc, exit, overlap, born, cleared, diedAt>>

Entries == {"log", "db", "plan", "responses"}
Lineages == {"none", "fork", "foreign"}

Init ==
  /\ overlap \in Overlap
  /\ born \in {"absent", "foreign"}
  /\ IF born = "absent"
       THEN dir = 0 /\ dirs = 0 /\ names = {} /\ logs = <<>> /\ rows = <<>>
              /\ logFile = 0 /\ dbFile = 0
       ELSE dir = 1 /\ dirs = 1 /\ names = {"log", "db"} /\ rows = <<"foreign">>
              /\ logs = <<<<[by |-> "foreign", seq |-> 0, seal |-> FALSE]>>>>
              /\ logFile = 1 /\ dbFile = 1
  /\ pc = [p \in Procs |-> "idle"] /\ exit = [p \in Procs |-> "none"]
  /\ handle = [p \in Procs |-> [file |-> 0, next |-> 0]]
  /\ conn = [p \in Procs |-> 0]
  /\ held = [p \in Procs |-> 0] /\ left = [p \in Procs |-> {}]
  /\ cleared = FALSE /\ diedAt = [p \in Procs |-> "none"]

-----------------------------------------------------------------------------
(* Files. *)

Intact(f) == \A i \in 1..Len(f) : f[i].seq = i - 1

Row == IF "db" \in names THEN rows[dbFile] ELSE "none"

(* create_dir_all on the session's directory. *)
MakeDir ==
  IF dir = 0 THEN dir' = dirs + 1 /\ dirs' = dirs + 1 ELSE UNCHANGED <<dir, dirs>>

(* Connection::open in an existing directory: the database, created if it  *)
(* is not there.                                                           *)
OpenDb ==
  IF "db" \in names THEN UNCHANGED <<dbFile, rows>>
  ELSE dbFile' = Len(rows) + 1 /\ rows' = Append(rows, "none")

(* EventLog::open once its scan succeeded: the directory and the file are  *)
(* created if missing, and the handle continues after what is there.       *)
OpenLog(p) ==
  /\ MakeDir
  /\ names' = names \cup {"log"}
  /\ IF "log" \in names
       THEN /\ handle' = [handle EXCEPT ![p] = [file |-> logFile, next |-> Len(logs[logFile])]]
            /\ UNCHANGED <<logFile, logs>>
       ELSE /\ logFile' = Len(logs) + 1 /\ logs' = Append(logs, <<>>)
            /\ handle' = [handle EXCEPT ![p] = [file |-> Len(logs) + 1, next |-> 0]]
  /\ UNCHANGED <<dbFile, rows>>

ScanFails == "log" \in names /\ ~Intact(logs[logFile])

(* try_append through the open handle, whatever the path names by now. *)
Append1(p, seal) ==
  LET h == handle[p] IN
  /\ logs' = [logs EXCEPT ![h.file] = Append(@, [by |-> p, seq |-> h.next, seal |-> seal])]
  /\ handle' = [handle EXCEPT ![p].next = @ + 1]

-----------------------------------------------------------------------------
(* Processes. *)

Running(p) == pc[p] \notin {"idle", "done", "dead"}

Goto(p, l) == pc' = [pc EXCEPT ![p] = l] /\ UNCHANGED <<exit, overlap, born, diedAt>>
Exit(p, band) ==
  /\ pc' = [pc EXCEPT ![p] = "done"] /\ exit' = [exit EXCEPT ![p] = band]
  /\ UNCHANGED <<overlap, born, diedAt>>

(* Mutant: occupied means that there is a database. *)
RowlessOccupied == "db" \in names

(* session_dir.exists(). *)
Occupied == dir # 0

(* Mutant: any row will do. *)
AnyLineageOk == Row # "none"

(* The sessions row says: this origin, at this commit. *)
LineageOk == Row = "fork"

(* replay up to the fork id: the origin is read, its chain verified, the   *)
(* commit point and the plan snapshot checked; a refusal touches nothing.  *)
Begin(p) ==
  /\ pc[p] = "idle"
  /\ overlap \/ \A q \in Procs : ~Running(q)
  /\ Goto(p, "clear") \/ Exit(p, "usage")
  /\ UNCHANGED <<diskVars, procVars, cleared>>

(* clear_stale_fork: no directory, nothing to clear. *)
ClearStale(p) ==
  /\ pc[p] = "clear"
  /\ Goto(p, IF Occupied THEN "lineage" ELSE "exists")
  /\ UNCHANGED <<diskVars, procVars, cleared>>

(* clear_stale_fork: SessionWal::open, which creates what is missing, and  *)
(* the lineage; remove_dir_all opens and lists the directory.              *)
Lineage(p) ==
  /\ pc[p] = "lineage"
  /\ MakeDir /\ OpenDb
  /\ names' = names \cup {"db"}
  /\ UNCHANGED <<logFile, logs, handle, conn>>
  /\ \/ /\ LineageOk
        /\ Goto(p, "remove")
        /\ held' = [held EXCEPT ![p] = dir'] /\ left' = [left EXCEPT ![p] = names']
        /\ cleared' = TRUE
     \/ ~LineageOk /\ Exit(p, "usage") /\ UNCHANGED <<held, left, cleared>>

(* remove_dir_all, one entry of the directory it holds, in any order. *)
Unlink(p, x) ==
  /\ pc[p] = "remove" /\ x \in left[p]
  /\ left' = [left EXCEPT ![p] = @ \ {x}]
  /\ names' = IF held[p] = dir THEN names \ {x} ELSE names
  /\ UNCHANGED <<dir, dirs, logFile, logs, dbFile, rows, handle, conn, held>>
  /\ UNCHANGED <<pc, exit, overlap, born, cleared, diedAt>>

(* remove_dir_all, the directory itself: it fails when the path names no   *)
(* directory or one with entries.                                          *)
RemoveDir(p) ==
  /\ pc[p] = "remove" /\ left[p] = {}
  /\ IF dir # 0 /\ names = {} THEN dir' = 0 /\ Goto(p, "exists")
                              ELSE Exit(p, "platform") /\ UNCHANGED dir
  /\ UNCHANGED <<dirs, names, logFile, logs, dbFile, rows, procVars, cleared>>

(* open_session_runner: no second session in one directory. *)
Exists(p) ==
  /\ pc[p] = "exists"
  /\ IF Occupied THEN Exit(p, "usage") ELSE Goto(p, "validate")
  /\ UNCHANGED <<diskVars, procVars, cleared>>

(* Mutant: the log is opened before the models are validated. *)
LateValidate(p) ==
  /\ pc[p] = "validate"
  /\ OpenLog(p)
  /\ Goto(p, "open") \/ Exit(p, "bathos")
  /\ UNCHANGED <<conn, held, left, cleared>>

(* open_session_runner: the compile probe passes, the plan compiled for    *)
(* the origin; bathos may refuse the models.                               *)
Validate(p) ==
  /\ pc[p] = "validate"
  /\ Goto(p, "open") \/ Exit(p, "bathos")
  /\ UNCHANGED <<diskVars, procVars, cleared>>

OpenSessionLog(p) ==
  /\ pc[p] = "open"
  /\ \/ ScanFails /\ Exit(p, "platform") /\ UNCHANGED <<diskVars, handle>>
     \/ ~ScanFails /\ OpenLog(p) /\ Goto(p, "meter")
  /\ UNCHANGED <<conn, held, left, cleared>>

(* BudgetMeter::open: the ledger does not create directories. *)
OpenMeter(p) ==
  /\ pc[p] = "meter"
  /\ IF dir = 0
       THEN Exit(p, "platform") /\ UNCHANGED <<names, dbFile, rows>>
       ELSE Goto(p, "wal") /\ OpenDb /\ names' = names \cup {"db"}
  /\ UNCHANGED <<dir, dirs, logFile, logs, procVars, cleared>>

(* Runner::open: SessionWal::open. *)
OpenWal(p) ==
  /\ pc[p] = "wal"
  /\ Goto(p, "plan")
  /\ MakeDir /\ OpenDb
  /\ names' = names \cup {"db"}
  /\ conn' = [conn EXCEPT ![p] = dbFile']
  /\ UNCHANGED <<logFile, logs, handle, held, left, cleared>>

(* Runner::open: plan_compiled.yaml. *)
WritePlan(p) ==
  /\ pc[p] = "plan"
  /\ IF dir = 0 THEN Exit(p, "platform") /\ UNCHANGED names
                ELSE Goto(p, "insert") /\ names' = names \cup {"plan"}
  /\ UNCHANGED <<dir, dirs, logFile, logs, dbFile, rows, procVars, cleared>>

(* Mutant: INSERT OR REPLACE. *)
ReplacingInsertSession(p) ==
  /\ pc[p] = "insert"
  /\ Goto(p, "run") /\ rows' = [rows EXCEPT ![conn[p]] = "fork"]
  /\ UNCHANGED <<dir, dirs, names, logFile, logs, dbFile, procVars, cleared>>

(* Runner::open: insert_session, refused by the primary key when the       *)
(* database has the row.                                                   *)
InsertSession(p) ==
  /\ pc[p] = "insert"
  /\ IF rows[conn[p]] = "none"
       THEN Goto(p, "run") /\ rows' = [rows EXCEPT ![conn[p]] = "fork"]
       ELSE Exit(p, "platform") /\ UNCHANGED rows
  /\ UNCHANGED <<dir, dirs, names, logFile, logs, dbFile, procVars, cleared>>

(* Runner::run: an event. *)
Emit(p) ==
  /\ pc[p] = "run" /\ handle[p].next < MaxEvents
  /\ Append1(p, FALSE)
  /\ UNCHANGED <<dir, dirs, names, logFile, dbFile, rows, conn, held, left>>
  /\ UNCHANGED <<pc, exit, overlap, born, cleared, diedAt>>

(* persist_commit: the response file goes where the path leads now. *)
Persist(p) ==
  /\ pc[p] = "run" /\ "responses" \notin names
  /\ MakeDir
  /\ names' = names \cup {"responses"}
  /\ UNCHANGED <<logFile, logs, dbFile, rows, procVars>>
  /\ UNCHANGED <<pc, exit, overlap, born, cleared, diedAt>>

(* Runner::run returns; a completed replay is sealed, an eval fork and a   *)
(* session that stopped are not.  A write to a database that lost its name *)
(* may fail.                                                               *)
Finish(p) ==
  /\ pc[p] = "run" /\ handle[p].next > 0
  /\ \/ Goto(p, "reopen") \/ Goto(p, "tally")
     \/ ("db" \notin names \/ dbFile # conn[p]) /\ Exit(p, "platform")
  /\ UNCHANGED <<diskVars, procVars, cleared>>

(* close_session: the log is opened again, by its path. *)
Reopen(p) ==
  /\ pc[p] = "reopen"
  /\ \/ ScanFails /\ Exit(p, "platform") /\ UNCHANGED <<diskVars, handle>>
     \/ ~ScanFails /\ OpenLog(p) /\ Goto(p, "seal")
  /\ UNCHANGED <<conn, held, left, cleared>>

(* seal: load the file, refuse a sealed one, append trace.seal. *)
Seal(p) ==
  /\ pc[p] = "seal"
  /\ LET log == IF "log" \in names THEN logs[logFile] ELSE <<>> IN
     IF "log" \notin names \/ ~Intact(log) THEN Exit(p, "platform") /\ UNCHANGED <<logs, handle>>
     ELSE IF log # <<>> /\ log[Len(log)].seal THEN Exit(p, "usage") /\ UNCHANGED <<logs, handle>>
     ELSE Append1(p, TRUE) /\ Goto(p, "tally")
  /\ UNCHANGED <<dir, dirs, names, logFile, dbFile, rows, conn, held, left, cleared>>

(* close_session and eval: load_events, which opens the log once more. *)
Tally(p) ==
  /\ pc[p] = "tally"
  /\ \/ ScanFails /\ Exit(p, "platform") /\ UNCHANGED <<diskVars, handle>>
     \/ ~ScanFails /\ OpenLog(p) /\ Exit(p, "ok")
  /\ UNCHANGED <<conn, held, left, cleared>>

Crash(p) ==
  /\ Running(p)
  /\ pc' = [pc EXCEPT ![p] = "dead"] /\ diedAt' = [diedAt EXCEPT ![p] = pc[p]]
  /\ UNCHANGED <<diskVars, procVars, exit, overlap, born, cleared>>

Next ==
  \E p \in Procs :
    \/ Begin(p) \/ ClearStale(p) \/ Lineage(p) \/ (\E x \in Entries : Unlink(p, x))
    \/ RemoveDir(p) \/ Exists(p) \/ Validate(p)
    \/ OpenSessionLog(p) \/ OpenMeter(p) \/ OpenWal(p) \/ WritePlan(p) \/ InsertSession(p)
    \/ Emit(p) \/ Persist(p) \/ Finish(p) \/ Reopen(p) \/ Seal(p) \/ Tally(p)
    \/ Crash(p)

Spec == Init /\ [][Next]_vars

-----------------------------------------------------------------------------

LogEvent == [by : Procs \cup {"foreign"}, seq : Nat, seal : BOOLEAN]

PCs == {"idle", "clear", "lineage", "remove", "exists", "validate", "open", "meter", "wal",
        "plan", "insert", "run", "reopen", "seal", "tally", "done", "dead"}

TypeOK ==
  /\ dirs \in Nat /\ dir \in 0..dirs
  /\ names \subseteq Entries /\ (dir = 0 => names = {})
  /\ logs \in Seq(Seq(LogEvent)) /\ logFile \in 0..Len(logs)
  /\ rows \in Seq(Lineages) /\ dbFile \in 0..Len(rows)
  /\ pc \in [Procs -> PCs] /\ diedAt \in [Procs -> PCs \cup {"none"}]
  /\ exit \in [Procs -> {"none", "ok", "usage", "platform", "bathos"}]
  /\ handle \in [Procs -> [file : 0..Len(logs), next : Nat]]
  /\ conn \in [Procs -> 0..Len(rows)]
  /\ held \in [Procs -> 0..dirs] /\ left \in [Procs -> SUBSET Entries]
  /\ overlap \in BOOLEAN /\ born \in {"absent", "foreign"} /\ cleared \in BOOLEAN

(* "no lineage means no permission to overwrite" (clear_stale_fork): an    *)
(* occupant that is not this fork keeps its log, its row and its           *)
(* directory, whatever replays of the colliding id do, together or not.    *)
ForeignKept ==
  born = "foreign" =>
    /\ dir = 1 /\ names = {"log", "db"} /\ logFile = 1 /\ dbFile = 1
    /\ rows = <<"foreign">> /\ Len(logs) = 1
    /\ \A i \in 1..Len(logs[1]) : logs[1][i].by = "foreign"

(* Replays one after the other: one that succeeds leaves its own evidence  *)
(* and nothing else.  At its exit the log holds its own events only, from  *)
(* seq 0 on, and the row is the fork's: what an earlier replay, complete,  *)
(* crashed or half removed, left behind never becomes its prefix.          *)
FreshFork ==
  [][\A p \in Procs : ~overlap /\ exit[p] # "ok" /\ exit'[p] = "ok" =>
       /\ Row' = "fork"
       /\ logs'[logFile'] # <<>> /\ Intact(logs'[logFile'])
       /\ \A i \in 1..Len(logs'[logFile']) : logs'[logFile'][i].by = p]_vars

(* "a refusal leaves no session behind" (run.rs): after replays one after  *)
(* the other, a directory that later ones must refuse (no row, no lineage) *)
(* was left by a death between the log's creation and insert_session, or   *)
(* inside remove_dir_all, and by nothing else.                             *)
BlockedOnlyByCrash ==
  ~overlap /\ born = "absent" /\ dir # 0 /\ Row # "fork" /\ (\A p \in Procs : ~Running(p)) =>
    \E p \in Procs : diedAt[p] \in {"meter", "wal", "plan", "insert", "remove"}

(* "Single writer per session (PORT-1 invariant): one EventLog per         *)
(* session_id" (log.rs): every log file has the events of one process.     *)
SingleWriter ==
  \A k \in 1..Len(logs) : \A i, j \in 1..Len(logs[k]) : logs[k][i].by = logs[k][j].by

(* Replays that start together are kept apart by the sessions row alone:   *)
(* both may pass exists() and hold a handle on one log, but as long as     *)
(* nobody cleared the directory only one of them ever writes.              *)
OneWriterUnlessCleared == ~cleared => SingleWriter

=============================================================================
