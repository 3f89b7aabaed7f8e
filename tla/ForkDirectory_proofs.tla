----------------------- MODULE ForkDirectory_proofs -----------------------
(***************************************************************************)
(* Proofs about ForkDirectory, for any number of replays of one origin.    *)
(*                                                                         *)
(* One inductive invariant carries all of them.  A foreign occupant stops  *)
(* every process at its lineage check (Foreign).  Until somebody clears    *)
(* the directory there is one log file and one database, whose row the     *)
(* only writer won (Uncleared, OneClaim).  A process that runs alone finds *)
(* no directory once it passed the clear, and afterwards only its own      *)
(* files (OneAtATime, Sequential); a directory without a lineage then has  *)
(* a death that explains it (Explained).                                   *)
(***************************************************************************)
EXTENDS ForkDirectory, TLAPS

(* Program points: past insert_session; connected to a database; holding a *)
(* log handle.                                                             *)
Writing == {"run", "reopen", "seal", "tally"}
Linked == {"plan", "insert"} \cup Writing
Logged == {"meter", "wal"} \cup Linked

(* Names and handles lead to files that exist; the dead stay dead. *)
Files ==
  /\ "log" \in names => logFile # 0
  /\ "db" \in names => dbFile # 0
  /\ \A p \in Procs : pc[p] \in Logged => handle[p].file # 0
  /\ \A p \in Procs : pc[p] \in Linked => conn[p] # 0
  /\ \A p \in Procs : diedAt[p] # "none" => pc[p] = "dead"

(* No replay gets past the lineage of a foreign occupant. *)
Foreign ==
  born = "foreign" =>
    \A p \in Procs : pc[p] \in {"idle", "clear", "lineage", "done", "dead"}

(* Until the directory is cleared nothing is unlinked, so the path names   *)
(* the only log and the only database there ever were.                     *)
Uncleared ==
  ~cleared =>
    /\ \A p \in Procs : pc[p] # "remove"
    /\ logs # <<>> => "log" \in names /\ Len(logs) = 1
    /\ rows # <<>> => "db" \in names /\ Len(rows) = 1

Unclaimed == rows = <<>> \/ rows[1] = "none"

(* The sessions row is won once, before anything is written, and only by   *)
(* the process whose events are in the log.                                *)
OneClaim ==
  ~cleared =>
    /\ Unclaimed => /\ \A p \in Procs : pc[p] \notin Writing
                    /\ \A k \in 1..Len(logs) : logs[k] = <<>>
    /\ \A p, q \in Procs : pc[p] \in Writing /\ pc[q] \in Writing => p = q
    /\ \A p \in Procs : pc[p] \in Writing =>
         \A k \in 1..Len(logs) : \A i \in 1..Len(logs[k]) : logs[k][i].by = p

OneAtATime == ~overlap => \A p, q \in Procs : Running(p) /\ Running(q) => p = q

(* The log at the path is the one p writes, and holds what p wrote. *)
Own(p) ==
  /\ dir # 0 /\ "log" \in names
  /\ handle[p].file = logFile /\ handle[p].next = Len(logs[logFile])
  /\ Intact(logs[logFile]) /\ \A i \in 1..Len(logs[logFile]) : logs[logFile][i].by = p

(* What a process that runs alone finds, by program point. *)
Alone(p) ==
  /\ pc[p] \in {"exists", "validate", "open"} => dir = 0
  /\ pc[p] = "lineage" => dir # 0
  /\ pc[p] = "remove" => dir # 0 /\ held[p] = dir /\ left[p] = names
  /\ pc[p] \in Logged => Own(p)
  /\ pc[p] = "meter" => "db" \notin names
  /\ pc[p] = "wal" => "db" \in names /\ Row = "none"
  /\ pc[p] \in {"plan", "insert"} => "db" \in names /\ conn[p] = dbFile /\ Row = "none"
  /\ pc[p] \in Writing => "db" \in names /\ Row = "fork"
  /\ pc[p] \in {"reopen", "seal", "tally"} => logs[logFile] # <<>>

Sequential == ~overlap => \A p \in Procs : Alone(p)

Halfway == {"meter", "wal", "plan", "insert", "remove"}

(* A directory without the fork's row: somebody is halfway, or died there. *)
Explained ==
  ~overlap /\ born = "absent" =>
    \/ dir = 0 \/ Row = "fork"
    \/ \E p \in Procs : pc[p] \in Halfway \/ diedAt[p] \in Halfway

(* The inductive invariant. *)
IInv ==
  /\ TypeOK /\ Files /\ Foreign /\ ForeignKept /\ Uncleared /\ OneClaim
  /\ OneWriterUnlessCleared /\ OneAtATime /\ Sequential /\ Explained

-----------------------------------------------------------------------------
(* What the operations on the directory do to the types. *)

(* create_dir_all leaves a directory at the path. *)
LEMMA MakeDirType ==
  ASSUME TypeOK, MakeDir
  PROVE  dirs' \in Nat /\ dirs' >= dirs /\ dir' \in 1..dirs'
<1> QED  BY DEF TypeOK, MakeDir

(* Connection::open leaves a database at the path and keeps every row. *)
LEMMA OpenDbType ==
  ASSUME TypeOK, Files, OpenDb
  PROVE  /\ rows' \in Seq(Lineages) /\ Len(rows') >= Len(rows) /\ dbFile' \in 1..Len(rows')
         /\ \A k \in 1..Len(rows) : rows'[k] = rows[k]
         /\ "db" \notin names => rows'[dbFile'] = "none"
<1>1. CASE "db" \in names
  BY <1>1 DEF TypeOK, Files, OpenDb
<1>2. CASE "db" \notin names
  <2>1. rows \in Seq(Lineages) /\ "none" \in Lineages
    BY DEF TypeOK, Lineages
  <2>2. rows' = Append(rows, "none") /\ dbFile' = Len(rows) + 1
    BY <1>2 DEF OpenDb
  <2> QED  BY <2>1, <2>2
<1> QED  BY <1>1, <1>2

(* EventLog::open leaves the handle at the end of the file the path names, *)
(* and adds no event to any file.                                          *)
LEMMA OpenLogType ==
  ASSUME TypeOK, Files, NEW p \in Procs, OpenLog(p)
  PROVE  /\ logs' \in Seq(Seq(LogEvent)) /\ Len(logs') >= Len(logs) /\ logFile' \in 1..Len(logs')
         /\ handle' = [handle EXCEPT ![p] = [file |-> logFile', next |-> Len(logs'[logFile'])]]
         /\ \A k \in 1..Len(logs) : logs'[k] = logs[k]
         /\ \A k \in 1..Len(logs') : k > Len(logs) => logs'[k] = <<>>
         /\ "log" \in names => logs' = logs /\ logFile' = logFile
         /\ "log" \notin names => logs'[logFile'] = <<>>
<1>1. CASE "log" \in names
  <2>1. logs' = logs /\ logFile' = logFile /\ logFile \in 1..Len(logs)
    BY <1>1 DEF TypeOK, Files, OpenLog
  <2>2. handle' = [handle EXCEPT ![p] = [file |-> logFile', next |-> Len(logs'[logFile'])]]
    BY <1>1, <2>1 DEF OpenLog
  <2> QED  BY <1>1, <2>1, <2>2 DEF TypeOK
<1>2. CASE "log" \notin names
  <2>0. logs \in Seq(Seq(LogEvent)) /\ <<>> \in Seq(LogEvent)
    BY DEF TypeOK
  <2>1. logs' = Append(logs, <<>>) /\ logFile' = Len(logs) + 1
    BY <1>2 DEF OpenLog
  <2>2. /\ logs' \in Seq(Seq(LogEvent)) /\ Len(logs') = Len(logs) + 1 /\ logs'[Len(logs) + 1] = <<>>
        /\ \A k \in 1..Len(logs) : logs'[k] = logs[k]
    BY <2>0, <2>1
  <2>3. handle' = [handle EXCEPT ![p] = [file |-> logFile', next |-> Len(logs'[logFile'])]]
    BY <1>2, <2>1, <2>2 DEF OpenLog
  <2> QED  BY <1>2, <2>0, <2>1, <2>2, <2>3
<1> QED  BY <1>1, <1>2

(* try_append adds one event, to the file of the handle. *)
LEMMA Append1Type ==
  ASSUME TypeOK, NEW p \in Procs, handle[p].file # 0, NEW seal \in BOOLEAN, Append1(p, seal)
  PROVE  /\ logs' \in Seq(Seq(LogEvent)) /\ Len(logs') = Len(logs)
         /\ handle' = [handle EXCEPT ![p] = [file |-> handle[p].file, next |-> handle[p].next + 1]]
         /\ handle[p].file \in 1..Len(logs)
         /\ \A k \in 1..Len(logs) : k # handle[p].file => logs'[k] = logs[k]
         /\ logs'[handle[p].file] = Append(logs[handle[p].file],
                                           [by |-> p, seq |-> handle[p].next, seal |-> seal])
<1> DEFINE h == handle[p]
           e == [by |-> p, seq |-> h.next, seal |-> seal]
<1>1. h \in [file : 0..Len(logs), next : Nat] /\ h.file \in 1..Len(logs)
  BY DEF TypeOK
<1>2. e \in LogEvent
  BY <1>1 DEF LogEvent
<1>3. logs \in Seq(Seq(LogEvent)) /\ logs[h.file] \in Seq(LogEvent)
  BY <1>1 DEF TypeOK
<1>4. Append(logs[h.file], e) \in Seq(LogEvent)
  BY <1>2, <1>3
<1>5. logs' = [logs EXCEPT ![h.file] = Append(logs[h.file], e)]
  BY DEF Append1
<1>6. logs' \in Seq(Seq(LogEvent)) /\ Len(logs') = Len(logs)
  BY <1>1, <1>3, <1>4, <1>5
<1>7. handle' = [handle EXCEPT ![p] = [file |-> handle[p].file, next |-> handle[p].next + 1]]
  <2>1. [h EXCEPT !.next = h.next + 1] = [file |-> h.file, next |-> h.next + 1]
    BY <1>1
  <2>2. handle' = [handle EXCEPT ![p] = [h EXCEPT !.next = h.next + 1]]
    BY <1>1 DEF Append1, TypeOK
  <2> QED  BY <2>1, <2>2
<1> QED  BY <1>1, <1>3, <1>5, <1>6, <1>7

(* An append keeps the entries that are there. *)
LEMMA AppendKeeps ==
  ASSUME NEW S, NEW f \in Seq(S), NEW e, NEW i \in 1..Len(f)
  PROVE  Append(f, e)[i] = f[i]
<1> QED  OBVIOUS

(* A bound that grows keeps functions into it in range: file numbers ... *)
LEMMA Wider ==
  ASSUME NEW S, NEW m \in Nat, NEW n \in Nat, m <= n, NEW f \in [S -> 0..m]
  PROVE  f \in [S -> 0..n]
<1> QED  OBVIOUS

(* ... and handles. *)
LEMMA WiderHandles ==
  ASSUME NEW S, NEW m \in Nat, NEW n \in Nat, m <= n, NEW f \in [S -> [file : 0..m, next : Nat]]
  PROVE  f \in [S -> [file : 0..n, next : Nat]]
<1> QED  OBVIOUS

(* The log is read by its path: refused when its scan fails, else opened. *)
Opened(p) ==
  /\ \/ ScanFails /\ UNCHANGED <<diskVars, handle>>
     \/ ~ScanFails /\ OpenLog(p)
  /\ UNCHANGED <<conn, held, left>>

(* Reading the log keeps the types, and what every file holds. *)
LEMMA OpenedType ==
  ASSUME TypeOK, Files, NEW p \in Procs, Opened(p)
  PROVE  /\ dirs' \in Nat /\ dir' \in 0..dirs' /\ (dir # 0 => dir' = dir)
         /\ names' \subseteq Entries /\ (dir' = 0 => names' = {})
         /\ logs' \in Seq(Seq(LogEvent)) /\ logFile' \in 0..Len(logs')
         /\ rows' = rows /\ dbFile' = dbFile
         /\ handle' \in [Procs -> [file : 0..Len(logs'), next : Nat]]
         /\ conn' \in [Procs -> 0..Len(rows')]
         /\ held' \in [Procs -> 0..dirs'] /\ left' \in [Procs -> SUBSET Entries]
         /\ "log" \in names' => logFile' # 0
         /\ \A q \in Procs : handle[q].file # 0 => handle'[q].file # 0
         /\ Len(logs') \in Nat /\ Len(logs') >= Len(logs)
         /\ \A k \in 1..Len(logs) : logs'[k] = logs[k]
         /\ \A k \in 1..Len(logs') : k > Len(logs) => logs'[k] = <<>>
<1>1. CASE ScanFails
  BY <1>1 DEF TypeOK, Files, Opened, diskVars
<1>2. CASE ~ScanFails
  <2>1. OpenLog(p) /\ UNCHANGED <<conn, held, left>>
    BY <1>2 DEF Opened
  <2>2. /\ dirs' \in Nat /\ dirs' >= dirs /\ dir' \in 1..dirs' /\ (dir # 0 => dir' = dir)
    BY <2>1, MakeDirType DEF OpenLog, MakeDir
  <2>3. names' \subseteq Entries
    BY <2>1 DEF OpenLog, TypeOK, Entries
  <2>4. /\ logs' \in Seq(Seq(LogEvent)) /\ Len(logs') >= Len(logs) /\ logFile' \in 1..Len(logs')
        /\ handle' = [handle EXCEPT ![p] = [file |-> logFile', next |-> Len(logs'[logFile'])]]
        /\ \A k \in 1..Len(logs) : logs'[k] = logs[k]
        /\ \A k \in 1..Len(logs') : k > Len(logs) => logs'[k] = <<>>
        /\ Len(logs') \in Nat
    BY <2>1, OpenLogType
  <2>5. /\ handle \in [Procs -> [file : 0..Len(logs), next : Nat]]
        /\ handle \in [Procs -> [file : 0..Len(logs'), next : Nat]]
        /\ [file |-> logFile', next |-> Len(logs'[logFile'])] \in [file : 0..Len(logs'), next : Nat]
    BY <2>4, WiderHandles, SMTT(30) DEF TypeOK
  <2>6. /\ handle' \in [Procs -> [file : 0..Len(logs'), next : Nat]]
        /\ \A q \in Procs : handle[q].file # 0 => handle'[q].file # 0
    BY <2>4, <2>5
  <2>7. held' \in [Procs -> 0..dirs'] /\ left' \in [Procs -> SUBSET Entries]
    BY <2>1, <2>2, Wider DEF TypeOK
  <2>8. rows' = rows /\ dbFile' = dbFile /\ conn' \in [Procs -> 0..Len(rows')]
    BY <2>1 DEF OpenLog, TypeOK
  <2> QED  BY <2>2, <2>3, <2>4, <2>6, <2>7, <2>8
<1> QED  BY <1>1, <1>2

-----------------------------------------------------------------------------
(* What holds of the other processes. *)

(* A process that runs alone steps: only its own part of Sequential is     *)
(* left to show.                                                           *)
LEMMA OthersRest ==
  ASSUME IInv, NEW p \in Procs, overlap' = overlap,
         Running(p) \/ overlap \/ \A q \in Procs : ~Running(q),
         \A q \in Procs \ {p} : pc'[q] = pc[q],
         ~overlap => Alone(p)'
  PROVE  Sequential'
<1> SUFFICES ASSUME ~overlap, NEW q \in Procs, q # p
             PROVE  Alone(q)'
  BY DEF Sequential
<1>1. ~Running(q)
  BY DEF IInv, OneAtATime
<1>2. pc'[q] \in {"idle", "done", "dead"}
  BY <1>1 DEF Running
<1> QED  BY <1>2 DEF Alone, Logged, Linked, Writing

(* A process steps, and no other: still at most one runs. *)
LEMMA OneRuns ==
  ASSUME IInv, NEW p \in Procs, overlap' = overlap,
         Running(p) \/ overlap \/ \A q \in Procs : ~Running(q),
         \A q \in Procs \ {p} : pc'[q] = pc[q]
  PROVE  OneAtATime'
<1> SUFFICES ASSUME ~overlap, NEW q \in Procs, NEW r \in Procs, Running(q)', Running(r)'
             PROVE  q = r
  BY DEF OneAtATime
<1>1. q # p => Running(q)
  BY DEF Running
<1>2. r # p => Running(r)
  BY DEF Running
<1> QED  BY <1>1, <1>2 DEF IInv, OneAtATime

(* Nobody starts to write, and what is in the logs stays: the claim on the *)
(* log stays as it is.                                                     *)
LEMMA ClaimKept ==
  ASSUME IInv, cleared => cleared',
         \A q \in Procs : pc'[q] \in Writing => pc[q] \in Writing,
         ~cleared => \/ Len(rows') >= Len(rows) /\ rows # <<>> /\ rows'[1] = rows[1]
                     \/ rows = <<>>,
         rows' \in Seq(Lineages), Len(logs') \in Nat, Len(logs') >= Len(logs),
         \A k \in 1..Len(logs) : logs'[k] = logs[k],
         \A k \in 1..Len(logs') : k > Len(logs) => logs'[k] = <<>>
  PROVE  OneClaim' /\ OneWriterUnlessCleared'
<1> SUFFICES ASSUME ~cleared' PROVE OneClaim' /\ OneWriterUnlessCleared'
  BY DEF OneClaim, OneWriterUnlessCleared
<1>0. ~cleared /\ Len(logs) \in Nat /\ rows \in Seq(Lineages)
  BY DEF IInv, TypeOK
<1>1. Unclaimed' => Unclaimed
  BY <1>0 DEF Unclaimed
<1>2. \A k \in 1..Len(logs') : logs'[k] = <<>> \/ (k \in 1..Len(logs) /\ logs'[k] = logs[k])
  BY <1>0
<1>3. SingleWriter'
  BY <1>0, <1>2 DEF IInv, OneWriterUnlessCleared, SingleWriter
<1>4. OneClaim'
  BY <1>0, <1>1, <1>2 DEF IInv, OneClaim
<1> QED  BY <1>3, <1>4 DEF OneWriterUnlessCleared

-----------------------------------------------------------------------------
(* The steps of a process, one lemma each. *)

(* Begin: replay up to the fork id. *)
LEMMA BeginIInv ==
  ASSUME IInv, NEW p \in Procs, Begin(p)
  PROVE  IInv'
<1>1. TypeOK'
  BY DEF IInv, Begin, Goto, Exit, Running, diskVars, procVars, TypeOK, Files, PCs, Entries,
     Lineages, LogEvent, Logged, Linked, Writing
<1>2. Files'
  BY SMTT(30) DEF IInv, Begin, Goto, Exit, Running, diskVars, procVars, TypeOK, Files, Logged, Linked,
     Writing
<1>3. Foreign'
  BY DEF IInv, Begin, Goto, Exit, Running, diskVars, procVars, TypeOK, Foreign, ForeignKept, Row
<1>4. ForeignKept'
  BY DEF IInv, Begin, Goto, Exit, Running, diskVars, procVars, TypeOK, Foreign, ForeignKept, Row
<1>5. Uncleared'
  BY DEF IInv, Begin, Goto, Exit, Running, diskVars, procVars, TypeOK, Files, Uncleared, Logged,
     Linked, Writing
<1>6. OneClaim' /\ OneWriterUnlessCleared'
  <2>1. \A q \in Procs : pc'[q] \in Writing => pc[q] \in Writing
    BY DEF Begin, Goto, Exit, Running, diskVars, procVars, IInv, TypeOK, Writing
  <2>2. cleared => cleared'
    BY DEF Begin, Goto, Exit, Running, diskVars, procVars
  <2>3. /\ rows' \in Seq(Lineages) /\ Len(rows') >= Len(rows)
        /\ rows # <<>> => rows'[1] = rows[1]
    BY DEF Begin, Goto, Exit, Running, diskVars, procVars, IInv, TypeOK
  <2>4. /\ Len(logs') \in Nat /\ Len(logs') >= Len(logs)
        /\ \A k \in 1..Len(logs) : logs'[k] = logs[k]
        /\ \A k \in 1..Len(logs') : k > Len(logs) => logs'[k] = <<>>
    BY DEF Begin, Goto, Exit, Running, diskVars, procVars, IInv, TypeOK
  <2> QED  BY <2>1, <2>2, <2>3, <2>4, ClaimKept
<1>8. OneAtATime'
  BY OneRuns DEF Begin, Goto, Exit, Running, diskVars, procVars, IInv, TypeOK
<1>9. Sequential'
  <2>1. Running(p) \/ overlap \/ \A q \in Procs : ~Running(q)
    BY DEF Begin, Goto, Exit, Running, diskVars, procVars
  <2>2. overlap' = overlap /\ \A q \in Procs \ {p} : pc'[q] = pc[q]
    BY DEF Begin, Goto, Exit, Running, diskVars, procVars, IInv, TypeOK
  <2>3. ASSUME ~overlap PROVE Alone(p)'
    BY <2>3 DEF Begin, Goto, Exit, Running, diskVars, procVars, IInv, TypeOK, Files, Sequential,
       Alone, Own, Row, Intact, Logged, Linked, Writing
  <2> QED  BY <2>1, <2>2, <2>3, OthersRest
<1>10. Explained'
  BY SMTT(30) DEF IInv, Begin, Goto, Exit, Running, diskVars, procVars, TypeOK, Files, OneAtATime,
     Sequential, Alone, Own, Explained, Halfway, Row, Logged, Linked, Writing
<1> QED  BY <1>1, <1>2, <1>3, <1>4, <1>5, <1>6, <1>8, <1>9, <1>10 DEF IInv

(* ClearStale: clear_stale_fork finds a directory or none. *)
LEMMA ClearStaleIInv ==
  ASSUME IInv, NEW p \in Procs, ClearStale(p)
  PROVE  IInv'
<1>1. TypeOK'
  BY DEF IInv, ClearStale, Goto, Occupied, diskVars, procVars, TypeOK, Files, PCs, Entries,
     Lineages, LogEvent, Logged, Linked, Writing
<1>2. Files'
  BY DEF IInv, ClearStale, Goto, Occupied, diskVars, procVars, TypeOK, Files, Logged, Linked,
     Writing, Running
<1>3. Foreign'
  BY DEF IInv, ClearStale, Goto, Occupied, diskVars, procVars, TypeOK, Foreign, ForeignKept, Row,
     Running
<1>4. ForeignKept'
  BY DEF IInv, ClearStale, Goto, Occupied, diskVars, procVars, TypeOK, Foreign, ForeignKept, Row
<1>5. Uncleared'
  BY DEF IInv, ClearStale, Goto, Occupied, diskVars, procVars, TypeOK, Files, Uncleared, Logged,
     Linked, Writing
<1>6. OneClaim' /\ OneWriterUnlessCleared'
  <2>1. \A q \in Procs : pc'[q] \in Writing => pc[q] \in Writing
    BY DEF ClearStale, Goto, Occupied, diskVars, procVars, IInv, TypeOK, Writing
  <2>2. cleared => cleared'
    BY DEF ClearStale, Goto, Occupied, diskVars, procVars
  <2>3. /\ rows' \in Seq(Lineages) /\ Len(rows') >= Len(rows)
        /\ rows # <<>> => rows'[1] = rows[1]
    BY DEF ClearStale, Goto, Occupied, diskVars, procVars, IInv, TypeOK
  <2>4. /\ Len(logs') \in Nat /\ Len(logs') >= Len(logs)
        /\ \A k \in 1..Len(logs) : logs'[k] = logs[k]
        /\ \A k \in 1..Len(logs') : k > Len(logs) => logs'[k] = <<>>
    BY DEF ClearStale, Goto, Occupied, diskVars, procVars, IInv, TypeOK
  <2> QED  BY <2>1, <2>2, <2>3, <2>4, ClaimKept
<1>8. OneAtATime'
  BY OneRuns DEF ClearStale, Goto, Occupied, diskVars, procVars, IInv, TypeOK, Running
<1>9. Sequential'
  <2>1. Running(p) \/ overlap \/ \A q \in Procs : ~Running(q)
    BY DEF ClearStale, Goto, Occupied, diskVars, procVars, Running
  <2>2. overlap' = overlap /\ \A q \in Procs \ {p} : pc'[q] = pc[q]
    BY DEF ClearStale, Goto, Occupied, diskVars, procVars, IInv, TypeOK
  <2>3. ASSUME ~overlap PROVE Alone(p)'
    BY <2>3 DEF ClearStale, Goto, Occupied, diskVars, procVars, IInv, TypeOK, Files, Sequential,
       Alone, Own, Row, Intact, Logged, Linked, Writing
  <2> QED  BY <2>1, <2>2, <2>3, OthersRest
<1>10. Explained'
  BY DEF IInv, ClearStale, Goto, Occupied, diskVars, procVars, TypeOK, Files, OneAtATime,
     Sequential, Alone, Own, Explained, Halfway, Running, Row, Logged, Linked, Writing
<1> QED  BY <1>1, <1>2, <1>3, <1>4, <1>5, <1>6, <1>8, <1>9, <1>10 DEF IInv

(* Lineage: clear_stale_fork reads the lineage. *)
LEMMA LineageIInv ==
  ASSUME IInv, NEW p \in Procs, Lineage(p)
  PROVE  IInv'
<1>a1. /\ dirs' \in Nat /\ dirs' >= dirs /\ dir' \in 1..dirs'
       /\ rows' \in Seq(Lineages) /\ Len(rows') >= Len(rows) /\ dbFile' \in 1..Len(rows')
       /\ \A k \in 1..Len(rows) : rows'[k] = rows[k]
       /\ "db" \notin names => rows'[dbFile'] = "none"
  BY MakeDirType, OpenDbType DEF IInv, Lineage
<1>1. TypeOK'
  <2>1. dirs' \in Nat /\ dir' \in 0..dirs' /\ names' \subseteq Entries /\ (dir' = 0 => names' = {})
    BY <1>a1 DEF IInv, TypeOK, Lineage, Entries
  <2>2. /\ logs' \in Seq(Seq(LogEvent)) /\ logFile' \in 0..Len(logs')
        /\ rows' \in Seq(Lineages) /\ dbFile' \in 0..Len(rows')
    BY <1>a1 DEF IInv, TypeOK, Lineage
  <2>3. /\ pc' \in [Procs -> PCs] /\ diedAt' \in [Procs -> PCs \cup {"none"}]
        /\ exit' \in [Procs -> {"none", "ok", "usage", "platform", "bathos"}]
        /\ overlap' \in BOOLEAN /\ born' \in {"absent", "foreign"} /\ cleared' \in BOOLEAN
    BY DEF IInv, TypeOK, Lineage, Goto, Exit, PCs
  <2>4. /\ handle' \in [Procs -> [file : 0..Len(logs'), next : Nat]]
        /\ conn' \in [Procs -> 0..Len(rows')]
    BY <1>a1, Wider, SMTT(30) DEF IInv, TypeOK, Lineage
  <2>5. held' \in [Procs -> 0..dirs'] /\ left' \in [Procs -> SUBSET Entries]
    <3>1. held \in [Procs -> 0..dirs'] /\ left \in [Procs -> SUBSET Entries]
      BY <1>a1, Wider DEF IInv, TypeOK
    <3> QED  BY <1>a1, <2>1, <3>1 DEF Lineage
  <2> QED  BY <2>1, <2>2, <2>3, <2>4, <2>5 DEF TypeOK
<1>2. Files'
  <2>1. ("log" \in names' => logFile' # 0) /\ ("db" \in names' => dbFile' # 0)
    BY <1>a1 DEF IInv, TypeOK, Files, Lineage
  <2>2. \A q \in Procs : /\ pc'[q] \in Logged => handle'[q].file # 0
                         /\ pc'[q] \in Linked => conn'[q] # 0
    BY <1>a1, SMTT(30) DEF IInv, TypeOK, Files, Lineage, Goto, Exit, Logged, Linked, Writing
  <2>3. \A q \in Procs : diedAt'[q] # "none" => pc'[q] = "dead"
    BY DEF IInv, TypeOK, Files, Lineage, Goto, Exit
  <2> QED  BY <2>1, <2>2, <2>3 DEF Files, Logged, Linked, Writing
<1>3. Foreign'
  <2> SUFFICES ASSUME born' = "foreign" PROVE Foreign'
    BY DEF Foreign
  <2>1. born = "foreign"
    BY DEF Lineage, Goto, Exit
  <2>2. ~LineageOk
    BY <2>1 DEF IInv, ForeignKept, LineageOk, Row
  <2> QED  BY <2>1, <2>2 DEF IInv, TypeOK, Foreign, Lineage, Exit
<1>4. ForeignKept'
  BY <1>a1 DEF IInv, Lineage, MakeDir, OpenDb, LineageOk, Goto, Exit, diskVars, procVars, TypeOK,
     Foreign, ForeignKept, Row
<1>5. Uncleared'
  <2> SUFFICES ASSUME ~cleared' PROVE Uncleared'
    BY DEF Uncleared
  <2>1. ~cleared /\ \A q \in Procs : pc'[q] # "remove"
    BY DEF IInv, TypeOK, Uncleared, Lineage, Goto, Exit
  <2>2. logs' # <<>> => "log" \in names' /\ Len(logs') = 1
    BY <2>1 DEF IInv, Uncleared, Lineage
  <2>3. rows' # <<>> => "db" \in names' /\ Len(rows') = 1
    <3>1. rows = <<>> \/ rows' = rows \/ "db" \notin names
      BY DEF Lineage, OpenDb
    <3>2. rows = <<>> => Len(rows) = 0
      OBVIOUS
    <3>3. CASE "db" \in names
      BY <2>1, <3>3 DEF IInv, TypeOK, Uncleared, Lineage, OpenDb
    <3>4. CASE "db" \notin names
      BY <2>1, <3>4 DEF IInv, TypeOK, Uncleared, Lineage, OpenDb
    <3> QED  BY <3>3, <3>4
  <2> QED  BY <2>1, <2>2, <2>3 DEF Uncleared
<1>6. OneClaim' /\ OneWriterUnlessCleared'
  <2>1. \A q \in Procs : pc'[q] \in Writing => pc[q] \in Writing
    BY DEF Lineage, MakeDir, OpenDb, LineageOk, Goto, Exit, diskVars, procVars, IInv, TypeOK,
       Writing
  <2>2. cleared => cleared'
    BY DEF Lineage, MakeDir, OpenDb, LineageOk, Goto, Exit, diskVars, procVars
  <2>3. /\ rows' \in Seq(Lineages) /\ Len(rows') >= Len(rows)
        /\ rows # <<>> => rows'[1] = rows[1]
    <3>1. rows \in Seq(Lineages)
      BY DEF IInv, TypeOK
    <3>2. rows # <<>> => 1 \in 1..Len(rows)
      BY <3>1
    <3>3. rows # <<>> => rows'[1] = rows[1]
      BY <1>a1, <3>2
    <3> QED  BY <1>a1, <3>3
  <2>4. /\ Len(logs') \in Nat /\ Len(logs') >= Len(logs)
        /\ \A k \in 1..Len(logs) : logs'[k] = logs[k]
        /\ \A k \in 1..Len(logs') : k > Len(logs) => logs'[k] = <<>>
    BY <1>a1 DEF Lineage, MakeDir, OpenDb, LineageOk, Goto, Exit, diskVars, procVars, IInv, TypeOK
  <2> QED  BY <2>1, <2>2, <2>3, <2>4, ClaimKept
<1>8. OneAtATime'
  BY OneRuns DEF Lineage, MakeDir, OpenDb, LineageOk, Goto, Exit, diskVars, procVars, IInv,
     TypeOK, Running
<1>9. Sequential'
  <2>1. Running(p) \/ overlap \/ \A q \in Procs : ~Running(q)
    BY DEF Lineage, MakeDir, OpenDb, LineageOk, Goto, Exit, diskVars, procVars, Running
  <2>2. overlap' = overlap /\ \A q \in Procs \ {p} : pc'[q] = pc[q]
    BY DEF Lineage, MakeDir, OpenDb, LineageOk, Goto, Exit, diskVars, procVars, IInv, TypeOK
  <2>3. ASSUME ~overlap PROVE Alone(p)'
    <3>1. pc \in [Procs -> PCs] /\ held \in [Procs -> 0..dirs] /\ left \in [Procs -> SUBSET Entries]
      BY DEF IInv, TypeOK
    <3>2. CASE LineageOk
      <4>1. pc'[p] = "remove" /\ held'[p] = dir' /\ left'[p] = names'
        BY <3>1, <3>2 DEF Lineage, Goto
      <4>2. dir' # 0
        BY <1>a1
      <4> QED  BY <4>1, <4>2 DEF Alone, Logged, Linked, Writing
    <3>3. CASE ~LineageOk
      <4>1. pc'[p] = "done"
        BY <3>1, <3>3 DEF Lineage, Exit
      <4> QED  BY <4>1 DEF Alone, Logged, Linked, Writing
    <3> QED  BY <3>2, <3>3
  <2> QED  BY <2>1, <2>2, <2>3, OthersRest
<1>10. Explained'
  <2> SUFFICES ASSUME ~overlap', born' = "absent"
               PROVE  \/ dir' = 0 \/ Row' = "fork"
                      \/ \E q \in Procs : pc'[q] \in Halfway \/ diedAt'[q] \in Halfway
    BY DEF Explained, Halfway
  <2>1. pc \in [Procs -> PCs]
    BY DEF IInv, TypeOK
  <2>2. ~overlap /\ born = "absent" /\ diedAt' = diedAt /\ pc[p] = "lineage"
        /\ \A q \in Procs \ {p} : pc'[q] = pc[q]
    BY <2>1 DEF Lineage, Goto, Exit
  <2>3. CASE LineageOk
    <3>1. pc'[p] = "remove"
      BY <2>1, <2>3 DEF Lineage, Goto
    <3> QED  BY <3>1 DEF Halfway
  <2>4. CASE ~LineageOk
    <3>1. dir # 0
      BY <2>2 DEF IInv, Sequential, Alone
    <3>2. PICK q \in Procs : pc[q] \in Halfway \/ diedAt[q] \in Halfway
      BY <2>2, <2>4, <3>1 DEF IInv, Explained, LineageOk
    <3>3. q # p \/ diedAt[q] \in Halfway
      BY <2>2, <3>2 DEF Halfway
    <3> QED  BY <2>2, <3>2, <3>3
  <2> QED  BY <2>3, <2>4
<1> QED  BY <1>1, <1>2, <1>3, <1>4, <1>5, <1>6, <1>8, <1>9, <1>10 DEF IInv

(* RemoveDir: remove_dir_all removes the directory. *)
LEMMA RemoveDirIInv ==
  ASSUME IInv, NEW p \in Procs, RemoveDir(p)
  PROVE  IInv'
<1>1. TypeOK'
  <2>1. dirs' \in Nat /\ dir' \in 0..dirs' /\ names' \subseteq Entries /\ (dir' = 0 => names' = {})
    BY DEF IInv, TypeOK, RemoveDir, Goto, Exit
  <2>2. /\ logs' \in Seq(Seq(LogEvent)) /\ logFile' \in 0..Len(logs')
        /\ rows' \in Seq(Lineages) /\ dbFile' \in 0..Len(rows')
    BY DEF IInv, TypeOK, RemoveDir
  <2>3. /\ pc' \in [Procs -> PCs] /\ diedAt' \in [Procs -> PCs \cup {"none"}]
        /\ exit' \in [Procs -> {"none", "ok", "usage", "platform", "bathos"}]
        /\ overlap' \in BOOLEAN /\ born' \in {"absent", "foreign"} /\ cleared' \in BOOLEAN
    BY DEF IInv, TypeOK, RemoveDir, Goto, Exit, PCs
  <2>4. /\ handle' \in [Procs -> [file : 0..Len(logs'), next : Nat]]
        /\ conn' \in [Procs -> 0..Len(rows')]
    BY DEF IInv, TypeOK, RemoveDir, procVars
  <2>5. held' \in [Procs -> 0..dirs'] /\ left' \in [Procs -> SUBSET Entries]
    BY DEF IInv, TypeOK, RemoveDir, procVars
  <2> QED  BY <2>1, <2>2, <2>3, <2>4, <2>5 DEF TypeOK
<1>2. Files'
  BY SMTT(30) DEF IInv, RemoveDir, Goto, Exit, diskVars, procVars, TypeOK, Files, Logged, Linked, Writing,
     Running
<1>3. Foreign'
  BY DEF IInv, RemoveDir, Goto, Exit, diskVars, procVars, TypeOK, Foreign, ForeignKept, Row, Running
<1>4. ForeignKept'
  BY DEF IInv, RemoveDir, Goto, Exit, diskVars, procVars, TypeOK, Foreign, ForeignKept, Row
<1>5. Uncleared'
  BY DEF IInv, RemoveDir, Goto, Exit, diskVars, procVars, TypeOK, Files, Uncleared, Logged,
     Linked, Writing
<1>6. OneClaim' /\ OneWriterUnlessCleared'
  <2>1. \A q \in Procs : pc'[q] \in Writing => pc[q] \in Writing
    BY DEF RemoveDir, Goto, Exit, diskVars, procVars, IInv, TypeOK, Writing
  <2>2. cleared => cleared'
    BY DEF RemoveDir, Goto, Exit, diskVars, procVars
  <2>3. /\ rows' \in Seq(Lineages) /\ Len(rows') >= Len(rows)
        /\ rows # <<>> => rows'[1] = rows[1]
    BY DEF RemoveDir, Goto, Exit, diskVars, procVars, IInv, TypeOK
  <2>4. /\ Len(logs') \in Nat /\ Len(logs') >= Len(logs)
        /\ \A k \in 1..Len(logs) : logs'[k] = logs[k]
        /\ \A k \in 1..Len(logs') : k > Len(logs) => logs'[k] = <<>>
    BY DEF RemoveDir, Goto, Exit, diskVars, procVars, IInv, TypeOK
  <2> QED  BY <2>1, <2>2, <2>3, <2>4, ClaimKept
<1>8. OneAtATime'
  BY OneRuns DEF RemoveDir, Goto, Exit, diskVars, procVars, IInv, TypeOK, Running
<1>9. Sequential'
  <2>1. Running(p) \/ overlap \/ \A q \in Procs : ~Running(q)
    BY DEF RemoveDir, Goto, Exit, diskVars, procVars, Running
  <2>2. overlap' = overlap /\ \A q \in Procs \ {p} : pc'[q] = pc[q]
    BY DEF RemoveDir, Goto, Exit, diskVars, procVars, IInv, TypeOK
  <2>3. ASSUME ~overlap PROVE Alone(p)'
    BY <2>3 DEF RemoveDir, Goto, Exit, diskVars, procVars, IInv, TypeOK, Files, Sequential,
       Alone, Own, Row, Intact, Logged, Linked, Writing
  <2> QED  BY <2>1, <2>2, <2>3, OthersRest
<1>10. Explained'
  BY DEF IInv, RemoveDir, Goto, Exit, diskVars, procVars, TypeOK, Files, OneAtATime, Sequential,
     Alone, Own, Explained, Halfway, Running, Row, Logged, Linked, Writing
<1> QED  BY <1>1, <1>2, <1>3, <1>4, <1>5, <1>6, <1>8, <1>9, <1>10 DEF IInv

(* Exists: open_session_runner refuses an occupied path. *)
LEMMA ExistsIInv ==
  ASSUME IInv, NEW p \in Procs, Exists(p)
  PROVE  IInv'
<1>1. TypeOK'
  BY DEF IInv, Exists, Goto, Exit, Occupied, diskVars, procVars, TypeOK, Files, PCs, Entries,
     Lineages, LogEvent, Logged, Linked, Writing
<1>2. Files'
  BY SMTT(30) DEF IInv, Exists, Goto, Exit, Occupied, diskVars, procVars, TypeOK, Files, Logged, Linked,
     Writing, Running
<1>3. Foreign'
  BY DEF IInv, Exists, Goto, Exit, Occupied, diskVars, procVars, TypeOK, Foreign, ForeignKept,
     Row, Running
<1>4. ForeignKept'
  BY DEF IInv, Exists, Goto, Exit, Occupied, diskVars, procVars, TypeOK, Foreign, ForeignKept, Row
<1>5. Uncleared'
  BY DEF IInv, Exists, Goto, Exit, Occupied, diskVars, procVars, TypeOK, Files, Uncleared,
     Logged, Linked, Writing
<1>6. OneClaim' /\ OneWriterUnlessCleared'
  <2>1. \A q \in Procs : pc'[q] \in Writing => pc[q] \in Writing
    BY DEF Exists, Goto, Exit, Occupied, diskVars, procVars, IInv, TypeOK, Writing
  <2>2. cleared => cleared'
    BY DEF Exists, Goto, Exit, Occupied, diskVars, procVars
  <2>3. /\ rows' \in Seq(Lineages) /\ Len(rows') >= Len(rows)
        /\ rows # <<>> => rows'[1] = rows[1]
    BY DEF Exists, Goto, Exit, Occupied, diskVars, procVars, IInv, TypeOK
  <2>4. /\ Len(logs') \in Nat /\ Len(logs') >= Len(logs)
        /\ \A k \in 1..Len(logs) : logs'[k] = logs[k]
        /\ \A k \in 1..Len(logs') : k > Len(logs) => logs'[k] = <<>>
    BY DEF Exists, Goto, Exit, Occupied, diskVars, procVars, IInv, TypeOK
  <2> QED  BY <2>1, <2>2, <2>3, <2>4, ClaimKept
<1>8. OneAtATime'
  BY OneRuns DEF Exists, Goto, Exit, Occupied, diskVars, procVars, IInv, TypeOK, Running
<1>9. Sequential'
  <2>1. Running(p) \/ overlap \/ \A q \in Procs : ~Running(q)
    BY DEF Exists, Goto, Exit, Occupied, diskVars, procVars, Running
  <2>2. overlap' = overlap /\ \A q \in Procs \ {p} : pc'[q] = pc[q]
    BY DEF Exists, Goto, Exit, Occupied, diskVars, procVars, IInv, TypeOK
  <2>3. ASSUME ~overlap PROVE Alone(p)'
    BY <2>3 DEF Exists, Goto, Exit, Occupied, diskVars, procVars, IInv, TypeOK, Files,
       Sequential, Alone, Own, Row, Intact, Logged, Linked, Writing
  <2> QED  BY <2>1, <2>2, <2>3, OthersRest
<1>10. Explained'
  BY DEF IInv, Exists, Goto, Exit, Occupied, diskVars, procVars, TypeOK, Files, OneAtATime,
     Sequential, Alone, Own, Explained, Halfway, Running, Row, Logged, Linked, Writing
<1> QED  BY <1>1, <1>2, <1>3, <1>4, <1>5, <1>6, <1>8, <1>9, <1>10 DEF IInv

(* Validate: the models are validated. *)
LEMMA ValidateIInv ==
  ASSUME IInv, NEW p \in Procs, Validate(p)
  PROVE  IInv'
<1>1. TypeOK'
  BY DEF IInv, Validate, Goto, Exit, diskVars, procVars, TypeOK, Files, PCs, Entries, Lineages,
     LogEvent, Logged, Linked, Writing
<1>2. Files'
  BY SMTT(30) DEF IInv, Validate, Goto, Exit, diskVars, procVars, TypeOK, Files, Logged, Linked, Writing,
     Running
<1>3. Foreign'
  BY DEF IInv, Validate, Goto, Exit, diskVars, procVars, TypeOK, Foreign, ForeignKept, Row, Running
<1>4. ForeignKept'
  BY DEF IInv, Validate, Goto, Exit, diskVars, procVars, TypeOK, Foreign, ForeignKept, Row
<1>5. Uncleared'
  BY DEF IInv, Validate, Goto, Exit, diskVars, procVars, TypeOK, Files, Uncleared, Logged,
     Linked, Writing
<1>6. OneClaim' /\ OneWriterUnlessCleared'
  <2>1. \A q \in Procs : pc'[q] \in Writing => pc[q] \in Writing
    BY DEF Validate, Goto, Exit, diskVars, procVars, IInv, TypeOK, Writing
  <2>2. cleared => cleared'
    BY DEF Validate, Goto, Exit, diskVars, procVars
  <2>3. /\ rows' \in Seq(Lineages) /\ Len(rows') >= Len(rows)
        /\ rows # <<>> => rows'[1] = rows[1]
    BY DEF Validate, Goto, Exit, diskVars, procVars, IInv, TypeOK
  <2>4. /\ Len(logs') \in Nat /\ Len(logs') >= Len(logs)
        /\ \A k \in 1..Len(logs) : logs'[k] = logs[k]
        /\ \A k \in 1..Len(logs') : k > Len(logs) => logs'[k] = <<>>
    BY DEF Validate, Goto, Exit, diskVars, procVars, IInv, TypeOK
  <2> QED  BY <2>1, <2>2, <2>3, <2>4, ClaimKept
<1>8. OneAtATime'
  BY OneRuns DEF Validate, Goto, Exit, diskVars, procVars, IInv, TypeOK, Running
<1>9. Sequential'
  <2>1. Running(p) \/ overlap \/ \A q \in Procs : ~Running(q)
    BY DEF Validate, Goto, Exit, diskVars, procVars, Running
  <2>2. overlap' = overlap /\ \A q \in Procs \ {p} : pc'[q] = pc[q]
    BY DEF Validate, Goto, Exit, diskVars, procVars, IInv, TypeOK
  <2>3. ASSUME ~overlap PROVE Alone(p)'
    BY <2>3 DEF Validate, Goto, Exit, diskVars, procVars, IInv, TypeOK, Files, Sequential, Alone,
       Own, Row, Intact, Logged, Linked, Writing
  <2> QED  BY <2>1, <2>2, <2>3, OthersRest
<1>10. Explained'
  BY DEF IInv, Validate, Goto, Exit, diskVars, procVars, TypeOK, Files, OneAtATime, Sequential,
     Alone, Own, Explained, Halfway, Running, Row, Logged, Linked, Writing
<1> QED  BY <1>1, <1>2, <1>3, <1>4, <1>5, <1>6, <1>8, <1>9, <1>10 DEF IInv

(* OpenSessionLog: EventLog::open of the new session. *)
LEMMA OpenSessionLogIInv ==
  ASSUME IInv, NEW p \in Procs, OpenSessionLog(p)
  PROVE  IInv'
<1>a1. Opened(p)
  BY DEF OpenSessionLog, Opened
<1>a2. ~ScanFails =>
        /\ logFile' \in 1..Len(logs') /\ dir' # 0
        /\ handle' = [handle EXCEPT ![p] = [file |-> logFile', next |-> Len(logs'[logFile'])]]
        /\ "log" \in names => logs' = logs /\ logFile' = logFile
        /\ "log" \notin names => logs'[logFile'] = <<>>
        /\ names' = names \cup {"log"} /\ UNCHANGED <<dbFile, rows>>
        /\ dir # 0 => dir' = dir
  <2> HAVE ~ScanFails
  <2>1. OpenLog(p)
    BY DEF OpenSessionLog
  <2>2. dir' # 0 /\ (dir # 0 => dir' = dir)
    BY <2>1, MakeDirType DEF IInv, OpenLog, MakeDir
  <2>3. names' = names \cup {"log"} /\ UNCHANGED <<dbFile, rows>>
    BY <2>1 DEF OpenLog
  <2> QED  BY <2>1, <2>2, <2>3, OpenLogType DEF IInv
<1>a3. ScanFails => UNCHANGED <<dir, dirs, names, logFile, logs, dbFile, rows, handle>>
  BY DEF OpenSessionLog, diskVars
<1>1. TypeOK'
  <2>1. /\ pc' \in [Procs -> PCs] /\ diedAt' \in [Procs -> PCs \cup {"none"}]
        /\ exit' \in [Procs -> {"none", "ok", "usage", "platform", "bathos"}]
        /\ overlap' \in BOOLEAN /\ born' \in {"absent", "foreign"} /\ cleared' \in BOOLEAN
    BY DEF IInv, TypeOK, OpenSessionLog, Goto, Exit, PCs
  <2>2. rows' \in Seq(Lineages) /\ dbFile' \in 0..Len(rows')
    BY <1>a1, OpenedType DEF IInv, TypeOK
  <2> QED  BY <1>a1, <2>1, <2>2, OpenedType DEF IInv, TypeOK
<1>2. Files'
  <2>1. ("log" \in names' => logFile' # 0) /\ ("db" \in names' => dbFile' # 0)
    BY <1>a1, <1>a2, <1>a3, OpenedType DEF IInv, Files
  <2>2. \A q \in Procs : /\ pc'[q] \in Logged => handle'[q].file # 0
                         /\ pc'[q] \in Linked => conn'[q] # 0
    <3>1. \A q \in Procs \ {p} : pc'[q] = pc[q]
      BY DEF IInv, TypeOK, OpenSessionLog, Goto, Exit
    <3>2. pc'[p] \in Logged => handle'[p].file # 0
      BY <1>a2 DEF IInv, TypeOK, OpenSessionLog, Goto, Exit, Logged, Linked, Writing
    <3>3. conn' = conn /\ (pc'[p] \in Linked => pc[p] \in Linked)
      BY DEF IInv, TypeOK, OpenSessionLog, Goto, Exit, Linked, Writing
    <3> QED  BY <1>a1, <3>1, <3>2, <3>3, OpenedType DEF IInv, Files
  <2>3. \A q \in Procs : diedAt'[q] # "none" => pc'[q] = "dead"
    BY DEF IInv, TypeOK, Files, OpenSessionLog, Goto, Exit
  <2> QED  BY <2>1, <2>2, <2>3 DEF Files, Logged, Linked, Writing
<1>3. Foreign'
  BY <1>a1, <1>a2, <1>a3 DEF IInv, OpenSessionLog, ScanFails, OpenLog, MakeDir, Goto, Exit,
     diskVars, procVars, TypeOK, Foreign, ForeignKept, Row, Running
<1>4. ForeignKept'
  BY <1>a1, <1>a2, <1>a3 DEF IInv, OpenSessionLog, ScanFails, OpenLog, MakeDir, Goto, Exit,
     diskVars, procVars, TypeOK, Foreign, ForeignKept, Row
<1>5. Uncleared'
  <2> SUFFICES ASSUME ~cleared' PROVE Uncleared'
    BY DEF Uncleared
  <2>1. ~cleared /\ \A q \in Procs : pc'[q] # "remove"
    BY DEF IInv, TypeOK, Uncleared, OpenSessionLog, Goto, Exit
  <2>2. logs' # <<>> => "log" \in names' /\ Len(logs') = 1
    <3>1. CASE ScanFails
      BY <1>a3, <2>1, <3>1 DEF IInv, Uncleared
    <3>2. CASE ~ScanFails /\ "log" \in names
      BY <1>a2, <2>1, <3>2 DEF IInv, Uncleared
    <3>3. CASE ~ScanFails /\ "log" \notin names
      <4>1. logs = <<>> /\ logs' = Append(logs, <<>>)
        BY <2>1, <3>3 DEF IInv, Uncleared, OpenSessionLog, OpenLog
      <4> QED  BY <1>a2, <3>3, <4>1
    <3> QED  BY <3>1, <3>2, <3>3
  <2>3. rows' # <<>> => "db" \in names' /\ Len(rows') = 1
    BY <1>a2, <1>a3, <2>1 DEF IInv, Uncleared
  <2> QED  BY <2>1, <2>2, <2>3 DEF Uncleared
<1>6. OneClaim' /\ OneWriterUnlessCleared'
  <2>1. \A q \in Procs : pc'[q] \in Writing => pc[q] \in Writing
    BY DEF OpenSessionLog, ScanFails, OpenLog, MakeDir, Goto, Exit, diskVars, procVars, IInv,
       TypeOK, Writing
  <2>2. cleared => cleared'
    BY DEF OpenSessionLog, ScanFails, OpenLog, MakeDir, Goto, Exit, diskVars, procVars
  <2>3. /\ rows' \in Seq(Lineages) /\ Len(rows') >= Len(rows)
        /\ rows # <<>> => rows'[1] = rows[1]
    BY <1>a2, <1>a3 DEF IInv, TypeOK
  <2>4. /\ Len(logs') \in Nat /\ Len(logs') >= Len(logs)
        /\ \A k \in 1..Len(logs) : logs'[k] = logs[k]
        /\ \A k \in 1..Len(logs') : k > Len(logs) => logs'[k] = <<>>
    BY <1>a1, OpenedType DEF IInv
  <2> QED  BY <2>1, <2>2, <2>3, <2>4, ClaimKept
<1>8. OneAtATime'
  BY OneRuns DEF OpenSessionLog, ScanFails, OpenLog, MakeDir, Goto, Exit, diskVars, procVars,
     IInv, TypeOK, Running
<1>9. Sequential'
  <2>1. Running(p) \/ overlap \/ \A q \in Procs : ~Running(q)
    BY DEF OpenSessionLog, ScanFails, OpenLog, MakeDir, Goto, Exit, diskVars, procVars, Running
  <2>2. overlap' = overlap /\ \A q \in Procs \ {p} : pc'[q] = pc[q]
    BY DEF OpenSessionLog, ScanFails, OpenLog, MakeDir, Goto, Exit, diskVars, procVars, IInv, TypeOK
  <2>3. ASSUME ~overlap PROVE Alone(p)'
    <3>1. CASE ScanFails
      <4>1. pc'[p] = "done"
        BY <3>1 DEF IInv, TypeOK, OpenSessionLog, Exit
      <4> QED  BY <4>1 DEF Alone, Logged, Linked, Writing
    <3>2. CASE ~ScanFails
      <4>1. dir = 0 /\ names = {}
        BY <2>3 DEF IInv, TypeOK, Sequential, Alone, OpenSessionLog
      <4>2. logs'[logFile'] = <<>> /\ "db" \notin names'
        BY <1>a2, <3>2, <4>1
      <4>3. /\ handle'[p].file = logFile' /\ handle'[p].next = Len(logs'[logFile'])
            /\ "log" \in names' /\ dir' # 0 /\ pc'[p] = "meter"
        BY <1>a2, <3>2 DEF IInv, TypeOK, OpenSessionLog, Goto
      <4>4. Own(p)'
        BY <4>1, <4>2, <4>3 DEF Own, Intact
      <4> QED  BY <1>a2, <3>2, <4>1, <4>2, <4>3, <4>4 DEF Alone, Row, Logged, Linked, Writing
    <3> QED  BY <3>1, <3>2
  <2> QED  BY <2>1, <2>2, <2>3, OthersRest
<1>10. Explained'
  BY <1>a1, <1>a2, <1>a3 DEF IInv, OpenSessionLog, ScanFails, OpenLog, MakeDir, Goto, Exit,
     diskVars, procVars, TypeOK, Files, OneAtATime, Sequential, Alone, Own, Explained, Halfway,
     Running, Row, Logged, Linked, Writing
<1> QED  BY <1>1, <1>2, <1>3, <1>4, <1>5, <1>6, <1>8, <1>9, <1>10 DEF IInv

(* OpenMeter: BudgetMeter::open. *)
LEMMA OpenMeterIInv ==
  ASSUME IInv, NEW p \in Procs, OpenMeter(p)
  PROVE  IInv'
<1>a1. /\ rows' \in Seq(Lineages) /\ Len(rows') >= Len(rows)
       /\ \A k \in 1..Len(rows) : rows'[k] = rows[k]
       /\ dir # 0 => dbFile' \in 1..Len(rows')
       /\ dir # 0 /\ "db" \notin names => rows'[dbFile'] = "none"
  BY OpenDbType, SMTT(30) DEF IInv, TypeOK, OpenMeter
<1>1. TypeOK'
  <2>1. dirs' \in Nat /\ dir' \in 0..dirs' /\ names' \subseteq Entries /\ (dir' = 0 => names' = {})
    BY DEF IInv, TypeOK, OpenMeter, Entries
  <2>2. /\ logs' \in Seq(Seq(LogEvent)) /\ logFile' \in 0..Len(logs')
        /\ rows' \in Seq(Lineages) /\ dbFile' \in 0..Len(rows')
    BY <1>a1 DEF IInv, TypeOK, OpenMeter
  <2>3. /\ pc' \in [Procs -> PCs] /\ diedAt' \in [Procs -> PCs \cup {"none"}]
        /\ exit' \in [Procs -> {"none", "ok", "usage", "platform", "bathos"}]
        /\ overlap' \in BOOLEAN /\ born' \in {"absent", "foreign"} /\ cleared' \in BOOLEAN
    BY DEF IInv, TypeOK, OpenMeter, Goto, Exit, PCs
  <2>4. /\ handle' \in [Procs -> [file : 0..Len(logs'), next : Nat]]
        /\ conn' \in [Procs -> 0..Len(rows')]
    BY <1>a1, Wider DEF IInv, TypeOK, OpenMeter, procVars
  <2>5. held' \in [Procs -> 0..dirs'] /\ left' \in [Procs -> SUBSET Entries]
    BY DEF IInv, TypeOK, OpenMeter, procVars
  <2> QED  BY <2>1, <2>2, <2>3, <2>4, <2>5 DEF TypeOK
<1>2. Files'
  <2>1. ("log" \in names' => logFile' # 0) /\ ("db" \in names' => dbFile' # 0)
    BY <1>a1 DEF IInv, TypeOK, Files, OpenMeter
  <2>2. \A q \in Procs : /\ pc'[q] \in Logged => handle'[q].file # 0
                         /\ pc'[q] \in Linked => conn'[q] # 0
    <3>1. \A q \in Procs \ {p} : pc'[q] = pc[q]
      BY DEF IInv, TypeOK, OpenMeter, Goto, Exit
    <3>2. pc'[p] \in {"done", "wal"} /\ pc[p] = "meter" /\ UNCHANGED <<handle, conn>>
      BY DEF IInv, TypeOK, OpenMeter, Goto, Exit, procVars
    <3> QED  BY <3>1, <3>2 DEF IInv, Files, Logged, Linked, Writing
  <2>3. \A q \in Procs : diedAt'[q] # "none" => pc'[q] = "dead"
    BY DEF IInv, TypeOK, Files, OpenMeter, Goto, Exit
  <2> QED  BY <2>1, <2>2, <2>3 DEF Files, Logged, Linked, Writing
<1>3. Foreign'
  BY <1>a1 DEF IInv, OpenMeter, OpenDb, Goto, Exit, diskVars, procVars, TypeOK, Foreign,
     ForeignKept, Row, Running
<1>4. ForeignKept'
  BY <1>a1 DEF IInv, OpenMeter, OpenDb, Goto, Exit, diskVars, procVars, TypeOK, Foreign,
     ForeignKept, Row
<1>5. Uncleared'
  <2> SUFFICES ASSUME ~cleared' PROVE Uncleared'
    BY DEF Uncleared
  <2>1. ~cleared /\ \A q \in Procs : pc'[q] # "remove"
    BY DEF IInv, TypeOK, Uncleared, OpenMeter, Goto, Exit
  <2>2. logs' # <<>> => "log" \in names' /\ Len(logs') = 1
    BY <2>1 DEF IInv, Uncleared, OpenMeter
  <2>3. rows' # <<>> => "db" \in names' /\ Len(rows') = 1
    <3>1. rows = <<>> \/ rows' = rows \/ "db" \notin names
      BY DEF OpenMeter, OpenDb
    <3>2. rows = <<>> => Len(rows) = 0
      OBVIOUS
    <3>3. CASE "db" \in names
      BY <2>1, <3>3 DEF IInv, TypeOK, Uncleared, OpenMeter, OpenDb
    <3>4. CASE "db" \notin names
      <4>1. rows = <<>>
        BY <2>1, <3>4 DEF IInv, Uncleared
      <4>2. rows' = <<>> \/ (rows' = Append(<<>>, "none") /\ names' = names \cup {"db"})
        BY <3>4, <4>1 DEF OpenMeter, OpenDb
      <4> QED  BY <4>2
    <3> QED  BY <3>3, <3>4
  <2> QED  BY <2>1, <2>2, <2>3 DEF Uncleared
<1>6. OneClaim' /\ OneWriterUnlessCleared'
  <2>1. \A q \in Procs : pc'[q] \in Writing => pc[q] \in Writing
    BY DEF OpenMeter, OpenDb, Goto, Exit, diskVars, procVars, IInv, TypeOK, Writing
  <2>2. cleared => cleared'
    BY DEF OpenMeter, OpenDb, Goto, Exit, diskVars, procVars
  <2>3. /\ rows' \in Seq(Lineages) /\ Len(rows') >= Len(rows)
        /\ rows # <<>> => rows'[1] = rows[1]
    <3>1. rows \in Seq(Lineages)
      BY DEF IInv, TypeOK
    <3>2. rows # <<>> => 1 \in 1..Len(rows)
      BY <3>1
    <3>3. rows # <<>> => rows'[1] = rows[1]
      BY <1>a1, <3>2
    <3> QED  BY <1>a1, <3>3
  <2>4. /\ Len(logs') \in Nat /\ Len(logs') >= Len(logs)
        /\ \A k \in 1..Len(logs) : logs'[k] = logs[k]
        /\ \A k \in 1..Len(logs') : k > Len(logs) => logs'[k] = <<>>
    BY <1>a1 DEF OpenMeter, OpenDb, Goto, Exit, diskVars, procVars, IInv, TypeOK
  <2> QED  BY <2>1, <2>2, <2>3, <2>4, ClaimKept
<1>8. OneAtATime'
  BY OneRuns DEF OpenMeter, OpenDb, Goto, Exit, diskVars, procVars, IInv, TypeOK, Running
<1>9. Sequential'
  <2>1. Running(p) \/ overlap \/ \A q \in Procs : ~Running(q)
    BY DEF OpenMeter, OpenDb, Goto, Exit, diskVars, procVars, Running
  <2>2. overlap' = overlap /\ \A q \in Procs \ {p} : pc'[q] = pc[q]
    BY DEF OpenMeter, OpenDb, Goto, Exit, diskVars, procVars, IInv, TypeOK
  <2>3. ASSUME ~overlap PROVE Alone(p)'
    <3>1. Own(p) /\ dir # 0 /\ "db" \notin names
      BY <2>3 DEF IInv, Sequential, Alone, Own, OpenMeter, Logged
    <3>2. pc'[p] = "wal" /\ names' = names \cup {"db"} /\ rows'[dbFile'] = "none"
      BY <1>a1, <3>1 DEF IInv, TypeOK, OpenMeter, Goto
    <3>3. Own(p)'
      BY <3>1, <3>2 DEF Own, OpenMeter, procVars
    <3> QED  BY <3>2, <3>3 DEF Alone, Row, Logged, Linked, Writing
  <2> QED  BY <2>1, <2>2, <2>3, OthersRest
<1>10. Explained'
  BY <1>a1 DEF IInv, OpenMeter, OpenDb, Goto, Exit, diskVars, procVars, TypeOK, Files,
     OneAtATime, Sequential, Alone, Own, Explained, Halfway, Running, Row, Logged, Linked,
     Writing
<1> QED  BY <1>1, <1>2, <1>3, <1>4, <1>5, <1>6, <1>8, <1>9, <1>10 DEF IInv

(* OpenWal: SessionWal::open of the runner. *)
LEMMA OpenWalIInv ==
  ASSUME IInv, NEW p \in Procs, OpenWal(p)
  PROVE  IInv'
<1>a1. /\ dirs' \in Nat /\ dirs' >= dirs /\ dir' \in 1..dirs'
       /\ rows' \in Seq(Lineages) /\ Len(rows') >= Len(rows) /\ dbFile' \in 1..Len(rows')
       /\ \A k \in 1..Len(rows) : rows'[k] = rows[k]
       /\ "db" \notin names => rows'[dbFile'] = "none"
  BY MakeDirType, OpenDbType DEF IInv, OpenWal
<1>1. TypeOK'
  <2>1. dirs' \in Nat /\ dir' \in 0..dirs' /\ names' \subseteq Entries /\ (dir' = 0 => names' = {})
    BY <1>a1 DEF IInv, TypeOK, OpenWal, Entries
  <2>2. /\ logs' \in Seq(Seq(LogEvent)) /\ logFile' \in 0..Len(logs')
        /\ rows' \in Seq(Lineages) /\ dbFile' \in 0..Len(rows')
    BY <1>a1 DEF IInv, TypeOK, OpenWal
  <2>3. /\ pc' \in [Procs -> PCs] /\ diedAt' \in [Procs -> PCs \cup {"none"}]
        /\ exit' \in [Procs -> {"none", "ok", "usage", "platform", "bathos"}]
        /\ overlap' \in BOOLEAN /\ born' \in {"absent", "foreign"} /\ cleared' \in BOOLEAN
    BY DEF IInv, TypeOK, OpenWal, Goto, PCs
  <2>4. /\ handle' \in [Procs -> [file : 0..Len(logs'), next : Nat]]
        /\ conn' \in [Procs -> 0..Len(rows')]
    <3>1. conn \in [Procs -> 0..Len(rows')]
      BY <1>a1, Wider DEF IInv, TypeOK
    <3> QED  BY <1>a1, <3>1 DEF IInv, TypeOK, OpenWal
  <2>5. held' \in [Procs -> 0..dirs'] /\ left' \in [Procs -> SUBSET Entries]
    BY <1>a1, Wider DEF IInv, TypeOK, OpenWal
  <2> QED  BY <2>1, <2>2, <2>3, <2>4, <2>5 DEF TypeOK
<1>2. Files'
  BY <1>a1, SMTT(30) DEF IInv, TypeOK, Files, OpenWal, Goto, Running, Logged, Linked, Writing
<1>3. Foreign'
  BY <1>a1 DEF IInv, OpenWal, MakeDir, OpenDb, Goto, diskVars, procVars, TypeOK, Foreign,
     ForeignKept, Row, Running
<1>4. ForeignKept'
  BY <1>a1 DEF IInv, OpenWal, MakeDir, OpenDb, Goto, diskVars, procVars, TypeOK, Foreign,
     ForeignKept, Row
<1>5. Uncleared'
  <2> SUFFICES ASSUME ~cleared' PROVE Uncleared'
    BY DEF Uncleared
  <2>1. ~cleared /\ \A q \in Procs : pc'[q] # "remove"
    BY DEF IInv, TypeOK, Uncleared, OpenWal, Goto, Exit
  <2>2. logs' # <<>> => "log" \in names' /\ Len(logs') = 1
    BY <2>1 DEF IInv, Uncleared, OpenWal
  <2>3. rows' # <<>> => "db" \in names' /\ Len(rows') = 1
    <3>1. rows = <<>> \/ rows' = rows \/ "db" \notin names
      BY DEF OpenWal, OpenDb
    <3>2. rows = <<>> => Len(rows) = 0
      OBVIOUS
    <3>3. CASE "db" \in names
      BY <2>1, <3>3 DEF IInv, TypeOK, Uncleared, OpenWal, OpenDb
    <3>4. CASE "db" \notin names
      BY <2>1, <3>4 DEF IInv, TypeOK, Uncleared, OpenWal, OpenDb
    <3> QED  BY <3>3, <3>4
  <2> QED  BY <2>1, <2>2, <2>3 DEF Uncleared
<1>6. OneClaim' /\ OneWriterUnlessCleared'
  <2>1. \A q \in Procs : pc'[q] \in Writing => pc[q] \in Writing
    BY DEF OpenWal, MakeDir, OpenDb, Goto, diskVars, procVars, IInv, TypeOK, Writing
  <2>2. cleared => cleared'
    BY DEF OpenWal, MakeDir, OpenDb, Goto, diskVars, procVars
  <2>3. /\ rows' \in Seq(Lineages) /\ Len(rows') >= Len(rows)
        /\ rows # <<>> => rows'[1] = rows[1]
    <3>1. rows \in Seq(Lineages)
      BY DEF IInv, TypeOK
    <3>2. rows # <<>> => 1 \in 1..Len(rows)
      BY <3>1
    <3>3. rows # <<>> => rows'[1] = rows[1]
      BY <1>a1, <3>2
    <3> QED  BY <1>a1, <3>3
  <2>4. /\ Len(logs') \in Nat /\ Len(logs') >= Len(logs)
        /\ \A k \in 1..Len(logs) : logs'[k] = logs[k]
        /\ \A k \in 1..Len(logs') : k > Len(logs) => logs'[k] = <<>>
    BY <1>a1 DEF OpenWal, MakeDir, OpenDb, Goto, diskVars, procVars, IInv, TypeOK
  <2> QED  BY <2>1, <2>2, <2>3, <2>4, ClaimKept
<1>8. OneAtATime'
  BY OneRuns DEF OpenWal, MakeDir, OpenDb, Goto, diskVars, procVars, IInv, TypeOK, Running
<1>9. Sequential'
  <2>1. Running(p) \/ overlap \/ \A q \in Procs : ~Running(q)
    BY DEF OpenWal, MakeDir, OpenDb, Goto, diskVars, procVars, Running
  <2>2. overlap' = overlap /\ \A q \in Procs \ {p} : pc'[q] = pc[q]
    BY DEF OpenWal, MakeDir, OpenDb, Goto, diskVars, procVars, IInv, TypeOK
  <2>3. ASSUME ~overlap PROVE Alone(p)'
    BY <1>a1, <2>3 DEF OpenWal, MakeDir, OpenDb, Goto, diskVars, procVars, IInv, TypeOK, Files,
       Sequential, Alone, Own, Row, Intact, Logged, Linked, Writing
  <2> QED  BY <2>1, <2>2, <2>3, OthersRest
<1>10. Explained'
  BY <1>a1 DEF IInv, OpenWal, MakeDir, OpenDb, Goto, diskVars, procVars, TypeOK, Files,
     OneAtATime, Sequential, Alone, Own, Explained, Halfway, Running, Row, Logged, Linked,
     Writing
<1> QED  BY <1>1, <1>2, <1>3, <1>4, <1>5, <1>6, <1>8, <1>9, <1>10 DEF IInv

(* WritePlan: the plan snapshot. *)
LEMMA WritePlanIInv ==
  ASSUME IInv, NEW p \in Procs, WritePlan(p)
  PROVE  IInv'
<1>1. TypeOK'
  BY DEF IInv, WritePlan, Goto, Exit, diskVars, procVars, TypeOK, Files, PCs, Entries, Lineages,
     LogEvent, Logged, Linked, Writing
<1>2. Files'
  BY SMTT(30) DEF IInv, WritePlan, Goto, Exit, diskVars, procVars, TypeOK, Files, Logged, Linked, Writing,
     Running
<1>3. Foreign'
  BY DEF IInv, WritePlan, Goto, Exit, diskVars, procVars, TypeOK, Foreign, ForeignKept, Row, Running
<1>4. ForeignKept'
  BY DEF IInv, WritePlan, Goto, Exit, diskVars, procVars, TypeOK, Foreign, ForeignKept, Row
<1>5. Uncleared'
  BY DEF IInv, WritePlan, Goto, Exit, diskVars, procVars, TypeOK, Files, Uncleared, Logged,
     Linked, Writing
<1>6. OneClaim' /\ OneWriterUnlessCleared'
  <2>1. \A q \in Procs : pc'[q] \in Writing => pc[q] \in Writing
    BY DEF WritePlan, Goto, Exit, diskVars, procVars, IInv, TypeOK, Writing
  <2>2. cleared => cleared'
    BY DEF WritePlan, Goto, Exit, diskVars, procVars
  <2>3. /\ rows' \in Seq(Lineages) /\ Len(rows') >= Len(rows)
        /\ rows # <<>> => rows'[1] = rows[1]
    BY DEF WritePlan, Goto, Exit, diskVars, procVars, IInv, TypeOK
  <2>4. /\ Len(logs') \in Nat /\ Len(logs') >= Len(logs)
        /\ \A k \in 1..Len(logs) : logs'[k] = logs[k]
        /\ \A k \in 1..Len(logs') : k > Len(logs) => logs'[k] = <<>>
    BY DEF WritePlan, Goto, Exit, diskVars, procVars, IInv, TypeOK
  <2> QED  BY <2>1, <2>2, <2>3, <2>4, ClaimKept
<1>8. OneAtATime'
  BY OneRuns DEF WritePlan, Goto, Exit, diskVars, procVars, IInv, TypeOK, Running
<1>9. Sequential'
  <2>1. Running(p) \/ overlap \/ \A q \in Procs : ~Running(q)
    BY DEF WritePlan, Goto, Exit, diskVars, procVars, Running
  <2>2. overlap' = overlap /\ \A q \in Procs \ {p} : pc'[q] = pc[q]
    BY DEF WritePlan, Goto, Exit, diskVars, procVars, IInv, TypeOK
  <2>3. ASSUME ~overlap PROVE Alone(p)'
    BY <2>3, SMTT(30) DEF WritePlan, Goto, Exit, diskVars, procVars, IInv, TypeOK, Files, Sequential,
       Alone, Own, Row, Intact, Logged, Linked, Writing
  <2> QED  BY <2>1, <2>2, <2>3, OthersRest
<1>10. Explained'
  BY DEF IInv, WritePlan, Goto, Exit, diskVars, procVars, TypeOK, Files, OneAtATime, Sequential,
     Alone, Own, Explained, Halfway, Running, Row, Logged, Linked, Writing
<1> QED  BY <1>1, <1>2, <1>3, <1>4, <1>5, <1>6, <1>8, <1>9, <1>10 DEF IInv

(* InsertSession: insert_session claims the database. *)
LEMMA InsertSessionIInv ==
  ASSUME IInv, NEW p \in Procs, InsertSession(p)
  PROVE  IInv'
<1>a1. conn[p] \in 1..Len(rows) /\ rows \in Seq(Lineages)
  BY DEF IInv, TypeOK, Files, InsertSession, Linked
<1>a2. /\ rows' \in Seq(Lineages) /\ Len(rows') = Len(rows)
       /\ rows[conn[p]] = "none" => rows'[conn[p]] = "fork"
  BY <1>a1 DEF InsertSession, Lineages
<1>1. TypeOK'
  <2>1. dirs' \in Nat /\ dir' \in 0..dirs' /\ names' \subseteq Entries /\ (dir' = 0 => names' = {})
    BY DEF IInv, TypeOK, InsertSession
  <2>2. /\ logs' \in Seq(Seq(LogEvent)) /\ logFile' \in 0..Len(logs')
        /\ rows' \in Seq(Lineages) /\ dbFile' \in 0..Len(rows')
    BY <1>a2 DEF IInv, TypeOK, InsertSession
  <2>3. /\ pc' \in [Procs -> PCs] /\ diedAt' \in [Procs -> PCs \cup {"none"}]
        /\ exit' \in [Procs -> {"none", "ok", "usage", "platform", "bathos"}]
        /\ overlap' \in BOOLEAN /\ born' \in {"absent", "foreign"} /\ cleared' \in BOOLEAN
    BY DEF IInv, TypeOK, InsertSession, Goto, Exit, PCs
  <2>4. /\ handle' \in [Procs -> [file : 0..Len(logs'), next : Nat]]
        /\ conn' \in [Procs -> 0..Len(rows')]
    BY DEF IInv, TypeOK, InsertSession, procVars
  <2>5. held' \in [Procs -> 0..dirs'] /\ left' \in [Procs -> SUBSET Entries]
    BY DEF IInv, TypeOK, InsertSession, procVars
  <2> QED  BY <2>1, <2>2, <2>3, <2>4, <2>5 DEF TypeOK
<1>2. Files'
  BY SMTT(30) DEF IInv, InsertSession, Goto, Exit, diskVars, procVars, TypeOK, Files, Logged, Linked,
     Writing, Running
<1>3. Foreign'
  BY DEF IInv, InsertSession, Goto, Exit, diskVars, procVars, TypeOK, Foreign, ForeignKept, Row,
     Running
<1>4. ForeignKept'
  BY DEF IInv, InsertSession, Goto, Exit, diskVars, procVars, TypeOK, Foreign, ForeignKept, Row
<1>5. Uncleared'
  BY DEF IInv, InsertSession, Goto, Exit, diskVars, procVars, TypeOK, Files, Uncleared, Logged,
     Linked, Writing
<1>6. OneClaim' /\ OneWriterUnlessCleared'
  <2>1. CASE rows[conn[p]] # "none"
    <3>1. /\ UNCHANGED <<rows, logs, cleared>>
          /\ \A q \in Procs : pc'[q] \in Writing => pc[q] \in Writing
      BY <2>1 DEF IInv, TypeOK, InsertSession, Exit, Writing
    <3>2. rows \in Seq(Lineages) /\ Len(logs) \in Nat
      BY DEF IInv, TypeOK
    <3> QED  BY <3>1, <3>2, ClaimKept
  <2>2. CASE rows[conn[p]] = "none"
    <3> SUFFICES ASSUME ~cleared PROVE OneClaim' /\ SingleWriter'
      BY DEF OneClaim, OneWriterUnlessCleared, InsertSession
    <3>1. Len(rows) = 1 /\ conn[p] = 1 /\ rows \in Seq(Lineages)
      BY DEF IInv, TypeOK, Files, Uncleared, InsertSession, Linked
    <3>2. Unclaimed
      BY <2>2, <3>1 DEF Unclaimed
    <3>3. /\ rows' = [rows EXCEPT ![conn[p]] = "fork"] /\ logs' = logs
          /\ \A q \in Procs \ {p} : pc'[q] = pc[q]
      BY <2>2 DEF IInv, TypeOK, InsertSession, Goto
    <3>4. ~Unclaimed'
      BY <1>a2, <2>2, <3>1 DEF Unclaimed
    <3>5. /\ \A q \in Procs \ {p} : pc'[q] \notin Writing
          /\ \A k \in 1..Len(logs) : logs[k] = <<>>
      BY <3>2, <3>3 DEF IInv, OneClaim
    <3> QED  BY <3>3, <3>4, <3>5 DEF OneClaim, SingleWriter
  <2> QED  BY <2>1, <2>2
<1>8. OneAtATime'
  BY OneRuns DEF InsertSession, Goto, Exit, diskVars, procVars, IInv, TypeOK, Running
<1>9. Sequential'
  <2>1. Running(p) \/ overlap \/ \A q \in Procs : ~Running(q)
    BY DEF InsertSession, Goto, Exit, diskVars, procVars, Running
  <2>2. overlap' = overlap /\ \A q \in Procs \ {p} : pc'[q] = pc[q]
    BY DEF InsertSession, Goto, Exit, diskVars, procVars, IInv, TypeOK
  <2>3. ASSUME ~overlap PROVE Alone(p)'
    <3>1. Own(p) /\ "db" \in names /\ conn[p] = dbFile /\ rows[conn[p]] = "none"
      BY <2>3 DEF IInv, Sequential, Alone, InsertSession, Row, Logged, Linked
    <3>2. pc'[p] = "run" /\ rows'[dbFile] = "fork"
      BY <1>a2, <3>1 DEF IInv, TypeOK, InsertSession, Goto
    <3>3. UNCHANGED <<dir, names, logFile, logs, dbFile, handle>>
      BY DEF InsertSession, procVars
    <3>4. Own(p)'
      BY <3>1, <3>3 DEF Own, Intact
    <3> QED  BY <3>1, <3>2, <3>3, <3>4 DEF Alone, Row, Logged, Linked, Writing
  <2> QED  BY <2>1, <2>2, <2>3, OthersRest
<1>10. Explained'
  BY DEF IInv, InsertSession, Goto, Exit, diskVars, procVars, TypeOK, Files, OneAtATime,
     Sequential, Alone, Own, Explained, Halfway, Running, Row, Logged, Linked, Writing
<1> QED  BY <1>1, <1>2, <1>3, <1>4, <1>5, <1>6, <1>8, <1>9, <1>10 DEF IInv

(* Emit: an event of the run. *)
LEMMA EmitIInv ==
  ASSUME IInv, NEW p \in Procs, Emit(p)
  PROVE  IInv'
<1>1. TypeOK'
  BY SMTT(30) DEF IInv, Emit, Append1, diskVars, procVars, TypeOK, Files, PCs, Entries, Lineages,
     LogEvent, Logged, Linked, Writing
<1>2. Files'
  BY DEF IInv, Emit, Append1, diskVars, procVars, TypeOK, Files, Logged, Linked, Writing, Running
<1>3. Foreign'
  BY DEF IInv, Emit, Append1, diskVars, procVars, TypeOK, Foreign, ForeignKept, Row, Running
<1>4. ForeignKept'
  BY DEF IInv, Emit, Append1, diskVars, procVars, TypeOK, Foreign, ForeignKept, Row
<1>5. Uncleared'
  BY DEF IInv, Emit, Append1, diskVars, procVars, TypeOK, Files, Uncleared, Logged, Linked, Writing
<1>6. OneClaim' /\ OneWriterUnlessCleared'
  <2>1. /\ Len(logs') = Len(logs) /\ handle[p].file \in 1..Len(logs)
        /\ \A k \in 1..Len(logs) : k # handle[p].file => logs'[k] = logs[k]
        /\ logs'[handle[p].file] = Append(logs[handle[p].file],
                                          [by |-> p, seq |-> handle[p].next, seal |-> FALSE])
    BY Append1Type DEF IInv, Files, Emit, Logged, Linked, Writing
  <2> QED
    <3> SUFFICES ASSUME ~cleared PROVE OneClaim' /\ SingleWriter'
      BY DEF OneClaim, OneWriterUnlessCleared, Emit
    <3>1. pc[p] \in Writing /\ UNCHANGED <<rows, cleared>>
      BY DEF Emit, Writing
    <3>2. \A q \in Procs : pc'[q] \in Writing => pc[q] \in Writing
      BY DEF IInv, TypeOK, Emit, Writing
    <3>3. \A q \in Procs : pc[q] \in Writing => q = p
      BY <3>1 DEF IInv, OneClaim
    <3>4. ~Unclaimed'
      BY <3>1 DEF IInv, OneClaim, Unclaimed
    <3>5. \A k \in 1..Len(logs) : \A i \in 1..Len(logs[k]) : logs[k][i].by = p
      BY <3>1 DEF IInv, OneClaim
    <3>6. logs \in Seq(Seq(LogEvent))
      BY DEF IInv, TypeOK
    <3>7. \A k \in 1..Len(logs') : \A i \in 1..Len(logs'[k]) : logs'[k][i].by = p
      <4> SUFFICES ASSUME NEW k \in 1..Len(logs'), NEW i \in 1..Len(logs'[k])
                   PROVE  logs'[k][i].by = p
        OBVIOUS
      <4>1. CASE k # handle[p].file
        BY <2>1, <3>5, <4>1
      <4>2. CASE k = handle[p].file
        <5>1. logs[k] \in Seq(LogEvent)
          BY <2>1, <3>6, <4>2
        <5>2. i \in 1..Len(logs[k]) \/ i = Len(logs[k]) + 1
          BY <2>1, <4>2, <5>1
        <5>3. ASSUME i = Len(logs[k]) + 1 PROVE logs'[k][i].by = p
          <6>1. logs'[k][i] = [by |-> p, seq |-> handle[p].next, seal |-> FALSE]
            BY <2>1, <4>2, <5>1, <5>3
          <6> QED  BY <6>1
        <5>4. ASSUME i \in 1..Len(logs[k]) PROVE logs'[k][i] = logs[k][i]
          <6>1. \A e : Append(logs[k], e)[i] = logs[k][i]
            BY <5>1, <5>4, AppendKeeps
          <6> QED  BY <2>1, <4>2, <6>1
        <5> QED  BY <2>1, <3>5, <4>2, <5>2, <5>3, <5>4
      <4> QED  BY <4>1, <4>2
    <3>8. SingleWriter'
      BY <3>7 DEF SingleWriter
    <3> QED  BY <3>2, <3>3, <3>4, <3>7, <3>8 DEF OneClaim
<1>8. OneAtATime'
  BY OneRuns DEF Emit, Append1, diskVars, procVars, IInv, TypeOK, Running
<1>9. Sequential'
  <2>1. Running(p) \/ overlap \/ \A q \in Procs : ~Running(q)
    BY DEF Emit, Append1, diskVars, procVars, Running
  <2>2. overlap' = overlap /\ \A q \in Procs \ {p} : pc'[q] = pc[q]
    BY DEF Emit, Append1, diskVars, procVars, IInv, TypeOK
  <2>3. ASSUME ~overlap PROVE Alone(p)'
    <3>1. /\ logFile \in 1..Len(logs) /\ logs[logFile] \in Seq(LogEvent)
          /\ handle[p].file = logFile /\ handle[p].next = Len(logs[logFile])
      BY <2>3 DEF IInv, TypeOK, Files, Sequential, Alone, Own, Emit, Logged, Linked, Writing
    <3>2. /\ logs'[logFile] = Append(logs[logFile], [by |-> p, seq |-> Len(logs[logFile]), seal |-> FALSE])
          /\ handle'[p].file = logFile /\ handle'[p].next = Len(logs[logFile]) + 1
      <4>0. handle[p].file # 0
        BY <3>1
      <4>1. Append1(p, FALSE) /\ TypeOK /\ handle[p].file # 0
        BY <4>0 DEF IInv, Emit
      <4>2. /\ handle' = [handle EXCEPT ![p] = [file |-> handle[p].file, next |-> handle[p].next + 1]]
            /\ logs'[handle[p].file] = Append(logs[handle[p].file],
                                              [by |-> p, seq |-> handle[p].next, seal |-> FALSE])
        BY <4>1, Append1Type
      <4>3. handle'[p] = [file |-> handle[p].file, next |-> handle[p].next + 1]
        BY <4>1, <4>2 DEF TypeOK
      <4> QED  BY <3>1, <4>2, <4>3
    <3>3. Intact(logs[logFile]) /\ \A i \in 1..Len(logs[logFile]) : logs[logFile][i].by = p
      BY <2>3 DEF IInv, Sequential, Alone, Own, Emit, Logged, Linked, Writing
    <3>4. Len(logs'[logFile]) = Len(logs[logFile]) + 1 /\ logs'[logFile] # <<>>
      BY <3>1, <3>2
    <3>5. Intact(logs'[logFile])
      BY <3>1, <3>2, <3>3, <3>4 DEF Intact
    <3>6. \A i \in 1..Len(logs'[logFile]) : logs'[logFile][i].by = p
      BY <3>1, <3>2, <3>3, <3>4
    <3>7. UNCHANGED <<dir, names, logFile, dbFile, rows, conn, held, left>>
      BY DEF Emit
    <3>8. pc'[p] = "run"
      BY DEF IInv, TypeOK, Emit, Goto
    <3>9. Own(p)'
      BY <2>3, <3>2, <3>4, <3>5, <3>6, <3>7 DEF IInv, Sequential, Alone, Own, Emit, Logged,
         Linked, Writing
    <3> QED  BY <2>3, <3>4, <3>7, <3>8, <3>9 DEF IInv, Sequential, Alone, Emit, Row, Logged,
                Linked, Writing
  <2> QED  BY <2>1, <2>2, <2>3, OthersRest
<1>10. Explained'
  BY DEF IInv, Emit, Append1, diskVars, procVars, TypeOK, Files, OneAtATime, Sequential, Alone,
     Own, Explained, Halfway, Running, Row, Logged, Linked, Writing
<1> QED  BY <1>1, <1>2, <1>3, <1>4, <1>5, <1>6, <1>8, <1>9, <1>10 DEF IInv

(* Persist: persist_commit. *)
LEMMA PersistIInv ==
  ASSUME IInv, NEW p \in Procs, Persist(p)
  PROVE  IInv'
<1>1. TypeOK'
  BY SMTT(30) DEF IInv, Persist, MakeDir, diskVars, procVars, TypeOK, Files, PCs, Entries, Lineages,
     LogEvent, Logged, Linked, Writing
<1>2. Files'
  BY DEF IInv, Persist, MakeDir, diskVars, procVars, TypeOK, Files, Logged, Linked, Writing, Running
<1>3. Foreign'
  BY DEF IInv, Persist, MakeDir, diskVars, procVars, TypeOK, Foreign, ForeignKept, Row, Running
<1>4. ForeignKept'
  BY DEF IInv, Persist, MakeDir, diskVars, procVars, TypeOK, Foreign, ForeignKept, Row
<1>5. Uncleared'
  BY DEF IInv, Persist, MakeDir, diskVars, procVars, TypeOK, Files, Uncleared, Logged, Linked,
     Writing
<1>6. OneClaim' /\ OneWriterUnlessCleared'
  <2>1. \A q \in Procs : pc'[q] \in Writing => pc[q] \in Writing
    BY DEF Persist, MakeDir, diskVars, procVars, IInv, TypeOK, Writing
  <2>2. cleared => cleared'
    BY DEF Persist, MakeDir, diskVars, procVars
  <2>3. /\ rows' \in Seq(Lineages) /\ Len(rows') >= Len(rows)
        /\ rows # <<>> => rows'[1] = rows[1]
    BY DEF Persist, MakeDir, diskVars, procVars, IInv, TypeOK
  <2>4. /\ Len(logs') \in Nat /\ Len(logs') >= Len(logs)
        /\ \A k \in 1..Len(logs) : logs'[k] = logs[k]
        /\ \A k \in 1..Len(logs') : k > Len(logs) => logs'[k] = <<>>
    BY DEF Persist, MakeDir, diskVars, procVars, IInv, TypeOK
  <2> QED  BY <2>1, <2>2, <2>3, <2>4, ClaimKept
<1>8. OneAtATime'
  BY OneRuns DEF Persist, MakeDir, diskVars, procVars, IInv, TypeOK, Running
<1>9. Sequential'
  <2>1. Running(p) \/ overlap \/ \A q \in Procs : ~Running(q)
    BY DEF Persist, MakeDir, diskVars, procVars, Running
  <2>2. overlap' = overlap /\ \A q \in Procs \ {p} : pc'[q] = pc[q]
    BY DEF Persist, MakeDir, diskVars, procVars, IInv, TypeOK
  <2>3. ASSUME ~overlap PROVE Alone(p)'
    BY <2>3 DEF Persist, MakeDir, diskVars, procVars, IInv, TypeOK, Files, Sequential, Alone,
       Own, Row, Intact, Logged, Linked, Writing
  <2> QED  BY <2>1, <2>2, <2>3, OthersRest
<1>10. Explained'
  BY DEF IInv, Persist, MakeDir, diskVars, procVars, TypeOK, Files, OneAtATime, Sequential,
     Alone, Own, Explained, Halfway, Running, Row, Logged, Linked, Writing
<1> QED  BY <1>1, <1>2, <1>3, <1>4, <1>5, <1>6, <1>8, <1>9, <1>10 DEF IInv

(* Finish: Runner::run returns. *)
LEMMA FinishIInv ==
  ASSUME IInv, NEW p \in Procs, Finish(p)
  PROVE  IInv'
<1>1. TypeOK'
  BY DEF IInv, Finish, Goto, Exit, diskVars, procVars, TypeOK, Files, PCs, Entries, Lineages,
     LogEvent, Logged, Linked, Writing
<1>2. Files'
  BY DEF IInv, Finish, Goto, Exit, diskVars, procVars, TypeOK, Files, Logged, Linked, Writing,
     Running
<1>3. Foreign'
  BY DEF IInv, Finish, Goto, Exit, diskVars, procVars, TypeOK, Foreign, ForeignKept, Row, Running
<1>4. ForeignKept'
  BY DEF IInv, Finish, Goto, Exit, diskVars, procVars, TypeOK, Foreign, ForeignKept, Row
<1>5. Uncleared'
  BY DEF IInv, Finish, Goto, Exit, diskVars, procVars, TypeOK, Files, Uncleared, Logged, Linked,
     Writing
<1>6. OneClaim' /\ OneWriterUnlessCleared'
  <2>1. \A q \in Procs : pc'[q] \in Writing => pc[q] \in Writing
    BY DEF Finish, Goto, Exit, diskVars, procVars, IInv, TypeOK, Writing
  <2>2. cleared => cleared'
    BY DEF Finish, Goto, Exit, diskVars, procVars
  <2>3. /\ rows' \in Seq(Lineages) /\ Len(rows') >= Len(rows)
        /\ rows # <<>> => rows'[1] = rows[1]
    BY DEF Finish, Goto, Exit, diskVars, procVars, IInv, TypeOK
  <2>4. /\ Len(logs') \in Nat /\ Len(logs') >= Len(logs)
        /\ \A k \in 1..Len(logs) : logs'[k] = logs[k]
        /\ \A k \in 1..Len(logs') : k > Len(logs) => logs'[k] = <<>>
    BY DEF Finish, Goto, Exit, diskVars, procVars, IInv, TypeOK
  <2> QED  BY <2>1, <2>2, <2>3, <2>4, ClaimKept
<1>8. OneAtATime'
  BY OneRuns DEF Finish, Goto, Exit, diskVars, procVars, IInv, TypeOK, Running
<1>9. Sequential'
  <2>1. Running(p) \/ overlap \/ \A q \in Procs : ~Running(q)
    BY DEF Finish, Goto, Exit, diskVars, procVars, Running
  <2>2. overlap' = overlap /\ \A q \in Procs \ {p} : pc'[q] = pc[q]
    BY DEF Finish, Goto, Exit, diskVars, procVars, IInv, TypeOK
  <2>3. ASSUME ~overlap PROVE Alone(p)'
    BY <2>3, SMTT(30) DEF Finish, Goto, Exit, diskVars, procVars, IInv, TypeOK, Files, Sequential, Alone,
       Own, Row, Intact, Logged, Linked, Writing
  <2> QED  BY <2>1, <2>2, <2>3, OthersRest
<1>10. Explained'
  BY DEF IInv, Finish, Goto, Exit, diskVars, procVars, TypeOK, Files, OneAtATime, Sequential,
     Alone, Own, Explained, Halfway, Running, Row, Logged, Linked, Writing
<1> QED  BY <1>1, <1>2, <1>3, <1>4, <1>5, <1>6, <1>8, <1>9, <1>10 DEF IInv

(* Reopen: close_session opens the log again. *)
LEMMA ReopenIInv ==
  ASSUME IInv, NEW p \in Procs, Reopen(p)
  PROVE  IInv'
<1>a1. Opened(p)
  BY DEF Reopen, Opened
<1>a2. ~ScanFails =>
        /\ logFile' \in 1..Len(logs') /\ dir' # 0
        /\ handle' = [handle EXCEPT ![p] = [file |-> logFile', next |-> Len(logs'[logFile'])]]
        /\ "log" \in names => logs' = logs /\ logFile' = logFile
        /\ "log" \notin names => logs'[logFile'] = <<>>
        /\ names' = names \cup {"log"} /\ UNCHANGED <<dbFile, rows>>
        /\ dir # 0 => dir' = dir
  <2> HAVE ~ScanFails
  <2>1. OpenLog(p)
    BY DEF Reopen
  <2>2. dir' # 0 /\ (dir # 0 => dir' = dir)
    BY <2>1, MakeDirType DEF IInv, OpenLog, MakeDir
  <2>3. names' = names \cup {"log"} /\ UNCHANGED <<dbFile, rows>>
    BY <2>1 DEF OpenLog
  <2> QED  BY <2>1, <2>2, <2>3, OpenLogType DEF IInv
<1>a3. ScanFails => UNCHANGED <<dir, dirs, names, logFile, logs, dbFile, rows, handle>>
  BY DEF Reopen, diskVars
<1>1. TypeOK'
  <2>1. /\ pc' \in [Procs -> PCs] /\ diedAt' \in [Procs -> PCs \cup {"none"}]
        /\ exit' \in [Procs -> {"none", "ok", "usage", "platform", "bathos"}]
        /\ overlap' \in BOOLEAN /\ born' \in {"absent", "foreign"} /\ cleared' \in BOOLEAN
    BY DEF IInv, TypeOK, Reopen, Goto, Exit, PCs
  <2>2. rows' \in Seq(Lineages) /\ dbFile' \in 0..Len(rows')
    BY <1>a1, OpenedType DEF IInv, TypeOK
  <2> QED  BY <1>a1, <2>1, <2>2, OpenedType DEF IInv, TypeOK
<1>2. Files'
  <2>1. ("log" \in names' => logFile' # 0) /\ ("db" \in names' => dbFile' # 0)
    BY <1>a1, <1>a2, <1>a3, OpenedType DEF IInv, Files
  <2>2. \A q \in Procs : /\ pc'[q] \in Logged => handle'[q].file # 0
                         /\ pc'[q] \in Linked => conn'[q] # 0
    <3>1. \A q \in Procs \ {p} : pc'[q] = pc[q]
      BY DEF IInv, TypeOK, Reopen, Goto, Exit
    <3>2. pc'[p] \in Logged => handle'[p].file # 0
      BY <1>a2 DEF IInv, TypeOK, Reopen, Goto, Exit, Logged, Linked, Writing
    <3>3. conn' = conn /\ (pc'[p] \in Linked => pc[p] \in Linked)
      BY DEF IInv, TypeOK, Reopen, Goto, Exit, Linked, Writing
    <3> QED  BY <1>a1, <3>1, <3>2, <3>3, OpenedType DEF IInv, Files
  <2>3. \A q \in Procs : diedAt'[q] # "none" => pc'[q] = "dead"
    BY DEF IInv, TypeOK, Files, Reopen, Goto, Exit
  <2> QED  BY <2>1, <2>2, <2>3 DEF Files, Logged, Linked, Writing
<1>3. Foreign'
  BY <1>a1, <1>a2, <1>a3 DEF IInv, Reopen, ScanFails, OpenLog, MakeDir, Goto, Exit, diskVars,
     procVars, TypeOK, Foreign, ForeignKept, Row, Running
<1>4. ForeignKept'
  BY <1>a1, <1>a2, <1>a3 DEF IInv, Reopen, ScanFails, OpenLog, MakeDir, Goto, Exit, diskVars,
     procVars, TypeOK, Foreign, ForeignKept, Row
<1>5. Uncleared'
  <2> SUFFICES ASSUME ~cleared' PROVE Uncleared'
    BY DEF Uncleared
  <2>1. ~cleared /\ \A q \in Procs : pc'[q] # "remove"
    BY DEF IInv, TypeOK, Uncleared, Reopen, Goto, Exit
  <2>2. logs' # <<>> => "log" \in names' /\ Len(logs') = 1
    <3>1. CASE ScanFails
      BY <1>a3, <2>1, <3>1 DEF IInv, Uncleared
    <3>2. CASE ~ScanFails /\ "log" \in names
      BY <1>a2, <2>1, <3>2 DEF IInv, Uncleared
    <3>3. CASE ~ScanFails /\ "log" \notin names
      <4>1. logs = <<>> /\ logs' = Append(logs, <<>>)
        BY <2>1, <3>3 DEF IInv, Uncleared, Reopen, OpenLog
      <4> QED  BY <1>a2, <3>3, <4>1
    <3> QED  BY <3>1, <3>2, <3>3
  <2>3. rows' # <<>> => "db" \in names' /\ Len(rows') = 1
    BY <1>a2, <1>a3, <2>1 DEF IInv, Uncleared
  <2> QED  BY <2>1, <2>2, <2>3 DEF Uncleared
<1>6. OneClaim' /\ OneWriterUnlessCleared'
  <2>1. \A q \in Procs : pc'[q] \in Writing => pc[q] \in Writing
    BY DEF Reopen, ScanFails, OpenLog, MakeDir, Goto, Exit, diskVars, procVars, IInv, TypeOK,
       Writing
  <2>2. cleared => cleared'
    BY DEF Reopen, ScanFails, OpenLog, MakeDir, Goto, Exit, diskVars, procVars
  <2>3. /\ rows' \in Seq(Lineages) /\ Len(rows') >= Len(rows)
        /\ rows # <<>> => rows'[1] = rows[1]
    BY <1>a2, <1>a3 DEF IInv, TypeOK
  <2>4. /\ Len(logs') \in Nat /\ Len(logs') >= Len(logs)
        /\ \A k \in 1..Len(logs) : logs'[k] = logs[k]
        /\ \A k \in 1..Len(logs') : k > Len(logs) => logs'[k] = <<>>
    BY <1>a1, OpenedType DEF IInv
  <2> QED  BY <2>1, <2>2, <2>3, <2>4, ClaimKept
<1>8. OneAtATime'
  BY OneRuns DEF Reopen, ScanFails, OpenLog, MakeDir, Goto, Exit, diskVars, procVars, IInv,
     TypeOK, Running
<1>9. Sequential'
  <2>1. Running(p) \/ overlap \/ \A q \in Procs : ~Running(q)
    BY DEF Reopen, ScanFails, OpenLog, MakeDir, Goto, Exit, diskVars, procVars, Running
  <2>2. overlap' = overlap /\ \A q \in Procs \ {p} : pc'[q] = pc[q]
    BY DEF Reopen, ScanFails, OpenLog, MakeDir, Goto, Exit, diskVars, procVars, IInv, TypeOK
  <2>3. ASSUME ~overlap PROVE Alone(p)'
    <3>1. CASE ScanFails
      <4>1. pc'[p] = "done"
        BY <3>1 DEF IInv, TypeOK, Reopen, Exit
      <4> QED  BY <4>1 DEF Alone, Logged, Linked, Writing
    <3>2. CASE ~ScanFails
      <4>1. Own(p) /\ "db" \in names /\ Row = "fork" /\ logs[logFile] # <<>>
        BY <2>3 DEF IInv, Sequential, Alone, Reopen, Logged, Linked, Writing
      <4>2. UNCHANGED <<dir, logs, logFile, names>>
        BY <1>a2, <3>2, <4>1 DEF Own
      <4>3. /\ handle'[p].file = logFile' /\ handle'[p].next = Len(logs'[logFile'])
            /\ "log" \in names' /\ dir' # 0 /\ pc'[p] = "seal"
        BY <1>a2, <3>2 DEF IInv, TypeOK, Reopen, Goto
      <4>4. Own(p)'
        BY <4>1, <4>2, <4>3 DEF Own, Intact
      <4> QED  BY <1>a2, <3>2, <4>1, <4>2, <4>3, <4>4 DEF Alone, Row, Logged, Linked, Writing
    <3> QED  BY <3>1, <3>2
  <2> QED  BY <2>1, <2>2, <2>3, OthersRest
<1>10. Explained'
  BY <1>a1, <1>a2, <1>a3 DEF IInv, Reopen, ScanFails, OpenLog, MakeDir, Goto, Exit, diskVars,
     procVars, TypeOK, Files, OneAtATime, Sequential, Alone, Own, Explained, Halfway, Running,
     Row, Logged, Linked, Writing
<1> QED  BY <1>1, <1>2, <1>3, <1>4, <1>5, <1>6, <1>8, <1>9, <1>10 DEF IInv

(* Seal: the seal. *)
LEMMA SealIInv ==
  ASSUME IInv, NEW p \in Procs, Seal(p)
  PROVE  IInv'
<1>a1. handle[p].file # 0
  BY DEF IInv, Files, Seal, Logged, Linked, Writing
<1>a2. \/ pc' = [pc EXCEPT ![p] = "done"] /\ UNCHANGED <<logs, handle>>
       \/ pc' = [pc EXCEPT ![p] = "tally"] /\ Append1(p, TRUE)
  BY DEF Seal, Goto, Exit
<1>1. TypeOK'
  <2>1. dirs' \in Nat /\ dir' \in 0..dirs' /\ names' \subseteq Entries /\ (dir' = 0 => names' = {})
    BY DEF IInv, TypeOK, Seal
  <2>2. /\ logs' \in Seq(Seq(LogEvent)) /\ logFile' \in 0..Len(logs')
        /\ rows' \in Seq(Lineages) /\ dbFile' \in 0..Len(rows')
    BY <1>a1, <1>a2, Append1Type DEF IInv, TypeOK, Seal
  <2>3. /\ pc' \in [Procs -> PCs] /\ diedAt' \in [Procs -> PCs \cup {"none"}]
        /\ exit' \in [Procs -> {"none", "ok", "usage", "platform", "bathos"}]
        /\ overlap' \in BOOLEAN /\ born' \in {"absent", "foreign"} /\ cleared' \in BOOLEAN
    BY DEF IInv, TypeOK, Seal, Goto, Exit, PCs
  <2>4. /\ handle' \in [Procs -> [file : 0..Len(logs'), next : Nat]]
        /\ conn' \in [Procs -> 0..Len(rows')]
    <3>1. CASE UNCHANGED <<logs, handle>>
      BY <3>1 DEF IInv, TypeOK, Seal
    <3>2. CASE Append1(p, TRUE)
      <4>1. handle \in [Procs -> [file : 0..Len(logs), next : Nat]]
        BY DEF IInv, TypeOK
      <4>2. /\ handle' = [handle EXCEPT ![p] = [file |-> handle[p].file, next |-> handle[p].next + 1]]
            /\ Len(logs') = Len(logs)
        BY <1>a1, <3>2, Append1Type DEF IInv
      <4> QED  BY <4>1, <4>2 DEF IInv, TypeOK, Seal
    <3> QED  BY <1>a2, <3>1, <3>2
  <2>5. held' \in [Procs -> 0..dirs'] /\ left' \in [Procs -> SUBSET Entries]
    BY DEF IInv, TypeOK, Seal
  <2> QED  BY <2>1, <2>2, <2>3, <2>4, <2>5 DEF TypeOK
<1>2. Files'
  <2>1. \A q \in Procs : handle[q].file # 0 => handle'[q].file # 0
    <3>1. CASE UNCHANGED <<logs, handle>>
      BY <3>1
    <3>2. CASE Append1(p, TRUE)
      <4>1. handle' = [handle EXCEPT ![p] = [file |-> handle[p].file, next |-> handle[p].next + 1]]
        BY <1>a1, <3>2, Append1Type DEF IInv
      <4> QED  BY <4>1 DEF IInv, TypeOK
    <3> QED  BY <1>a2, <3>1, <3>2
  <2>2. \A q \in Procs : /\ pc'[q] \in Logged => pc[q] \in Logged
                         /\ pc'[q] \in Linked => pc[q] \in Linked
                         /\ pc[q] = "dead" => pc'[q] = "dead"
    BY <1>a2 DEF IInv, TypeOK, Seal, Logged, Linked, Writing
  <2>3. UNCHANGED <<names, logFile, dbFile, conn, diedAt>>
    BY DEF Seal, Goto, Exit
  <2> QED  BY <2>1, <2>2, <2>3 DEF IInv, Files, Logged, Linked, Writing
<1>3. Foreign'
  BY <1>a1, <1>a2 DEF IInv, Seal, Append1, Goto, Exit, diskVars, procVars, TypeOK, Foreign,
     ForeignKept, Row, Running
<1>4. ForeignKept'
  BY <1>a1, <1>a2 DEF IInv, Seal, Append1, Goto, Exit, diskVars, procVars, TypeOK, Foreign,
     ForeignKept, Row
<1>5. Uncleared'
  BY <1>a1, <1>a2 DEF IInv, Seal, Append1, Goto, Exit, diskVars, procVars, TypeOK, Files,
     Uncleared, Logged, Linked, Writing
<1>6. OneClaim' /\ OneWriterUnlessCleared'
  <2>0. CASE logs' = logs
    <3>1. UNCHANGED <<rows, cleared>> /\ \A q \in Procs : pc'[q] \in Writing => pc[q] \in Writing
      BY <1>a2 DEF IInv, TypeOK, Seal, Writing
    <3>2. rows \in Seq(Lineages) /\ Len(logs) \in Nat
      BY DEF IInv, TypeOK
    <3> QED  BY <2>0, <3>1, <3>2, ClaimKept
  <2>2. CASE Append1(p, TRUE)
    <3>0. /\ Len(logs') = Len(logs) /\ handle[p].file \in 1..Len(logs)
          /\ \A k \in 1..Len(logs) : k # handle[p].file => logs'[k] = logs[k]
          /\ logs'[handle[p].file] = Append(logs[handle[p].file],
                                            [by |-> p, seq |-> handle[p].next, seal |-> TRUE])
      BY <1>a1, <2>2, Append1Type DEF IInv
    <3> SUFFICES ASSUME ~cleared PROVE OneClaim' /\ SingleWriter'
      BY DEF OneClaim, OneWriterUnlessCleared, Seal
    <3>1. pc[p] \in Writing /\ UNCHANGED <<rows, cleared>>
      BY DEF Seal, Writing
    <3>2. \A q \in Procs : pc'[q] \in Writing => pc[q] \in Writing
      BY <1>a2 DEF IInv, TypeOK, Seal, Writing
    <3>3. \A q \in Procs : pc[q] \in Writing => q = p
      BY <3>1 DEF IInv, OneClaim
    <3>4. ~Unclaimed'
      BY <3>1 DEF IInv, OneClaim, Unclaimed
    <3>5. \A k \in 1..Len(logs) : \A i \in 1..Len(logs[k]) : logs[k][i].by = p
      BY <3>1 DEF IInv, OneClaim
    <3>6. logs \in Seq(Seq(LogEvent))
      BY DEF IInv, TypeOK
    <3>7. \A k \in 1..Len(logs') : \A i \in 1..Len(logs'[k]) : logs'[k][i].by = p
      <4> SUFFICES ASSUME NEW k \in 1..Len(logs'), NEW i \in 1..Len(logs'[k])
                   PROVE  logs'[k][i].by = p
        OBVIOUS
      <4>1. CASE k # handle[p].file
        BY <3>0, <3>5, <4>1
      <4>2. CASE k = handle[p].file
        <5>1. logs[k] \in Seq(LogEvent)
          BY <3>0, <3>6, <4>2
        <5>2. i \in 1..Len(logs[k]) \/ i = Len(logs[k]) + 1
          BY <3>0, <4>2, <5>1
        <5>3. ASSUME i = Len(logs[k]) + 1 PROVE logs'[k][i].by = p
          <6>1. logs'[k][i] = [by |-> p, seq |-> handle[p].next, seal |-> TRUE]
            BY <3>0, <4>2, <5>1, <5>3
          <6> QED  BY <6>1
        <5>4. ASSUME i \in 1..Len(logs[k]) PROVE logs'[k][i] = logs[k][i]
          <6>1. \A e : Append(logs[k], e)[i] = logs[k][i]
            BY <5>1, <5>4, AppendKeeps
          <6> QED  BY <3>0, <4>2, <6>1
        <5> QED  BY <3>0, <3>5, <4>2, <5>2, <5>3, <5>4
      <4> QED  BY <4>1, <4>2
    <3>8. SingleWriter'
      BY <3>7 DEF SingleWriter
    <3> QED  BY <3>2, <3>3, <3>4, <3>7, <3>8 DEF OneClaim
  <2> QED  BY <1>a2, <2>0, <2>2
<1>8. OneAtATime'
  BY OneRuns DEF Seal, Append1, Goto, Exit, diskVars, procVars, IInv, TypeOK, Running
<1>9. Sequential'
  <2>1. Running(p) \/ overlap \/ \A q \in Procs : ~Running(q)
    BY DEF Seal, Append1, Goto, Exit, diskVars, procVars, Running
  <2>2. overlap' = overlap /\ \A q \in Procs \ {p} : pc'[q] = pc[q]
    BY DEF Seal, Append1, Goto, Exit, diskVars, procVars, IInv, TypeOK
  <2>3. ASSUME ~overlap PROVE Alone(p)'
    <3>1. CASE pc' = [pc EXCEPT ![p] = "done"]
      BY <3>1 DEF IInv, TypeOK, Alone, Logged, Linked, Writing
    <3>2. CASE pc' = [pc EXCEPT ![p] = "tally"] /\ Append1(p, TRUE)
      <4>1. /\ logFile \in 1..Len(logs) /\ logs[logFile] \in Seq(LogEvent)
            /\ handle[p].file = logFile /\ handle[p].next = Len(logs[logFile])
        BY <2>3 DEF IInv, TypeOK, Files, Sequential, Alone, Own, Seal, Logged, Linked, Writing
      <4>2. /\ logs'[logFile] = Append(logs[logFile], [by |-> p, seq |-> Len(logs[logFile]), seal |-> TRUE])
            /\ handle'[p].file = logFile /\ handle'[p].next = Len(logs[logFile]) + 1
        <5>1. TypeOK /\ TRUE \in BOOLEAN
          BY DEF IInv
        <5>2. /\ handle' = [handle EXCEPT ![p] = [file |-> handle[p].file, next |-> handle[p].next + 1]]
              /\ logs'[handle[p].file] = Append(logs[handle[p].file],
                                                [by |-> p, seq |-> handle[p].next, seal |-> TRUE])
          BY <1>a1, <3>2, <5>1, Append1Type
        <5>3. handle'[p] = [file |-> handle[p].file, next |-> handle[p].next + 1]
          BY <5>1, <5>2 DEF TypeOK
        <5> QED  BY <4>1, <5>2, <5>3
      <4>3. Intact(logs[logFile]) /\ \A i \in 1..Len(logs[logFile]) : logs[logFile][i].by = p
        BY <2>3 DEF IInv, Sequential, Alone, Own, Seal, Logged, Linked, Writing
      <4>4. Len(logs'[logFile]) = Len(logs[logFile]) + 1 /\ logs'[logFile] # <<>>
        BY <4>1, <4>2
      <4>5. Intact(logs'[logFile])
        BY <4>1, <4>2, <4>3, <4>4 DEF Intact
      <4>6. \A i \in 1..Len(logs'[logFile]) : logs'[logFile][i].by = p
        BY <4>1, <4>2, <4>3, <4>4
      <4>7. UNCHANGED <<dir, names, logFile, dbFile, rows, conn, held, left>>
        BY DEF Seal
      <4>8. pc'[p] \in {"done", "tally"}
        BY <3>2 DEF IInv, TypeOK, Seal, Goto
      <4>9. Own(p)'
        BY <2>3, <4>2, <4>4, <4>5, <4>6, <4>7 DEF IInv, Sequential, Alone, Own, Seal, Logged,
           Linked, Writing
      <4> QED  BY <2>3, <4>4, <4>7, <4>8, <4>9 DEF IInv, Sequential, Alone, Seal, Row, Logged,
                  Linked, Writing
    <3> QED  BY <1>a2, <3>1, <3>2
  <2> QED  BY <2>1, <2>2, <2>3, OthersRest
<1>10. Explained'
  BY <1>a1, <1>a2 DEF IInv, Seal, Append1, Goto, Exit, diskVars, procVars, TypeOK, Files,
     OneAtATime, Sequential, Alone, Own, Explained, Halfway, Running, Row, Logged, Linked,
     Writing
<1> QED  BY <1>1, <1>2, <1>3, <1>4, <1>5, <1>6, <1>8, <1>9, <1>10 DEF IInv

(* Tally: the last load_events. *)
LEMMA TallyIInv ==
  ASSUME IInv, NEW p \in Procs, Tally(p)
  PROVE  IInv'
<1>a1. Opened(p)
  BY DEF Tally, Opened
<1>a2. ~ScanFails =>
        /\ logFile' \in 1..Len(logs') /\ dir' # 0
        /\ handle' = [handle EXCEPT ![p] = [file |-> logFile', next |-> Len(logs'[logFile'])]]
        /\ "log" \in names => logs' = logs /\ logFile' = logFile
        /\ "log" \notin names => logs'[logFile'] = <<>>
        /\ names' = names \cup {"log"} /\ UNCHANGED <<dbFile, rows>>
        /\ dir # 0 => dir' = dir
  <2> HAVE ~ScanFails
  <2>1. OpenLog(p)
    BY DEF Tally
  <2>2. dir' # 0 /\ (dir # 0 => dir' = dir)
    BY <2>1, MakeDirType DEF IInv, OpenLog, MakeDir
  <2>3. names' = names \cup {"log"} /\ UNCHANGED <<dbFile, rows>>
    BY <2>1 DEF OpenLog
  <2> QED  BY <2>1, <2>2, <2>3, OpenLogType DEF IInv
<1>a3. ScanFails => UNCHANGED <<dir, dirs, names, logFile, logs, dbFile, rows, handle>>
  BY DEF Tally, diskVars
<1>1. TypeOK'
  <2>1. /\ pc' \in [Procs -> PCs] /\ diedAt' \in [Procs -> PCs \cup {"none"}]
        /\ exit' \in [Procs -> {"none", "ok", "usage", "platform", "bathos"}]
        /\ overlap' \in BOOLEAN /\ born' \in {"absent", "foreign"} /\ cleared' \in BOOLEAN
    BY DEF IInv, TypeOK, Tally, Goto, Exit, PCs
  <2>2. rows' \in Seq(Lineages) /\ dbFile' \in 0..Len(rows')
    BY <1>a1, OpenedType DEF IInv, TypeOK
  <2> QED  BY <1>a1, <2>1, <2>2, OpenedType DEF IInv, TypeOK
<1>2. Files'
  <2>1. ("log" \in names' => logFile' # 0) /\ ("db" \in names' => dbFile' # 0)
    BY <1>a1, <1>a2, <1>a3, OpenedType DEF IInv, Files
  <2>2. \A q \in Procs : /\ pc'[q] \in Logged => handle'[q].file # 0
                         /\ pc'[q] \in Linked => conn'[q] # 0
    <3>1. \A q \in Procs \ {p} : pc'[q] = pc[q]
      BY DEF IInv, TypeOK, Tally, Goto, Exit
    <3>2. pc'[p] \in Logged => handle'[p].file # 0
      BY <1>a2 DEF IInv, TypeOK, Tally, Goto, Exit, Logged, Linked, Writing
    <3>3. conn' = conn /\ (pc'[p] \in Linked => pc[p] \in Linked)
      BY DEF IInv, TypeOK, Tally, Goto, Exit, Linked, Writing
    <3> QED  BY <1>a1, <3>1, <3>2, <3>3, OpenedType DEF IInv, Files
  <2>3. \A q \in Procs : diedAt'[q] # "none" => pc'[q] = "dead"
    BY DEF IInv, TypeOK, Files, Tally, Goto, Exit
  <2> QED  BY <2>1, <2>2, <2>3 DEF Files, Logged, Linked, Writing
<1>3. Foreign'
  BY <1>a1, <1>a2, <1>a3 DEF IInv, Tally, ScanFails, OpenLog, MakeDir, Goto, Exit, diskVars,
     procVars, TypeOK, Foreign, ForeignKept, Row, Running
<1>4. ForeignKept'
  BY <1>a1, <1>a2, <1>a3 DEF IInv, Tally, ScanFails, OpenLog, MakeDir, Goto, Exit, diskVars,
     procVars, TypeOK, Foreign, ForeignKept, Row
<1>5. Uncleared'
  <2> SUFFICES ASSUME ~cleared' PROVE Uncleared'
    BY DEF Uncleared
  <2>1. ~cleared /\ \A q \in Procs : pc'[q] # "remove"
    BY DEF IInv, TypeOK, Uncleared, Tally, Goto, Exit
  <2>2. logs' # <<>> => "log" \in names' /\ Len(logs') = 1
    <3>1. CASE ScanFails
      BY <1>a3, <2>1, <3>1 DEF IInv, Uncleared
    <3>2. CASE ~ScanFails /\ "log" \in names
      BY <1>a2, <2>1, <3>2 DEF IInv, Uncleared
    <3>3. CASE ~ScanFails /\ "log" \notin names
      <4>1. logs = <<>> /\ logs' = Append(logs, <<>>)
        BY <2>1, <3>3 DEF IInv, Uncleared, Tally, OpenLog
      <4> QED  BY <1>a2, <3>3, <4>1
    <3> QED  BY <3>1, <3>2, <3>3
  <2>3. rows' # <<>> => "db" \in names' /\ Len(rows') = 1
    BY <1>a2, <1>a3, <2>1 DEF IInv, Uncleared
  <2> QED  BY <2>1, <2>2, <2>3 DEF Uncleared
<1>6. OneClaim' /\ OneWriterUnlessCleared'
  <2>1. \A q \in Procs : pc'[q] \in Writing => pc[q] \in Writing
    BY DEF Tally, ScanFails, OpenLog, MakeDir, Goto, Exit, diskVars, procVars, IInv, TypeOK, Writing
  <2>2. cleared => cleared'
    BY DEF Tally, ScanFails, OpenLog, MakeDir, Goto, Exit, diskVars, procVars
  <2>3. /\ rows' \in Seq(Lineages) /\ Len(rows') >= Len(rows)
        /\ rows # <<>> => rows'[1] = rows[1]
    BY <1>a2, <1>a3 DEF IInv, TypeOK
  <2>4. /\ Len(logs') \in Nat /\ Len(logs') >= Len(logs)
        /\ \A k \in 1..Len(logs) : logs'[k] = logs[k]
        /\ \A k \in 1..Len(logs') : k > Len(logs) => logs'[k] = <<>>
    BY <1>a1, OpenedType DEF IInv
  <2> QED  BY <2>1, <2>2, <2>3, <2>4, ClaimKept
<1>8. OneAtATime'
  BY OneRuns DEF Tally, ScanFails, OpenLog, MakeDir, Goto, Exit, diskVars, procVars, IInv,
     TypeOK, Running
<1>9. Sequential'
  <2>1. Running(p) \/ overlap \/ \A q \in Procs : ~Running(q)
    BY DEF Tally, ScanFails, OpenLog, MakeDir, Goto, Exit, diskVars, procVars, Running
  <2>2. overlap' = overlap /\ \A q \in Procs \ {p} : pc'[q] = pc[q]
    BY DEF Tally, ScanFails, OpenLog, MakeDir, Goto, Exit, diskVars, procVars, IInv, TypeOK
  <2>3. ASSUME ~overlap PROVE Alone(p)'
    <3>1. pc'[p] = "done"
      BY DEF IInv, TypeOK, Tally, Exit
    <3> QED  BY <3>1 DEF Alone, Logged, Linked, Writing
  <2> QED  BY <2>1, <2>2, <2>3, OthersRest
<1>10. Explained'
  BY <1>a1, <1>a2, <1>a3 DEF IInv, Tally, ScanFails, OpenLog, MakeDir, Goto, Exit, diskVars,
     procVars, TypeOK, Files, OneAtATime, Sequential, Alone, Own, Explained, Halfway, Running,
     Row, Logged, Linked, Writing
<1> QED  BY <1>1, <1>2, <1>3, <1>4, <1>5, <1>6, <1>8, <1>9, <1>10 DEF IInv

(* Crash: a death. *)
LEMMA CrashIInv ==
  ASSUME IInv, NEW p \in Procs, Crash(p)
  PROVE  IInv'
<1>1. TypeOK'
  BY DEF IInv, Crash, Running, diskVars, procVars, TypeOK, Files, PCs, Entries, Lineages,
     LogEvent, Logged, Linked, Writing
<1>2. Files'
  BY DEF IInv, Crash, Running, diskVars, procVars, TypeOK, Files, Logged, Linked, Writing
<1>3. Foreign'
  BY DEF IInv, Crash, Running, diskVars, procVars, TypeOK, Foreign, ForeignKept, Row
<1>4. ForeignKept'
  BY DEF IInv, Crash, Running, diskVars, procVars, TypeOK, Foreign, ForeignKept, Row
<1>5. Uncleared'
  BY DEF IInv, Crash, Running, diskVars, procVars, TypeOK, Files, Uncleared, Logged, Linked, Writing
<1>6. OneClaim' /\ OneWriterUnlessCleared'
  <2>1. \A q \in Procs : pc'[q] \in Writing => pc[q] \in Writing
    BY DEF Crash, Running, diskVars, procVars, IInv, TypeOK, Writing
  <2>2. cleared => cleared'
    BY DEF Crash, Running, diskVars, procVars
  <2>3. /\ rows' \in Seq(Lineages) /\ Len(rows') >= Len(rows)
        /\ rows # <<>> => rows'[1] = rows[1]
    BY DEF Crash, Running, diskVars, procVars, IInv, TypeOK
  <2>4. /\ Len(logs') \in Nat /\ Len(logs') >= Len(logs)
        /\ \A k \in 1..Len(logs) : logs'[k] = logs[k]
        /\ \A k \in 1..Len(logs') : k > Len(logs) => logs'[k] = <<>>
    BY DEF Crash, Running, diskVars, procVars, IInv, TypeOK
  <2> QED  BY <2>1, <2>2, <2>3, <2>4, ClaimKept
<1>8. OneAtATime'
  BY OneRuns DEF Crash, Running, diskVars, procVars, IInv, TypeOK
<1>9. Sequential'
  <2>1. Running(p) \/ overlap \/ \A q \in Procs : ~Running(q)
    BY DEF Crash, Running, diskVars, procVars
  <2>2. overlap' = overlap /\ \A q \in Procs \ {p} : pc'[q] = pc[q]
    BY DEF Crash, Running, diskVars, procVars, IInv, TypeOK
  <2>3. ASSUME ~overlap PROVE Alone(p)'
    BY <2>3 DEF Crash, Running, diskVars, procVars, IInv, TypeOK, Files, Sequential, Alone, Own,
       Row, Intact, Logged, Linked, Writing
  <2> QED  BY <2>1, <2>2, <2>3, OthersRest
<1>10. Explained'
  BY DEF IInv, Crash, Running, diskVars, procVars, TypeOK, Files, OneAtATime, Sequential, Alone,
     Own, Explained, Halfway, Row, Logged, Linked, Writing
<1> QED  BY <1>1, <1>2, <1>3, <1>4, <1>5, <1>6, <1>8, <1>9, <1>10 DEF IInv

(* Unlink: remove_dir_all removes an entry. *)
LEMMA UnlinkIInv ==
  ASSUME IInv, NEW p \in Procs, NEW x \in Entries, Unlink(p, x)
  PROVE  IInv'
<1>1. TypeOK'
  BY DEF IInv, TypeOK, Unlink
<1>2. Files'
  BY DEF IInv, Files, Unlink, Logged, Linked, Writing
<1>3. Foreign' /\ ForeignKept'
  BY DEF IInv, Foreign, ForeignKept, Unlink
<1>4. Uncleared' /\ OneClaim' /\ OneWriterUnlessCleared'
  <2>1. cleared'
    BY DEF IInv, Uncleared, Unlink, TypeOK
  <2> QED  BY <2>1 DEF Uncleared, OneClaim, OneWriterUnlessCleared
<1>5. OneAtATime'
  BY OneRuns DEF IInv, Unlink, Running
<1>6. Sequential'
  <2>1. Running(p) /\ overlap' = overlap /\ pc' = pc
    BY DEF Unlink, Running
  <2>2. ASSUME ~overlap PROVE Alone(p)'
    BY <2>2 DEF IInv, TypeOK, Sequential, Alone, Unlink, Logged, Linked, Writing
  <2> QED  BY <2>1, <2>2, OthersRest
<1>7. Explained'
  <2>1. pc'[p] \in Halfway
    BY DEF Unlink, Halfway
  <2> QED  BY <2>1 DEF Explained, Halfway
<1> QED  BY <1>1, <1>2, <1>3, <1>4, <1>5, <1>6, <1>7 DEF IInv

-----------------------------------------------------------------------------

(* The invariant holds of an absent and of a foreign directory. *)
LEMMA InitIInv ==
  ASSUME Init
  PROVE  IInv
<1>1. CASE born = "absent"
  <2>1. TypeOK
    <3>1. logs \in Seq(Seq(LogEvent)) /\ rows \in Seq(Lineages) /\ Len(logs) = 0 /\ Len(rows) = 0
      BY <1>1 DEF Init
    <3>2. /\ handle \in [Procs -> [file : 0..Len(logs), next : Nat]]
          /\ conn \in [Procs -> 0..Len(rows)]
          /\ held \in [Procs -> 0..dirs] /\ left \in [Procs -> SUBSET Entries]
      BY <1>1, <3>1 DEF Init
    <3>3. dirs \in Nat /\ dir \in 0..dirs /\ names \subseteq Entries /\ logFile = 0 /\ dbFile = 0
      BY <1>1 DEF Init
    <3> QED  BY <1>1, <3>1, <3>2, <3>3, ForkAssumption DEF Init, TypeOK, PCs
  <2>2. Files /\ Foreign /\ ForeignKept
    BY <1>1 DEF Init, Files, Foreign, ForeignKept, Logged, Linked, Writing
  <2>3. Uncleared /\ OneClaim /\ OneWriterUnlessCleared
    BY <1>1 DEF Init, Uncleared, OneClaim, OneWriterUnlessCleared, SingleWriter, Writing
  <2>4. OneAtATime /\ Sequential /\ Explained
    BY <1>1 DEF Init, OneAtATime, Running, Sequential, Alone, Explained, Logged, Linked, Writing
  <2> QED  BY <2>1, <2>2, <2>3, <2>4 DEF IInv
<1>2. CASE born = "foreign"
  <2> DEFINE e == [by |-> "foreign", seq |-> 0, seal |-> FALSE]
  <2>0. /\ dir = 1 /\ dirs = 1 /\ names = {"log", "db"} /\ rows = <<"foreign">>
        /\ logs = <<<<e>>>> /\ logFile = 1 /\ dbFile = 1
    BY <1>2 DEF Init
  <2>1. e \in LogEvent
    BY DEF LogEvent
  <2> HIDE DEF e
  <2>2. /\ logs \in Seq(Seq(LogEvent)) /\ Len(logs) = 1 /\ Len(logs[1]) = 1 /\ logs[1][1] = e
        /\ rows \in Seq(Lineages) /\ Len(rows) = 1 /\ rows[1] = "foreign"
    BY <2>0, <2>1 DEF Lineages
  <2>3. TypeOK
    <3>1. /\ handle \in [Procs -> [file : 0..Len(logs), next : Nat]]
          /\ conn \in [Procs -> 0..Len(rows)]
          /\ held \in [Procs -> 0..dirs] /\ left \in [Procs -> SUBSET Entries]
      BY <2>0, <2>2 DEF Init
    <3>2. dirs \in Nat /\ dir \in 0..dirs /\ names \subseteq Entries
      BY <2>0 DEF Entries
    <3>3. /\ pc \in [Procs -> PCs] /\ diedAt \in [Procs -> PCs \cup {"none"}]
          /\ exit \in [Procs -> {"none", "ok", "usage", "platform", "bathos"}]
          /\ overlap \in BOOLEAN /\ cleared \in BOOLEAN
      BY ForkAssumption DEF Init, PCs
    <3> QED  BY <1>2, <2>0, <2>2, <3>1, <3>2, <3>3 DEF TypeOK
  <2>4. Files /\ Foreign
    BY <2>0 DEF Init, Files, Foreign, Logged, Linked, Writing
  <2>5. ForeignKept
    BY <2>0, <2>2 DEF ForeignKept, e
  <2>6. Uncleared
    BY <2>0, <2>2 DEF Init, Uncleared
  <2>7. OneClaim /\ OneWriterUnlessCleared
    BY <2>0, <2>2 DEF Init, OneClaim, Unclaimed, OneWriterUnlessCleared, SingleWriter, Writing
  <2>8. OneAtATime /\ Sequential /\ Explained
    BY <1>2 DEF Init, OneAtATime, Running, Sequential, Alone, Explained, Logged, Linked, Writing
  <2> QED  BY <2>3, <2>4, <2>5, <2>6, <2>7, <2>8 DEF IInv
<1> QED  BY <1>1, <1>2 DEF Init

(* A stuttering step changes nothing the invariant reads. *)
LEMMA StutterIInv ==
  ASSUME IInv, UNCHANGED vars
  PROVE  IInv'
<1> USE DEF vars, diskVars, procVars
<1>1. TypeOK'
  BY DEF IInv, TypeOK
<1>2. Files' /\ Foreign' /\ ForeignKept'
  BY DEF IInv, Files, Foreign, ForeignKept, Logged, Linked, Writing
<1>3. Uncleared' /\ OneClaim' /\ OneWriterUnlessCleared'
  BY DEF IInv, Uncleared, OneClaim, Unclaimed, OneWriterUnlessCleared, SingleWriter, Writing
<1>4. OneAtATime' /\ Sequential' /\ Explained'
  BY DEF IInv, OneAtATime, Running, Sequential, Alone, Own, Intact, Row, Explained, Halfway,
         Logged, Linked, Writing
<1> QED  BY <1>1, <1>2, <1>3, <1>4 DEF IInv

(* The invariant is inductive. *)
LEMMA NextIInv ==
  ASSUME IInv, [Next]_vars
  PROVE  IInv'
<1>1. CASE UNCHANGED vars
  BY <1>1, StutterIInv
<1>2. CASE Next
  <2> PICK p \in Procs :
        \/ Begin(p) \/ ClearStale(p) \/ Lineage(p) \/ (\E x \in Entries : Unlink(p, x))
        \/ RemoveDir(p) \/ Exists(p) \/ Validate(p)
        \/ OpenSessionLog(p) \/ OpenMeter(p) \/ OpenWal(p) \/ WritePlan(p) \/ InsertSession(p)
        \/ Emit(p) \/ Persist(p) \/ Finish(p) \/ Reopen(p) \/ Seal(p) \/ Tally(p)
        \/ Crash(p)
    BY <1>2 DEF Next
  <2> QED
    BY BeginIInv, ClearStaleIInv, LineageIInv, UnlinkIInv, RemoveDirIInv, ExistsIInv,
       ValidateIInv, OpenSessionLogIInv, OpenMeterIInv, OpenWalIInv, WritePlanIInv,
       InsertSessionIInv, EmitIInv, PersistIInv, FinishIInv, ReopenIInv, SealIInv, TallyIInv,
       CrashIInv
<1> QED  BY <1>1, <1>2

(* The inductive invariant holds of every behaviour of the fork directory, *)
(* sequential or overlapping, with deaths between any two steps.           *)
THEOREM ForkInvariant == Spec => []IInv
<1>1. Init => IInv
  BY InitIInv
<1>2. IInv /\ [Next]_vars => IInv'
  BY NextIInv
<1> QED  BY <1>1, <1>2, PTL DEF Spec

(* Type correctness: every name, handle and connection of a replay process *)
(* leads to a file or database that was created.                           *)
THEOREM ForkType == Spec => []TypeOK
<1>1. IInv => TypeOK
  BY DEF IInv
<1> QED  BY <1>1, ForkInvariant, PTL

(* clear_stale_fork and open_session_runner never touch a directory that  *)
(* holds another session, whatever the number of replays.                 *)
THEOREM ForkForeignKept == Spec => []ForeignKept
<1>1. IInv => ForeignKept
  BY DEF IInv
<1> QED  BY <1>1, ForkInvariant, PTL

(* Replays that overlap without a clear: only the one whose insert_session *)
(* succeeded ever appends to the log.                                      *)
THEOREM ForkOneWriter == Spec => []OneWriterUnlessCleared
<1>1. IInv => OneWriterUnlessCleared
  BY DEF IInv
<1> QED  BY <1>1, ForkInvariant, PTL

(* Replays one after the other leave a directory that later ones refuse    *)
(* only by dying between the creation of the log and insert_session, or    *)
(* inside remove_dir_all.                                                  *)
THEOREM ForkBlocked == Spec => []BlockedOnlyByCrash
<1>1. IInv => BlockedOnlyByCrash
  <2> SUFFICES ASSUME IInv, ~overlap, born = "absent", dir # 0, Row # "fork",
                      \A p \in Procs : ~Running(p)
               PROVE  \E p \in Procs : diedAt[p] \in {"meter", "wal", "plan", "insert", "remove"}
    BY DEF BlockedOnlyByCrash
  <2>1. \A p \in Procs : pc[p] \notin Halfway
    BY DEF Running, Halfway
  <2> QED  BY <2>1 DEF IInv, Explained, Halfway
<1> QED  BY <1>1, ForkInvariant, PTL

(* Replays one after the other: the one that exits ok leaves a log with    *)
(* its own events only, intact from seq 0, and the row of the fork.        *)
THEOREM ForkFresh == Spec => FreshFork
<1>1. ASSUME IInv, [Next]_vars, NEW p \in Procs, ~overlap, exit[p] # "ok", exit'[p] = "ok"
      PROVE  /\ Row' = "fork"
             /\ logs'[logFile'] # <<>> /\ Intact(logs'[logFile'])
             /\ \A i \in 1..Len(logs'[logFile']) : logs'[logFile'][i].by = p
  <2>1. Tally(p) /\ OpenLog(p)
    <3>1. Next
      BY <1>1 DEF vars
    <3>2. PICK q \in Procs :
        \/ Begin(q) \/ ClearStale(q) \/ Lineage(q) \/ (\E x \in Entries : Unlink(q, x))
        \/ RemoveDir(q) \/ Exists(q) \/ Validate(q)
        \/ OpenSessionLog(q) \/ OpenMeter(q) \/ OpenWal(q) \/ WritePlan(q) \/ InsertSession(q)
        \/ Emit(q) \/ Persist(q) \/ Finish(q) \/ Reopen(q) \/ Seal(q) \/ Tally(q)
        \/ Crash(q)
      BY <3>1 DEF Next
    <3>3. exit' = exit \/ (\E b \in {"usage", "platform", "bathos"} : exit' = [exit EXCEPT ![q] = b])
            \/ Tally(q)
      BY <3>2 DEF Begin, ClearStale, Lineage, Unlink, RemoveDir, Exists, Validate, OpenSessionLog,
                  OpenMeter, OpenWal, WritePlan, InsertSession, Emit, Persist, Finish, Reopen, Seal,
                  Crash, Goto, Exit
    <3>4. Tally(q)
      BY <1>1, <3>3 DEF IInv, TypeOK
    <3>5. q = p
      BY <1>1, <3>4 DEF IInv, TypeOK, Tally, Exit
    <3> QED  BY <1>1, <3>4, <3>5 DEF IInv, TypeOK, Tally, Exit
  <2>2. /\ Own(p) /\ "db" \in names /\ Row = "fork" /\ logs[logFile] # <<>>
    BY <1>1, <2>1 DEF IInv, Sequential, Alone, Tally, Logged, Linked, Writing
  <2>3. UNCHANGED <<logs, logFile, dbFile, rows>> /\ "db" \in names'
    BY <2>1, <2>2 DEF OpenLog, Own
  <2> QED  BY <2>2, <2>3 DEF Own, Intact, Row
<1>2. IInv /\ [Next]_vars =>
        [\A p \in Procs : ~overlap /\ exit[p] # "ok" /\ exit'[p] = "ok" =>
           /\ Row' = "fork"
           /\ logs'[logFile'] # <<>> /\ Intact(logs'[logFile'])
           /\ \A i \in 1..Len(logs'[logFile']) : logs'[logFile'][i].by = p]_vars
  BY <1>1
<1> QED  BY <1>2, ForkInvariant, PTL DEF Spec, FreshFork

=============================================================================
