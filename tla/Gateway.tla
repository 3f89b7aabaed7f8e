------------------------------ MODULE Gateway ------------------------------
(***************************************************************************)
(* The read-only gateway: the store behind CorePort (stub.rs), the event   *)
(* pages of HTTP-2 (routes/sessions.rs), the WebSocket stream of HTTP-3    *)
(* (stream.rs) and the timeline page D2 (ui/mod.rs), for one session and   *)
(* clients that follow it.                                                 *)
(*                                                                         *)
(* A client is external: its script is not in the repository.  It does     *)
(* what docs/trace-render-spec.md says: load D2 or the first page, page    *)
(* on until a short page, subscribe, and after a disconnect page from its  *)
(* last seq and subscribe again.                                           *)
(***************************************************************************)
EXTENDS TraceViews

CONSTANTS
  Clients,
  Kinds,            \* event kinds the session emits
  MaxEvents,        \* bound: events of the session
  EventsLimit,      \* EVENTS_LIMIT_MAX: events of a page
  FanoutCapacity,   \* FANOUT_CAPACITY: the broadcast ring of a subscriber
  SocketCapacity    \* frames a socket takes before send waits

ASSUME GatewayAssumption ==
  MaxEvents \in Nat /\ {EventsLimit, FanoutCapacity, SocketCapacity} \subseteq Nat \ {0}

VARIABLES
  registered,   \* Inner.sessions has the session
  log,          \* Inner.events: seq k is at position k + 1
  rx,           \* the receivers of Inner.fans: what each still has to read
  wire,         \* frames on each client's socket
  pc,           \* where each client stands
  view,         \* the seqs each client shows, in the order it got them
  window        \* history: seqs pushed between a client's last page and its subscription

vars == <<registered, log, rx, wire, pc, view, window>>
clientVars == <<rx, wire, pc, view>>

NoRx == [open |-> FALSE, queue |-> <<>>, lagged |-> FALSE]
NewRx == [NoRx EXCEPT !.open = TRUE]

(* Frames on a socket. *)
Text(seq) == <<seq>>
Close == <<>>

Init ==
  /\ registered = FALSE /\ log = <<>>
  /\ rx = [c \in Clients |-> NoRx]
  /\ wire = [c \in Clients |-> <<>>]
  /\ pc = [c \in Clients |-> "idle"]
  /\ view = [c \in Clients |-> <<>>]
  /\ window = [c \in Clients |-> {}]

-----------------------------------------------------------------------------
(* The store.  Every operation holds its lock. *)

AddSession ==
  /\ ~registered /\ registered' = TRUE
  /\ UNCHANGED <<log, clientVars, window>>

(* broadcast: a full ring drops its oldest event, and the receiver's next    *)
(* recv says so first.                                                       *)
Send(r, seq) ==
  IF ~r.open THEN r
  ELSE IF Len(r.queue) < FanoutCapacity THEN [r EXCEPT !.queue = Append(@, seq)]
  ELSE [r EXCEPT !.queue = Append(Tail(@), seq), !.lagged = TRUE]

(* push: the next seq, to the subscribers there are and to the log. *)
Push(kind) ==
  /\ Len(log) < MaxEvents
  /\ rx' = [c \in Clients |-> Send(rx[c], Len(log))]
  /\ log' = Append(log, [kind |-> kind])
  /\ window' = [c \in Clients |-> IF pc[c] = "synced" THEN window[c] \cup {Len(log)} ELSE window[c]]
  /\ UNCHANGED <<registered, wire, pc, view>>

(* Exclusive cursor: absent is from seq 0, n is from n + 1. *)
Start(after) == IF after = <<>> THEN 0 ELSE after[1] + 1

Smaller(a, b) == IF a < b THEN a ELSE b

(* CorePort::events: at most limit seqs from the cursor on. *)
Events(after, limit) ==
  LET start == Start(after)
      n == Smaller(limit, IF Len(log) > start THEN Len(log) - start ELSE 0)
  IN  [i \in 1..n |-> start + i - 1]

(* parse_limit: absent is the maximum, zero and more than it are refused. *)
LimitOk(limit) == limit \in 1..EventsLimit

-----------------------------------------------------------------------------
(* Requests. *)

Last(s) == IF s = <<>> THEN <<>> ELSE <<s[Len(s)]>>

(* D2: an unknown session is 404 and one without events 503, and the client  *)
(* may try again; else the first page (its rows are D2Rows).                 *)
D2(c) ==
  /\ pc[c] = "idle" /\ registered /\ log # <<>>
  /\ view' = [view EXCEPT ![c] = Events(<<>>, EventsLimit)]
  /\ pc' = [pc EXCEPT ![c] = "paging"]
  /\ UNCHANGED <<registered, log, rx, wire, window>>

(* GET events?after=<last seen>; a session without events is 404.  The page  *)
(* is full, and the client asks again, or it is the last one.                *)
GetEvents(c, limit) ==
  /\ pc[c] \in {"idle", "paging"} /\ log # <<>> /\ LimitOk(limit)
  /\ LET next == Events(Last(view[c]), limit) IN
     /\ view' = [view EXCEPT ![c] = @ \o next]
     /\ pc' = [pc EXCEPT ![c] = IF Len(next) = limit THEN "paging" ELSE "synced"]
  /\ UNCHANGED <<registered, log, rx, wire, window>>

(* ws: an unknown session is 404 before the upgrade. *)
Subscribe(c) ==
  /\ pc[c] = "synced" /\ registered
  /\ rx' = [rx EXCEPT ![c] = NewRx]
  /\ pc' = [pc EXCEPT ![c] = "live"]
  /\ UNCHANGED <<registered, log, wire, view, window>>

-----------------------------------------------------------------------------
(* The stream. *)

(* Mutant: a lagging subscriber is told nothing and goes on. *)
SkippingForward(c) ==
  /\ rx[c].open /\ rx[c].queue # <<>> /\ Len(wire[c]) < SocketCapacity
  /\ wire' = [wire EXCEPT ![c] = Append(@, Text(Head(rx[c].queue)))]
  /\ rx' = [rx EXCEPT ![c] = [@ EXCEPT !.queue = Tail(@), !.lagged = FALSE]]
  /\ UNCHANGED <<registered, log, pc, view, window>>

(* Mutant: a lag ends the task and leaves the connection as it is. *)
SilentForward(c) ==
  /\ rx[c].open /\ Len(wire[c]) < SocketCapacity
  /\ \/ /\ rx[c].lagged
        /\ rx' = [rx EXCEPT ![c] = NoRx]
        /\ UNCHANGED wire
     \/ /\ ~rx[c].lagged /\ rx[c].queue # <<>>
        /\ wire' = [wire EXCEPT ![c] = Append(@, Text(Head(rx[c].queue)))]
        /\ rx' = [rx EXCEPT ![c].queue = Tail(@)]
  /\ UNCHANGED <<registered, log, pc, view, window>>

(* forward: recv, then send, which waits for the socket.  A lag closes the   *)
(* connection and ends the task.                                             *)
Forward(c) ==
  /\ rx[c].open /\ Len(wire[c]) < SocketCapacity
  /\ \/ /\ rx[c].lagged
        /\ wire' = [wire EXCEPT ![c] = Append(@, Close)]
        /\ rx' = [rx EXCEPT ![c] = NoRx]
     \/ /\ ~rx[c].lagged /\ rx[c].queue # <<>>
        /\ wire' = [wire EXCEPT ![c] = Append(@, Text(Head(rx[c].queue)))]
        /\ rx' = [rx EXCEPT ![c].queue = Tail(@)]
  /\ UNCHANGED <<registered, log, pc, view, window>>

(* The client reads a frame; a close starts its recovery. *)
Receive(c) ==
  /\ pc[c] = "live" /\ wire[c] # <<>>
  /\ wire' = [wire EXCEPT ![c] = Tail(@)]
  /\ IF Head(wire[c]) = Close
     THEN pc' = [pc EXCEPT ![c] = "paging"] /\ UNCHANGED view
     ELSE view' = [view EXCEPT ![c] = @ \o Head(wire[c])] /\ UNCHANGED pc
  /\ UNCHANGED <<registered, log, rx, window>>

(* The connection breaks: frames on it are lost, the task ends at its next   *)
(* send, and the client recovers.                                            *)
Drop(c) ==
  /\ pc[c] = "live"
  /\ rx' = [rx EXCEPT ![c] = NoRx]
  /\ wire' = [wire EXCEPT ![c] = <<>>]
  /\ pc' = [pc EXCEPT ![c] = "paging"]
  /\ UNCHANGED <<registered, log, view, window>>

ClientStep(c) ==
  (\E limit \in 0..(EventsLimit + 1) : GetEvents(c, limit)) \/ Subscribe(c) \/ Receive(c)

Next ==
  \/ AddSession \/ \E kind \in Kinds : Push(kind)
  \/ \E c \in Clients : D2(c) \/ ClientStep(c) \/ Forward(c) \/ Drop(c)

Spec == Init /\ [][Next]_vars

(* The server's tasks and the client's loop keep running; nothing forces an  *)
(* event, a lag or a broken connection.                                      *)
FairSpec == Spec /\ \A c \in Clients : WF_vars(ClientStep(c)) /\ WF_vars(Forward(c))

-----------------------------------------------------------------------------

Shown(c) == {view[c][i] : i \in 1..Len(view[c])}

(* A client shows no event twice or out of order, and of the events up to    *)
(* its newest it misses only those pushed after its last page and before its *)
(* subscription took effect: no lag of the ring, no broken connection and no *)
(* page boundary loses another ("catch-up is always safe", stream.rs).       *)
MissesOnlyWindow ==
  \A c \in Clients :
    /\ \A i, j \in 1..Len(view[c]) : i < j => view[c][i] < view[c][j]
    /\ view[c] # <<>> => (0..view[c][Len(view[c])]) \ Shown(c) \subseteq window[c]

(* The dashboard's timeline folds like `trace show` ("Render initial rows    *)
(* with the CLI's exact rules"): the two implementations give the same rows  *)
(* for the same events, and a filter shows its events exactly.               *)
ViewsAgree ==
  /\ D2Rows(log, "all") = CliRows(log)
  /\ \A filter \in {"gate", "handoff", "budget"} :
       {D2Rows(log, filter)[i].seq : i \in 1..Len(D2Rows(log, filter))} =
         {i \in 1..Len(log) : Matches(filter, log[i])}

(* Every event a following client has not missed in that window reaches it,  *)
(* through lags, closes and broken connections.                              *)
Reaches ==
  \A c \in Clients : \A k \in 0..(MaxEvents - 1) :
    (pc[c] # "idle" /\ k < Len(log)) ~> (k \in Shown(c) \cup window[c])
=============================================================================
