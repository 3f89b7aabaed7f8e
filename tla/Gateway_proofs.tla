--------------------------- MODULE Gateway_proofs ---------------------------
(***************************************************************************)
(* For any clients, page size, ring and socket: what a client of the       *)
(* gateway can miss, and that the two timelines are the same function of   *)
(* the events.                                                             *)
(*                                                                         *)
(* For each client there is a seq up to which it has everything but its    *)
(* window; what is on its socket, and then in its ring unless that lagged, *)
(* goes on from there without a gap (Caught).                              *)
(*                                                                         *)
(* The timelines are recursive functions over the events.  Their loops are *)
(* compared turn by turn (SameStep), by induction over sets of naturals;   *)
(* Recursion shows that a loop's definition computes it.                   *)
(***************************************************************************)
EXTENDS Gateway, TraceFolds, SequenceTheorems

(* The state's types. *)
Receivers == [open : BOOLEAN, queue : Seq(Nat), lagged : BOOLEAN]

Typed ==
  /\ log \in Seq([kind : Kinds])
  /\ rx \in [Clients -> Receivers]
  /\ wire \in [Clients -> Seq(Seq(Nat))]
  /\ pc \in [Clients -> {"idle", "paging", "synced", "live"}]
  /\ view \in [Clients -> Seq(Nat)]
  /\ window \in [Clients -> SUBSET Nat]

(* The view is in order and ends before seq j, and what it misses before j *)
(* is in the window w.                                                     *)
Covers(v, w, j) ==
  /\ \A i, k \in 1..Len(v) : i < k => v[i] < v[k]
  /\ \A i \in 1..Len(v) : v[i] < j
  /\ \A s \in Nat : s < j => s \in w \/ \E i \in 1..Len(v) : v[i] = s

(* Frames that go on from seq j, with a close at the end once the receiver *)
(* is gone.                                                                *)
Flows(r, f, j, n) ==
  /\ \A i \in 1..Len(f) : (f[i] = Text(j + i - 1) /\ j + i <= n) \/ (f[i] = Close /\ i = Len(f) /\ ~r.open)
  /\ r.open /\ ~r.lagged =>
       /\ j + Len(f) + Len(r.queue) = n
       /\ \A i \in 1..Len(r.queue) : r.queue[i] = j + Len(f) + i - 1

(* A client has everything before a seq j, but for its window, and what is *)
(* on its way goes on from j.                                              *)
Caught(c) ==
  /\ pc[c] # "live" => ~rx[c].open /\ wire[c] = <<>>
  /\ pc[c] = "idle" => view[c] = <<>>
  /\ \E j \in 0..Len(log) :
       /\ Covers(view[c], window[c], j)
       /\ pc[c] = "synced" => j = Len(log)
       /\ pc[c] = "live" => Flows(rx[c], wire[c], j, Len(log))

IInv == Typed /\ \A c \in Clients : Caught(c)

-----------------------------------------------------------------------------
(* A view that is continued without a gap. *)
LEMMA CoversMore ==
  ASSUME NEW v \in Seq(Nat), NEW w, NEW j \in Nat, Covers(v, w, j),
         NEW start \in Nat, start <= j, \A i \in 1..Len(v) : v[i] < start,
         NEW e \in Seq(Nat), \A i \in 1..Len(e) : e[i] = start + i - 1
  PROVE  Covers(v \o e, w, start + Len(e))
<1> DEFINE u == v \o e
           a == Len(v)
           b == Len(e)
<1>1. /\ u \in Seq(Nat) /\ Len(u) = a + b /\ a \in Nat /\ b \in Nat
      /\ \A i \in 1..a : u[i] = v[i]
      /\ \A i \in (a + 1)..(a + b) : u[i] = e[i - a]
  BY ConcatProperties
<1> HIDE DEF u
<1>2. ASSUME NEW i \in 1..(a + b), ~(i \in 1..a)
      PROVE  i - a \in 1..b /\ i \in (a + 1)..(a + b)
  BY <1>1, <1>2
<1> HIDE DEF a, b
<1>3. ASSUME NEW i \in 1..(a + b), ~(i \in 1..a) PROVE u[i] = start + (i - a) - 1
  BY <1>1, <1>2, <1>3 DEF b
<1>4. \A i \in 1..a : u[i] < start /\ u[i] \in Nat
  <2>1. \A i \in 1..a : v[i] < start /\ v[i] \in Nat
    BY DEF a
  <2> QED  BY <1>1, <2>1
<1>5. ASSUME NEW i \in 1..(a + b), NEW k \in 1..(a + b), i < k PROVE u[i] < u[k]
  <2>1. CASE k \in 1..a
    <3>1. i \in 1..a
      BY <1>1, <1>5, <2>1
    <3> QED  BY <1>1, <1>5, <2>1, <3>1 DEF Covers, a
  <2>2. CASE i \in 1..a /\ ~(k \in 1..a)
    <3>1. u[k] = start + (k - a) - 1 /\ k - a \in 1..b
      BY <1>2, <1>3, <2>2
    <3>2. u[i] < start /\ u[i] \in Nat
      BY <1>4, <2>2
    <3> QED  BY <1>1, <3>1, <3>2
  <2>3. CASE ~(i \in 1..a) /\ ~(k \in 1..a)
    <3>1. u[i] = start + (i - a) - 1 /\ u[k] = start + (k - a) - 1
      BY <1>3, <2>3
    <3> QED  BY <1>1, <1>5, <3>1
  <2> QED  BY <1>1, <1>5, <2>1, <2>2, <2>3
<1>6. ASSUME NEW i \in 1..(a + b) PROVE u[i] < start + b
  <2>1. CASE i \in 1..a
    BY <1>1, <1>4, <2>1
  <2>2. CASE ~(i \in 1..a)
    <3>1. u[i] = start + (i - a) - 1 /\ i - a \in 1..b
      BY <1>2, <1>3, <2>2
    <3> QED  BY <1>1, <3>1
  <2> QED  BY <2>1, <2>2
<1>7. ASSUME NEW s \in Nat, s < start + b PROVE s \in w \/ \E i \in 1..(a + b) : u[i] = s
  <2>1. CASE s < start
    <3>1. s < j
      BY <2>1
    <3>2. s \in w \/ \E i \in 1..a : v[i] = s
      BY <3>1 DEF Covers, a
    <3>3. \A i \in 1..a : i \in 1..(a + b) /\ u[i] = v[i]
      BY <1>1
    <3> QED  BY <3>2, <3>3
  <2>2. CASE ~(s < start)
    <3> DEFINE i == a + (s - start) + 1
    <3>1. i \in 1..(a + b) /\ ~(i \in 1..a) /\ start + (i - a) - 1 = s
      BY <1>1, <1>7, <2>2
    <3> HIDE DEF i
    <3> QED  BY <1>3, <3>1
  <2> QED  BY <2>1, <2>2
<1>8. Covers(u, w, start + b)
  BY <1>1, <1>5, <1>6, <1>7 DEF Covers
<1> QED  BY <1>8 DEF u, b

(* The socket and the ring take what is pushed, unless the ring lags. *)
LEMMA FlowsPush ==
  ASSUME NEW r \in Receivers, NEW f \in Seq(Seq(Nat)), NEW j \in Nat, NEW n \in Nat,
         Flows(r, f, j, n)
  PROVE  Flows(Send(r, n), f, j, n + 1) /\ Send(r, n) \in Receivers
<1>1. FanoutCapacity \in Nat /\ FanoutCapacity > 0 /\ r.queue \in Seq(Nat) /\ Len(r.queue) \in Nat
      /\ Len(f) \in Nat
  BY GatewayAssumption DEF Receivers
<1>2. \A i \in 1..Len(f) : j + i <= n => j + i <= n + 1
  BY <1>1
<1>3. CASE ~r.open
  BY <1>2, <1>3 DEF Send, Flows
<1>4. CASE r.open /\ Len(r.queue) < FanoutCapacity
  <2> DEFINE q == Append(r.queue, n)
  <2>1. Send(r, n) = [r EXCEPT !.queue = q]
    BY <1>4 DEF Send
  <2>2. /\ q \in Seq(Nat) /\ Len(q) = Len(r.queue) + 1 /\ q[Len(r.queue) + 1] = n
        /\ \A i \in 1..Len(r.queue) : q[i] = r.queue[i]
    BY <1>1
  <2> HIDE DEF q
  <2>3. /\ Send(r, n) \in Receivers /\ Send(r, n).open = r.open /\ Send(r, n).lagged = r.lagged
        /\ Send(r, n).queue = q
    BY <2>1, <2>2 DEF Receivers
  <2>4. ASSUME ~r.lagged
        PROVE  /\ j + Len(f) + Len(q) = n + 1
               /\ \A i \in 1..Len(q) : q[i] = j + Len(f) + i - 1
    <3>1. /\ j + Len(f) + Len(r.queue) = n
          /\ \A i \in 1..Len(r.queue) : r.queue[i] = j + Len(f) + i - 1
      BY <1>4, <2>4 DEF Flows
    <3>2. j + Len(f) + Len(q) = n + 1 /\ n = j + Len(f) + (Len(r.queue) + 1) - 1
      <4>1. \A x, y, z \in Nat : /\ x + y + (z + 1) = (x + y + z) + 1
                                /\ x + y + z = x + y + (z + 1) - 1
        OBVIOUS
      <4>2. Len(f) \in Nat /\ Len(r.queue) \in Nat
        BY <1>1
      <4>3. /\ j + Len(f) + (Len(r.queue) + 1) = (j + Len(f) + Len(r.queue)) + 1
            /\ j + Len(f) + Len(r.queue) = j + Len(f) + (Len(r.queue) + 1) - 1
        BY <4>1, <4>2
      <4> HIDE DEF q
      <4> QED  BY <2>2, <3>1, <4>3
    <3>3. \A i \in 1..Len(q) : i \in 1..Len(r.queue) \/ i = Len(r.queue) + 1
      BY <1>1, <2>2
    <3> QED  BY <2>2, <3>1, <3>2, <3>3
  <2> QED  BY <1>2, <2>3, <2>4 DEF Flows
<1>5. CASE r.open /\ ~(Len(r.queue) < FanoutCapacity)
  <2> DEFINE q == Append(Tail(r.queue), n)
  <2>1. Send(r, n) = [r EXCEPT !.queue = q, !.lagged = TRUE]
    BY <1>5 DEF Send
  <2>2. q \in Seq(Nat)
    <3>1. r.queue # <<>>
      BY <1>1, <1>5
    <3>2. Tail(r.queue) \in Seq(Nat)
      BY <1>1, <3>1
    <3> QED  BY <3>2
  <2> HIDE DEF q
  <2>3. Send(r, n) \in Receivers /\ Send(r, n).open = r.open /\ Send(r, n).lagged = TRUE
    BY <2>1, <2>2 DEF Receivers
  <2> QED  BY <1>2, <2>3 DEF Flows
<1> QED  BY <1>3, <1>4, <1>5

(* The next frame is that of seq j, or the close. *)
LEMMA FlowsReceive ==
  ASSUME NEW r \in Receivers, NEW f \in Seq(Seq(Nat)), NEW j \in Nat, NEW n \in Nat,
         Flows(r, f, j, n), f # <<>>
  PROVE  /\ Head(f) = Close => Tail(f) = <<>> /\ ~r.open
         /\ Head(f) # Close => Head(f) = Text(j) /\ j + 1 <= n /\ Flows(r, Tail(f), j + 1, n)
<1>1. /\ Len(f) \in Nat /\ Len(f) > 0 /\ Head(f) = f[1] /\ 1 \in 1..Len(f)
      /\ Tail(f) \in Seq(Seq(Nat)) /\ Len(Tail(f)) = Len(f) - 1
      /\ \A i \in 1..(Len(f) - 1) : Tail(f)[i] = f[i + 1]
  OBVIOUS
<1>2. j + 1 - 1 = j
  OBVIOUS
<1>3. (f[1] = Text(j) /\ j + 1 <= n) \/ (f[1] = Close /\ 1 = Len(f) /\ ~r.open)
  BY <1>1, <1>2 DEF Flows
<1>4. Text(j) # Close
  BY DEF Text, Close
<1>5. ASSUME Head(f) = Close PROVE Tail(f) = <<>> /\ ~r.open
  <2>1. Len(f) = 1 /\ ~r.open
    BY <1>1, <1>3, <1>4, <1>5
  <2>2. Len(Tail(f)) = 0
    BY <1>1, <2>1
  <2>3. \A t \in Seq(Seq(Nat)) : Len(t) = 0 => t = <<>>
    OBVIOUS
  <2>4. Tail(f) \in Seq(Seq(Nat))
    BY <1>1
  <2> QED  BY <2>1, <2>2, <2>3, <2>4
<1>6. ASSUME Head(f) # Close PROVE Flows(r, Tail(f), j + 1, n)
  <2>1. ASSUME NEW i \in 1..(Len(f) - 1)
        PROVE  \/ Tail(f)[i] = Text((j + 1) + i - 1) /\ (j + 1) + i <= n
               \/ Tail(f)[i] = Close /\ i = Len(f) - 1 /\ ~r.open
    <3>1. i + 1 \in 1..Len(f) /\ Tail(f)[i] = f[i + 1]
      BY <1>1
    <3>2. \/ f[i + 1] = Text(j + (i + 1) - 1) /\ j + (i + 1) <= n
          \/ f[i + 1] = Close /\ i + 1 = Len(f) /\ ~r.open
      BY <3>1 DEF Flows
    <3>3. /\ j + (i + 1) - 1 = (j + 1) + i - 1 /\ j + (i + 1) = (j + 1) + i
          /\ (i + 1 = Len(f) => i = Len(f) - 1)
      <4>1. \A x, y, z \in Nat : /\ x + (y + 1) - 1 = (x + 1) + y - 1 /\ x + (y + 1) = (x + 1) + y
                                /\ (y + 1 = z => y = z - 1)
        OBVIOUS
      <4>2. i \in Nat /\ Len(f) \in Nat
        BY <1>1
      <4> QED  BY <4>1, <4>2
    <3> QED  BY <3>1, <3>2, <3>3
  <2>2. (j + 1) + (Len(f) - 1) = j + Len(f)
    BY <1>1
  <2> QED  BY <1>1, <2>1, <2>2 DEF Flows
<1> QED  BY <1>1, <1>3, <1>5, <1>6

(* forward appends the next frame, or the close. *)
LEMMA FlowsForward ==
  ASSUME NEW r \in Receivers, NEW f \in Seq(Seq(Nat)), NEW j \in Nat, NEW n \in Nat,
         Flows(r, f, j, n), r.open
  PROVE  /\ Flows(NoRx, Append(f, Close), j, n) /\ Append(f, Close) \in Seq(Seq(Nat))
         /\ ~r.lagged /\ r.queue # <<>> =>
              LET s == [r EXCEPT !.queue = Tail(@)]
                  g == Append(f, Text(Head(r.queue)))
              IN  Flows(s, g, j, n) /\ s \in Receivers /\ g \in Seq(Seq(Nat))
<1>1. Len(f) \in Nat /\ r.queue \in Seq(Nat) /\ Len(r.queue) \in Nat
  BY DEF Receivers
<1>2. \A i \in 1..Len(f) : f[i] = Text(j + i - 1) /\ j + i <= n
  BY DEF Flows
<1>3. ASSUME NEW x \in Seq(Nat)
      PROVE  /\ Append(f, x) \in Seq(Seq(Nat)) /\ Len(Append(f, x)) = Len(f) + 1
             /\ \A i \in 1..Len(f) : Append(f, x)[i] = f[i]
             /\ Append(f, x)[Len(f) + 1] = x
  BY <1>1, AppendProperties
<1>4. \A i \in 1..(Len(f) + 1) : i \in 1..Len(f) \/ i = Len(f) + 1
  BY <1>1
<1>5. Flows(NoRx, Append(f, Close), j, n) /\ Append(f, Close) \in Seq(Seq(Nat))
  <2> DEFINE g == Append(f, Close)
  <2>1. Close \in Seq(Nat)
    BY DEF Close
  <2>2. /\ g \in Seq(Seq(Nat)) /\ Len(g) = Len(f) + 1 /\ g[Len(f) + 1] = Close
        /\ \A i \in 1..Len(f) : g[i] = f[i]
    BY <1>3, <2>1
  <2>3. ~NoRx.open
    BY DEF NoRx
  <2> HIDE DEF g
  <2>4. Flows(NoRx, g, j, n)
    BY <1>2, <1>4, <2>2, <2>3 DEF Flows
  <2> QED  BY <2>2, <2>4 DEF g
<1>6. ASSUME ~r.lagged, r.queue # <<>>
      PROVE  LET s == [r EXCEPT !.queue = Tail(@)]
                 g == Append(f, Text(Head(r.queue)))
             IN  Flows(s, g, j, n) /\ s \in Receivers /\ g \in Seq(Seq(Nat))
  <2> DEFINE s == [r EXCEPT !.queue = Tail(@)]
             x == Text(Head(r.queue))
             g == Append(f, x)
  <2>1. /\ Len(r.queue) > 0 /\ Head(r.queue) = r.queue[1] /\ Head(r.queue) \in Nat
        /\ Tail(r.queue) \in Seq(Nat) /\ Len(Tail(r.queue)) = Len(r.queue) - 1
        /\ \A i \in 1..(Len(r.queue) - 1) : Tail(r.queue)[i] = r.queue[i + 1]
    BY <1>1, <1>6
  <2>2. /\ j + Len(f) + Len(r.queue) = n
        /\ \A i \in 1..Len(r.queue) : r.queue[i] = j + Len(f) + i - 1
    BY <1>6 DEF Flows
  <2>3. Head(r.queue) = j + Len(f)
    <3>1. 1 \in 1..Len(r.queue) /\ j + Len(f) + 1 - 1 = j + Len(f)
      BY <1>1, <2>1
    <3> QED  BY <2>1, <2>2, <3>1
  <2>4. x \in Seq(Nat)
    BY <2>1 DEF Text
  <2>5. /\ g \in Seq(Seq(Nat)) /\ Len(g) = Len(f) + 1 /\ g[Len(f) + 1] = x
        /\ \A i \in 1..Len(f) : g[i] = f[i]
    BY <1>3, <2>4
  <2>6. /\ s \in Receivers /\ s.open = r.open /\ s.lagged = r.lagged /\ s.queue = Tail(r.queue)
    BY <2>1 DEF Receivers
  <2>7. x = Text(j + (Len(f) + 1) - 1) /\ j + (Len(f) + 1) <= n
    <3>1. j + (Len(f) + 1) - 1 = j + Len(f) /\ j + (Len(f) + 1) <= n
      <4>1. \A k, y, z \in Nat : k + (y + 1) - 1 = k + y /\ (z > 0 => k + (y + 1) <= k + y + z)
        OBVIOUS
      <4>2. Len(f) \in Nat /\ Len(r.queue) \in Nat /\ Len(r.queue) > 0
        BY <1>1, <2>1
      <4>3. j + (Len(f) + 1) - 1 = j + Len(f) /\ j + (Len(f) + 1) <= j + Len(f) + Len(r.queue)
        BY <4>1, <4>2
      <4> QED  BY <2>2, <4>3
    <3> QED  BY <2>3, <3>1
  <2>8. j + Len(g) + Len(s.queue) = n
    BY <1>1, <2>1, <2>2, <2>5, <2>6
  <2>9. ASSUME NEW i \in 1..Len(s.queue) PROVE s.queue[i] = j + Len(g) + i - 1
    <3>1. i \in 1..(Len(r.queue) - 1) /\ i + 1 \in 1..Len(r.queue)
      BY <1>1, <2>1, <2>6
    <3>2. s.queue[i] = j + Len(f) + (i + 1) - 1
      BY <2>1, <2>2, <2>6, <3>1
    <3>3. j + Len(f) + (i + 1) - 1 = j + Len(g) + i - 1
      BY <1>1, <2>5
    <3> QED  BY <3>2, <3>3
  <2> HIDE DEF s, x, g
  <2>10. \A i \in 1..Len(g) : g[i] = Text(j + i - 1) /\ j + i <= n
    BY <1>2, <1>4, <2>5, <2>7
  <2>11. Flows(s, g, j, n)
    BY <2>8, <2>9, <2>10 DEF Flows
  <2> QED  BY <2>5, <2>6, <2>11 DEF s, x, g
<1> QED  BY <1>5, <1>6

-----------------------------------------------------------------------------
(* A page: the seqs from the cursor on, and a short one reaches the end. *)
LEMMA Page ==
  ASSUME NEW after, Start(after) \in Nat, log \in Seq([kind : Kinds]), Start(after) <= Len(log),
         NEW limit \in Nat
  PROVE  LET e == Events(after, limit) IN
         /\ e \in Seq(Nat) /\ \A i \in 1..Len(e) : e[i] = Start(after) + i - 1
         /\ Start(after) + Len(e) <= Len(log)
         /\ Len(e) # limit => Start(after) + Len(e) = Len(log)
<1> DEFINE start == Start(after)
           n == Smaller(limit, IF Len(log) > start THEN Len(log) - start ELSE 0)
<1>1. start \in Nat /\ Len(log) \in Nat /\ start <= Len(log)
  OBVIOUS
<1> HIDE DEF start
<1>2. /\ n \in Nat /\ start + n <= Len(log) /\ (n # limit => start + n = Len(log))
  BY <1>1 DEF Smaller
<1>3. Events(after, limit) = [i \in 1..n |-> start + i - 1]
  BY DEF Events, start
<1> HIDE DEF n
<1>4. \A i \in 1..n : start + i - 1 \in Nat
  BY <1>1, <1>2
<1> DEFINE e == [i \in 1..n |-> start + i - 1]
<1>5. e \in Seq(Nat) /\ Len(e) = n /\ \A i \in 1..n : e[i] = start + i - 1
  BY <1>2, <1>4
<1> HIDE DEF e
<1> QED  BY <1>2, <1>3, <1>5 DEF e, start

(* The cursor of a view is the seq after its newest. *)
LEMMA Cursor ==
  ASSUME NEW v \in Seq(Nat), NEW w, NEW j \in Nat, Covers(v, w, j)
  PROVE  /\ Start(Last(v)) \in Nat /\ Start(Last(v)) <= j
         /\ \A i \in 1..Len(v) : v[i] < Start(Last(v))
<1>1. CASE v = <<>>
  BY <1>1 DEF Last, Start
<1>2. CASE v # <<>>
  <2> DEFINE last == v[Len(v)]
  <2>1. Len(v) \in Nat /\ Len(v) \in 1..Len(v) /\ last \in Nat /\ \A i \in 1..Len(v) : v[i] \in Nat
    BY <1>2
  <2>2. Start(Last(v)) = last + 1
    <3>1. Last(v) = <<last>>
      BY <1>2 DEF Last
    <3>2. <<last>> # <<>> /\ <<last>>[1] = last
      OBVIOUS
    <3> HIDE DEF last
    <3> QED  BY <3>1, <3>2 DEF Start
  <2>3. last < j
    BY <2>1 DEF Covers
  <2>4. ASSUME NEW i \in 1..Len(v) PROVE v[i] <= last
    <3>1. i < Len(v) \/ i = Len(v)
      BY <2>1
    <3>2. i < Len(v) => v[i] < last
      BY <2>1 DEF Covers
    <3> HIDE DEF last
    <3>3. v[i] \in Nat /\ last \in Nat
      BY <2>1
    <3>4. i = Len(v) => v[i] = last
      BY DEF last
    <3> QED  BY <3>1, <3>2, <3>3, <3>4
  <2> HIDE DEF last
  <2>5. \A i \in 1..Len(v) : v[i] < last + 1
    BY <2>1, <2>4
  <2> QED  BY <2>1, <2>2, <2>3, <2>5
<1> QED  BY <1>1, <1>2

(* A page continues a view, and a short one leaves nothing to miss. *)
LEMMA PageCovers ==
  ASSUME NEW v \in Seq(Nat), NEW w, NEW j \in 0..Len(log), Covers(v, w, j),
         log \in Seq([kind : Kinds]), NEW limit \in Nat
  PROVE  LET e == Events(Last(v), limit)
             k == Start(Last(v)) + Len(e)
         IN  /\ v \o e \in Seq(Nat) /\ k \in 0..Len(log) /\ Covers(v \o e, w, k)
             /\ Len(e) # limit => k = Len(log)
<1> DEFINE e == Events(Last(v), limit)
           start == Start(Last(v))
<1>1. j \in Nat /\ Len(log) \in Nat /\ j <= Len(log)
  OBVIOUS
<1>2. start \in Nat /\ start <= j /\ \A i \in 1..Len(v) : v[i] < start
  BY <1>1, Cursor
<1>3. start <= Len(log)
  BY <1>1, <1>2
<1>4. /\ e \in Seq(Nat) /\ \A i \in 1..Len(e) : e[i] = start + i - 1
      /\ start + Len(e) <= Len(log)
      /\ Len(e) # limit => start + Len(e) = Len(log)
  BY <1>2, <1>3, Page
<1> HIDE DEF e, start
<1>5. v \o e \in Seq(Nat)
  BY <1>4, ConcatProperties
<1>6. Covers(v \o e, w, start + Len(e))
  BY <1>1, <1>2, <1>4, CoversMore
<1>7. Len(e) \in Nat
  BY <1>4
<1>8. start + Len(e) \in 0..Len(log)
  BY <1>1, <1>2, <1>4, <1>7
<1> QED  BY <1>4, <1>5, <1>6, <1>8 DEF e, start

-----------------------------------------------------------------------------
(* Init has shown, sent and pushed nothing. *)
LEMMA InitIInv == ASSUME Init PROVE IInv
<1>1. NoRx \in Receivers /\ ~NoRx.open
  BY DEF NoRx, Receivers
<1>2. Typed
  BY <1>1 DEF Init, Typed
<1>3. ASSUME NEW c \in Clients PROVE Caught(c)
  <2>1. /\ rx[c] = NoRx /\ wire[c] = <<>> /\ pc[c] = "idle" /\ view[c] = <<>> /\ window[c] = {}
        /\ log = <<>> /\ Len(log) = 0
    BY DEF Init
  <2>2. Covers(<<>>, {}, 0)
    BY DEF Covers
  <2>3. 0 \in 0..Len(log)
    BY <2>1
  <2> QED  BY <1>1, <2>1, <2>2, <2>3 DEF Caught
<1> QED  BY <1>2, <1>3 DEF IInv

(* The clients share the log only. *)
LEMMA FrameKeeps ==
  ASSUME NEW c, Caught(c), log' = log, rx'[c] = rx[c], wire'[c] = wire[c], pc'[c] = pc[c],
         view'[c] = view[c], window'[c] = window[c]
  PROVE  Caught(c)'
  BY DEF Caught

(* A push goes to every open ring, or is in the window of who has paged to *)
(* the end.                                                                *)
LEMMA PushKeeps == ASSUME IInv, NEW kind \in Kinds, Push(kind) PROVE IInv'
<1> DEFINE n == Len(log)
<1>1. /\ log \in Seq([kind : Kinds]) /\ n \in Nat /\ [kind |-> kind] \in [kind : Kinds]
      /\ log' = Append(log, [kind |-> kind])
      /\ UNCHANGED <<wire, pc, view>>
  BY DEF Push, IInv, Typed
<1>2. log' \in Seq([kind : Kinds]) /\ Len(log') = n + 1
  BY <1>1
<1> HIDE DEF n
<1>3. /\ rx' = [c \in Clients |-> Send(rx[c], n)]
      /\ window' = [c \in Clients |-> IF pc[c] = "synced" THEN window[c] \cup {n} ELSE window[c]]
  BY DEF Push, n
<1>4. ASSUME NEW c \in Clients PROVE Send(rx[c], n) \in Receivers /\ Caught(c)'
  <2>1. /\ rx[c] \in Receivers /\ wire[c] \in Seq(Seq(Nat)) /\ view[c] \in Seq(Nat)
        /\ rx'[c] = Send(rx[c], n) /\ wire'[c] = wire[c] /\ view'[c] = view[c] /\ pc'[c] = pc[c]
    BY <1>1, <1>3 DEF IInv, Typed
  <2>2. PICK j \in 0..n : /\ Covers(view[c], window[c], j)
                          /\ pc[c] = "synced" => j = n
                          /\ pc[c] = "live" => Flows(rx[c], wire[c], j, n)
    BY DEF IInv, Caught, n
  <2>3. j \in Nat /\ j \in 0..(n + 1) /\ n + 1 \in 0..(n + 1)
    BY <1>1
  <2>4. CASE ~rx[c].open
    <3>1. Send(rx[c], n) = rx[c]
      BY <2>4 DEF Send
    <3>2. pc[c] = "live" => Flows(rx[c], wire[c], j, n + 1)
      BY <1>1, <2>1, <2>2, <2>3, <3>1, FlowsPush
    <3>3. CASE pc[c] = "synced"
      <4>1. window'[c] = window[c] \cup {n} /\ j = n
        BY <1>3, <2>2, <3>3
      <4>2. Covers(view[c], window'[c], n + 1)
        <5>1. \A s \in Nat : s < n + 1 => s < n \/ s = n
          BY <1>1
        <5>2. \A i \in 1..Len(view[c]) : view[c][i] < n + 1
          <6>1. \A i \in 1..Len(view[c]) : view[c][i] \in Nat /\ view[c][i] < n
            BY <2>1, <2>2, <4>1 DEF Covers
          <6> QED  BY <1>1, <6>1
        <5> QED  BY <2>2, <4>1, <5>1, <5>2 DEF Covers
      <4>3. ~rx'[c].open /\ wire'[c] = <<>> /\ pc'[c] = "synced"
        BY <2>1, <2>4, <3>1, <3>3 DEF IInv, Caught
      <4>4. Caught(c)'
        BY <1>2, <2>1, <2>3, <4>2, <4>3 DEF Caught
      <4> QED  BY <2>1, <3>1, <4>4
    <3>4. CASE pc[c] # "synced"
      <4>1. window'[c] = window[c] /\ rx'[c] = rx[c]
        BY <1>3, <2>1, <3>1, <3>4
      <4>2. /\ pc[c] # "live" => ~rx[c].open /\ wire[c] = <<>>
            /\ pc[c] = "idle" => view[c] = <<>>
        BY DEF IInv, Caught
      <4>3. Caught(c)'
        BY <1>2, <2>1, <2>2, <2>3, <3>2, <3>4, <4>1, <4>2 DEF Caught
      <4> QED  BY <2>1, <3>1, <4>3
    <3> QED  BY <3>3, <3>4
  <2>5. CASE rx[c].open
    <3>1. pc[c] = "live"
      BY <2>5 DEF IInv, Caught
    <3>2. window'[c] = window[c]
      BY <1>3, <3>1
    <3>3. Flows(Send(rx[c], n), wire[c], j, n + 1) /\ Send(rx[c], n) \in Receivers
      BY <1>1, <2>1, <2>2, <2>3, <3>1, FlowsPush
    <3>4. Caught(c)'
      BY <1>2, <2>1, <2>2, <2>3, <3>1, <3>2, <3>3 DEF Caught
    <3> QED  BY <3>3, <3>4
  <2> QED  BY <2>4, <2>5
<1>5. rx' \in [Clients -> Receivers] /\ window' \in [Clients -> SUBSET Nat]
  BY <1>1, <1>3, <1>4 DEF IInv, Typed
<1>6. Typed'
  BY <1>1, <1>2, <1>5 DEF IInv, Typed
<1> QED  BY <1>4, <1>6 DEF IInv

(* A client whose own state is well typed and caught up, in a step that    *)
(* is its own.                                                             *)
LEMMA OwnStep ==
  ASSUME IInv, NEW c \in Clients, UNCHANGED log, UNCHANGED window,
         NEW r \in Receivers, NEW f \in Seq(Seq(Nat)), NEW l \in {"idle", "paging", "synced", "live"},
         NEW v \in Seq(Nat), NEW j \in 0..Len(log),
         rx' = [rx EXCEPT ![c] = r], wire' = [wire EXCEPT ![c] = f],
         pc' = [pc EXCEPT ![c] = l], view' = [view EXCEPT ![c] = v],
         l # "live" => ~r.open /\ f = <<>>, l # "idle",
         Covers(v, window[c], j), l = "synced" => j = Len(log),
         l = "live" => Flows(r, f, j, Len(log))
  PROVE  IInv'
<1>1. Typed'
  BY DEF IInv, Typed
<1>2. rx'[c] = r /\ wire'[c] = f /\ pc'[c] = l /\ view'[c] = v
  BY DEF IInv, Typed
<1>3. Caught(c)'
  BY <1>2 DEF Caught
<1>4. ASSUME NEW d \in Clients, d # c PROVE Caught(d)'
  <2>1. rx'[d] = rx[d] /\ wire'[d] = wire[d] /\ pc'[d] = pc[d] /\ view'[d] = view[d]
    BY <1>4 DEF IInv, Typed
  <2> QED  BY <2>1, FrameKeeps DEF IInv
<1> QED  BY <1>1, <1>3, <1>4 DEF IInv

(* The state of one client. *)
LEMMA OneClient ==
  ASSUME IInv, NEW c \in Clients
  PROVE  /\ rx[c] \in Receivers /\ wire[c] \in Seq(Seq(Nat)) /\ view[c] \in Seq(Nat)
         /\ pc[c] \in {"idle", "paging", "synced", "live"} /\ log \in Seq([kind : Kinds])
         /\ rx = [rx EXCEPT ![c] = rx[c]] /\ wire = [wire EXCEPT ![c] = wire[c]]
         /\ pc = [pc EXCEPT ![c] = pc[c]] /\ view = [view EXCEPT ![c] = view[c]]
         /\ Caught(c) /\ NoRx \in Receivers /\ ~NoRx.open /\ NewRx \in Receivers
<1>1. NoRx \in Receivers /\ ~NoRx.open /\ NewRx \in Receivers
  <2>1. NoRx \in Receivers /\ ~NoRx.open
    BY DEF NoRx, Receivers
  <2>2. NewRx \in Receivers
    BY <2>1 DEF NewRx, Receivers
  <2> QED  BY <2>1, <2>2
<1>2. /\ rx \in [Clients -> Receivers] /\ wire \in [Clients -> Seq(Seq(Nat))]
      /\ pc \in [Clients -> {"idle", "paging", "synced", "live"}]
      /\ view \in [Clients -> Seq(Nat)] /\ log \in Seq([kind : Kinds])
  BY DEF IInv, Typed
<1>3. /\ rx = [rx EXCEPT ![c] = rx[c]] /\ wire = [wire EXCEPT ![c] = wire[c]]
      /\ pc = [pc EXCEPT ![c] = pc[c]] /\ view = [view EXCEPT ![c] = view[c]]
  BY <1>2
<1> QED  BY <1>1, <1>2, <1>3 DEF IInv

(* A page continues the view from its newest seq. *)
LEMMA PageKeeps ==
  ASSUME IInv, NEW c \in Clients, D2(c) \/ \E limit \in 0..(EventsLimit + 1) : GetEvents(c, limit)
  PROVE  IInv'
<1>1. EventsLimit \in Nat
  BY GatewayAssumption
<1>2. PICK limit \in Nat :
        LET e == Events(Last(view[c]), limit) IN
        /\ view' = [view EXCEPT ![c] = view[c] \o e]
        /\ \/ pc' = [pc EXCEPT ![c] = "paging"]
           \/ Len(e) # limit /\ pc' = [pc EXCEPT ![c] = "synced"]
        /\ pc[c] \in {"idle", "paging"} /\ UNCHANGED <<log, rx, wire, window>>
  <2>1. CASE D2(c)
    <3>1. view[c] = <<>> /\ Last(view[c]) = <<>>
      BY <2>1 DEF D2, IInv, Caught, Last
    <3> DEFINE e == Events(<<>>, EventsLimit)
    <3>2. e \in Seq(Nat)
      <4>1. Start(<<>>) = 0 /\ log \in Seq([kind : Kinds]) /\ 0 <= Len(log) /\ 0 \in Nat
        BY DEF Start, IInv, Typed
      <4> QED  BY <1>1, <4>1, Page
    <3> HIDE DEF e
    <3>3. <<>> \o e = e
      BY <3>2
    <3>4. /\ view' = [view EXCEPT ![c] = view[c] \o e] /\ pc' = [pc EXCEPT ![c] = "paging"]
          /\ pc[c] \in {"idle", "paging"} /\ UNCHANGED <<log, rx, wire, window>>
      BY <2>1, <3>1, <3>3 DEF D2, e
    <3> QED  BY <1>1, <3>1, <3>4 DEF e
  <2>2. CASE \E limit \in 0..(EventsLimit + 1) : GetEvents(c, limit)
    <3>1. PICK limit \in 0..(EventsLimit + 1) : GetEvents(c, limit)
      BY <2>2
    <3>2. limit \in Nat
      BY <1>1
    <3> DEFINE e == Events(Last(view[c]), limit)
    <3>3. /\ view' = [view EXCEPT ![c] = view[c] \o e]
          /\ pc' = [pc EXCEPT ![c] = IF Len(e) = limit THEN "paging" ELSE "synced"]
          /\ pc[c] \in {"idle", "paging"} /\ UNCHANGED <<log, rx, wire, window>>
      BY <3>1 DEF GetEvents
    <3> HIDE DEF e
    <3>4. \/ pc' = [pc EXCEPT ![c] = "paging"]
          \/ Len(e) # limit /\ pc' = [pc EXCEPT ![c] = "synced"]
      BY <3>3
    <3> QED  BY <3>2, <3>3, <3>4 DEF e
  <2> QED  BY <2>1, <2>2
<1> DEFINE e == Events(Last(view[c]), limit)
           k == Start(Last(view[c])) + Len(e)
           v == view[c] \o e
<1>3. PICK j \in 0..Len(log) : Covers(view[c], window[c], j)
  BY DEF IInv, Caught
<1>4. /\ v \in Seq(Nat) /\ k \in 0..Len(log) /\ Covers(v, window[c], k)
      /\ Len(e) # limit => k = Len(log)
  BY <1>3, PageCovers, OneClient
<1>5. view' = [view EXCEPT ![c] = v] /\ ~rx[c].open /\ wire[c] = <<>>
  BY <1>2 DEF IInv, Caught
<1>6. PICK l \in {"paging", "synced"} : pc' = [pc EXCEPT ![c] = l] /\ (l = "synced" => k = Len(log))
  BY <1>2, <1>4
<1> HIDE DEF e, k, v
<1>7. rx' = [rx EXCEPT ![c] = rx[c]] /\ wire' = [wire EXCEPT ![c] = wire[c]]
  BY <1>2, OneClient
<1>8. UNCHANGED log /\ UNCHANGED window
  BY <1>2
<1>9. rx[c] \in Receivers /\ wire[c] \in Seq(Seq(Nat))
  BY OneClient
<1> QED  BY <1>4, <1>5, <1>6, <1>7, <1>8, <1>9, OwnStep

(* A subscription of a client that has paged to the end. *)
LEMMA SubscribeKeeps == ASSUME IInv, NEW c \in Clients, Subscribe(c) PROVE IInv'
<1>1. /\ pc[c] = "synced" /\ rx' = [rx EXCEPT ![c] = NewRx] /\ pc' = [pc EXCEPT ![c] = "live"]
      /\ UNCHANGED log /\ UNCHANGED window /\ UNCHANGED wire /\ UNCHANGED view
  BY DEF Subscribe
<1>2. Covers(view[c], window[c], Len(log)) /\ wire[c] = <<>> /\ Len(log) \in 0..Len(log)
  BY <1>1 DEF IInv, Caught, Typed
<1>3. Flows(NewRx, wire[c], Len(log), Len(log))
  <2>1. NewRx.queue = <<>> /\ Len(<<>>) = 0
    BY DEF NewRx, NoRx
  <2>2. Len(log) \in Nat
    BY DEF IInv, Typed
  <2> QED  BY <1>2, <2>1, <2>2 DEF Flows
<1>4. /\ NewRx \in Receivers /\ wire[c] \in Seq(Seq(Nat)) /\ view[c] \in Seq(Nat)
      /\ wire' = [wire EXCEPT ![c] = wire[c]] /\ view' = [view EXCEPT ![c] = view[c]]
  BY <1>1, OneClient
<1> QED  BY <1>1, <1>2, <1>3, <1>4, OwnStep

(* forward takes the next seq from the ring to the socket. *)
LEMMA ForwardKeeps == ASSUME IInv, NEW c \in Clients, Forward(c) PROVE IInv'
<1>1. rx[c].open /\ UNCHANGED log /\ UNCHANGED window /\ UNCHANGED pc /\ UNCHANGED view
  BY DEF Forward
<1>2. pc[c] = "live"
  BY <1>1 DEF IInv, Caught
<1>3. PICK j \in 0..Len(log) : Covers(view[c], window[c], j) /\ Flows(rx[c], wire[c], j, Len(log))
  BY <1>2 DEF IInv, Caught
<1>4. /\ rx[c] \in Receivers /\ wire[c] \in Seq(Seq(Nat)) /\ view[c] \in Seq(Nat)
      /\ NoRx \in Receivers /\ Len(log) \in Nat /\ j \in Nat
      /\ pc' = [pc EXCEPT ![c] = pc[c]] /\ view' = [view EXCEPT ![c] = view[c]]
  <2>1. log \in Seq([kind : Kinds])
    BY OneClient
  <2>2. Len(log) \in Nat /\ j \in Nat
    BY <2>1
  <2> QED  BY <1>1, <2>2, OneClient
<1>5. CASE rx[c].lagged
  <2>1. wire' = [wire EXCEPT ![c] = Append(wire[c], Close)] /\ rx' = [rx EXCEPT ![c] = NoRx]
    BY <1>5 DEF Forward
  <2>2. Flows(NoRx, Append(wire[c], Close), j, Len(log)) /\ Append(wire[c], Close) \in Seq(Seq(Nat))
    BY <1>1, <1>3, <1>4, FlowsForward
  <2> QED  BY <1>1, <1>2, <1>3, <1>4, <2>1, <2>2, OwnStep
<1>6. CASE ~rx[c].lagged
  <2> DEFINE s == [rx[c] EXCEPT !.queue = Tail(@)]
             g == Append(wire[c], Text(Head(rx[c].queue)))
  <2>1. rx[c].queue # <<>> /\ wire' = [wire EXCEPT ![c] = g] /\ rx' = [rx EXCEPT ![c] = s]
    BY <1>6 DEF Forward
  <2>2. Flows(s, g, j, Len(log)) /\ s \in Receivers /\ g \in Seq(Seq(Nat))
    BY <1>1, <1>3, <1>4, <1>6, <2>1, FlowsForward
  <2> HIDE DEF s, g
  <2> QED  BY <1>1, <1>2, <1>3, <1>4, <2>1, <2>2, OwnStep
<1> QED  BY <1>5, <1>6

(* A received frame is the next seq, or the close that starts a recovery. *)
LEMMA ReceiveKeeps == ASSUME IInv, NEW c \in Clients, Receive(c) PROVE IInv'
<1>1. /\ pc[c] = "live" /\ wire[c] # <<>> /\ wire' = [wire EXCEPT ![c] = Tail(wire[c])]
      /\ UNCHANGED log /\ UNCHANGED window /\ UNCHANGED rx
  BY DEF Receive
<1>2. PICK j \in 0..Len(log) : Covers(view[c], window[c], j) /\ Flows(rx[c], wire[c], j, Len(log))
  BY <1>1 DEF IInv, Caught
<1>3. /\ rx[c] \in Receivers /\ wire[c] \in Seq(Seq(Nat)) /\ view[c] \in Seq(Nat)
      /\ Len(log) \in Nat /\ j \in Nat
      /\ rx' = [rx EXCEPT ![c] = rx[c]]
  <2>1. log \in Seq([kind : Kinds])
    BY OneClient
  <2>2. Len(log) \in Nat /\ j \in Nat
    BY <2>1
  <2> QED  BY <1>1, <2>2, OneClient
<1>4. /\ Head(wire[c]) = Close => Tail(wire[c]) = <<>> /\ ~rx[c].open
      /\ Head(wire[c]) # Close =>
           /\ Head(wire[c]) = Text(j) /\ j + 1 <= Len(log)
           /\ Flows(rx[c], Tail(wire[c]), j + 1, Len(log))
  BY <1>1, <1>2, <1>3, FlowsReceive
<1>5. Tail(wire[c]) \in Seq(Seq(Nat))
  BY <1>1, <1>3
<1>6. CASE Head(wire[c]) = Close
  <2>1. pc' = [pc EXCEPT ![c] = "paging"] /\ view' = [view EXCEPT ![c] = view[c]]
    BY <1>6, OneClient DEF Receive
  <2> QED  BY <1>1, <1>2, <1>3, <1>4, <1>5, <1>6, <2>1, OwnStep
<1>7. CASE Head(wire[c]) # Close
  <2> DEFINE e == <<j>>
             v == view[c] \o e
  <2>1. pc' = [pc EXCEPT ![c] = pc[c]] /\ view' = [view EXCEPT ![c] = v]
    BY <1>4, <1>7, OneClient DEF Receive, Text
  <2>2. e \in Seq(Nat) /\ Len(e) = 1 /\ \A i \in 1..Len(e) : e[i] = j + i - 1
    BY <1>3
  <2> HIDE DEF e
  <2>3. v \in Seq(Nat)
    BY <1>3, <2>2, ConcatProperties
  <2>4. j <= j /\ \A i \in 1..Len(view[c]) : view[c][i] < j
    BY <1>2, <1>3 DEF Covers
  <2>5. Covers(v, window[c], j + 1)
    <3>1. Covers(v, window[c], j + Len(e))
      BY <1>2, <1>3, <2>2, <2>4, CoversMore
    <3> QED  BY <2>2, <3>1
  <2>6. j + 1 \in 0..Len(log)
    BY <1>3, <1>4, <1>7
  <2> HIDE DEF v
  <2> QED  BY <1>1, <1>3, <1>4, <1>5, <1>7, <2>1, <2>3, <2>5, <2>6, OwnStep
<1> QED  BY <1>6, <1>7

(* A broken connection takes its frames along; the view stays. *)
LEMMA DropKeeps == ASSUME IInv, NEW c \in Clients, Drop(c) PROVE IInv'
<1>1. /\ rx' = [rx EXCEPT ![c] = NoRx] /\ wire' = [wire EXCEPT ![c] = <<>>]
      /\ pc' = [pc EXCEPT ![c] = "paging"] /\ view' = [view EXCEPT ![c] = view[c]]
      /\ UNCHANGED log /\ UNCHANGED window
  BY OneClient DEF Drop
<1>2. PICK j \in 0..Len(log) : Covers(view[c], window[c], j)
  BY DEF IInv, Caught
<1>3. NoRx \in Receivers /\ ~NoRx.open /\ view[c] \in Seq(Nat) /\ <<>> \in Seq(Seq(Nat))
  BY OneClient
<1> QED  BY <1>1, <1>2, <1>3, OwnStep

(* Every step keeps every client caught up. *)
LEMMA NextIInv == IInv /\ [Next]_vars => IInv'
<1> SUFFICES ASSUME IInv, [Next]_vars PROVE IInv'
  OBVIOUS
<1>1. CASE AddSession \/ UNCHANGED vars
  <2>1. UNCHANGED <<log, rx, wire, pc, view, window>>
    BY <1>1 DEF AddSession, clientVars, vars
  <2>2. Typed'
    BY <2>1 DEF IInv, Typed
  <2>3. \A c \in Clients : Caught(c)'
    BY <2>1, FrameKeeps DEF IInv
  <2> QED  BY <2>2, <2>3 DEF IInv
<1>2. CASE \E kind \in Kinds : Push(kind)
  BY <1>2, PushKeeps
<1>3. CASE \E c \in Clients : D2(c) \/ ClientStep(c) \/ Forward(c) \/ Drop(c)
  <2>1. PICK c \in Clients : D2(c) \/ ClientStep(c) \/ Forward(c) \/ Drop(c)
    BY <1>3
  <2>2. CASE D2(c) \/ \E limit \in 0..(EventsLimit + 1) : GetEvents(c, limit)
    BY <2>2, PageKeeps
  <2>3. CASE Subscribe(c) \/ Receive(c)
    BY <2>3, SubscribeKeeps, ReceiveKeeps
  <2>4. CASE Forward(c) \/ Drop(c)
    BY <2>4, ForwardKeeps, DropKeeps
  <2> QED  BY <2>1, <2>2, <2>3, <2>4 DEF ClientStep
<1> QED  BY <1>1, <1>2, <1>3 DEF Next

(* The inductive invariant of the gateway and its clients. *)
THEOREM GatewayInvariant == Spec => []IInv
  BY InitIInv, NextIInv, PTL DEF Spec

(* Catch-up is safe (stream.rs, routes/sessions.rs): for any number of     *)
(* clients, pages, lags and broken connections, a client shows every event *)
(* up to its newest, once and in order, but those of its window.           *)
THEOREM OnlyWindowMissed == Spec => []MissesOnlyWindow
<1>1. IInv => MissesOnlyWindow
  <2> SUFFICES ASSUME IInv, NEW c \in Clients
               PROVE  /\ \A i, j \in 1..Len(view[c]) : i < j => view[c][i] < view[c][j]
                      /\ view[c] # <<>> => (0..view[c][Len(view[c])]) \ Shown(c) \subseteq window[c]
    BY DEF MissesOnlyWindow
  <2>1. PICK j \in 0..Len(log) : Covers(view[c], window[c], j)
    BY DEF IInv, Caught
  <2>2. view[c] \in Seq(Nat) /\ j \in Nat
    <3>1. log \in Seq([kind : Kinds])
      BY OneClient
    <3> QED  BY <3>1, OneClient
  <2>3. ASSUME view[c] # <<>>, NEW s \in 0..view[c][Len(view[c])], s \notin Shown(c)
        PROVE  s \in window[c]
    <3> DEFINE last == view[c][Len(view[c])]
    <3>1. Len(view[c]) \in 1..Len(view[c]) /\ last \in Nat
      BY <2>2, <2>3
    <3>2. last < j
      BY <2>1, <3>1 DEF Covers
    <3>3. s \in Nat /\ s < j
      BY <2>2, <3>1, <3>2
    <3>4. s \in window[c] \/ \E i \in 1..Len(view[c]) : view[c][i] = s
      BY <2>1, <3>3 DEF Covers
    <3> QED  BY <2>3, <3>4 DEF Shown
  <2> QED  BY <2>1, <2>3 DEF Covers
<1> QED  BY <1>1, GatewayInvariant, PTL

-----------------------------------------------------------------------------
(* The two timelines. *)

(* An event or a fold. *)
Rows == [fold : BOOLEAN, seq : Nat, llm : Nat, tool : Nat]

(* The loop of the CLI's render_rows: its states and its start. *)
CliStates == [rows : Seq(Rows), fold : Seq(Rows)]
CliNone == [rows |-> <<>>, fold |-> <<>>]

(* A turn of the CLI's loop. *)
CliStep(s, k, e) ==
  LET llm == One(e.kind = "llm.call")
      tool == One(e.kind = "tool.call")
  IN  IF IsCall(e)
      THEN [s EXCEPT !.fold = IF @ = <<>> THEN <<FoldRow(llm, tool)>>
                              ELSE <<FoldRow(@[1].llm + llm, @[1].tool + tool)>>]
      ELSE [rows |-> s.rows \o s.fold \o <<EventRow(k)>>, fold |-> <<>>]

CliScan(t) ==
  LET scan[k \in 0..Len(t)] == IF k = 0 THEN CliNone ELSE CliStep(scan[k - 1], k, t[k])
  IN  scan

(* The dashboard's, with its two counters. *)
D2States == [rows : Seq(Rows), llm : Nat, tool : Nat]
D2None == [rows |-> <<>>, llm |-> 0, tool |-> 0]

D2Step(s, k, e, filter) ==
  LET flushed == IF filter = "all" /\ s.llm + s.tool > 0
                 THEN Append(s.rows, FoldRow(s.llm, s.tool)) ELSE s.rows
  IN  IF IsCall(e)
      THEN IF filter # "all" THEN s
           ELSE [s EXCEPT !.llm = @ + One(e.kind = "llm.call"), !.tool = @ + One(e.kind = "tool.call")]
      ELSE IF ~Matches(filter, e) THEN s
      ELSE [rows |-> Append(flushed, EventRow(k)), llm |-> 0, tool |-> 0]

D2Scan(t, filter) ==
  LET scan[k \in 0..Len(t)] == IF k = 0 THEN D2None ELSE D2Step(scan[k - 1], k, t[k], filter)
  IN  scan

(* Both functions read their rows off the last state of their loop. *)
LEMMA RowsOfScans ==
  ASSUME NEW t, NEW filter
  PROVE  /\ CliRows(t) = CliScan(t)[Len(t)].rows \o CliScan(t)[Len(t)].fold
         /\ D2Rows(t, filter) =
              LET last == D2Scan(t, filter)[Len(t)]
              IN  IF filter = "all" /\ last.llm + last.tool > 0
                  THEN Append(last.rows, FoldRow(last.llm, last.tool)) ELSE last.rows
<1>1. CliRows(t) = CliScan(t)[Len(t)].rows \o CliScan(t)[Len(t)].fold
  BY DEF CliRows, CliScan, CliStep, CliNone
<1>2. D2Rows(t, filter) =
        LET last == D2Scan(t, filter)[Len(t)]
        IN  IF filter = "all" /\ last.llm + last.tool > 0
            THEN Append(last.rows, FoldRow(last.llm, last.tool)) ELSE last.rows
  BY DEF D2Rows, D2Scan, D2Step, D2None
<1> QED  BY <1>1, <1>2

(* The rows that the loops make. *)
LEMMA RowTypes ==
  ASSUME NEW k \in Nat, NEW x \in Nat, NEW y \in Nat
  PROVE  EventRow(k) \in Rows /\ FoldRow(x, y) \in Rows
  BY DEF EventRow, FoldRow, Rows

(* The counts of a call. *)
LEMMA CallCounts ==
  ASSUME NEW e
  PROVE  /\ One(e.kind = "llm.call") \in Nat /\ One(e.kind = "tool.call") \in Nat
         /\ IsCall(e) => One(e.kind = "llm.call") + One(e.kind = "tool.call") = 1
  BY DEF One, IsCall

(* A turn of each loop keeps its types. *)
LEMMA CliStepType ==
  ASSUME NEW s \in CliStates, NEW k \in Nat, NEW e
  PROVE  CliStep(s, k, e) \in CliStates
<1> DEFINE llm == One(e.kind = "llm.call")
           tool == One(e.kind = "tool.call")
<1>1. llm \in Nat /\ tool \in Nat /\ s.rows \in Seq(Rows) /\ s.fold \in Seq(Rows)
  BY CallCounts DEF CliStates
<1> HIDE DEF llm, tool
<1>2. CASE IsCall(e)
  <2> DEFINE f == IF s.fold = <<>> THEN <<FoldRow(llm, tool)>>
                  ELSE <<FoldRow(s.fold[1].llm + llm, s.fold[1].tool + tool)>>
  <2>1. CliStep(s, k, e) = [s EXCEPT !.fold = f]
    BY <1>2 DEF CliStep, llm, tool
  <2>2. f \in Seq(Rows)
    <3>1. CASE s.fold = <<>>
      BY <1>1, <3>1, RowTypes
    <3>2. CASE s.fold # <<>>
      <4>1. s.fold[1] \in Rows
        BY <1>1, <3>2
      <4>2. s.fold[1].llm + llm \in Nat /\ s.fold[1].tool + tool \in Nat
        BY <1>1, <4>1 DEF Rows
      <4>3. FoldRow(s.fold[1].llm + llm, s.fold[1].tool + tool) \in Rows
        BY <4>2, RowTypes
      <4> QED  BY <3>2, <4>3
    <3> QED  BY <3>1, <3>2
  <2> HIDE DEF f
  <2> QED  BY <2>1, <2>2 DEF CliStates
<1>3. CASE ~IsCall(e)
  <2>1. CliStep(s, k, e) = [rows |-> s.rows \o s.fold \o <<EventRow(k)>>, fold |-> <<>>]
    BY <1>3 DEF CliStep
  <2>2. <<EventRow(k)>> \in Seq(Rows)
    BY RowTypes
  <2>3. s.rows \o s.fold \o <<EventRow(k)>> \in Seq(Rows)
    BY <1>1, <2>2, ConcatProperties
  <2> QED  BY <2>1, <2>3 DEF CliStates
<1> QED  BY <1>2, <1>3

(* The same of the dashboard's loop. *)
LEMMA D2StepType ==
  ASSUME NEW s \in D2States, NEW k \in Nat, NEW e, NEW filter
  PROVE  D2Step(s, k, e, filter) \in D2States
<1> DEFINE llm == One(e.kind = "llm.call")
           tool == One(e.kind = "tool.call")
           flushed == IF filter = "all" /\ s.llm + s.tool > 0
                      THEN Append(s.rows, FoldRow(s.llm, s.tool)) ELSE s.rows
<1>1. llm \in Nat /\ tool \in Nat /\ s.rows \in Seq(Rows) /\ s.llm \in Nat /\ s.tool \in Nat
  BY CallCounts DEF D2States
<1>2. flushed \in Seq(Rows) /\ EventRow(k) \in Rows
  BY <1>1, RowTypes
<1>3. Append(flushed, EventRow(k)) \in Seq(Rows)
  BY <1>2
<1>4. \/ D2Step(s, k, e, filter) = s
      \/ D2Step(s, k, e, filter) = [s EXCEPT !.llm = @ + llm, !.tool = @ + tool]
      \/ D2Step(s, k, e, filter) = [rows |-> Append(flushed, EventRow(k)), llm |-> 0, tool |-> 0]
  BY DEF D2Step
<1> HIDE DEF llm, tool, flushed
<1>5. [s EXCEPT !.llm = @ + llm, !.tool = @ + tool] \in D2States
  <2>1. s.llm + llm \in Nat /\ s.tool + tool \in Nat
    BY <1>1
  <2> QED  BY <2>1 DEF D2States
<1>6. [rows |-> Append(flushed, EventRow(k)), llm |-> 0, tool |-> 0] \in D2States
  BY <1>3 DEF D2States
<1> QED  BY <1>4, <1>5, <1>6

(* The recursive definitions follow their loops. *)
LEMMA CliScanComputes ==
  ASSUME NEW K, NEW t \in Seq([kind : K])
  PROVE  LET f == CliScan(t) IN
         /\ f \in [0..Len(t) -> CliStates] /\ f[0] = CliNone
         /\ \A k \in 1..Len(t) : f[k] = CliStep(f[k - 1], k, t[k])
<1> DEFINE n == Len(t)
           step == [k \in 1..n |-> [s \in CliStates |-> CliStep(s, k, t[k])]]
           F(f) == [k \in 0..n |-> IF k = 0 THEN CliNone ELSE CliStep(f[k - 1], k, t[k])]
           scan == CHOOSE f : f = F(f)
<1>1. n \in Nat /\ \A k \in 1..n : k \in Nat
  OBVIOUS
<1>2. CliNone \in CliStates
  BY DEF CliNone, CliStates
<1>3. step \in [1..n -> [CliStates -> CliStates]]
  <2>1. \A k \in 1..n, s \in CliStates : CliStep(s, k, t[k]) \in CliStates
    BY <1>1, CliStepType
  <2> QED  BY <2>1
<1>4. \A k \in 1..n, s \in CliStates : step[k][s] = CliStep(s, k, t[k])
  OBVIOUS
<1> HIDE DEF step
<1>5. PICK f : Follows(f, CliStates, CliNone, n, step)
  <2> HIDE DEF n
  <2> QED  BY <1>1, <1>2, <1>3, Recursion
<1>6. f = F(f)
  <2>1. \A k \in 1..n : k - 1 \in 0..n
    BY <1>1
  <2>2. \A k \in 1..n : f[k] = CliStep(f[k - 1], k, t[k])
    BY <1>4, <1>5, <2>1 DEF Follows
  <2>3. \A k \in 0..n : k = 0 \/ k \in 1..n
    BY <1>1
  <2> QED  BY <1>5, <2>2, <2>3 DEF Follows
<1>7. scan = F(scan)
  BY <1>6
<1>8. CliScan(t) = scan
  BY DEF CliScan
<1>9. \A k \in 1..n : scan[k] = CliStep(scan[k - 1], k, t[k])
  <2> HIDE DEF scan
  <2> QED  BY <1>1, <1>7
<1>10. scan[0] = CliNone /\ scan = [k \in 0..n |-> scan[k]]
  <2> HIDE DEF scan
  <2> QED  BY <1>1, <1>7
<1> HIDE DEF scan, n
<1>11. \A k \in 0..n : scan[k] \in CliStates
  <2> DEFINE T == {m \in Nat : m <= n => scan[m] \in CliStates}
  <2>1. 0 \in T
    BY <1>2, <1>10
  <2>2. ASSUME NEW m \in T PROVE m + 1 \in T
    <3>1. CASE m + 1 <= n
      <4>1. m + 1 \in 1..n /\ (m + 1) - 1 = m /\ m <= n /\ m + 1 \in Nat
        BY <1>1, <3>1
      <4>2. scan[m + 1] = CliStep(scan[m], m + 1, t[m + 1])
        BY <1>9, <4>1
      <4>3. CliStep(scan[m], m + 1, t[m + 1]) \in CliStates
        BY <2>2, <4>1, CliStepType
      <4> QED  BY <4>1, <4>2, <4>3
    <3>2. CASE ~(m + 1 <= n)
      BY <3>2
    <3> QED  BY <3>1, <3>2
  <2>3. T = Nat
    <3> HIDE DEF T
    <3>1. T \in SUBSET Nat
      BY DEF T
    <3> QED  BY <2>1, <2>2, <3>1, SetInduction
  <2> QED  BY <1>1, <2>3
<1> QED  BY <1>8, <1>9, <1>10, <1>11 DEF n

(* The same of the dashboard's. *)
LEMMA D2ScanComputes ==
  ASSUME NEW K, NEW t \in Seq([kind : K]), NEW filter
  PROVE  LET f == D2Scan(t, filter) IN
         /\ f \in [0..Len(t) -> D2States] /\ f[0] = D2None
         /\ \A k \in 1..Len(t) : f[k] = D2Step(f[k - 1], k, t[k], filter)
<1> DEFINE n == Len(t)
           step == [k \in 1..n |-> [s \in D2States |-> D2Step(s, k, t[k], filter)]]
           F(f) == [k \in 0..n |-> IF k = 0 THEN D2None ELSE D2Step(f[k - 1], k, t[k], filter)]
           scan == CHOOSE f : f = F(f)
<1>1. n \in Nat /\ \A k \in 1..n : k \in Nat
  OBVIOUS
<1>2. D2None \in D2States
  BY DEF D2None, D2States
<1>3. step \in [1..n -> [D2States -> D2States]]
  <2>1. \A k \in 1..n, s \in D2States : D2Step(s, k, t[k], filter) \in D2States
    BY <1>1, D2StepType
  <2> QED  BY <2>1
<1>4. \A k \in 1..n, s \in D2States : step[k][s] = D2Step(s, k, t[k], filter)
  OBVIOUS
<1> HIDE DEF step
<1>5. PICK f : Follows(f, D2States, D2None, n, step)
  <2> HIDE DEF n
  <2> QED  BY <1>1, <1>2, <1>3, Recursion
<1>6. f = F(f)
  <2>1. \A k \in 1..n : k - 1 \in 0..n
    BY <1>1
  <2>2. \A k \in 1..n : f[k] = D2Step(f[k - 1], k, t[k], filter)
    BY <1>4, <1>5, <2>1 DEF Follows
  <2>3. \A k \in 0..n : k = 0 \/ k \in 1..n
    BY <1>1
  <2> QED  BY <1>5, <2>2, <2>3 DEF Follows
<1>7. scan = F(scan)
  BY <1>6
<1>8. D2Scan(t, filter) = scan
  BY DEF D2Scan
<1>9. \A k \in 1..n : scan[k] = D2Step(scan[k - 1], k, t[k], filter)
  <2> HIDE DEF scan
  <2> QED  BY <1>1, <1>7
<1>10. scan[0] = D2None /\ scan = [k \in 0..n |-> scan[k]]
  <2> HIDE DEF scan
  <2> QED  BY <1>1, <1>7
<1> HIDE DEF scan, n
<1>11. \A k \in 0..n : scan[k] \in D2States
  <2> DEFINE T == {m \in Nat : m <= n => scan[m] \in D2States}
  <2>1. 0 \in T
    BY <1>2, <1>10
  <2>2. ASSUME NEW m \in T PROVE m + 1 \in T
    <3>1. CASE m + 1 <= n
      <4>1. m + 1 \in 1..n /\ (m + 1) - 1 = m /\ m <= n /\ m + 1 \in Nat
        BY <1>1, <3>1
      <4>2. scan[m + 1] = D2Step(scan[m], m + 1, t[m + 1], filter)
        BY <1>9, <4>1
      <4>3. D2Step(scan[m], m + 1, t[m + 1], filter) \in D2States
        BY <2>2, <4>1, D2StepType
      <4> QED  BY <4>1, <4>2, <4>3
    <3>2. CASE ~(m + 1 <= n)
      BY <3>2
    <3> QED  BY <3>1, <3>2
  <2>3. T = Nat
    <3> HIDE DEF T
    <3>1. T \in SUBSET Nat
      BY DEF T
    <3> QED  BY <2>1, <2>2, <3>1, SetInduction
  <2> QED  BY <1>1, <2>3
<1> QED  BY <1>8, <1>9, <1>10, <1>11 DEF n

(* The CLI's pending fold is the dashboard's two counters. *)
Fold(d) == IF d.llm + d.tool > 0 THEN <<FoldRow(d.llm, d.tool)>> ELSE <<>>
Same(c, d) == c.rows = d.rows /\ c.fold = Fold(d)

(* A turn of the loops keeps it. *)
LEMMA SameStep ==
  ASSUME NEW c \in CliStates, NEW d \in D2States, Same(c, d), NEW k \in Nat, NEW e
  PROVE  Same(CliStep(c, k, e), D2Step(d, k, e, "all"))
<1> DEFINE llm == One(e.kind = "llm.call")
           tool == One(e.kind = "tool.call")
<1>1. /\ llm \in Nat /\ tool \in Nat /\ d.llm \in Nat /\ d.tool \in Nat /\ d.rows \in Seq(Rows)
      /\ c.rows = d.rows /\ c.fold = Fold(d)
      /\ IsCall(e) => llm + tool = 1
  BY CallCounts DEF D2States, Same
<1>2. CASE IsCall(e)
  <2> DEFINE f == IF c.fold = <<>> THEN <<FoldRow(llm, tool)>>
                  ELSE <<FoldRow(c.fold[1].llm + llm, c.fold[1].tool + tool)>>
  <2>1. /\ CliStep(c, k, e) = [c EXCEPT !.fold = f]
        /\ D2Step(d, k, e, "all") = [d EXCEPT !.llm = @ + llm, !.tool = @ + tool]
    BY <1>2 DEF CliStep, D2Step
  <2> HIDE DEF llm, tool
  <2>2. f = <<FoldRow(d.llm + llm, d.tool + tool)>>
    <3>1. CASE d.llm + d.tool > 0
      <4>1. c.fold = <<FoldRow(d.llm, d.tool)>>
        BY <1>1, <3>1 DEF Fold
      <4>2. c.fold # <<>> /\ c.fold[1] = FoldRow(d.llm, d.tool)
        BY <4>1
      <4>3. c.fold[1].llm = d.llm /\ c.fold[1].tool = d.tool
        BY <4>2 DEF FoldRow
      <4> QED  BY <4>2, <4>3
    <3>2. CASE ~(d.llm + d.tool > 0)
      <4>1. d.llm = 0 /\ d.tool = 0
        BY <1>1, <3>2
      <4>2. d.llm + llm = llm /\ d.tool + tool = tool
        BY <1>1, <4>1
      <4>3. c.fold = <<>>
        BY <1>1, <3>2 DEF Fold
      <4> QED  BY <4>2, <4>3
    <3> QED  BY <3>1, <3>2
  <2>3. (d.llm + llm) + (d.tool + tool) > 0
    BY <1>1, <1>2
  <2> HIDE DEF f
  <2>4. CliStep(c, k, e).rows = c.rows /\ CliStep(c, k, e).fold = f
    BY <2>1 DEF CliStates
  <2>5. /\ D2Step(d, k, e, "all").rows = d.rows /\ D2Step(d, k, e, "all").llm = d.llm + llm
        /\ D2Step(d, k, e, "all").tool = d.tool + tool
    BY <2>1 DEF D2States
  <2> QED  BY <1>1, <2>2, <2>3, <2>4, <2>5 DEF Same, Fold
<1>3. CASE ~IsCall(e)
  <2> DEFINE flushed == IF d.llm + d.tool > 0 THEN Append(d.rows, FoldRow(d.llm, d.tool)) ELSE d.rows
             x == EventRow(k)
  <2>1. /\ CliStep(c, k, e) = [rows |-> c.rows \o c.fold \o <<x>>, fold |-> <<>>]
        /\ D2Step(d, k, e, "all") = [rows |-> Append(flushed, x), llm |-> 0, tool |-> 0]
    BY <1>3 DEF CliStep, D2Step, Matches
  <2>2. x \in Rows /\ FoldRow(d.llm, d.tool) \in Rows
    BY <1>1, RowTypes
  <2> HIDE DEF x
  <2>3. flushed = d.rows \o Fold(d) /\ flushed \in Seq(Rows)
    <3> DEFINE y == FoldRow(d.llm, d.tool)
    <3> HIDE DEF y
    <3>1. Append(d.rows, y) = d.rows \o <<y>> /\ d.rows = d.rows \o <<>>
      BY <1>1, <2>2 DEF y
    <3>2. Append(d.rows, y) \in Seq(Rows)
      BY <1>1, <2>2 DEF y
    <3> QED  BY <1>1, <3>1, <3>2 DEF y, Fold
  <2> HIDE DEF flushed
  <2>4. Append(flushed, x) = flushed \o <<x>>
    BY <2>2, <2>3
  <2>5. ~(0 + 0 > 0)
    OBVIOUS
  <2> DEFINE z == c.rows \o c.fold \o <<x>>
  <2>6. z = Append(flushed, x) /\ CliStep(c, k, e) = [rows |-> z, fold |-> <<>>]
    BY <1>1, <2>1, <2>3, <2>4
  <2> HIDE DEF z
  <2>7. CliStep(c, k, e).rows = Append(flushed, x) /\ CliStep(c, k, e).fold = <<>>
    BY <2>6
  <2>8. /\ D2Step(d, k, e, "all").rows = Append(flushed, x)
        /\ D2Step(d, k, e, "all").llm = 0 /\ D2Step(d, k, e, "all").tool = 0
    BY <2>1
  <2> QED  BY <2>5, <2>7, <2>8 DEF Same, Fold
<1> QED  BY <1>2, <1>3

(* So both loops end with the same rows, whatever the trace. *)
LEMMA TimelinesSame ==
  ASSUME NEW K, NEW t \in Seq([kind : K])
  PROVE  D2Rows(t, "all") = CliRows(t)
<1> DEFINE n == Len(t)
           c == CliScan(t)
           d == D2Scan(t, "all")
<1>1. /\ c \in [0..n -> CliStates] /\ c[0] = CliNone
      /\ \A k \in 1..n : c[k] = CliStep(c[k - 1], k, t[k])
  BY CliScanComputes
<1>2. /\ d \in [0..n -> D2States] /\ d[0] = D2None
      /\ \A k \in 1..n : d[k] = D2Step(d[k - 1], k, t[k], "all")
  BY D2ScanComputes
<1>3. n \in Nat
  OBVIOUS
<1> HIDE DEF n, c, d
<1>4. Same(c[n], d[n])
  <2> DEFINE T == {m \in Nat : m <= n => Same(c[m], d[m])}
  <2>1. 0 \in T
    BY <1>1, <1>2 DEF CliNone, D2None, Same, Fold
  <2>2. ASSUME NEW m \in T PROVE m + 1 \in T
    <3>1. CASE m + 1 <= n
      <4>1. m + 1 \in 1..n /\ (m + 1) - 1 = m /\ m \in 0..n /\ m <= n /\ m + 1 \in Nat
        BY <1>3, <3>1
      <4>2. c[m] \in CliStates /\ d[m] \in D2States /\ Same(c[m], d[m])
        BY <1>1, <1>2, <2>2, <4>1
      <4>3. /\ c[m + 1] = CliStep(c[m], m + 1, t[m + 1])
            /\ d[m + 1] = D2Step(d[m], m + 1, t[m + 1], "all")
        BY <1>1, <1>2, <4>1
      <4>4. Same(c[m + 1], d[m + 1])
        BY <4>1, <4>2, <4>3, SameStep
      <4> QED  BY <4>1, <4>4
    <3>2. CASE ~(m + 1 <= n)
      BY <3>2
    <3> QED  BY <3>1, <3>2
  <2>3. T = Nat
    <3> HIDE DEF T
    <3>1. T \in SUBSET Nat
      BY DEF T
    <3> QED  BY <2>1, <2>2, <3>1, SetInduction
  <2> QED  BY <1>3, <2>3
<1>5. c[n] \in CliStates /\ d[n] \in D2States
  BY <1>1, <1>2, <1>3
<1>6. /\ CliRows(t) = c[n].rows \o c[n].fold
      /\ D2Rows(t, "all") = IF d[n].llm + d[n].tool > 0
                            THEN Append(d[n].rows, FoldRow(d[n].llm, d[n].tool)) ELSE d[n].rows
  BY RowsOfScans DEF c, d, n
<1> DEFINE r == d[n].rows
           x == FoldRow(d[n].llm, d[n].tool)
<1>7. r \in Seq(Rows) /\ x \in Rows
  BY <1>5, RowTypes DEF D2States
<1>8. c[n].rows = r /\ c[n].fold = IF d[n].llm + d[n].tool > 0 THEN <<x>> ELSE <<>>
  BY <1>4 DEF Same, Fold
<1> HIDE DEF r, x
<1>9. Append(r, x) = r \o <<x>> /\ r \o <<>> = r
  BY <1>7
<1> QED  BY <1>6, <1>8, <1>9 DEF r, x

(* The seqs of rows, and those that a filter shows of the first k events. *)
Seqs(rows) == {rows[i].seq : i \in 1..Len(rows)}
Shows(t, filter, k) == {i \in 1..k : Matches(filter, t[i])}

(* A filtered loop adds the row of an event that matches, and no other. *)
LEMMA FilteredStep ==
  ASSUME NEW d \in D2States, NEW filter \in {"gate", "handoff", "budget"},
         NEW t, NEW m \in Nat, Seqs(d.rows) = Shows(t, filter, m)
  PROVE  Seqs(D2Step(d, m + 1, t[m + 1], filter).rows) = Shows(t, filter, m + 1)
<1> DEFINE e == t[m + 1]
           k == m + 1
<1>1. /\ k \in Nat /\ \A i \in 1..k : i \in 1..m \/ i = k
      /\ \A i \in 1..m : i \in 1..k /\ k \in 1..k
      /\ k \in 1..k
  OBVIOUS
<1>2. IsCall(e) => ~Matches(filter, e)
  BY DEF IsCall, Matches
<1>3. d.rows \in Seq(Rows)
  BY DEF D2States
<1>4. CASE ~Matches(filter, e)
  <2>1. D2Step(d, k, e, filter) = d
    BY <1>4 DEF D2Step
  <2>2. Shows(t, filter, k) = Shows(t, filter, m)
    BY <1>1, <1>4 DEF Shows
  <2> QED  BY <2>1, <2>2
<1>5. CASE Matches(filter, e)
  <2> DEFINE x == EventRow(k)
             rows == Append(d.rows, x)
  <2>1. D2Step(d, k, e, filter) = [rows |-> rows, llm |-> 0, tool |-> 0]
    BY <1>2, <1>5 DEF D2Step
  <2>2. x \in Rows /\ x.seq = k
    BY <1>1, RowTypes DEF EventRow
  <2> HIDE DEF x
  <2>3. /\ Len(d.rows) \in Nat /\ Len(rows) = Len(d.rows) + 1 /\ rows[Len(d.rows) + 1] = x
        /\ \A i \in 1..Len(d.rows) : rows[i] = d.rows[i]
    BY <1>3, <2>2
  <2> HIDE DEF rows
  <2>4. /\ \A i \in 1..Len(rows) : i \in 1..Len(d.rows) \/ i = Len(d.rows) + 1
        /\ Len(d.rows) + 1 \in 1..Len(rows) /\ \A i \in 1..Len(d.rows) : i \in 1..Len(rows)
    BY <2>3
  <2>5. Seqs(rows) = Seqs(d.rows) \cup {k}
    BY <2>2, <2>3, <2>4 DEF Seqs
  <2>6. Shows(t, filter, k) = Shows(t, filter, m) \cup {k}
    BY <1>1, <1>5 DEF Shows
  <2>7. D2Step(d, k, e, filter).rows = rows
    BY <2>1
  <2> QED  BY <2>5, <2>6, <2>7
<1> QED  BY <1>4, <1>5

(* A filter shows its events, whatever the trace. *)
LEMMA FilterExact ==
  ASSUME NEW K, NEW t \in Seq([kind : K]), NEW filter \in {"gate", "handoff", "budget"}
  PROVE  Seqs(D2Rows(t, filter)) = Shows(t, filter, Len(t))
<1> DEFINE n == Len(t)
           d == D2Scan(t, filter)
<1>1. /\ d \in [0..n -> D2States] /\ d[0] = D2None
      /\ \A k \in 1..n : d[k] = D2Step(d[k - 1], k, t[k], filter)
  BY D2ScanComputes
<1>2. n \in Nat
  OBVIOUS
<1>3. D2Rows(t, filter) = d[n].rows
  BY RowsOfScans
<1> HIDE DEF n, d
<1>4. Seqs(d[n].rows) = Shows(t, filter, n)
  <2> DEFINE T == {m \in Nat : m <= n => Seqs(d[m].rows) = Shows(t, filter, m)}
  <2>1. 0 \in T
    <3>1. d[0].rows = <<>> /\ Len(<<>>) = 0 /\ \A i : i \notin 1..0
      BY <1>1 DEF D2None
    <3> QED  BY <3>1 DEF Seqs, Shows
  <2>2. ASSUME NEW m \in T PROVE m + 1 \in T
    <3>1. CASE m + 1 <= n
      <4>1. m + 1 \in 1..n /\ (m + 1) - 1 = m /\ m \in 0..n /\ m <= n /\ m + 1 \in Nat /\ m \in Nat
        BY <1>2, <3>1
      <4>2. d[m] \in D2States /\ Seqs(d[m].rows) = Shows(t, filter, m)
        BY <1>1, <2>2, <4>1
      <4>3. d[m + 1] = D2Step(d[m], m + 1, t[m + 1], filter)
        BY <1>1, <4>1
      <4>4. Seqs(d[m + 1].rows) = Shows(t, filter, m + 1)
        BY <4>1, <4>2, <4>3, FilteredStep
      <4> QED  BY <4>1, <4>4
    <3>2. CASE ~(m + 1 <= n)
      BY <3>2
    <3> QED  BY <3>1, <3>2
  <2>3. T = Nat
    <3> HIDE DEF T
    <3>1. T \in SUBSET Nat
      BY DEF T
    <3> QED  BY <2>1, <2>2, <3>1, SetInduction
  <2> QED  BY <1>2, <2>3
<1> QED  BY <1>3, <1>4 DEF n

(* The dashboard's timeline (ui/mod.rs) and that of `trace show` (trace.rs) *)
(* show the same rows for every trace, and a filter shows its events        *)
(* exactly.                                                                 *)
THEOREM TimelinesAgree == Spec => []ViewsAgree
<1>1. IInv => ViewsAgree
  <2> SUFFICES ASSUME IInv PROVE ViewsAgree
    OBVIOUS
  <2>1. log \in Seq([kind : Kinds])
    BY DEF IInv, Typed
  <2>2. D2Rows(log, "all") = CliRows(log)
    BY <2>1, TimelinesSame
  <2>3. \A filter \in {"gate", "handoff", "budget"} :
          Seqs(D2Rows(log, filter)) = Shows(log, filter, Len(log))
    BY <2>1, FilterExact
  <2> QED  BY <2>2, <2>3 DEF ViewsAgree, Seqs, Shows
<1> QED  BY <1>1, GatewayInvariant, PTL

=============================================================================
