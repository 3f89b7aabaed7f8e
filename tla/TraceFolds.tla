----------------------------- MODULE TraceFolds ------------------------------
(***************************************************************************)
(* Recursive functions over a trace: that a loop over its events has the   *)
(* values its definition says, and what the token sum of the ledger's      *)
(* properties (LedgerMatchesTrace, CallsAccounted) gains with an event.    *)
(* A proof by induction cannot be parameterised by a predicate here, so it *)
(* is made over sets of naturals (SetInduction).                           *)
(***************************************************************************)
EXTENDS Integers, Sequences, WellFoundedInduction, TLAPS

(* Induction over naturals, with sets in place of predicates: a set of     *)
(* naturals has a least element.                                           *)
LEMMA LeastNatural ==
  ASSUME NEW T \in SUBSET Nat, T # {}
  PROVE  \E n \in T : \A m \in T : n <= m
<1> DEFINE R == OpToRel(<, Nat)
<1>1. IsWellFoundedOn(R, Nat)
  BY NatLessThanWellFounded, Zenon
<1>2. \A x, y \in Nat : x < y => <<x, y>> \in R
  BY DEF OpToRel
<1> HIDE DEF R
<1>3. PICK x \in T : \A y \in T : ~(<<y, x>> \in R)
  BY <1>1, WFMin
<1>4. ASSUME NEW y \in T PROVE x <= y
  <2>1. x \in Nat /\ y \in Nat
    OBVIOUS
  <2>2. ~(y < x)
    BY <1>2, <1>3, <2>1, Zenon
  <2> QED  BY <2>1, <2>2
<1> QED  BY <1>4

(* A set that holds 0 and, with n, n + 1, is Nat. *)
LEMMA SetInduction ==
  ASSUME NEW T \in SUBSET Nat, 0 \in T, \A n \in T : n + 1 \in T
  PROVE  T = Nat
<1> SUFFICES ASSUME Nat \ T # {} PROVE FALSE
  OBVIOUS
<1>1. PICK n \in Nat \ T : \A m \in Nat \ T : n <= m
  BY LeastNatural
<1>2. n \in Nat /\ n # 0 /\ n - 1 \in Nat
  BY <1>1
<1>3. n - 1 \in T
  BY <1>1, <1>2
<1> QED  BY <1>1, <1>2, <1>3

(* A function with a first value and a step from each value to the next. *)
Follows(f, S, s0, n, step) ==
  f \in [0..n -> S] /\ f[0] = s0 /\ \A k \in 1..n : f[k] = step[k][f[k - 1]]

(* There is one, by induction over n. *)
LEMMA Recursion ==
  ASSUME NEW S, NEW s0 \in S, NEW n \in Nat, NEW step \in [1..n -> [S -> S]]
  PROVE  \E f : Follows(f, S, s0, n, step)
<1> DEFINE P(m, f) == /\ f \in [0..m -> S] /\ f[0] = s0
                      /\ \A k \in 1..m : k <= n => f[k] = step[k][f[k - 1]]
           T == {m \in Nat : \E f : P(m, f)}
<1>1. 0 \in T
  <2>1. P(0, [k \in 0..0 |-> s0])
    OBVIOUS
  <2> QED  BY <2>1
<1>2. ASSUME NEW m \in T PROVE m + 1 \in T
  <2>1. PICK f : P(m, f)
    OBVIOUS
  <2> DEFINE x == IF m + 1 <= n THEN step[m + 1][f[m]] ELSE s0
             g == [k \in 0..(m + 1) |-> IF k = m + 1 THEN x ELSE f[k]]
  <2>2. m \in Nat /\ m + 1 \in Nat /\ m \in 0..m
    OBVIOUS
  <2>3. x \in S
    <3>1. f[m] \in S
      BY <2>1, <2>2
    <3>2. m + 1 <= n => step[m + 1] \in [S -> S]
      BY <2>2
    <3> QED  BY <3>1, <3>2
  <2> HIDE DEF x
  <2>4. g \in [0..(m + 1) -> S] /\ g[0] = s0
    BY <2>1, <2>2, <2>3
  <2>5. ASSUME NEW k \in 1..(m + 1), k <= n PROVE g[k] = step[k][g[k - 1]]
    <3>1. CASE k = m + 1
      <4>1. k - 1 = m /\ g[k - 1] = f[m] /\ g[k] = x
        BY <2>2, <3>1
      <4> QED  BY <2>5, <3>1, <4>1 DEF x
    <3>2. CASE k # m + 1
      <4>1. k \in 1..m /\ g[k] = f[k] /\ g[k - 1] = f[k - 1]
        BY <2>2, <2>5, <3>2
      <4> QED  BY <2>1, <2>5, <4>1
    <3> QED  BY <3>1, <3>2
  <2>6. P(m + 1, g)
    BY <2>4, <2>5
  <2> HIDE DEF P
  <2>7. \E h : P(m + 1, h)
    BY <2>6
  <2> QED  BY <2>2, <2>7
<1> HIDE DEF P
<1>3. n \in T
  <2>1. T = Nat
    <3> HIDE DEF T
    <3>1. T \in SUBSET Nat
      BY DEF T
    <3> QED  BY <1>1, <1>2, <3>1, SetInduction
  <2> HIDE DEF T
  <2> QED  BY <2>1
<1>4. PICK f : P(n, f)
  BY <1>3
<1>5. Follows(f, S, s0, n, step)
  BY <1>4 DEF P, Follows
<1> QED  BY <1>5

-----------------------------------------------------------------------------
(* The tokens of a trace. *)
Spend(t) ==
  LET sum[k \in 0..Len(t)] == IF k = 0 THEN 0 ELSE sum[k - 1] + t[k].tok
  IN  sum[Len(t)]

(* f holds the partial sums of the tokens of t. *)
Sums(t, f) ==
  /\ f \in [0..Len(t) -> Nat] /\ f[0] = 0
  /\ \A k \in 1..Len(t) : f[k] = f[k - 1] + t[k].tok

(* There are partial sums. *)
LEMMA SumsExist ==
  ASSUME NEW S, NEW t \in Seq(S), \A i \in 1..Len(t) : t[i].tok \in Nat
  PROVE  \E f : Sums(t, f)
<1> DEFINE n == Len(t)
           step == [k \in 1..n |-> [s \in Nat |-> s + t[k].tok]]
<1>1. n \in Nat /\ step \in [1..n -> [Nat -> Nat]]
  OBVIOUS
<1>2. \A k \in 1..n, s \in Nat : step[k][s] = s + t[k].tok
  OBVIOUS
<1> HIDE DEF step
<1>3. PICK f : Follows(f, Nat, 0, n, step)
  <2> HIDE DEF n
  <2> QED  BY <1>1, Recursion
<1>4. \A k \in 1..n : f[k] = f[k - 1] + t[k].tok
  <2>1. \A k \in 1..n : k - 1 \in 0..n
    BY <1>1
  <2> HIDE DEF n
  <2> QED  BY <1>2, <1>3, <2>1 DEF Follows
<1> QED  BY <1>3, <1>4 DEF Follows, Sums

(* There is one function of partial sums. *)
LEMMA SumsUnique ==
  ASSUME NEW S, NEW t \in Seq(S), NEW f, Sums(t, f), NEW g, Sums(t, g)
  PROVE  f = g
<1> DEFINE T == {n \in Nat : n <= Len(t) => f[n] = g[n]}
<1>0. Len(t) \in Nat
  OBVIOUS
<1>1. 0 \in T
  BY DEF Sums
<1>2. ASSUME NEW n \in T PROVE n + 1 \in T
  BY <1>0 DEF Sums
<1>3. T = Nat
  <2> HIDE DEF T
  <2>1. T \in SUBSET Nat
    BY DEF T
  <2> QED  BY <1>1, <1>2, <2>1, SetInduction
<1>4. \A k \in 0..Len(t) : f[k] = g[k]
  BY <1>0, <1>3
<1> QED  BY <1>4 DEF Sums

(* The recursive definition computes the partial sums. *)
LEMMA SpendIsSum ==
  ASSUME NEW S, NEW t \in Seq(S), \A i \in 1..Len(t) : t[i].tok \in Nat
  PROVE  \E f : Sums(t, f) /\ Spend(t) = f[Len(t)]
<1> DEFINE F(f) == [k \in 0..Len(t) |-> IF k = 0 THEN 0 ELSE f[k - 1] + t[k].tok]
           sum == CHOOSE f : f = F(f)
<1>0. Len(t) \in Nat
  OBVIOUS
<1>1. PICK f : Sums(t, f)
  BY SumsExist
<1>2. f = F(f)
  BY <1>0, <1>1 DEF Sums
<1>3. sum = F(sum)
  BY <1>2
<1>4. Spend(t) = sum[Len(t)]
  BY DEF Spend
<1>5. \A k \in 1..Len(t) : sum[k] = sum[k - 1] + t[k].tok
  <2> HIDE DEF sum
  <2> QED  BY <1>0, <1>3
<1>6. sum[0] = 0 /\ DOMAIN sum = 0..Len(t) /\ sum = [k \in 0..Len(t) |-> sum[k]]
  <2> HIDE DEF sum
  <2> QED  BY <1>0, <1>3
<1> HIDE DEF sum
<1>7. \A k \in 0..Len(t) : sum[k] \in Nat
  <2> DEFINE T == {n \in Nat : n <= Len(t) => sum[n] \in Nat}
  <2>1. 0 \in T
    BY <1>6
  <2>2. ASSUME NEW n \in T PROVE n + 1 \in T
    BY <1>0, <1>5
  <2>3. T = Nat
    <3> HIDE DEF T
    <3>1. T \in SUBSET Nat
      BY DEF T
    <3> QED  BY <2>1, <2>2, <3>1, SetInduction
  <2> QED  BY <1>0, <2>3
<1>8. Sums(t, sum)
  BY <1>5, <1>6, <1>7 DEF Sums
<1> QED  BY <1>4, <1>8

(* An event adds its tokens. *)
LEMMA SpendAppend ==
  ASSUME NEW S, NEW t \in Seq(S), \A i \in 1..Len(t) : t[i].tok \in Nat,
         NEW e \in S, e.tok \in Nat
  PROVE  Spend(Append(t, e)) = Spend(t) + e.tok
<1> DEFINE u == Append(t, e)
<1>0. /\ u \in Seq(S) /\ Len(t) \in Nat /\ Len(u) = Len(t) + 1 /\ u[Len(u)] = e
      /\ \A i \in 1..Len(t) : u[i] = t[i]
  OBVIOUS
<1> HIDE DEF u
<1>1. \A i \in 1..Len(u) : u[i].tok \in Nat
  BY <1>0
<1>2. PICK f : Sums(t, f) /\ Spend(t) = f[Len(t)]
  BY SpendIsSum
<1>3. PICK g : Sums(u, g) /\ Spend(u) = g[Len(u)]
  BY <1>0, <1>1, SpendIsSum
<1> DEFINE h == [k \in 0..Len(t) |-> g[k]]
<1>4. Sums(t, h)
  BY <1>0, <1>3 DEF Sums
<1>5. f = h
  BY <1>2, <1>4, SumsUnique
<1>6. g[Len(t)] = Spend(t)
  BY <1>0, <1>2, <1>5
<1>7. g[Len(u)] = g[Len(t)] + e.tok
  BY <1>0, <1>3 DEF Sums
<1>8. Spend(u) = Spend(t) + e.tok
  BY <1>3, <1>6, <1>7
<1> QED  BY <1>8 DEF u

(* A sum of naturals. *)
LEMMA SpendNatural ==
  ASSUME NEW S, NEW t \in Seq(S), \A i \in 1..Len(t) : t[i].tok \in Nat
  PROVE  Spend(t) \in Nat
<1>1. PICK f : Sums(t, f) /\ Spend(t) = f[Len(t)]
  BY SpendIsSum
<1>2. Len(t) \in 0..Len(t)
  OBVIOUS
<1> QED  BY <1>1, <1>2 DEF Sums

(* An empty trace has spent nothing. *)
LEMMA SpendEmpty == Spend(<<>>) = 0
<1>0. <<>> \in Seq(Nat) /\ \A i \in 1..Len(<<>>) : <<>>[i].tok \in Nat
  OBVIOUS
<1>1. PICK f : Sums(<<>>, f) /\ Spend(<<>>) = f[Len(<<>>)]
  BY <1>0, SpendIsSum
<1> QED  BY <1>1 DEF Sums

=============================================================================
