-------------------------- MODULE FilteringProofs --------------------------
(***************************************************************************)
(* Induction over data, and what it shows of recursive functions over a    *)
(* list: that they are what their definition says, and what Filtered       *)
(* keeps.  The induction principles here speak of sets of numbers instead  *)
(* of predicates, so that they can be cited with a set put in.             *)
(***************************************************************************)
EXTENDS Filtering, WellFoundedInduction, SequenceTheorems, TLAPS

-----------------------------------------------------------------------------
(* Induction *)

(* A set of numbers that is not empty has a least                           *)
LEMMA LeastNatural ==
  ASSUME NEW T \in SUBSET Nat, T # {}
  PROVE  \E m \in T : \A n \in T : m <= n
<1>1. \E x \in T : \A y \in T : ~ (<<y, x>> \in OpToRel(<, Nat))
  BY WFMin, NatLessThanWellFounded, Zenon
<1>2. PICK x \in T : \A y \in T : ~ (<<y, x>> \in OpToRel(<, Nat))
  BY <1>1
<1>3. \A y \in T : ~(y < x)
  BY <1>2 DEF OpToRel
<1> QED
  BY <1>3

(* What holds of 0, and of n + 1 whenever of n, holds of every number       *)
LEMMA Induction ==
  ASSUME NEW P \in SUBSET Nat, 0 \in P, \A n \in P : n + 1 \in P
  PROVE  P = Nat
<1> SUFFICES ASSUME Nat \ P # {}
             PROVE  FALSE
  OBVIOUS
<1>1. PICK m \in Nat \ P : \A n \in Nat \ P : m <= n
  <2>1. Nat \ P \in SUBSET Nat
    OBVIOUS
  <2> QED
    BY <2>1, LeastNatural, Zenon
<1>2. m # 0 /\ m - 1 \in Nat
  BY <1>1
<1>3. m - 1 \in P
  BY <1>1, <1>2
<1> QED
  BY <1>1, <1>3

(* The same up to a bound                                                   *)
LEMMA BoundedInduction ==
  ASSUME NEW N \in Nat, NEW P, 0 \in P, \A n \in P : n \in 0..(N - 1) => n + 1 \in P
  PROVE  0..N \subseteq P
<1> DEFINE Q == {n \in Nat : n <= N => n \in P}
<1>1. 0 \in Q /\ \A n \in Q : n + 1 \in Q
  OBVIOUS
<1>2. Q = Nat
  <2>1. Q \in SUBSET Nat
    OBVIOUS
  <2> HIDE DEF Q
  <2> QED
    BY <1>1, <2>1, Induction, Zenon
<1> QED
  BY <1>2

(* A set of numbers below a bound has a greatest                            *)
LEMMA GreatestNatural ==
  ASSUME NEW N \in Nat, NEW T \in SUBSET (0..N), T # {}
  PROVE  \E m \in T : \A n \in T : n <= m
<1> DEFINE Below == {N - n : n \in T}
<1>1. Below \in SUBSET Nat /\ Below # {}
  <2>1. PICK n \in T : TRUE
    OBVIOUS
  <2>2. N - n \in Below
    OBVIOUS
  <2>3. \A m \in T : N - m \in Nat
    OBVIOUS
  <2> QED
    BY <2>2, <2>3
<1>2. PICK b \in Below : \A c \in Below : b <= c
  <2> HIDE DEF Below
  <2> QED
    BY <1>1, LeastNatural, Zenon
<1>3. PICK m \in T : b = N - m
  BY <1>2
<1>4. \A n \in T : N - m <= N - n
  BY <1>2, <1>3
<1> QED
  BY <1>4

-----------------------------------------------------------------------------
(* Recursion: there is a function that starts as it is told and goes on     *)
(* from each value to the next as it is told                                *)

Unrolls(f, N, start, step) == f[0] = start /\ \A n \in 1..N : f[n] = step[<<n, f[n - 1]>>]

LEMMA Recursion ==
  ASSUME NEW N \in Nat, NEW V, NEW start \in V, NEW step \in [(1..N) \X V -> V]
  PROVE  \E f \in [0..N -> V] : Unrolls(f, N, start, step)
<1> DEFINE Goes(f, m) == Unrolls(f, m, start, step)
           P == {m \in 0..N : \E f \in [0..m -> V] : Goes(f, m)}
<1>1. 0 \in P
  <2>1. [n \in 0..0 |-> start] \in [0..0 -> V] /\ Goes([n \in 0..0 |-> start], 0)
    BY DEF Unrolls
  <2>2. 0 \in 0..N
    OBVIOUS
  <2> HIDE DEF Goes
  <2> QED
    BY <2>1, <2>2
<1>2. ASSUME NEW m \in P, m \in 0..(N - 1)
      PROVE  m + 1 \in P
  <2>1. PICK f \in [0..m -> V] : Goes(f, m)
    BY <1>2
  <2> DEFINE g == [n \in 0..(m + 1) |-> IF n = m + 1 THEN step[<<m + 1, f[m]>>] ELSE f[n]]
  <2>2. step[<<m + 1, f[m]>>] \in V
    BY <1>2
  <2>3. g \in [0..(m + 1) -> V]
    BY <1>2, <2>2
  <2>4. g[0] = start
    BY <1>2, <2>1 DEF Unrolls
  <2>5. ASSUME NEW n \in 1..(m + 1)
        PROVE  g[n] = step[<<n, g[n - 1]>>]
    <3>1. CASE n = m + 1
      <4>1. g[n] = step[<<n, f[m]>>] /\ g[n - 1] = f[m] /\ n - 1 = m
        BY <1>2, <3>1
      <4> QED
        BY <4>1
    <3>2. CASE n # m + 1
      <4>1. n \in 1..m /\ n - 1 \in 0..m
        BY <1>2, <3>2
      <4>2. g[n] = f[n] /\ g[n - 1] = f[n - 1]
        BY <1>2, <4>1
      <4> QED
        BY <2>1, <4>1, <4>2 DEF Unrolls
    <3> QED
      BY <3>1, <3>2
  <2>6. Goes(g, m + 1)
    BY <2>4, <2>5 DEF Unrolls
  <2> HIDE DEF g, Goes
  <2> QED
    BY <1>2, <2>3, <2>6
<1>3. 0..N \subseteq P
  <2> HIDE DEF P
  <2> QED
    BY <1>1, <1>2, BoundedInduction, Zenon
<1> QED
  BY <1>3

(* and no other such function                                               *)
StepAlike(f, g, N) == \A n \in 1..N : f[n - 1] = g[n - 1] => f[n] = g[n]

LEMMA RecursionIsUnique ==
  ASSUME NEW N \in Nat, NEW f, NEW g, f[0] = g[0], StepAlike(f, g, N)
  PROVE  f[N] = g[N]
<1> DEFINE P == {n \in 0..N : f[n] = g[n]}
<1>1. 0 \in P
  OBVIOUS
<1>2. ASSUME NEW n \in P, n \in 0..(N - 1)
      PROVE  n + 1 \in P
  <2>1. n + 1 \in 1..N /\ (n + 1) - 1 = n /\ f[n] = g[n]
    BY <1>2
  <2>2. f[n + 1] = g[n + 1]
    BY <2>1 DEF StepAlike
  <2> QED
    BY <2>1, <2>2
<1>3. 0..N \subseteq P
  <2> HIDE DEF P
  <2> QED
    BY <1>1, <1>2, BoundedInduction, Zenon
<1>4. N \in P
  <2> HIDE DEF P
  <2> QED
    BY <1>3
<1> QED
  BY <1>4

-----------------------------------------------------------------------------
(* Filtered *)

KeepsOneByOne(kept, list, Passing) ==
  /\ kept[0] = <<>>
  /\ \A n \in 1..Len(list) :
       kept[n] = IF list[n] \in Passing THEN Append(kept[n - 1], list[n]) ELSE kept[n - 1]

(* The recursive function Filtered is defined by exists                     *)
LEMMA FilteredUnfolds ==
  ASSUME NEW S, NEW list \in Seq(S), NEW Passing
  PROVE  \E kept \in [0..Len(list) -> Seq(S)] :
           /\ Filtered(list, Passing) = kept[Len(list)]
           /\ KeepsOneByOne(kept, list, Passing)
<1> DEFINE Keep(n, before) == IF list[n] \in Passing THEN Append(before, list[n]) ELSE before
           step == [p \in (1..Len(list)) \X Seq(S) |-> Keep(p[1], p[2])]
           Is(f) == f = [n \in 0..Len(list) |-> IF n = 0 THEN <<>> ELSE Keep(n, f[n - 1])]
           h == CHOOSE f : Is(f)
<1>1. Len(list) \in Nat /\ <<>> \in Seq(S)
  OBVIOUS
<1>2. step \in [(1..Len(list)) \X Seq(S) -> Seq(S)]
  OBVIOUS
<1>3. \A n \in 1..Len(list) : \A before \in Seq(S) : step[<<n, before>>] = Keep(n, before)
  OBVIOUS
<1>4. PICK g \in [0..Len(list) -> Seq(S)] : Unrolls(g, Len(list), <<>>, step)
  <2> HIDE DEF step, Keep, Is, h
  <2> QED
    BY <1>1, <1>2, Recursion
<1>5. Filtered(list, Passing) = h[Len(list)]
  BY DEF Filtered
<1> HIDE DEF step, Keep
<1>6. \A n \in 1..Len(list) : g[n] = Keep(n, g[n - 1])
  <2> TAKE n \in 1..Len(list)
  <2>1. g[n - 1] \in Seq(S)
    BY <1>1
  <2> QED
    BY <1>3, <1>4, <2>1 DEF Unrolls
<1>7. Is(g)
  BY <1>1, <1>4, <1>6 DEF Unrolls
<1>8. Is(h)
  <2> HIDE DEF Is
  <2> QED
    BY <1>7
<1> HIDE DEF h
<1>9. h[0] = <<>> /\ \A n \in 1..Len(list) : h[n] = Keep(n, h[n - 1])
  BY <1>1, <1>8
<1>10. h[Len(list)] = g[Len(list)]
  <2>1. h[0] = g[0]
    BY <1>4, <1>9 DEF Unrolls
  <2>2. StepAlike(h, g, Len(list))
    BY <1>6, <1>9 DEF StepAlike
  <2> QED
    BY <1>1, <2>1, <2>2, RecursionIsUnique
<1> USE DEF Keep
<1> QED
  BY <1>4, <1>5, <1>6, <1>10 DEF Unrolls, KeepsOneByOne

(* Where in the list each element that is kept stands                       *)
Picks(list, Passing, n, kept, at) ==
  /\ at \in [1..Len(kept) -> 1..n]
  /\ \A j, k \in 1..Len(kept) : j < k => at[j] < at[k]
  /\ \A k \in 1..Len(kept) : kept[k] = list[at[k]]
  /\ \A m \in 1..n : list[m] \in Passing <=> \E k \in 1..Len(kept) : at[k] = m

(* Filtered keeps what passes and nothing else, in order                    *)
LEMMA FilteredPicks ==
  ASSUME NEW S, NEW list \in Seq(S), NEW Passing
  PROVE  /\ Filtered(list, Passing) \in Seq(S)
         /\ \E at : Picks(list, Passing, Len(list), Filtered(list, Passing), at)
<1> DEFINE N == Len(list)
<1>0. N \in Nat
  OBVIOUS
<1>1. PICK kept \in [0..N -> Seq(S)] :
        Filtered(list, Passing) = kept[N] /\ KeepsOneByOne(kept, list, Passing)
  BY FilteredUnfolds
<1> DEFINE P == {n \in 0..N : \E at : Picks(list, Passing, n, kept[n], at)}
<1>2. 0 \in P
  <2>1. Picks(list, Passing, 0, kept[0], <<>>)
    BY <1>1 DEF Picks, KeepsOneByOne
  <2> QED
    BY <1>0, <2>1
<1>3. ASSUME NEW n \in P, n \in 0..(N - 1)
      PROVE  n + 1 \in P
  <2>1. PICK at : Picks(list, Passing, n, kept[n], at)
    BY <1>3
  <2>2. n + 1 \in 1..N /\ (n + 1) - 1 = n /\ kept[n] \in Seq(S) /\ Len(kept[n]) \in Nat /\ list[n + 1] \in S
    BY <1>0, <1>3
  <2>3. CASE list[n + 1] \notin Passing
    <3>1. kept[n + 1] = kept[n]
      BY <1>1, <2>2, <2>3 DEF KeepsOneByOne
    <3>2. /\ at \in [1..Len(kept[n]) -> 1..n]
          /\ \A m \in 1..n : list[m] \in Passing <=> \E k \in 1..Len(kept[n]) : at[k] = m
      BY <2>1 DEF Picks
    <3>3. at \in [1..Len(kept[n]) -> 1..(n + 1)]
      BY <3>2, <2>2, <1>3
    <3>4. ASSUME NEW m \in 1..(n + 1)
          PROVE  list[m] \in Passing <=> \E k \in 1..Len(kept[n]) : at[k] = m
      <4>1. CASE m = n + 1
        BY <1>3, <2>2, <2>3, <3>2, <4>1
      <4>2. CASE m # n + 1
        BY <1>3, <3>2, <4>2
      <4> QED
        BY <4>1, <4>2
    <3>5. Picks(list, Passing, n + 1, kept[n], at)
      BY <2>1, <3>3, <3>4 DEF Picks
    <3> QED
      BY <1>3, <2>2, <3>1, <3>5
  <2>4. CASE list[n + 1] \in Passing
    <3> DEFINE L == Len(kept[n])
               more == [k \in 1..(L + 1) |-> IF k = L + 1 THEN n + 1 ELSE at[k]]
    <3>1. kept[n + 1] = Append(kept[n], list[n + 1])
      BY <1>1, <2>2, <2>4 DEF KeepsOneByOne
    <3>2. /\ Len(kept[n + 1]) = L + 1
          /\ kept[n + 1][L + 1] = list[n + 1]
          /\ \A k \in 1..L : kept[n + 1][k] = kept[n][k]
      BY <2>2, <3>1
    <3>3. /\ at \in [1..L -> 1..n]
          /\ \A j, k \in 1..L : j < k => at[j] < at[k]
          /\ \A k \in 1..L : kept[n][k] = list[at[k]]
          /\ \A m \in 1..n : list[m] \in Passing <=> \E k \in 1..L : at[k] = m
      BY <2>1 DEF Picks
    <3>4. L \in Nat /\ n \in Nat
      BY <2>2, <1>3
    <3> HIDE DEF L
    <3>5. more \in [1..(L + 1) -> 1..(n + 1)]
      BY <3>3, <3>4
    <3>6. \A j, k \in 1..(L + 1) : j < k => more[j] < more[k]
      BY <3>3, <3>4
    <3>7. \A k \in 1..(L + 1) : kept[n + 1][k] = list[more[k]]
      BY <3>2, <3>3, <3>4
    <3>8. ASSUME NEW m \in 1..(n + 1)
          PROVE  list[m] \in Passing <=> \E k \in 1..(L + 1) : more[k] = m
      <4>1. CASE m = n + 1
        BY <2>4, <3>4, <4>1
      <4>2. CASE m # n + 1
        <5>1. m \in 1..n
          BY <3>4, <4>2
        <5>2. (\E k \in 1..L : at[k] = m) <=> \E k \in 1..(L + 1) : more[k] = m
          BY <3>3, <3>4, <4>2
        <5> QED
          BY <3>3, <5>1, <5>2
      <4> QED
        BY <4>1, <4>2
    <3>9. Picks(list, Passing, n + 1, kept[n + 1], more)
      BY <3>2, <3>5, <3>6, <3>7, <3>8 DEF Picks
    <3> HIDE DEF more
    <3> QED
      BY <2>2, <3>9
  <2> QED
    BY <2>3, <2>4
<1>4. 0..N \subseteq P
  <2> HIDE DEF P, N
  <2> QED
    BY <1>0, <1>2, <1>3, BoundedInduction, Zenon
<1>5. N \in 0..N
  BY <1>0
<1> QED
  BY <1>1, <1>4, <1>5

(* so what it gives is a list of the same kind, no longer, with just the    *)
(* elements that pass, and the whole list if all do                         *)
LEMMA FilteredFacts ==
  ASSUME NEW S, NEW list \in Seq(S), NEW Passing
  PROVE  LET kept == Filtered(list, Passing)
         IN  /\ kept \in Seq(S) /\ Len(kept) \in Nat /\ Len(kept) <= Len(list)
             /\ \A k \in 1..Len(kept) : \E n \in 1..Len(list) : kept[k] = list[n] /\ list[n] \in Passing
             /\ \A n \in 1..Len(list) : list[n] \in Passing => \E k \in 1..Len(kept) : kept[k] = list[n]
             /\ (\A n \in 1..Len(list) : list[n] \in Passing) => kept = list
<1> DEFINE kept == Filtered(list, Passing)
<1>1. kept \in Seq(S) /\ Len(kept) \in Nat /\ Len(list) \in Nat
  BY FilteredPicks
<1>2. PICK at : Picks(list, Passing, Len(list), kept, at)
  BY FilteredPicks
<1> HIDE DEF kept
<1>3. /\ at \in [1..Len(kept) -> 1..Len(list)]
      /\ \A j, k \in 1..Len(kept) : j < k => at[j] < at[k]
      /\ \A k \in 1..Len(kept) : kept[k] = list[at[k]]
      /\ \A m \in 1..Len(list) : list[m] \in Passing <=> \E k \in 1..Len(kept) : at[k] = m
  BY <1>2 DEF Picks
<1>4. \A k \in 1..Len(kept) : k <= at[k]
  <2> DEFINE P == {k \in 0..Len(kept) : k # 0 => k <= at[k]}
  <2>1. 0 \in P
    BY <1>1
  <2>2. ASSUME NEW k \in P, k \in 0..(Len(kept) - 1)
        PROVE  k + 1 \in P
    <3>1. k \in Nat /\ k + 1 \in 1..Len(kept) /\ k + 1 \in 0..Len(kept)
      BY <1>1, <2>2
    <3>2. at[k + 1] \in Nat /\ 1 <= at[k + 1]
      BY <1>1, <1>3, <3>1
    <3>3. CASE k # 0
      <4>1. k \in 1..Len(kept) /\ k < k + 1 /\ at[k] \in Nat
        BY <1>1, <1>3, <2>2, <3>1, <3>3
      <4>2. k <= at[k] /\ at[k] < at[k + 1]
        BY <1>3, <2>2, <3>1, <3>3, <4>1
      <4> QED
        BY <3>1, <3>2, <4>1, <4>2
    <3> QED
      BY <3>1, <3>2, <3>3
  <2>3. 0..Len(kept) \subseteq P
    <3> HIDE DEF P
    <3> QED
      BY <1>1, <2>1, <2>2, BoundedInduction
  <2> QED
    BY <1>1, <2>3
<1>5. Len(kept) <= Len(list)
  BY <1>1, <1>3, <1>4
<1>6. ASSUME \A n \in 1..Len(list) : list[n] \in Passing
      PROVE  kept = list
  <2>1. \A m \in 1..Len(list) : \E k \in 1..Len(kept) : at[k] = m
    BY <1>3, <1>6
  <2> DEFINE Q == {m \in 0..Len(list) : m # 0 => m \in 1..Len(kept) /\ at[m] = m}
  <2>2. 0 \in Q
    BY <1>1
  <2>3. ASSUME NEW m \in Q, m \in 0..(Len(list) - 1)
        PROVE  m + 1 \in Q
    <3>1. PICK k \in 1..Len(kept) : at[k] = m + 1
      BY <1>1, <2>1, <2>3
    <3>2. k <= m + 1
      BY <1>1, <1>4, <3>1, <2>3
    <3>3. k >= m + 1
      BY <1>1, <1>3, <3>1, <2>3
    <3> QED
      BY <1>1, <2>3, <3>1, <3>2, <3>3
  <2>4. 0..Len(list) \subseteq Q
    <3> HIDE DEF Q
    <3> QED
      BY <1>1, <2>2, <2>3, BoundedInduction
  <2>5. \A m \in 1..Len(list) : m \in 1..Len(kept) /\ at[m] = m
    BY <1>1, <2>4
  <2>6. Len(kept) = Len(list)
    BY <1>1, <1>5, <2>5
  <2>7. \A m \in 1..Len(list) : kept[m] = list[m]
    BY <1>3, <2>5
  <2> QED
    BY <1>1, <2>6, <2>7
<1>7. \A k \in 1..Len(kept) : \E n \in 1..Len(list) : kept[k] = list[n] /\ list[n] \in Passing
  BY <1>3
<1>8. \A n \in 1..Len(list) : list[n] \in Passing => \E k \in 1..Len(kept) : kept[k] = list[n]
  BY <1>3
<1> QED
  BY <1>1, <1>5, <1>6, <1>7, <1>8 DEF kept

(* What one more element at the end adds                                    *)
LEMMA FilteredAppend ==
  ASSUME NEW S, NEW list \in Seq(S), NEW x \in S, NEW Passing
  PROVE  Filtered(Append(list, x), Passing) =
           IF x \in Passing THEN Append(Filtered(list, Passing), x) ELSE Filtered(list, Passing)
<1> DEFINE longer == Append(list, x)
           N == Len(list)
<1>1. /\ longer \in Seq(S) /\ Len(longer) = N + 1 /\ longer[N + 1] = x
      /\ N \in Nat /\ \A n \in 1..N : longer[n] = list[n]
  OBVIOUS
<1>2. PICK kept : Filtered(list, Passing) = kept[N] /\ KeepsOneByOne(kept, list, Passing)
  BY FilteredUnfolds
<1> HIDE DEF longer
<1>3. \E more : Filtered(longer, Passing) = more[Len(longer)] /\ KeepsOneByOne(more, longer, Passing)
  BY <1>1, FilteredUnfolds
<1>4. PICK more : Filtered(longer, Passing) = more[N + 1] /\ KeepsOneByOne(more, longer, Passing)
  BY <1>1, <1>3
<1>5. kept[0] = more[0]
  BY <1>2, <1>4 DEF KeepsOneByOne
<1> DEFINE P == {n \in 0..N : kept[n] = more[n]}
<1>6. ASSUME NEW n \in P, n \in 0..(N - 1)
      PROVE  n + 1 \in P
  <2>1. n + 1 \in 1..Len(list) /\ n + 1 \in 1..Len(longer) /\ longer[n + 1] = list[n + 1]
        /\ (n + 1) - 1 = n /\ kept[n] = more[n]
    BY <1>1, <1>6
  <2>2. kept[n + 1] = more[n + 1]
    BY <1>2, <1>4, <2>1 DEF KeepsOneByOne
  <2> QED
    BY <1>1, <2>1, <2>2
<1>7. kept[N] = more[N]
  <2>1. 0 \in P
    BY <1>1, <1>5
  <2>2. 0..N \subseteq P
    <3> HIDE DEF P
    <3> QED
      BY <1>1, <1>6, <2>1, BoundedInduction, Zenon
  <2> QED
    BY <1>1, <2>2
<1>8. more[N + 1] = IF x \in Passing THEN Append(more[N], x) ELSE more[N]
  <2>1. N + 1 \in 1..Len(longer) /\ (N + 1) - 1 = N
    BY <1>1
  <2> QED
    BY <1>1, <1>4, <2>1 DEF KeepsOneByOne
<1> QED
  BY <1>2, <1>4, <1>7, <1>8 DEF longer

LEMMA FilteredEmpty ==
  ASSUME NEW Passing
  PROVE  Filtered(<<>>, Passing) = <<>>
<1>1. <<>> \in Seq({}) /\ Len(<<>>) = 0
  OBVIOUS
<1>2. \A list \in Seq({}) :
        \E kept : Filtered(list, Passing) = kept[Len(list)] /\ KeepsOneByOne(kept, list, Passing)
  BY FilteredUnfolds
<1>3. PICK kept : Filtered(<<>>, Passing) = kept[0] /\ KeepsOneByOne(kept, <<>>, Passing)
  BY <1>1, <1>2
<1> QED
  BY <1>3 DEF KeepsOneByOne
=============================================================================
