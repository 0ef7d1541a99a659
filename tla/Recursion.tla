----------------------------- MODULE Recursion ------------------------------
(***************************************************************************)
(* Induction and recursion over an interval of the naturals, upwards, and  *)
(* downwards from a bound, stated of sets and functions: a predicate is    *)
(* the set of numbers it holds of, and the step of a recursive definition  *)
(* a function.  They rest on the library's fact that the naturals are well *)
(* founded.                                                                *)
(***************************************************************************)
EXTENDS Integers, WellFoundedInduction, TLAPS

(***************************************************************************)
(* Every non-empty set of naturals has a least element.                    *)
(***************************************************************************)
LEMMA LeastNatural ==
    ASSUME NEW T \in SUBSET Nat, T # {}
    PROVE  \E m \in T : \A k \in T : m <= k
<1> DEFINE R == {p \in Nat \X Nat : p[1] < p[2]}
<1>1. IsWellFoundedOn(R, Nat)
  BY NatLessThanWellFounded DEF OpToRel
<1>2. PICK m \in T : \A k \in T : <<k, m>> \notin R
  <2> HIDE DEF R
  <2> QED BY <1>1, WFMin
<1>3. \A k \in T : ~(k < m)
  BY <1>2
<1> QED BY <1>3

(***************************************************************************)
(* What holds at 0, and at n + 1 whenever it holds at n, holds up to N.    *)
(***************************************************************************)
LEMMA IntervalInduction ==
    ASSUME NEW N \in Nat, NEW T,
           0 \in T,
           \A n \in 0 .. N - 1 : n \in T => n + 1 \in T
    PROVE  \A n \in 0 .. N : n \in T
<1> DEFINE U == (0 .. N) \ T
<1> SUFFICES ASSUME U # {}
             PROVE  FALSE
  OBVIOUS
<1>1. PICK m \in U : \A k \in U : m <= k
  <2>1. U \in SUBSET Nat
    OBVIOUS
  <2> HIDE DEF U
  <2> QED BY <2>1, LeastNatural
<1>2. m - 1 \in 0 .. N - 1
  BY <1>1
<1>3. m - 1 \in T
  BY <1>1, <1>2
<1> QED BY <1>1, <1>2, <1>3

\* g is a at 0, and goes on from each value to the next by F.
GoesOn(g, N, S, a, F) ==
    /\ g \in [0 .. N -> S]
    /\ g[0] = a
    /\ \A n \in 1 .. N : g[n] = F[<<g[n - 1], n>>]

(***************************************************************************)
(* A function that is defined by its value at 0, and at n from its value   *)
(* at n - 1, exists.                                                       *)
(***************************************************************************)
LEMMA IntervalRecursion ==
    ASSUME NEW N \in Nat, NEW S, NEW a \in S, NEW F \in [S \X (1 .. N) -> S]
    PROVE  \E g : GoesOn(g, N, S, a, F)
<1> DEFINE T == {k \in 0 .. N : \E g : GoesOn(g, k, S, a, F)}
<1>1. 0 \in T
  <2> DEFINE h == [n \in 0 .. 0 |-> a]
  <2>1. GoesOn(h, 0, S, a, F)
    BY DEF GoesOn
  <2> HIDE DEF h
  <2> QED BY <2>1
<1>2. ASSUME NEW k \in 0 .. N - 1, k \in T
      PROVE  k + 1 \in T
  <2>1. PICK g : GoesOn(g, k, S, a, F)
    BY <1>2
  <2>2. <<g[k], k + 1>> \in S \X (1 .. N)
    BY <2>1 DEF GoesOn
  <2> DEFINE h == [n \in 0 .. k + 1 |-> IF n = k + 1 THEN F[<<g[k], k + 1>>] ELSE g[n]]
  <2>3. h \in [0 .. k + 1 -> S]
    BY <2>1, <2>2 DEF GoesOn
  <2>4. h[0] = a
    BY <2>1 DEF GoesOn
  <2>5. ASSUME NEW n \in 1 .. k + 1
        PROVE  h[n] = F[<<h[n - 1], n>>]
    <3>1. h[n - 1] = g[n - 1]
      OBVIOUS
    <3>2. CASE n = k + 1
      <4>1. h[n] = F[<<g[k], k + 1>>] /\ n - 1 = k
        BY <3>2
      <4> QED BY <3>1, <3>2, <4>1
    <3>3. CASE n \in 1 .. k
      <4>1. h[n] = g[n]
        BY <3>3
      <4> QED BY <2>1, <3>1, <3>3, <4>1 DEF GoesOn
    <3> QED BY <3>2, <3>3
  <2> HIDE DEF h
  <2> QED BY <2>3, <2>4, <2>5 DEF GoesOn
<1> HIDE DEF T
<1>3. N \in T
  BY <1>1, <1>2, IntervalInduction
<1> QED BY <1>3 DEF T

-----------------------------------------------------------------------------
(***************************************************************************)
(* What holds above N, and at n whenever it holds at n + 1, holds of every *)
(* natural number.                                                         *)
(***************************************************************************)
LEMMA DownwardInduction ==
    ASSUME NEW N \in Nat, NEW T,
           \A n \in Nat : n > N => n \in T,
           \A n \in 0 .. N : n + 1 \in T => n \in T
    PROVE  \A n \in Nat : n \in T
<1> DEFINE U == {k \in 0 .. N + 1 : N + 1 - k \in T}
<1>1. 0 \in U
  OBVIOUS
<1>2. ASSUME NEW k \in 0 .. N, k \in U
      PROVE  k + 1 \in U
  <2>1. N - k \in 0 .. N /\ (N - k) + 1 = N + 1 - k /\ N + 1 - (k + 1) = N - k
    OBVIOUS
  <2> QED BY <1>2, <2>1
<1>3. \A k \in 0 .. N + 1 : k \in U
  <2>1. N + 1 \in Nat /\ (N + 1) - 1 = N
    OBVIOUS
  <2> HIDE DEF U
  <2> QED BY <1>1, <1>2, <2>1, IntervalInduction
<1> SUFFICES ASSUME NEW n \in 0 .. N
             PROVE  n \in T
  OBVIOUS
<1>4. N + 1 - n \in 0 .. N + 1 /\ N + 1 - (N + 1 - n) = n
  OBVIOUS
<1> QED BY <1>3, <1>4

\* f is a above N, and below it comes from the next value by F.
ComesDown(f, N, S, a, F) ==
    /\ f \in [Nat -> S]
    /\ \A n \in Nat : f[n] = IF n > N THEN a[n] ELSE F[<<n, f[n + 1]>>]

(***************************************************************************)
(* A function that is defined outright above N, and at n from its value at *)
(* n + 1, exists: a loop that reads up to the end of something.            *)
(***************************************************************************)
LEMMA DownwardRecursion ==
    ASSUME NEW N \in Nat, NEW S, NEW a \in [Nat -> S], NEW F \in [(0 .. N) \X S -> S]
    PROVE  \E f : ComesDown(f, N, S, a, F)
<1> DEFINE G == [p \in S \X (1 .. N + 1) |-> F[<<N + 1 - p[2], p[1]>>]]
<1>1. G \in [S \X (1 .. N + 1) -> S]
  <2> SUFFICES ASSUME NEW x \in S, NEW k \in 1 .. N + 1
               PROVE  F[<<N + 1 - k, x>>] \in S
    OBVIOUS
  <2>1. N + 1 - k \in 0 .. N
    OBVIOUS
  <2> QED BY <2>1
<1>2. a[N + 1] \in S /\ N + 1 \in Nat
  OBVIOUS
<1>3. PICK g : GoesOn(g, N + 1, S, a[N + 1], G)
  <2> HIDE DEF G
  <2> QED BY <1>1, <1>2, IntervalRecursion
<1> DEFINE f == [n \in Nat |-> IF n > N THEN a[n] ELSE g[N + 1 - n]]
<1>4. ASSUME NEW n \in 0 .. N
      PROVE  /\ N + 1 - n \in 1 .. N + 1
             /\ (N + 1 - n) - 1 = N - n /\ N - n \in 0 .. N + 1
             /\ N + 1 - (N + 1 - n) = n /\ N + 1 - (n + 1) = N - n
  OBVIOUS
<1>5. ASSUME NEW n \in Nat
      PROVE  f[n] \in S
  <2>1. ~(n > N) => N + 1 - n \in 0 .. N + 1
    OBVIOUS
  <2> QED BY <1>3, <2>1 DEF GoesOn
<1>6. ASSUME NEW n \in 0 .. N
      PROVE  f[n] = F[<<n, f[n + 1]>>]
  <2>1. f[n] = G[<<g[N - n], N + 1 - n>>]
    <3> HIDE DEF G
    <3> QED BY <1>3, <1>4 DEF GoesOn
  <2>2. g[N - n] \in S
    BY <1>3, <1>4 DEF GoesOn
  <2>3. f[n] = F[<<n, g[N - n]>>]
    BY <1>4, <2>1, <2>2
  <2>4. f[n + 1] = g[N - n]
    <3>1. CASE n = N
      <4>1. n + 1 > N /\ n + 1 = N + 1 /\ N - n = 0
        BY <3>1
      <4> QED BY <1>3, <4>1 DEF GoesOn
    <3>2. CASE n # N
      BY <1>4, <3>2
    <3> QED BY <3>1, <3>2
  <2> QED BY <2>3, <2>4
<1>7. f \in [Nat -> S]
  BY <1>5
<1>8. \A n \in Nat : f[n] = IF n > N THEN a[n] ELSE F[<<n, f[n + 1]>>]
  <2> TAKE n \in Nat
  <2>1. ~(n > N) => n \in 0 .. N
    OBVIOUS
  <2> QED BY <1>6, <2>1
<1> HIDE DEF f
<1> QED BY <1>7, <1>8 DEF ComesDown

=============================================================================
