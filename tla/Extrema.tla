------------------------------- MODULE Extrema -------------------------------
(***************************************************************************)
(* The least number of a set of naturals and the greatest of a bounded set *)
(* of integers: what Min and Max of the community modules return.  From    *)
(* the least number that fails: what holds at u and is handed on up to n   *)
(* holds from u to n, and a function on u..n can be defined by what each   *)
(* value makes of the one before.                                          *)
(***************************************************************************)
EXTENDS Integers, FiniteSetsExt, WellFoundedInduction, TLAPS

LEMMA MinIs ==
  ASSUME NEW S \in SUBSET Nat, S # {}
  PROVE  Min(S) \in S /\ \A x \in S : Min(S) <= x
<1> DEFINE R == OpToRel(<, Nat)
<1>1. \A x, y \in Nat : <<x, y>> \in R <=> x < y
  BY DEF OpToRel
<1>2. IsWellFoundedOn(R, Nat)
  BY NatLessThanWellFounded
<1> HIDE DEF R
<1>3. PICK n \in S : \A m \in S : ~(<<m, n>> \in R)
  BY <1>2, WFMin
<1>4. \A m \in S : n <= m
  <2> SUFFICES ASSUME NEW m \in S PROVE n <= m
    OBVIOUS
  <2>1. m \in Nat /\ n \in Nat
    OBVIOUS
  <2>2. ~(<<m, n>> \in R)
    BY <1>3
  <2>3. ~(m < n)
    BY <1>1, <2>1, <2>2
  <2> QED
    BY <2>1, <2>3
<1> QED
  BY <1>4 DEF Min

LEMMA MaxIs ==
  ASSUME NEW N \in Int, NEW S \in SUBSET Int, \A x \in S : x <= N, S # {}
  PROVE  Max(S) \in S /\ \A x \in S : x <= Max(S)
<1> DEFINE D == {N - x : x \in S}
<1>1. \A x \in S : x \in Int /\ N - x \in Nat
  <2> SUFFICES ASSUME NEW x \in S PROVE x \in Int /\ N - x \in Nat
    OBVIOUS
  <2>1. x \in Int /\ x <= N
    OBVIOUS
  <2> QED
    BY <2>1
<1>2. D \in SUBSET Nat /\ D # {}
  BY <1>1
<1>3. Min(D) \in D /\ \A e \in D : Min(D) <= e
  <2> HIDE DEF D
  <2> QED
    BY <1>2, MinIs
<1>4. PICK x \in S : Min(D) = N - x
  BY <1>3
<1>5. \A y \in S : x >= y
  <2> SUFFICES ASSUME NEW y \in S PROVE x >= y
    OBVIOUS
  <2>1. N - y \in D /\ N - x <= N - y
    BY <1>3, <1>4
  <2>2. x \in Int /\ y \in Int
    BY <1>1
  <2> HIDE DEF D
  <2> QED
    BY <2>1, <2>2
<1>6. Max(S) \in S /\ \A y \in S : Max(S) >= y
  BY <1>4, <1>5 DEF Max
<1> HIDE DEF D
<1>7. \A y \in S : y \in Int /\ Max(S) \in Int
  BY <1>1, <1>6
<1> QED
  BY <1>6, <1>7

\* What holds of u and passes from each number to the next holds up to n.
LEMMA Climbs ==
  ASSUME NEW u \in Nat, NEW n \in Nat, NEW S, u \in S, \A k \in (u + 1)..n : k - 1 \in S => k \in S
  PROVE  \A k \in u..n : k \in S
<1> DEFINE D == {k \in u..n : k \notin S}
<1> SUFFICES ASSUME D # {} PROVE FALSE
  OBVIOUS
<1>1. D \in SUBSET Nat
  OBVIOUS
<1>2. Min(D) \in D /\ \A k \in D : Min(D) <= k
  <2> HIDE DEF D
  <2> QED
    BY <1>1, MinIs
<1>3. PICK k : k \in D /\ \A j \in D : k <= j
  BY <1>2
<1>4. k \in (u + 1)..n /\ k - 1 \in u..n
  BY <1>3
<1>5. k - 1 \notin D
  BY <1>3, <1>4
<1> QED
  BY <1>3, <1>4, <1>5

\* g folds the step functions s of u + 1 to n, starting from t0 at u.
IsFold(g, u, n, T, t0, s) ==
  g \in [u..n -> T] /\ g[u] = t0 /\ \A k \in (u + 1)..n : g[k] = s[k][g[k - 1]]

LEMMA FoldExists ==
  ASSUME NEW u \in Nat, NEW n \in Nat, u <= n, NEW T, NEW t0 \in T,
         NEW s \in [(u + 1)..n -> [T -> T]]
  PROVE  \E g : IsFold(g, u, n, T, t0, s)
<1> DEFINE Folds(k, g) == g[u] = t0 /\ \A j \in (u + 1)..k : g[j] = s[j][g[j - 1]]
           S == {k \in u..n : \E g \in [u..k -> T] : Folds(k, g)}
<1>1. u \in S
  <2> DEFINE g == [k \in u..u |-> t0]
  <2>1. g \in [u..u -> T] /\ g[u] = t0 /\ \A j \in (u + 1)..u : FALSE
    OBVIOUS
  <2>2. u \in u..n
    OBVIOUS
  <2> HIDE DEF g
  <2> QED
    BY <2>1, <2>2
<1>2. ASSUME NEW k \in (u + 1)..n, k - 1 \in S PROVE k \in S
  <2>1. PICK g \in [u..(k - 1) -> T] : Folds(k - 1, g)
    BY <1>2
  <2> DEFINE h == [j \in u..k |-> IF j = k THEN s[k][g[k - 1]] ELSE g[j]]
  <2>2. s[k][g[k - 1]] \in T
    <3>1. k - 1 \in u..(k - 1)
      BY <1>2
    <3>2. g[k - 1] \in T /\ s[k] \in [T -> T]
      BY <2>1, <3>1
    <3> QED
      BY <3>2
  <2>3. \A j \in u..(k - 1) : h[j] = g[j] /\ g[j] \in T
    BY <1>2, <2>1
  <2>4. h \in [u..k -> T] /\ h[u] = t0 /\ h[k] = s[k][g[k - 1]]
    <3>1. \A j \in u..k : j = k \/ j \in u..(k - 1)
      BY <1>2
    <3>2. \A j \in u..k : (IF j = k THEN s[k][g[k - 1]] ELSE g[j]) \in T
      BY <2>2, <2>3, <3>1
    <3> QED
      BY <1>2, <2>1, <3>2
  <2> HIDE DEF h
  <2>5. ASSUME NEW j \in (u + 1)..k PROVE h[j] = s[j][h[j - 1]]
    <3>1. h[j - 1] = g[j - 1]
      <4>1. j - 1 \in u..(k - 1)
        BY <1>2, <2>5
      <4> QED
        BY <2>3, <4>1
    <3>2. CASE j = k
      BY <2>4, <3>1, <3>2
    <3>3. CASE j # k
      <4>1. j \in (u + 1)..(k - 1) /\ j \in u..(k - 1)
        BY <1>2, <2>5, <3>3
      <4> QED
        BY <2>1, <2>3, <3>1, <4>1
    <3> QED
      BY <3>2, <3>3
  <2>6. Folds(k, h)
    BY <2>4, <2>5
  <2> HIDE DEF Folds
  <2> QED
    BY <1>2, <2>4, <2>6
<1>3. n \in u..n
  OBVIOUS
<1> HIDE DEF S
<1>4. n \in S
  BY <1>1, <1>2, <1>3, Climbs
<1> QED
  BY <1>4 DEF S, IsFold

=============================================================================
