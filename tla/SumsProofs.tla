----------------------------- MODULE SumsProofs -----------------------------
(***************************************************************************)
(* What SumTo computes, for every length.  The induction is the            *)
(* least-counterexample argument: the set of lengths at which a fact fails *)
(* would have a least element.                                             *)
(***************************************************************************)
EXTENDS Sums, WellFoundedInduction, TLAPS

IsRunning(g, f, n) ==
    /\ g \in [0..n -> Int]
    /\ g[0] = 0
    /\ \A k \in 1..n : g[k] = g[k - 1] + f[k]

\* Every nonempty set of naturals has a least element.
LEMMA LeastNatural ==
    ASSUME NEW T \in SUBSET Nat, T # {}
    PROVE  \E m \in T : \A y \in T : m <= y
<1>1. PICK x \in T : \A y \in T : ~ (<<y, x>> \in OpToRel(<, Nat))
  BY NatLessThanWellFounded, WFMin
<1>2. \A y \in T : ~ (y < x)
  BY <1>1 DEF OpToRel
<1> QED  BY <1>2

\* A set that contains 0 and, with each number below n, its successor
\* contains every number up to n.
LEMMA UpTo ==
    ASSUME NEW n \in Nat, NEW S, 0 \in S,
           \A k \in 1..n : k - 1 \in S => k \in S
    PROVE  0..n \subseteq S
<1> DEFINE Bad == (0..n) \ S
<1> SUFFICES ASSUME Bad # {} PROVE FALSE
  OBVIOUS
<1>1. Bad \in SUBSET Nat
  OBVIOUS
<1> HIDE DEF Bad
<1>2. PICK m \in Bad : \A y \in Bad : m <= y
  BY <1>1, LeastNatural
<1>3. m \in 1..n
  BY <1>2 DEF Bad
<1>4. m - 1 \notin Bad
  BY <1>2, <1>3
<1> QED  BY <1>2, <1>3, <1>4 DEF Bad

\* A running sum of any finite length exists, and Running is one.
LEMMA RunningExists ==
    ASSUME NEW f, NEW n \in Nat, \A k \in 1..n : f[k] \in Int
    PROVE  \E g : IsRunning(g, f, n)
<1> DEFINE S == {k \in 0..n : \E g : IsRunning(g, f, k)}
<1>1. 0 \in S
  <2>1. IsRunning([i \in 0..0 |-> 0], f, 0)
    BY DEF IsRunning
  <2> QED  BY <2>1
<1>2. ASSUME NEW m \in 1..n, m - 1 \in S
      PROVE  m \in S
  <2>1. PICK g : IsRunning(g, f, m - 1)
    BY <1>2
  <2> DEFINE h == [i \in 0..m |-> IF i = m THEN g[m - 1] + f[m] ELSE g[i]]
  <2>2. h \in [0..m -> Int] /\ h[0] = 0
    BY <2>1 DEF IsRunning
  <2>3. ASSUME NEW k \in 1..m PROVE h[k] = h[k - 1] + f[k]
    <3>1. CASE k = m
      BY <3>1
    <3>2. CASE k # m
      <4>1. k \in 1..(m - 1) /\ k - 1 # m /\ k - 1 \in 0..m
        BY <3>2
      <4>2. g[k] = g[k - 1] + f[k]
        BY <4>1, <2>1 DEF IsRunning
      <4>3. h[k] = g[k] /\ h[k - 1] = g[k - 1]
        BY <4>1, <3>2
      <4> QED  BY <4>2, <4>3
    <3> QED  BY <3>1, <3>2
  <2>4. IsRunning(h, f, m)
    BY <2>2, <2>3 DEF IsRunning
  <2> QED  BY <2>4
<1> HIDE DEF S
<1>3. 0..n \subseteq S
  BY <1>1, <1>2, UpTo
<1> QED  BY <1>3 DEF S

\* Running itself, which is chosen as the function its equation defines, is one.
LEMMA RunningIsRunning ==
    ASSUME NEW f, NEW n \in Nat, \A k \in 1..n : f[k] \in Int
    PROVE  IsRunning(Running(f, n), f, n)
<1> DEFINE Eq(g) == g = [k \in 0..n |-> IF k = 0 THEN 0 ELSE g[k - 1] + f[k]]
<1>1. PICK g : IsRunning(g, f, n)
  BY RunningExists
<1>2. Eq(g)
  BY <1>1 DEF IsRunning
<1>3. Running(f, n) = CHOOSE h : Eq(h)
  BY DEF Running
<1>4. Eq(Running(f, n))
  BY <1>2, <1>3
<1> DEFINE R == Running(f, n)
<1>5. R = [k \in 0..n |-> IF k = 0 THEN 0 ELSE R[k - 1] + f[k]]
  BY <1>4
<1> HIDE DEF R, Eq
<1>6. R[0] = 0 /\ \A k \in 1..n : R[k] = R[k - 1] + f[k]
  BY <1>5
<1> DEFINE S == {k \in 0..n : R[k] \in Int}
<1>7. 0 \in S /\ \A k \in 1..n : k - 1 \in S => k \in S
  BY <1>6
<1> HIDE DEF S
<1>8. 0..n \subseteq S
  BY <1>7, UpTo
<1>9. R \in [0..n -> Int]
  BY <1>5, <1>8 DEF S
<1> QED  BY <1>6, <1>9 DEF R, IsRunning

-----------------------------------------------------------------------------
(***************************************************************************)
(* The facts the other proof modules cite.                                 *)
(***************************************************************************)

\* The total of integers is an integer, and the empty total is 0.
THEOREM SumToType ==
    ASSUME NEW f, NEW n \in Nat, \A k \in 1..n : f[k] \in Int
    PROVE  SumTo(f, n) \in Int /\ (n = 0 => SumTo(f, n) = 0)
BY RunningIsRunning DEF SumTo, IsRunning

\* Changing one of the numbers changes the total by the difference.
THEOREM SumToUpdate ==
    ASSUME NEW f, NEW e, NEW n \in Nat, NEW i \in 1..n,
           \A k \in 1..n : f[k] \in Int /\ e[k] \in Int,
           \A k \in 1..n : k # i => e[k] = f[k]
    PROVE  SumTo(e, n) = SumTo(f, n) - f[i] + e[i]
<1> DEFINE R == Running(f, n)
           Q == Running(e, n)
           S == {k \in 0..n : Q[k] = R[k] + (IF k < i THEN 0 ELSE e[i] - f[i])}
<1>1. IsRunning(R, f, n) /\ IsRunning(Q, e, n)
  BY RunningIsRunning
<1> HIDE DEF R, Q
<1>2. 0 \in S
  BY <1>1 DEF IsRunning
<1>3. ASSUME NEW k \in 1..n, k - 1 \in S
      PROVE  k \in S
  <2>1. R[k] = R[k - 1] + f[k] /\ Q[k] = Q[k - 1] + e[k]
    BY <1>1 DEF IsRunning
  <2>2. k - 1 \in 0..n /\ R[k - 1] \in Int /\ Q[k - 1] \in Int
    BY <1>1 DEF IsRunning
  <2>3. CASE k = i
    BY <1>3, <2>1, <2>2, <2>3
  <2>4. CASE k # i
    BY <1>3, <2>1, <2>2, <2>4
  <2> QED  BY <2>3, <2>4
<1> HIDE DEF S
<1>4. n \in S
  BY <1>2, <1>3, UpTo
<1>5. R[n] \in Int /\ f[i] \in Int /\ e[i] \in Int
  BY <1>1 DEF IsRunning
<1> QED  BY <1>4, <1>5 DEF S, R, Q, SumTo

\* One more number adds itself to the total.
THEOREM SumToExtend ==
    ASSUME NEW f, NEW e, NEW n \in Nat,
           \A k \in 1..n : f[k] \in Int /\ e[k] = f[k],
           e[n + 1] \in Int
    PROVE  SumTo(e, n + 1) = SumTo(f, n) + e[n + 1]
<1> DEFINE R == Running(f, n)
           Q == Running(e, n + 1)
           S == {k \in 0..n : Q[k] = R[k]}
<1>0. \A k \in 1..(n + 1) : e[k] \in Int
  OBVIOUS
<1>1. IsRunning(R, f, n) /\ IsRunning(Q, e, n + 1)
  BY <1>0, RunningIsRunning
<1> HIDE DEF R, Q
<1>2. 0 \in S
  BY <1>1 DEF IsRunning
<1>3. ASSUME NEW k \in 1..n, k - 1 \in S
      PROVE  k \in S
  <2>1. R[k] = R[k - 1] + f[k] /\ Q[k] = Q[k - 1] + e[k]
    BY <1>1 DEF IsRunning
  <2> QED  BY <1>3, <2>1
<1> HIDE DEF S
<1>4. n \in S
  BY <1>2, <1>3, UpTo
<1>5. Q[n + 1] = Q[n] + e[n + 1]
  BY <1>1 DEF IsRunning
<1> QED  BY <1>4, <1>5 DEF S, R, Q, SumTo

\* A total of naturals is at least each of them.
THEOREM SumToAtLeast ==
    ASSUME NEW f, NEW n \in Nat, NEW i \in 1..n,
           \A k \in 1..n : f[k] \in Nat
    PROVE  f[i] <= SumTo(f, n)
<1> DEFINE R == Running(f, n)
           S == {k \in 0..n : 0 <= R[k] /\ (i <= k => f[i] <= R[k])}
<1>1. IsRunning(R, f, n)
  BY RunningIsRunning
<1> HIDE DEF R
<1>2. 0 \in S
  BY <1>1 DEF IsRunning
<1>3. ASSUME NEW k \in 1..n, k - 1 \in S
      PROVE  k \in S
  <2>1. R[k] = R[k - 1] + f[k] /\ R[k - 1] \in Int
    BY <1>1 DEF IsRunning
  <2>2. CASE i = k
    BY <1>3, <2>1, <2>2
  <2>3. CASE i # k
    BY <1>3, <2>1, <2>3
  <2> QED  BY <2>2, <2>3
<1> HIDE DEF S
<1>4. n \in S
  BY <1>2, <1>3, UpTo
<1> QED  BY <1>4 DEF S, R, SumTo

\* A total of zeros is zero.
THEOREM SumToZero ==
    ASSUME NEW f, NEW n \in Nat, \A k \in 1..n : f[k] = 0
    PROVE  SumTo(f, n) = 0
<1> DEFINE R == Running(f, n)
           S == {k \in 0..n : R[k] = 0}
<1>1. IsRunning(R, f, n)
  BY RunningIsRunning
<1> HIDE DEF R
<1>2. 0 \in S
  BY <1>1 DEF IsRunning
<1>3. ASSUME NEW k \in 1..n, k - 1 \in S
      PROVE  k \in S
  <2>1. R[k] = R[k - 1] + f[k] /\ f[k] = 0 /\ R[k - 1] = 0
    BY <1>1, <1>3 DEF IsRunning
  <2> QED  BY <2>1
<1> HIDE DEF S
<1>4. n \in S
  BY <1>2, <1>3, UpTo
<1> QED
  BY <1>4 DEF S, R, SumTo

\* Zeros at the end add nothing.
THEOREM SumToPad ==
    ASSUME NEW f, NEW e, NEW n \in Nat, NEW m \in Nat,
           \A k \in 1..n : f[k] \in Int /\ e[k] = f[k],
           \A k \in (n + 1)..(n + m) : e[k] = 0
    PROVE  SumTo(e, n + m) = SumTo(f, n)
<1> DEFINE R == Running(f, n)
           Q == Running(e, n + m)
           S == {k \in 0..(n + m) : Q[k] = IF k <= n THEN R[k] ELSE R[n]}
<1>1. \A k \in 1..(n + m) : e[k] \in Int
  OBVIOUS
<1>2. IsRunning(R, f, n) /\ IsRunning(Q, e, n + m)
  BY <1>1, RunningIsRunning
<1> HIDE DEF R, Q
<1>3. 0 \in S
  BY <1>2 DEF IsRunning
<1>4. ASSUME NEW k \in 1..(n + m), k - 1 \in S
      PROVE  k \in S
  <2>1. Q[k] = Q[k - 1] + e[k] /\ Q[k - 1] \in Int
    BY <1>2 DEF IsRunning
  <2>2. CASE k <= n
    <3>1. R[k] = R[k - 1] + f[k] /\ e[k] = f[k]
      BY <1>2, <2>2 DEF IsRunning
    <3> QED  BY <1>4, <2>1, <2>2, <3>1
  <2>3. CASE k > n
    <3>1. e[k] = 0
      BY <2>3
    <3>2. Q[k - 1] = R[n]
      BY <1>4, <2>3
    <3> QED  BY <2>1, <2>3, <3>1, <3>2
  <2> QED  BY <2>2, <2>3
<1> HIDE DEF S
<1>5. n + m \in S
  BY <1>3, <1>4, UpTo
<1>6. m = 0 => n + m = n
  OBVIOUS
<1> QED  BY <1>5, <1>6 DEF S, R, Q, SumTo
=============================================================================
