------------------------ MODULE DeliveryPolicyProofs ------------------------
(***************************************************************************)
(* Proofs about DeliveryPolicy, for any limits, timeouts, delays and       *)
(* numbers of attempts.                                                    *)
(*                                                                         *)
(* The budgets are computed by loops.  The first part says, without        *)
(* operators as parameters, what induction and recursion over the natural  *)
(* numbers need: a set of numbers that holds 0 and every successor holds   *)
(* all of them, and a recursive definition has a solution.                 *)
(***************************************************************************)
EXTENDS DeliveryPolicy, FiniteSetTheorems, TLAPS

\* A set of natural numbers that is not empty has a least element.
LEMMA LeastNumber ==
  ASSUME NEW S \in SUBSET Nat, S # {}
  PROVE  \E x \in S : \A y \in S : x <= y
<1> DEFINE Segments == {0 .. x : x \in S}
           Order == StrictSubsetOrdering(Nat)
<1>1. Segments \subseteq FiniteSubsetsOf(Nat) /\ Segments # {}
  <2>1. ASSUME NEW x \in S PROVE 0 .. x \in SUBSET Nat /\ IsFiniteSet(0 .. x)
    <3>1. x \in Int /\ 0 \in Int
      OBVIOUS
    <3>2. QED
      BY <3>1, FS_Interval
  <2>2. QED
    BY <2>1 DEF FiniteSubsetsOf
<1>2. PICK least \in Segments : \A other \in Segments : ~ (<<other, least>> \in Order)
  <2>1. IsWellFoundedOn(Order, FiniteSubsetsOf(Nat))
    BY FS_StrictSubsetOrderingWellFounded
  <2>2. QED
    BY <1>1, <2>1, WFMin
<1>3. PICK x \in S : least = 0 .. x
  OBVIOUS
<1>4. ASSUME NEW y \in S, y < x PROVE FALSE
  <2>1. x \in 0 .. x /\ x \notin 0 .. y
    BY <1>4
  <2>2. 0 .. y \subseteq 0 .. x /\ 0 .. y # 0 .. x
    BY <1>4, <2>1
  <2>3. 0 .. y \in SUBSET Nat /\ 0 .. x \in SUBSET Nat
    OBVIOUS
  <2>4. QED
    BY <1>2, <1>3, <2>2, <2>3 DEF StrictSubsetOrdering
<1>5. \A y \in S : x <= y
  BY <1>4
<1>6. QED
  BY <1>5

\* Induction over the natural numbers, for a set.
LEMMA Induction ==
  ASSUME NEW P \in SUBSET Nat, 0 \in P, \A n \in Nat : n \in P => n + 1 \in P
  PROVE  \A n \in Nat : n \in P
<1> SUFFICES ASSUME Nat \ P # {} PROVE FALSE
  OBVIOUS
<1>1. PICK x \in Nat \ P : \A y \in Nat \ P : x <= y
  BY LeastNumber
<1>2. x # 0
  OBVIOUS
<1>3. x - 1 \in Nat /\ x - 1 \in P
  BY <1>1, <1>2
<1>4. x - 1 + 1 \in P
  BY <1>3
<1>5. QED
  BY <1>1, <1>4

\* A function on 0 .. n that follows the recursion.
Follows(g, n, T, base, F) ==
  /\ g \in [0 .. n -> T]
  /\ g[0] = base
  /\ \A i \in 1 .. n : g[i] = F[<<g[i - 1], i>>]

\* A function on all numbers that does.
Solves(f, T, base, F) ==
  /\ f \in [Nat -> T]
  /\ \A n \in Nat : f[n] = IF n = 0 THEN base ELSE F[<<f[n - 1], n>>]

\* A recursive definition over the natural numbers has a solution.
LEMMA Recursion ==
  ASSUME NEW T, NEW base \in T, NEW F \in [T \X Nat -> T]
  PROVE  \E f : Solves(f, T, base, F)
<1>1. \A n \in Nat : \E g : Follows(g, n, T, base, F)
  <2> DEFINE P == {n \in Nat : \E g : Follows(g, n, T, base, F)}
  <2>1. 0 \in P
    <3>1. Follows([i \in 0 .. 0 |-> base], 0, T, base, F)
      BY DEF Follows
    <3>2. QED
      BY <3>1
  <2>2. ASSUME NEW n \in Nat, n \in P PROVE n + 1 \in P
    <3>1. PICK g : Follows(g, n, T, base, F)
      BY <2>2
    <3> DEFINE h == [i \in 0 .. n + 1 |-> IF i = n + 1 THEN F[<<g[n], n + 1>>] ELSE g[i]]
    <3>2. g[n] \in T /\ F[<<g[n], n + 1>>] \in T
      BY <3>1 DEF Follows
    <3>3. h \in [0 .. n + 1 -> T]
      BY <3>1, <3>2 DEF Follows
    <3>4. h[0] = base
      BY <3>1 DEF Follows
    <3>5. ASSUME NEW i \in 1 .. n + 1 PROVE h[i] = F[<<h[i - 1], i>>]
      <4>1. CASE i = n + 1
        <5>1. h[i] = F[<<g[n], n + 1>>] /\ h[i - 1] = g[n]
          BY <4>1
        <5>2. QED
          BY <4>1, <5>1
      <4>2. CASE i \in 1 .. n
        <5>1. h[i] = g[i] /\ h[i - 1] = g[i - 1]
          BY <4>2
        <5>2. QED
          BY <3>1, <4>2, <5>1 DEF Follows
      <4>3. QED
        BY <4>1, <4>2
    <3>6. Follows(h, n + 1, T, base, F)
      BY <3>3, <3>4, <3>5 DEF Follows
    <3>7. QED
      BY <3>6
  <2> HIDE DEF P
  <2>3. \A n \in Nat : n \in P
    <3>1. P \in SUBSET Nat
      BY DEF P
    <3>2. QED
      BY <2>1, <2>2, <3>1, Induction
  <2>4. QED
    BY <2>3 DEF P
<1>2. ASSUME NEW m \in Nat, NEW g, Follows(g, m, T, base, F),
             NEW n \in Nat, NEW h, Follows(h, n, T, base, F)
      PROVE  \A i \in Nat : i <= m /\ i <= n => g[i] = h[i]
  <2> DEFINE P == {i \in Nat : i <= m /\ i <= n => g[i] = h[i]}
  <2>1. 0 \in P
    BY <1>2 DEF Follows
  <2>2. ASSUME NEW i \in Nat, i \in P PROVE i + 1 \in P
    <3>1. SUFFICES ASSUME i + 1 <= m, i + 1 <= n PROVE g[i + 1] = h[i + 1]
      OBVIOUS
    <3>2. g[i] = h[i]
      BY <2>2, <3>1
    <3>3. i + 1 \in 1 .. m /\ i + 1 \in 1 .. n /\ i + 1 - 1 = i
      BY <3>1
    <3>4. g[i + 1] = F[<<g[i], i + 1>>] /\ h[i + 1] = F[<<h[i], i + 1>>]
      BY <1>2, <3>3 DEF Follows
    <3>5. QED
      BY <3>2, <3>4
  <2> HIDE DEF P
  <2>3. \A i \in Nat : i \in P
    <3>1. P \in SUBSET Nat
      BY DEF P
    <3>2. QED
      BY <2>1, <2>2, <3>1, Induction
  <2>4. QED
    BY <2>3 DEF P
<1> DEFINE A == [n \in Nat |-> CHOOSE g : Follows(g, n, T, base, F)]
           f == [n \in Nat |-> A[n][n]]
<1>3. \A n \in Nat : Follows(A[n], n, T, base, F)
  BY <1>1
<1> HIDE DEF A
<1>4. ASSUME NEW n \in Nat
      PROVE  f[n] \in T /\ f[n] = IF n = 0 THEN base ELSE F[<<f[n - 1], n>>]
  <2>1. Follows(A[n], n, T, base, F) /\ f[n] = A[n][n]
    BY <1>3
  <2>2. f[n] \in T
    BY <2>1 DEF Follows
  <2>3. CASE n = 0
    BY <2>1, <2>2, <2>3 DEF Follows
  <2>4. CASE n # 0
    <3>1. n - 1 \in Nat /\ Follows(A[n - 1], n - 1, T, base, F) /\ f[n - 1] = A[n - 1][n - 1]
      BY <1>3, <2>4
    <3>2. A[n][n - 1] = A[n - 1][n - 1]
      BY <1>2, <2>1, <3>1
    <3>3. A[n][n] = F[<<A[n][n - 1], n>>]
      BY <2>1, <2>4 DEF Follows
    <3>4. QED
      BY <2>1, <2>2, <2>4, <3>1, <3>2, <3>3
  <2>5. QED
    BY <2>3, <2>4
<1>5. f \in [Nat -> T]
  BY <1>4
<1> HIDE DEF f
<1>6. QED
  BY <1>4, <1>5 DEF Solves
-----------------------------------------------------------------------------
(***************************************************************************)
(* The policy's numbers.                                                   *)
(***************************************************************************)
LEMMA MinOfTwo ==
  ASSUME NEW a \in Int, NEW b \in Int
  PROVE  Min({a, b}) \in {a, b} /\ Min({a, b}) <= a /\ Min({a, b}) <= b
<1>1. \E x \in {a, b} : \A y \in {a, b} : x <= y
  BY DEF Min
<1>2. QED
  BY <1>1 DEF Min

\* The larger of two numbers.
LEMMA MaxOfTwo ==
  ASSUME NEW a \in Int, NEW b \in Int
  PROVE  Max({a, b}) \in {a, b} /\ Max({a, b}) >= a /\ Max({a, b}) >= b
<1>1. \E x \in {a, b} : \A y \in {a, b} : x >= y
  BY DEF Max
<1>2. QED
  BY <1>1 DEF Max

\* The powers of two follow their recursion.
LEMMA TwoToDoubles ==
  /\ TwoTo[0] = 1
  /\ \A n \in Nat : TwoTo[n + 1] = 2 * TwoTo[n]
  /\ \A n \in Nat : TwoTo[n] \in Nat
<1> DEFINE F == [p \in Nat \X Nat |-> 2 * p[1]]
<1>1. PICK f : Solves(f, Nat, 1, F)
  <2>1. F \in [Nat \X Nat -> Nat] /\ 1 \in Nat
    OBVIOUS
  <2> HIDE DEF F
  <2>2. QED
    BY <2>1, Recursion
<1>2. f = [n \in Nat |-> IF n = 0 THEN 1 ELSE 2 * f[n - 1]]
  <2>1. ASSUME NEW n \in Nat, n # 0 PROVE F[<<f[n - 1], n>>] = 2 * f[n - 1]
    <3>1. <<f[n - 1], n>> \in Nat \X Nat
      BY <1>1, <2>1 DEF Solves
    <3>2. QED
      BY <3>1
  <2>2. \A n \in Nat : f[n] = IF n = 0 THEN 1 ELSE 2 * f[n - 1]
    BY <1>1, <2>1 DEF Solves
  <2>3. f \in [Nat -> Nat]
    BY <1>1 DEF Solves
  <2>4. QED
    BY <2>2, <2>3
<1>3. TwoTo = [n \in Nat |-> IF n = 0 THEN 1 ELSE 2 * TwoTo[n - 1]]
  BY <1>2 DEF TwoTo
<1>4. \A n \in Nat : TwoTo[n] = IF n = 0 THEN 1 ELSE 2 * TwoTo[n - 1]
  BY <1>3
<1>5. TwoTo[0] = 1 /\ \A n \in Nat : TwoTo[n + 1] = 2 * TwoTo[n]
  BY <1>4
<1> DEFINE P == {n \in Nat : TwoTo[n] \in Nat}
<1>6. P \in SUBSET Nat /\ 0 \in P /\ \A n \in Nat : n \in P => n + 1 \in P
  BY <1>5
<1> HIDE DEF P
<1>7. \A n \in Nat : n \in P
  BY <1>6, Induction
<1>8. QED
  BY <1>5, <1>7 DEF P

\* A pause is no negative time.
LEMMA BackoffType ==
  ASSUME NEW n \in Nat, NEW b \in Nat
  PROVE  BackoffMs(n, b) \in Nat
<1>1. b * TwoTo[n] \in Nat /\ MaxDelay \in Nat
  BY TwoToDoubles, PolicyAssumption
<1>2. Min({MaxDelay, b * TwoTo[n]}) \in {MaxDelay, b * TwoTo[n]}
  <2> DEFINE delay == b * TwoTo[n]
  <2>1. delay \in Int /\ MaxDelay \in Int
    BY <1>1
  <2> HIDE DEF delay
  <2>2. Min({MaxDelay, delay}) \in {MaxDelay, delay}
    BY <2>1, MinOfTwo
  <2>3. QED
    BY <2>2 DEF delay
<1>3. QED
  BY <1>1, <1>2 DEF BackoffMs

\* The pauses add up.
LEMMA PausesAddUp ==
  ASSUME NEW b \in Nat
  PROVE  /\ Pauses(b)[0] = 0
         /\ \A n \in Nat : Pauses(b)[n + 1] = Pauses(b)[n] + BackoffMs(n + 1, b)
         /\ \A n \in Nat : Pauses(b)[n] \in Nat
<1> DEFINE F == [p \in Nat \X Nat |-> p[1] + BackoffMs(p[2], b)]
<1>1. PICK f : Solves(f, Nat, 0, F)
  <2>1. F \in [Nat \X Nat -> Nat] /\ 0 \in Nat
    <3>1. ASSUME NEW p \in Nat \X Nat PROVE p[1] + BackoffMs(p[2], b) \in Nat
      <4>1. p[1] \in Nat /\ p[2] \in Nat
        OBVIOUS
      <4>2. BackoffMs(p[2], b) \in Nat
        BY <4>1, BackoffType
      <4>3. QED
        BY <4>1, <4>2
    <3>2. QED
      BY <3>1
  <2> HIDE DEF F
  <2>2. QED
    BY <2>1, Recursion
<1>2. f = [n \in Nat |-> IF n = 0 THEN 0 ELSE f[n - 1] + BackoffMs(n, b)]
  <2>1. ASSUME NEW n \in Nat, n # 0 PROVE F[<<f[n - 1], n>>] = f[n - 1] + BackoffMs(n, b)
    <3>1. <<f[n - 1], n>> \in Nat \X Nat
      BY <1>1, <2>1 DEF Solves
    <3>2. QED
      BY <3>1
  <2>2. \A n \in Nat : f[n] = IF n = 0 THEN 0 ELSE f[n - 1] + BackoffMs(n, b)
    BY <1>1, <2>1 DEF Solves
  <2>3. f \in [Nat -> Nat]
    BY <1>1 DEF Solves
  <2>4. QED
    BY <2>2, <2>3
<1>3. Pauses(b) = [n \in Nat |-> IF n = 0 THEN 0 ELSE Pauses(b)[n - 1] + BackoffMs(n, b)]
  BY <1>2 DEF Pauses
<1>4. \A n \in Nat : Pauses(b)[n] = IF n = 0 THEN 0 ELSE Pauses(b)[n - 1] + BackoffMs(n, b)
  BY <1>3
<1>5. Pauses(b)[0] = 0 /\ \A n \in Nat : Pauses(b)[n + 1] = Pauses(b)[n] + BackoffMs(n + 1, b)
  BY <1>4
<1> DEFINE P == {n \in Nat : Pauses(b)[n] \in Nat}
<1>6. P \in SUBSET Nat /\ 0 \in P /\ \A n \in Nat : n \in P => n + 1 \in P
  <2>1. \A n \in Nat : BackoffMs(n + 1, b) \in Nat
    BY BackoffType
  <2>2. QED
    BY <1>5, <2>1
<1> HIDE DEF P
<1>7. \A n \in Nat : n \in P
  BY <1>6, Induction
<1>8. QED
  BY <1>5, <1>7 DEF P

\* The loop of the policy stops at one attempt, or as soon as the budget fits.
LEMMA ClampSteps ==
  ASSUME NEW e
  PROVE  \A n \in Nat :
           Clamp(e)[n] = IF n > 1 /\ OverBudget(e, n) THEN Clamp(e)[n - 1] ELSE n
<1> DEFINE F == [p \in Nat \X Nat |-> IF p[2] > 1 /\ OverBudget(e, p[2]) THEN p[1] ELSE p[2]]
<1>1. PICK f : Solves(f, Nat, 0, F)
  <2>1. F \in [Nat \X Nat -> Nat] /\ 0 \in Nat
    OBVIOUS
  <2> HIDE DEF F
  <2>2. QED
    BY <2>1, Recursion
<1>2. f = [n \in Nat |-> IF n > 1 /\ OverBudget(e, n) THEN f[n - 1] ELSE n]
  <2>1. ASSUME NEW n \in Nat, n # 0 PROVE F[<<f[n - 1], n>>] = IF n > 1 /\ OverBudget(e, n) THEN f[n - 1] ELSE n
    <3>1. <<f[n - 1], n>> \in Nat \X Nat
      BY <1>1, <2>1 DEF Solves
    <3>2. QED
      BY <3>1
  <2>2. ASSUME NEW n \in Nat
        PROVE  f[n] = IF n > 1 /\ OverBudget(e, n) THEN f[n - 1] ELSE n
    <3>1. f[n] = IF n = 0 THEN 0 ELSE F[<<f[n - 1], n>>]
      BY <1>1 DEF Solves
    <3>2. CASE n = 0
      BY <3>1, <3>2
    <3>3. CASE n # 0
      BY <3>1, <3>3, <2>1
    <3>4. QED
      BY <3>2, <3>3
  <2>3. f \in [Nat -> Nat]
    BY <1>1 DEF Solves
  <2>4. QED
    BY <2>2, <2>3
<1>3. Clamp(e) = [n \in Nat |-> IF n > 1 /\ OverBudget(e, n) THEN Clamp(e)[n - 1] ELSE n]
  BY <1>2 DEF Clamp
<1>4. QED
  BY <1>3

\* The policy computed from an environment: a window, and a timeout within it.
LEMMA EnvTypes ==
  ASSUME NEW e \in Env
  PROVE  /\ e.attempts \in Nat \ {0} /\ e.baseDelay \in Nat
         /\ UsableWindow(e) \in Nat
         /\ ProviderTimeout(e) \in Nat /\ ProviderTimeout(e) <= UsableWindow(e)
<1>1. /\ e.limit \in Nat /\ e.timeout \in Nat /\ e.baseDelay \in Nat
      /\ e.attempts \in Nat \ {0} /\ MinWindow \in Nat /\ Headroom \in Nat
  BY PolicyAssumption DEF Env
<1>2. UsableWindow(e) \in Nat
  <2> DEFINE rest == e.limit - Headroom
  <2>1. rest \in Int /\ MinWindow \in Int
    BY <1>1
  <2> HIDE DEF rest
  <2>2. Max({MinWindow, rest}) \in {MinWindow, rest} /\ Max({MinWindow, rest}) >= MinWindow
    BY <2>1, MaxOfTwo
  <2>3. QED
    BY <1>1, <2>1, <2>2 DEF UsableWindow, rest
<1>3. ProviderTimeout(e) \in Nat /\ ProviderTimeout(e) <= UsableWindow(e)
  <2>1. e.timeout \in Int /\ UsableWindow(e) \in Int
    BY <1>1, <1>2
  <2>2. /\ Min({e.timeout, UsableWindow(e)}) \in {e.timeout, UsableWindow(e)}
        /\ Min({e.timeout, UsableWindow(e)}) <= UsableWindow(e)
    BY <2>1, MinOfTwo
  <2>3. QED
    BY <1>1, <1>2, <2>2 DEF ProviderTimeout
<1>4. QED
  BY <1>1, <1>2, <1>3

\* The longest time n attempts and the pauses between them can take.
Longest(e, n) == n * ProviderTimeout(e) + Pauses(e.baseDelay)[n - 1]

\* The budget the code computes is the longest time the attempts can take.
LEMMA BudgetIsLongest ==
  ASSUME NEW e, NEW n \in Nat \ {0}
  PROVE  Budget(e, n) = Longest(e, n)
<1>1. n \in Int /\ 1 \in Int
  OBVIOUS
<1>2. Max({1, n}) = n
  BY <1>1, MaxOfTwo
<1>3. QED
  BY <1>2 DEF Budget, RetryBudget, Longest

\* One more attempt costs a pause and a timeout.
LEMMA LongestGrows ==
  ASSUME NEW e \in Env, NEW n \in Nat \ {0}
  PROVE  /\ Longest(e, n) \in Nat
         /\ Longest(e, n + 1) =
              Longest(e, n) + BackoffMs(n, e.baseDelay) + ProviderTimeout(e)
         /\ Longest(e, n + 1) >= Longest(e, n)
<1> DEFINE T == ProviderTimeout(e)
           pauses == Pauses(e.baseDelay)
<1>1. T \in Nat /\ e.baseDelay \in Nat
  BY EnvTypes
<1>2. pauses[n - 1] \in Nat /\ pauses[n] = pauses[n - 1] + BackoffMs(n, e.baseDelay)
  <2>1. n - 1 \in Nat /\ n - 1 + 1 = n
    OBVIOUS
  <2>2. QED
    BY <1>1, <2>1, PausesAddUp
<1>3. BackoffMs(n, e.baseDelay) \in Nat
  BY <1>1, BackoffType
<1> HIDE DEF T, pauses
<1>4. (n + 1) * T = n * T + T /\ n * T \in Nat
  BY <1>1
<1>5. Longest(e, n) = n * T + pauses[n - 1] /\ Longest(e, n + 1) = (n + 1) * T + pauses[n]
  <2>1. n + 1 - 1 = n
    OBVIOUS
  <2>2. QED
    BY <2>1 DEF Longest, T, pauses
<1>6. QED
  BY <1>1, <1>2, <1>3, <1>4, <1>5 DEF T

\* More attempts never take less.
LEMMA LongestIsMonotone ==
  ASSUME NEW e \in Env, NEW m \in Nat \ {0}, NEW n \in Nat, m <= n
  PROVE  Longest(e, m) <= Longest(e, n)
<1> DEFINE P == {k \in Nat : m <= k => Longest(e, m) <= Longest(e, k)}
<1>1. P \in SUBSET Nat /\ 0 \in P
  OBVIOUS
<1>2. ASSUME NEW k \in Nat, k \in P PROVE k + 1 \in P
  <2>1. CASE k + 1 < m
    BY <2>1
  <2>2. CASE k + 1 = m
    BY <2>2, LongestGrows
  <2>3. CASE m <= k
    <3>1. k \in Nat \ {0} /\ Longest(e, m) <= Longest(e, k)
      BY <1>2, <2>3
    <3>2. Longest(e, k + 1) >= Longest(e, k) /\ Longest(e, k) \in Nat /\ Longest(e, m) \in Nat
      BY <3>1, LongestGrows
    <3>3. Longest(e, k + 1) \in Nat
      BY LongestGrows
    <3>4. QED
      BY <3>1, <3>2, <3>3
  <2>4. QED
    BY <2>1, <2>2, <2>3
<1> HIDE DEF P
<1>3. n \in P
  BY <1>1, <1>2, Induction
<1>4. QED
  BY <1>3 DEF P

\* What the loop of the policy ends with: one attempt or a number that fits,
\* and no larger number up to the configured one fits.
LEMMA ClampFinds ==
  ASSUME NEW e \in Env, NEW n \in Nat \ {0}
  PROVE  /\ Clamp(e)[n] \in 1 .. n
         /\ Clamp(e)[n] = 1 \/ ~OverBudget(e, Clamp(e)[n])
         /\ \A k \in 1 .. n : k > Clamp(e)[n] => OverBudget(e, k)
<1> DEFINE Found(k) ==
             /\ Clamp(e)[k] \in 1 .. k
             /\ Clamp(e)[k] = 1 \/ ~OverBudget(e, Clamp(e)[k])
             /\ \A j \in 1 .. k : j > Clamp(e)[k] => OverBudget(e, j)
           P == {k \in Nat : k # 0 => Found(k)}
<1>1. P \in SUBSET Nat /\ 0 \in P
  OBVIOUS
<1>2. ASSUME NEW k \in Nat, k \in P PROVE k + 1 \in P
  <2>1. Clamp(e)[k + 1] =
          IF k + 1 > 1 /\ OverBudget(e, k + 1) THEN Clamp(e)[k + 1 - 1] ELSE k + 1
    BY ClampSteps
  <2>2. k + 1 - 1 = k
    OBVIOUS
  <2>3. CASE k + 1 > 1 /\ OverBudget(e, k + 1)
    <3>1. Clamp(e)[k + 1] = Clamp(e)[k] /\ k # 0
      BY <2>1, <2>2, <2>3
    <3>2. Found(k)
      BY <1>2, <3>1
    <3>3. ASSUME NEW j \in 1 .. k + 1, j > Clamp(e)[k] PROVE OverBudget(e, j)
      <4>1. j = k + 1 \/ j \in 1 .. k
        OBVIOUS
      <4>2. QED
        BY <2>3, <3>2, <3>3, <4>1
    <3>4. Found(k + 1)
      BY <3>1, <3>2, <3>3
    <3>5. QED
      BY <3>4
  <2>4. CASE ~ (k + 1 > 1 /\ OverBudget(e, k + 1))
    <3>1. Clamp(e)[k + 1] = k + 1
      BY <2>1, <2>4
    <3>2. k + 1 = 1 \/ ~OverBudget(e, k + 1)
      BY <2>4
    <3>3. Found(k + 1)
      BY <3>1, <3>2
    <3>4. QED
      BY <3>3
  <2>5. QED
    BY <2>3, <2>4
<1>3. P \in SUBSET Nat /\ (\A k \in Nat : k \in P => k + 1 \in P)
  BY <1>1, <1>2
<1> HIDE DEF P
<1>4. n \in P
  BY <1>1, <1>3, Induction
<1>5. QED
  BY <1>4 DEF P

-----------------------------------------------------------------------------
(***************************************************************************)
(* The inductive invariant: the time spent so far is at most what the      *)
(* attempts made so far can take, and an attempt under way has its timeout *)
(* before it.                                                              *)
(***************************************************************************)
DeliveryTypeOK ==
  /\ env \in Env
  /\ allowRetry \in BOOLEAN
  /\ phase \in {"attempt", "pause", "done"}
  /\ attempt \in Nat \ {0}
  /\ elapsed \in Nat

DeliveryInv ==
  /\ DeliveryTypeOK
  /\ attempt <= AttemptsAllowed
  /\ phase = "pause" => attempt < AttemptsAllowed
  /\ phase = "attempt" => elapsed + ProviderTimeout(env) <= Longest(env, attempt)
  /\ elapsed <= Longest(env, attempt)

\* The attempts the policy allows fit the window, in the worst case.
LEMMA AllowedFits ==
  ASSUME NEW e \in Env
  PROVE  MaxAttempts(e) \in Nat \ {0} /\ Longest(e, MaxAttempts(e)) <= UsableWindow(e)
<1>1. e.attempts \in Nat \ {0}
  BY EnvTypes
<1>2. MaxAttempts(e) \in Nat \ {0} /\ (MaxAttempts(e) = 1 \/ ~OverBudget(e, MaxAttempts(e)))
  BY <1>1, ClampFinds DEF MaxAttempts
<1>3. Longest(e, 1) = ProviderTimeout(e)
  BY EnvTypes, PausesAddUp DEF Longest
<1>4. CASE MaxAttempts(e) = 1
  BY <1>2, <1>3, <1>4, EnvTypes
<1>5. CASE ~OverBudget(e, MaxAttempts(e))
  <2>1. Budget(e, MaxAttempts(e)) = Longest(e, MaxAttempts(e))
    BY <1>2, BudgetIsLongest
  <2>2. Longest(e, MaxAttempts(e)) \in Nat /\ UsableWindow(e) \in Nat
    BY <1>2, LongestGrows, EnvTypes
  <2>3. QED
    BY <1>2, <1>5, <2>1, <2>2 DEF OverBudget
<1>6. QED
  BY <1>2, <1>4, <1>5

\* A delivery starts in the invariant.
LEMMA DeliveryStart == Init => DeliveryInv
<1> SUFFICES ASSUME Init PROVE DeliveryInv
  OBVIOUS
<1>1. DeliveryTypeOK
  BY DEF Init, DeliveryTypeOK
<1>2. env \in Env /\ attempt = 1 /\ elapsed = 0 /\ phase = "attempt"
  BY DEF Init
<1>3. AttemptsAllowed \in Nat \ {0}
  BY <1>1, <1>2, AllowedFits DEF AttemptsAllowed
<1>4. Longest(env, 1) = ProviderTimeout(env) /\ ProviderTimeout(env) \in Nat
  BY <1>2, EnvTypes, PausesAddUp DEF Longest
<1>5. QED
  BY <1>1, <1>2, <1>3, <1>4 DEF DeliveryInv

\* Every step of it keeps the invariant.
LEMMA DeliveryStep == DeliveryInv /\ [Next]_vars => DeliveryInv'
<1> SUFFICES ASSUME DeliveryInv, [Next]_vars PROVE DeliveryInv'
  OBVIOUS
<1>1. /\ DeliveryTypeOK /\ env \in Env /\ elapsed \in Nat /\ attempt \in Nat \ {0}
      /\ ProviderTimeout(env) \in Nat /\ Longest(env, attempt) \in Nat
  BY EnvTypes, LongestGrows DEF DeliveryInv, DeliveryTypeOK
<1>2. ASSUME UNCHANGED <<env, allowRetry>> PROVE AttemptsAllowed' = AttemptsAllowed
  BY <1>2 DEF AttemptsAllowed
<1>3. ASSUME NEW d \in Nat, d <= ProviderTimeout(env), phase = "attempt",
             elapsed' = elapsed + d, UNCHANGED <<env, allowRetry, attempt>>,
             phase' = "done" \/ (phase' = "pause" /\ AttemptsLeft)
      PROVE  DeliveryInv'
  <2>1. DeliveryTypeOK'
    BY <1>1, <1>3 DEF DeliveryTypeOK
  <2>2. elapsed' <= Longest(env, attempt)
    BY <1>1, <1>3 DEF DeliveryInv
  <2>3. AttemptsAllowed' = AttemptsAllowed
    BY <1>2, <1>3
  <2>4. Longest(env, attempt)' = Longest(env, attempt)
    BY <1>3
  <2>5. QED
    BY <1>3, <2>1, <2>2, <2>3, <2>4 DEF DeliveryInv, AttemptsLeft
<1>4. ASSUME NEW d \in Durations PROVE d \in Nat /\ d <= ProviderTimeout(env)
  BY <1>1, PolicyAssumption DEF Durations
<1>5. ASSUME NEW d \in Durations, LastAnswer(d) PROVE DeliveryInv'
  BY <1>3, <1>4, <1>5 DEF LastAnswer, EndDelivery
<1>6. ASSUME NEW d \in Durations, RetryableAnswer(d) PROVE DeliveryInv'
  BY <1>3, <1>4, <1>6 DEF RetryableAnswer, EndDelivery
<1>7. CASE TimedOut
  BY <1>1, <1>3, <1>7 DEF TimedOut, EndDelivery
<1>8. CASE Pause
  <2> DEFINE pause == BackoffMs(attempt, env.baseDelay)
  <2>1. pause \in Nat
    BY <1>1, EnvTypes, BackoffType
  <2>2. /\ phase = "pause" /\ elapsed' = elapsed + pause /\ phase' = "attempt"
        /\ attempt' = attempt + 1 /\ UNCHANGED <<env, allowRetry>>
    BY <1>8 DEF Pause
  <2>3. Longest(env, attempt + 1) = Longest(env, attempt) + pause + ProviderTimeout(env)
    BY <1>1, LongestGrows
  <2>4. Longest(env, attempt)' = Longest(env, attempt + 1) /\ ProviderTimeout(env)' = ProviderTimeout(env)
    BY <2>2
  <2> HIDE DEF pause
  <2>5. elapsed' + ProviderTimeout(env) <= Longest(env, attempt + 1)
    BY <1>1, <2>1, <2>2, <2>3 DEF DeliveryInv
  <2>6. DeliveryTypeOK'
    BY <1>1, <2>1, <2>2 DEF DeliveryTypeOK
  <2>7. AttemptsAllowed' = AttemptsAllowed /\ attempt' <= AttemptsAllowed
    <3>1. AttemptsAllowed \in Nat
      BY <1>1, AllowedFits DEF AttemptsAllowed, DeliveryTypeOK
    <3>2. QED
      BY <1>1, <1>2, <2>2, <3>1 DEF DeliveryInv
  <2>8. elapsed' <= Longest(env, attempt + 1)
    BY <1>1, <2>1, <2>2, <2>3, <2>5
  <2>9. QED
    BY <2>2, <2>4, <2>5, <2>6, <2>7, <2>8 DEF DeliveryInv
<1>9. CASE UNCHANGED vars
  <2>1. UNCHANGED <<env, allowRetry, phase, attempt, elapsed>>
    BY <1>9 DEF vars
  <2>2. AttemptsAllowed' = AttemptsAllowed /\ Longest(env, attempt)' = Longest(env, attempt)
        /\ ProviderTimeout(env)' = ProviderTimeout(env)
    BY <1>2, <2>1
  <2>3. QED
    BY <2>1, <2>2 DEF DeliveryInv, DeliveryTypeOK
<1>10. QED
  BY <1>5, <1>6, <1>7, <1>8, <1>9 DEF Next

(***************************************************************************)
(* The inductive invariant, types included, holds in every behaviour.      *)
(***************************************************************************)
THEOREM DeliveryInvariance == Spec => []DeliveryInv
BY DeliveryStart, DeliveryStep, PTL DEF Spec

(***************************************************************************)
(* deliverSend is over before the usable window is, whatever the provider  *)
(* does and whatever was configured.                                       *)
(***************************************************************************)
THEOREM DeliveryFitsWindow == Spec => []DeliveryEndsInWindow
<1>1. ASSUME DeliveryInv PROVE DeliveryEndsInWindow
  <2>1. env \in Env /\ attempt \in Nat \ {0} /\ elapsed \in Nat /\ allowRetry \in BOOLEAN
    BY <1>1 DEF DeliveryInv, DeliveryTypeOK
  <2>2. elapsed <= Longest(env, attempt) /\ attempt <= AttemptsAllowed
    BY <1>1 DEF DeliveryInv
  <2>3. MaxAttempts(env) \in Nat \ {0} /\ Longest(env, MaxAttempts(env)) <= UsableWindow(env)
    BY <2>1, AllowedFits
  <2>4. attempt <= MaxAttempts(env)
    BY <2>1, <2>2, <2>3 DEF AttemptsAllowed
  <2>5. Longest(env, attempt) <= Longest(env, MaxAttempts(env))
    BY <2>1, <2>3, <2>4, LongestIsMonotone
  <2>6. /\ Longest(env, attempt) \in Nat /\ Longest(env, MaxAttempts(env)) \in Nat
        /\ UsableWindow(env) \in Nat
    BY <2>1, <2>3, LongestGrows, EnvTypes
  <2>7. QED
    BY <2>1, <2>2, <2>3, <2>5, <2>6 DEF DeliveryEndsInWindow
<1>2. QED
  BY <1>1, DeliveryInvariance, PTL
-----------------------------------------------------------------------------
(***************************************************************************)
(* The sum over a set of pauses, taken by choosing one pause after the     *)
(* other, is the sum in their order.                                       *)
(***************************************************************************)

\* g[n] is the sum of the pauses in s up to the n-th.
AddsUp(g, s, b) ==
  /\ g \in [Nat -> Nat]
  /\ g[0] = 0
  /\ \A n \in Nat : g[n + 1] = g[n] + (IF n + 1 \in s THEN BackoffMs(n + 1, b) ELSE 0)

\* The pauses in a set have partial sums.
LEMMA PartialSums ==
  ASSUME NEW b \in Nat, NEW s
  PROVE  \E g : AddsUp(g, s, b)
<1> DEFINE Share(n) == IF n \in s THEN BackoffMs(n, b) ELSE 0
           F == [p \in Nat \X Nat |-> p[1] + Share(p[2])]
<1>1. ASSUME NEW n \in Nat PROVE Share(n) \in Nat
  BY BackoffType
<1> HIDE DEF Share
<1>2. PICK g : Solves(g, Nat, 0, F)
  <2>1. F \in [Nat \X Nat -> Nat] /\ 0 \in Nat
    <3>1. ASSUME NEW p \in Nat \X Nat PROVE p[1] + Share(p[2]) \in Nat
      <4>1. p[1] \in Nat /\ p[2] \in Nat
        OBVIOUS
      <4>2. Share(p[2]) \in Nat
        BY <1>1, <4>1
      <4>3. QED
        BY <4>1, <4>2
    <3>2. QED
      BY <3>1
  <2> HIDE DEF F
  <2>2. QED
    BY <2>1, Recursion
<1>3. /\ g \in [Nat -> Nat] /\ g[0] = 0
      /\ \A m \in Nat : m # 0 => g[m] = F[<<g[m - 1], m>>]
  BY <1>2 DEF Solves
<1>4. ASSUME NEW n \in Nat PROVE g[n + 1] = g[n] + Share(n + 1)
  <2>1. n + 1 \in Nat /\ n + 1 # 0 /\ n + 1 - 1 = n
    OBVIOUS
  <2>2. g[n + 1] = F[<<g[n + 1 - 1], n + 1>>]
    <3> HIDE DEF F
    <3>1. QED
      BY <1>3, <2>1
  <2>3. <<g[n], n + 1>> \in Nat \X Nat
    BY <1>3, <2>1
  <2>4. F[<<g[n], n + 1>>] = g[n] + Share(n + 1)
    BY <2>3
  <2>5. QED
    BY <2>1, <2>2, <2>4
<1>5. AddsUp(g, s, b)
  BY <1>3, <1>4 DEF AddsUp, Share
<1>6. QED
  BY <1>5

\* The partial sums of no pauses are zero.
LEMMA NothingAddsUp ==
  ASSUME NEW b \in Nat, NEW g, AddsUp(g, {}, b)
  PROVE  \A n \in Nat : g[n] = 0
<1> DEFINE P == {n \in Nat : g[n] = 0}
<1>1. P \in SUBSET Nat /\ 0 \in P /\ \A n \in Nat : n \in P => n + 1 \in P
  BY DEF AddsUp
<1> HIDE DEF P
<1>2. \A n \in Nat : n \in P
  BY <1>1, Induction
<1>3. QED
  BY <1>2 DEF P

\* The partial sum of the first k pauses is what the loop computes.
LEMMA AllAddsUp ==
  ASSUME NEW b \in Nat, NEW k \in Nat, NEW g, AddsUp(g, 1 .. k, b)
  PROVE  g[k] = Pauses(b)[k]
<1> DEFINE P == {n \in Nat : n <= k => g[n] = Pauses(b)[n]}
<1>1. P \in SUBSET Nat /\ 0 \in P
  BY PausesAddUp DEF AddsUp
<1>2. ASSUME NEW n \in Nat, n \in P PROVE n + 1 \in P
  <2>1. SUFFICES ASSUME n + 1 <= k PROVE g[n + 1] = Pauses(b)[n + 1]
    OBVIOUS
  <2>2. n + 1 \in 1 .. k /\ g[n] = Pauses(b)[n]
    BY <1>2, <2>1
  <2>3. g[n + 1] = g[n] + BackoffMs(n + 1, b)
    BY <2>2 DEF AddsUp
  <2>4. Pauses(b)[n + 1] = Pauses(b)[n] + BackoffMs(n + 1, b)
    BY PausesAddUp
  <2>5. QED
    BY <2>2, <2>3, <2>4
<1> HIDE DEF P
<1>3. k \in P
  BY <1>1, <1>2, Induction
<1>4. QED
  BY <1>3 DEF P

\* Without the c-th pause the sum is as much smaller from there on.
Shorter(g, h, c, b) ==
  \A n \in Nat : g[n] = h[n] + (IF n >= c THEN BackoffMs(c, b) ELSE 0)

\* Without one pause, every partial sum from there on is less by that pause.
LEMMA OneLess ==
  ASSUME NEW b \in Nat, NEW s, NEW c \in Nat \ {0}, c \in s,
         NEW g, AddsUp(g, s, b), NEW h, AddsUp(h, s \ {c}, b)
  PROVE  Shorter(g, h, c, b)
<1> DEFINE Due(n) == IF n >= c THEN BackoffMs(c, b) ELSE 0
           P == {n \in Nat : g[n] = h[n] + Due(n)}
<1>1. P \in SUBSET Nat /\ 0 \in P
  BY DEF AddsUp
<1>2. ASSUME NEW n \in Nat, n \in P PROVE n + 1 \in P
  <2> DEFINE share == IF n + 1 \in s THEN BackoffMs(n + 1, b) ELSE 0
             rest == IF n + 1 \in s \ {c} THEN BackoffMs(n + 1, b) ELSE 0
             due == BackoffMs(c, b)
  <2>1. g[n + 1] = g[n] + share /\ h[n + 1] = h[n] + rest /\ g[n] = h[n] + Due(n)
    BY <1>2 DEF AddsUp
  <2>2. g[n] \in Nat /\ h[n] \in Nat /\ due \in Nat /\ share \in Nat /\ rest \in Nat
    <3>1. BackoffMs(n + 1, b) \in Nat
      <4>1. \A m \in Nat : BackoffMs(m, b) \in Nat
        BY BackoffType
      <4>2. n + 1 \in Nat
        OBVIOUS
      <4>3. QED
        BY <4>1, <4>2
    <3>2. due \in Nat
      BY BackoffType
    <3>3. g[n] \in Nat /\ h[n] \in Nat
      BY DEF AddsUp
    <3>4. QED
      BY <3>1, <3>2, <3>3
  <2>3. CASE n + 1 = c
    <3>1. share = due /\ rest = 0 /\ Due(n) = 0 /\ Due(n + 1) = due
      BY <2>3
    <3> HIDE DEF share, rest, due, Due
    <3>2. g[n + 1] = h[n + 1] + Due(n + 1)
      BY <2>1, <2>2, <3>1
    <3>3. QED
      BY <3>2 DEF P
  <2>4. CASE n + 1 # c
    <3>1. share = rest /\ Due(n + 1) = Due(n) /\ Due(n) \in Nat
      BY <2>2, <2>4
    <3> HIDE DEF share, rest, due, Due
    <3>2. g[n + 1] = h[n + 1] + Due(n + 1)
      BY <2>1, <2>2, <3>1
    <3>3. QED
      BY <3>2 DEF P
  <2>5. QED
    BY <2>3, <2>4
<1> HIDE DEF P
<1>3. \A n \in Nat : n \in P
  BY <1>1, <1>2, Induction
<1>4. QED
  BY <1>3 DEF P, Shorter

\* The recursion by which the community module sums over a set.
SumsUp(f, S, b) ==
  f = [s \in SUBSET S |->
         IF s = {} THEN 0
         ELSE LET x == CHOOSE x \in s : TRUE IN BackoffMs(x, b) + f[s \ {x}]]

\* Folding over a finite set gives one number, in whatever order.
LEMMA SumsUpAtMostOne ==
  ASSUME NEW b, NEW S, IsFiniteSet(S), NEW f, SumsUp(f, S, b), NEW h, SumsUp(h, S, b)
  PROVE  f[S] = h[S]
<1> DEFINE Order == StrictSubsetOrdering(S)
           Bad == {s \in SUBSET S : f[s] # h[s]}
<1>1. SUFFICES ASSUME Bad # {} PROVE FALSE
  OBVIOUS
<1>2. Bad \subseteq FiniteSubsetsOf(S)
  BY FS_Subset DEF FiniteSubsetsOf
<1>3. PICK least \in Bad : \A other \in Bad : ~ (<<other, least>> \in Order)
  <2>1. IsWellFoundedOn(Order, FiniteSubsetsOf(S))
    BY FS_StrictSubsetOrderingWellFounded
  <2> HIDE DEF Bad, Order
  <2>2. QED
    BY <1>1, <1>2, <2>1, WFMin
<1> DEFINE x == CHOOSE x \in least : TRUE
           rest == least \ {x}
<1>4. f[{}] = 0 /\ h[{}] = 0
  <2>1. {} \in SUBSET S
    OBVIOUS
  <2>2. QED
    BY <2>1 DEF SumsUp
<1>5. least # {}
  BY <1>4
<1>6. x \in least
  BY <1>5
<1>7. f[least] = BackoffMs(x, b) + f[rest] /\ h[least] = BackoffMs(x, b) + h[rest]
  BY <1>5 DEF SumsUp
<1> HIDE DEF x
<1>8. rest \in SUBSET S /\ <<rest, least>> \in Order
  BY <1>6 DEF StrictSubsetOrdering
<1>9. f[rest] = h[rest]
  BY <1>3, <1>8
<1>10. QED
  BY <1>7, <1>9

\* The sum over the set of the first k pauses is what the loop computes.
LEMMA SumOfPauses ==
  ASSUME NEW b \in Nat, NEW k \in Nat
  PROVE  MapThenSumSet(LAMBDA i : BackoffMs(i, b), 1 .. k) = Pauses(b)[k]
<1> DEFINE S == 1 .. k
           G == [s \in SUBSET S |-> CHOOSE g : AddsUp(g, s, b)]
           h == [s \in SUBSET S |-> G[s][k]]
<1>1. ASSUME NEW s \in SUBSET S PROVE AddsUp(G[s], s, b)
  BY PartialSums
<1> HIDE DEF G
<1>2. ASSUME NEW s \in SUBSET S, s # {}, NEW x \in s
      PROVE  h[s] = BackoffMs(x, b) + h[s \ {x}]
  <2>1. s \ {x} \in SUBSET S /\ x \in Nat \ {0} /\ k >= x
    OBVIOUS
  <2>2. AddsUp(G[s], s, b) /\ AddsUp(G[s \ {x}], s \ {x}, b)
    BY <1>1, <2>1
  <2>3. G[s][k] = G[s \ {x}][k] + BackoffMs(x, b)
    <3> HIDE DEF S, h
    <3>1. Shorter(G[s], G[s \ {x}], x, b)
      BY <2>1, <2>2, OneLess
    <3>2. QED
      BY <2>1, <3>1 DEF Shorter
  <2>4. G[s \ {x}][k] \in Nat /\ BackoffMs(x, b) \in Nat
    BY <2>1, <2>2, BackoffType DEF AddsUp
  <2>5. QED
    BY <2>1, <2>3, <2>4
<1>3. h[{}] = 0
  <2>1. {} \in SUBSET S
    OBVIOUS
  <2>2. AddsUp(G[{}], {}, b)
    BY <1>1, <2>1
  <2>3. QED
    BY <2>1, <2>2, NothingAddsUp
<1>4. h[S] = Pauses(b)[k]
  <2>1. S \in SUBSET S /\ AddsUp(G[S], S, b)
    BY <1>1
  <2>2. QED
    BY <2>1, AllAddsUp
<1>5. h = [s \in SUBSET S |-> h[s]]
  OBVIOUS
<1> HIDE DEF h
<1>6. SumsUp(h, S, b)
  <2>1. ASSUME NEW s \in SUBSET S
        PROVE  h[s] = IF s = {} THEN 0
                      ELSE LET x == CHOOSE x \in s : TRUE IN BackoffMs(x, b) + h[s \ {x}]
    <3>1. CASE s = {}
      BY <1>3, <3>1
    <3>2. CASE s # {}
      <4> DEFINE x == CHOOSE x \in s : TRUE
      <4>1. x \in s
        BY <3>2
      <4> HIDE DEF x
      <4>2. h[s] = BackoffMs(x, b) + h[s \ {x}]
        BY <1>2, <3>2, <4>1
      <4>3. QED
        BY <3>2, <4>2 DEF x
    <3>3. QED
      BY <3>1, <3>2
  <2>2. QED
    BY <1>5, <2>1 DEF SumsUp
<1>7. \E f : SumsUp(f, S, b) /\ MapThenSumSet(LAMBDA i : BackoffMs(i, b), S) = f[S]
  <2> HIDE DEF S
  <2>1. \E f : /\ f = [s \in SUBSET S |->
                   IF s = {} THEN 0
                   ELSE LET x == CHOOSE x \in s : TRUE IN BackoffMs(x, b) + f[s \ {x}]]
               /\ MapThenSumSet(LAMBDA i : BackoffMs(i, b), S) = f[S]
    BY <1>6 DEF MapThenSumSet, MapThenFoldSet, SumsUp
  <2>2. QED
    BY <2>1 DEF SumsUp
<1>8. PICK f : SumsUp(f, S, b) /\ MapThenSumSet(LAMBDA i : BackoffMs(i, b), S) = f[S]
  BY <1>7
<1>9. f[S] = h[S]
  <2>1. IsFiniteSet(S)
    BY FS_Interval
  <2> HIDE DEF S
  <2>2. QED
    BY <1>6, <1>8, <2>1, SumsUpAtMostOne
<1>10. QED
  BY <1>4, <1>8, <1>9

(***************************************************************************)
(* The clamp takes away no attempt that would fit, whatever was configured. *)
(***************************************************************************)
THEOREM DeliveryTriesEnough == Spec => []AttemptsAreMaximal
<1>1. ASSUME env \in Env PROVE AttemptsAreMaximal
  <2> DEFINE m == MaxAttempts(env)
             fits == {n \in 1 .. env.attempts : WorstCase(n) <= UsableWindow(env)}
  <2>1. /\ env.attempts \in Nat \ {0} /\ env.baseDelay \in Nat
        /\ UsableWindow(env) \in Nat
    BY <1>1, EnvTypes
  <2>2. ASSUME NEW n \in 1 .. env.attempts
        PROVE  WorstCase(n) = Budget(env, n) /\ Budget(env, n) \in Nat
    <3>1. n \in Nat \ {0} /\ n - 1 \in Nat
      BY <2>1
    <3>2. WorstCase(n) = Longest(env, n)
      BY <2>1, <3>1, SumOfPauses DEF WorstCase, Longest
    <3>3. Longest(env, n) \in Nat /\ Budget(env, n) = Longest(env, n)
      BY <1>1, <3>1, LongestGrows, BudgetIsLongest
    <3>4. QED
      BY <3>2, <3>3
  <2>3. ASSUME NEW n \in 1 .. env.attempts PROVE n \in fits <=> ~OverBudget(env, n)
    BY <2>1, <2>2 DEF OverBudget
  <2>4. /\ m \in 1 .. env.attempts
        /\ m = 1 \/ ~OverBudget(env, m)
        /\ \A k \in 1 .. env.attempts : k > m => OverBudget(env, k)
    BY <1>1, <2>1, ClampFinds DEF MaxAttempts
  <2> HIDE DEF m
  <2>5. m \in {1} \cup fits
    BY <2>3, <2>4
  <2>6. ASSUME NEW n \in {1} \cup fits PROVE m >= n
    BY <2>1, <2>3, <2>4
  <2>7. {1} \cup fits \subseteq Int
    OBVIOUS
  <2> HIDE DEF fits
  <2>8. Max({1} \cup fits) = m
    BY <2>5, <2>6, <2>7 DEF Max
  <2>9. QED
    BY <2>8 DEF AttemptsAreMaximal, m, fits
<1>2. DeliveryInv => env \in Env
  BY DEF DeliveryInv, DeliveryTypeOK
<1>3. QED
  BY <1>1, <1>2, DeliveryInvariance, PTL
=============================================================================
