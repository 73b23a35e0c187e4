---------------------------- MODULE WordsProofs ----------------------------
(***************************************************************************)
(* Facts on powers of two, the shifted ones of src/quickbloom.c, on        *)
(* quotients and remainders, on exclusive or and on loops; and what they   *)
(* say of the hash the filters have in common: no step of fasthash64_var   *)
(* loses what a word of the key says.                                      *)
(*                                                                         *)
(* They need induction on the naturals, which InductionOverSet gives: it   *)
(* is stated of a set, and proved from the well-foundedness of the subset  *)
(* ordering of finite sets.                                                *)
(***************************************************************************)
EXTENDS FastHash, FiniteSetTheorems, WellFoundedInduction, TLAPS

\* Every nonempty set of naturals has a least member: the well-foundedness that
\* the loops of src/quickbloom.c which count up to a first exponent rest on.
LEMMA LeastNatural ==
  ASSUME NEW S \in SUBSET Nat, S # {}
  PROVE  \E m \in S : \A n \in S : m <= n
<1>1. PICK top \in S : TRUE
  OBVIOUS
<1> DEFINE T == {0 .. n : n \in {k \in S : k <= top}}
<1>2. T \subseteq FiniteSubsetsOf(Nat)
  <2>1. \A n \in Nat : (0 .. n) \subseteq Nat /\ IsFiniteSet(0 .. n)
    BY FS_Interval
  <2> QED
    BY <2>1 DEF FiniteSubsetsOf
<1>3. T # {}
  BY <1>1
<1>4. IsWellFoundedOn(StrictSubsetOrdering(Nat), FiniteSubsetsOf(Nat))
  BY FS_StrictSubsetOrderingWellFounded
<1>5. PICK x \in T : \A y \in T : ~ (<<y, x>> \in StrictSubsetOrdering(Nat))
  <2> HIDE DEF T
  <2> QED
    BY <1>2, <1>3, <1>4, WFMin, Zenon
<1>6. PICK m \in S : m <= top /\ x = 0 .. m
  BY <1>5
<1>7. ASSUME NEW n \in S, ~ (m <= n)
      PROVE  FALSE
  <2>1. (0 .. n) \in T
    BY <1>6, <1>7
  <2>2. (0 .. n) \subseteq (0 .. m) /\ (0 .. n) # (0 .. m)
    <3>1. m \in 0 .. m /\ m \notin 0 .. n
      BY <1>6, <1>7
    <3> QED
      BY <1>6, <1>7, <3>1
  <2>3. <<0 .. n, x>> \in StrictSubsetOrdering(Nat)
    BY <2>2, <1>6 DEF StrictSubsetOrdering
  <2> QED
    BY <1>5, <2>1, <2>3
<1> QED
  BY <1>6, <1>7

\* Induction on the naturals, with a set in the place of a predicate.
LEMMA InductionOverSet ==
  ASSUME NEW S, 0 \in S, \A n \in Nat : n \in S => n + 1 \in S
  PROVE  Nat \subseteq S
<1> SUFFICES ASSUME NEW k \in Nat, k \notin S PROVE FALSE
  OBVIOUS
<1> DEFINE U == {n \in Nat : n \notin S}
<1>1. PICK m \in U : \A n \in U : m <= n
  BY LeastNatural
<1>2. m # 0 /\ m - 1 \in Nat /\ m - 1 \notin U
  BY <1>1
<1> QED
  BY <1>1, <1>2

\* Every initial part of Pow2 is a function that its equation determines.
LEMMA Pow2Initial ==
  ASSUME NEW n \in Nat
  PROVE  \E f \in [0 .. n -> Nat] :
            f = [i \in 0 .. n |-> IF i = 0 THEN 1 ELSE 2 * f[i - 1]]
<1> DEFINE S == {k \in Nat : \E f \in [0 .. k -> Nat] :
            f = [i \in 0 .. k |-> IF i = 0 THEN 1 ELSE 2 * f[i - 1]]}
<1>1. 0 \in S
  <2> DEFINE f == [i \in 0 .. 0 |-> 1]
  <2>1. f \in [0 .. 0 -> Nat] /\ f = [i \in 0 .. 0 |-> IF i = 0 THEN 1 ELSE 2 * f[i - 1]]
    OBVIOUS
  <2> QED
    BY <2>1
<1>2. ASSUME NEW k \in Nat, k \in S
      PROVE  k + 1 \in S
  <2>1. PICK f \in [0 .. k -> Nat] :
            f = [i \in 0 .. k |-> IF i = 0 THEN 1 ELSE 2 * f[i - 1]]
    BY <1>2
  <2> DEFINE g == [i \in 0 .. k + 1 |-> IF i = k + 1 THEN 2 * f[k] ELSE f[i]]
  <2>2. g \in [0 .. k + 1 -> Nat]
    BY <2>1
  <2>3. \A i \in 0 .. k + 1 : g[i] = IF i = 0 THEN 1 ELSE 2 * g[i - 1]
    BY <2>1
  <2>4. g = [i \in 0 .. k + 1 |-> IF i = 0 THEN 1 ELSE 2 * g[i - 1]]
    BY <2>2, <2>3
  <2>5. \E h \in [0 .. k + 1 -> Nat] :
            h = [i \in 0 .. k + 1 |-> IF i = 0 THEN 1 ELSE 2 * h[i - 1]]
    <3> HIDE DEF g
    <3> QED
      BY <2>2, <2>4
  <2> QED
    BY <2>5
<1>3. Nat \subseteq S
  <2> HIDE DEF S
  <2> QED
    BY <1>1, <1>2, InductionOverSet
<1> QED
  BY <1>3

\* Pow2 satisfies its own equation: the recursion that stands for a shifted one.
LEMMA Pow2Exists ==
  Pow2 = [n \in Nat |-> IF n = 0 THEN 1 ELSE 2 * Pow2[n - 1]]
<1> DEFINE Initial(n, f) ==
             f = [i \in 0 .. n |-> IF i = 0 THEN 1 ELSE 2 * f[i - 1]]
           part == [n \in Nat |-> CHOOSE f \in [0 .. n -> Nat] : Initial(n, f)]
           F == [n \in Nat |-> part[n][n]]
<1>1. \A n \in Nat : part[n] \in [0 .. n -> Nat] /\ Initial(n, part[n])
  BY Pow2Initial
<1> HIDE DEF part
<1>2. \A n \in Nat : part[n][0] = 1 /\ \A i \in 1 .. n : part[n][i] = 2 * part[n][i - 1]
  <2> TAKE n \in Nat
  <2> DEFINE f == part[n]
  <2>1. f = [i \in 0 .. n |-> IF i = 0 THEN 1 ELSE 2 * f[i - 1]]
    BY <1>1
  <2> HIDE DEF f
  <2>2. \A i \in 0 .. n : f[i] = IF i = 0 THEN 1 ELSE 2 * f[i - 1]
    BY <2>1
  <2>3. f[0] = 1 /\ \A i \in 1 .. n : f[i] = 2 * f[i - 1]
    BY <2>2
  <2> QED
    BY <2>3 DEF f
<1>3. \A n \in Nat : part[n + 1][n] = part[n][n]
  <2> TAKE n \in Nat
  <2> DEFINE S == {i \in Nat : i <= n => part[n + 1][i] = part[n][i]}
  <2>1. 0 \in S
    BY <1>2
  <2>2. ASSUME NEW i \in Nat, i \in S PROVE i + 1 \in S
    <3>1. CASE i + 1 <= n
      <4>1. part[n + 1][i] = part[n][i]
        BY <2>2, <3>1
      <4>2. i + 1 \in 1 .. n /\ i + 1 \in 1 .. n + 1 /\ n + 1 \in Nat /\ (i + 1) - 1 = i
        BY <3>1
      <4>3. part[n + 1][i + 1] = 2 * part[n + 1][i]
        BY <4>2, <1>2
      <4>4. part[n][i + 1] = 2 * part[n][i]
        BY <4>2, <1>2
      <4> QED
        BY <4>1, <4>3, <4>4
    <3>2. CASE ~ (i + 1 <= n)
      BY <3>2
    <3> QED
      BY <3>1, <3>2
  <2>3. Nat \subseteq S
    <3> HIDE DEF S
    <3> QED
      BY <2>1, <2>2, InductionOverSet
  <2> QED
    BY <2>3
<1>4. \A n \in Nat : F[n] = IF n = 0 THEN 1 ELSE 2 * F[n - 1]
  <2> TAKE n \in Nat
  <2>1. CASE n = 0
    BY <2>1, <1>2
  <2>2. CASE n # 0
    <3>1. n - 1 \in Nat /\ n \in 1 .. n
      BY <2>2
    <3>2. part[n][n] = 2 * part[n][n - 1]
      BY <1>2, <3>1
    <3>3. part[n][n - 1] = part[n - 1][n - 1]
      BY <1>3, <3>1
    <3> QED
      BY <3>1, <3>2, <3>3, <2>2
  <2> QED
    BY <2>1, <2>2
<1>5. F = [n \in Nat |-> IF n = 0 THEN 1 ELSE 2 * F[n - 1]]
  BY <1>4
<1> HIDE DEF F
<1> QED
  BY <1>5 DEF Pow2

\* Shifting a one by n + 1 places doubles what shifting it by n places gives.
LEMMA Pow2Step ==
  /\ Pow2[0] = 1
  /\ \A n \in Nat : Pow2[n + 1] = 2 * Pow2[n]
<1> DEFINE f == Pow2
<1>1. f = [n \in Nat |-> IF n = 0 THEN 1 ELSE 2 * f[n - 1]]
  BY Pow2Exists
<1> HIDE DEF f
<1>2. \A n \in Nat : f[n] = IF n = 0 THEN 1 ELSE 2 * f[n - 1]
  BY <1>1
<1>3. f[0] = 1 /\ \A n \in Nat : f[n + 1] = 2 * f[n]
  BY <1>2
<1> QED
  BY <1>3 DEF f

\* A shifted one is a positive natural.
LEMMA Pow2Type ==
  \A n \in Nat : Pow2[n] \in Nat /\ Pow2[n] >= 1
<1> DEFINE S == {n \in Nat : Pow2[n] \in Nat /\ Pow2[n] >= 1}
<1>1. 0 \in S
  BY Pow2Step
<1>2. ASSUME NEW n \in Nat, n \in S PROVE n + 1 \in S
  BY <1>2, Pow2Step
<1>3. Nat \subseteq S
  <2> HIDE DEF S
  <2> QED
    BY <1>1, <1>2, InductionOverSet
<1> QED
  BY <1>3

\* Shifting by m + n places is shifting by m and then by n.
LEMMA Pow2Sum ==
  ASSUME NEW m \in Nat
  PROVE  \A n \in Nat : Pow2[m + n] = Pow2[m] * Pow2[n]
<1> DEFINE S == {n \in Nat : Pow2[m + n] = Pow2[m] * Pow2[n]}
<1>1. 0 \in S
  BY Pow2Step, Pow2Type
<1>2. ASSUME NEW n \in Nat, n \in S PROVE n + 1 \in S
  <2>1. Pow2[m + (n + 1)] = 2 * Pow2[m + n]
    BY Pow2Step, m + n \in Nat, m + (n + 1) = (m + n) + 1
  <2>2. Pow2[n + 1] = 2 * Pow2[n]
    BY Pow2Step
  <2>3. Pow2[m] \in Nat /\ Pow2[n] \in Nat /\ Pow2[m + n] = Pow2[m] * Pow2[n]
    BY <1>2, Pow2Type
  <2>4. \A a, b \in Nat : 2 * (a * b) = a * (2 * b)
    OBVIOUS
  <2>5. Pow2[m] * (2 * Pow2[n]) = 2 * (Pow2[m] * Pow2[n])
    BY <2>3, <2>4
  <2> QED
    BY <2>1, <2>2, <2>3, <2>5
<1>3. Nat \subseteq S
  <2> HIDE DEF S
  <2> QED
    BY <1>1, <1>2, InductionOverSet
<1> QED
  BY <1>3

\* Shifting a one further never makes it smaller: the order of the widths of a
\* lane, of half a hash and of size_t.
LEMMA Pow2Grows ==
  ASSUME NEW m \in Nat, NEW n \in Nat, m < n
  PROVE  Pow2[m] < Pow2[n]
<1> DEFINE d == n - m
<1>1. d \in Nat /\ d - 1 \in Nat /\ n = m + d
  OBVIOUS
<1>2. Pow2[n] = Pow2[m] * Pow2[d]
  BY <1>1, Pow2Sum
<1>3. Pow2[d] = 2 * Pow2[d - 1]
  BY <1>1, Pow2Step, (d - 1) + 1 = d
<1>4. Pow2[m] \in Nat /\ Pow2[m] >= 1 /\ Pow2[d - 1] \in Nat /\ Pow2[d - 1] >= 1
  BY <1>1, Pow2Type
<1>5. \A x, y \in Nat : x >= 1 /\ y >= 1 => x < x * (2 * y)
  OBVIOUS
<1> HIDE DEF d
<1> QED
  BY <1>2, <1>3, <1>4, <1>5

\* A greater exponent gives no smaller power.
LEMMA Pow2Monotone ==
  ASSUME NEW m \in Nat, NEW n \in Nat, m <= n
  PROVE  Pow2[m] <= Pow2[n]
<1>1. CASE m < n
  <2>1. Pow2[m] \in Nat /\ Pow2[n] \in Nat
    BY Pow2Type
  <2> QED
    BY <1>1, <2>1, Pow2Grows
<1>2. CASE m = n
  <2>1. Pow2[m] \in Nat
    BY Pow2Type
  <2> QED
    BY <1>2, <2>1
<1> QED
  BY <1>1, <1>2

\* Some power of two reaches any n: the rounding loops of qb_new and log2_pow2
\* end.
LEMMA Pow2Exceeds ==
  \A n \in Nat : n < Pow2[n]
<1> DEFINE S == {n \in Nat : n < Pow2[n]}
<1>1. 0 \in S
  BY Pow2Step
<1>2. ASSUME NEW n \in Nat, n \in S PROVE n + 1 \in S
  BY <1>2, Pow2Step, Pow2Type
<1>3. Nat \subseteq S
  <2> HIDE DEF S
  <2> QED
    BY <1>1, <1>2, InductionOverSet
<1> QED
  BY <1>3

\* What the division of a natural gives.
LEMMA Quotient ==
  ASSUME NEW x \in Nat, NEW d \in Nat, d >= 1
  PROVE  /\ x \div d \in Nat
         /\ d * (x \div d) <= x
         /\ x < d * (x \div d) + d
  OBVIOUS

\* A quotient is the one number that brackets its dividend.
LEMMA QuotientUnique ==
  ASSUME NEW x \in Nat, NEW d \in Nat, d >= 1, NEW q \in Nat,
         d * q <= x, x < d * q + d
  PROVE  x \div d = q
<1> DEFINE r == x \div d
<1>1. r \in Nat /\ d * r <= x /\ x < d * r + d
  BY Quotient
<1> HIDE DEF r
<1>2. \A a, b \in Nat : a < b => d * a + d <= d * b
  <2> TAKE a, b \in Nat
  <2> HAVE a < b
  <2>1. b = a + 1 + (b - a - 1) /\ b - a - 1 \in Nat
    OBVIOUS
  <2>2. \A e \in Nat : d * (a + 1 + e) = d * a + d + d * e /\ d * e >= 0
    OBVIOUS
  <2> QED
    BY <2>1, <2>2
<1>3. ~ (r < q) /\ ~ (q < r)
  BY <1>1, <1>2
<1> QED
  BY <1>1, <1>3 DEF r

\* A quotient stays below the bound of its dividend: an index below the number
\* of blocks.
LEMMA QuotientBound ==
  ASSUME NEW x \in Nat, NEW d \in Nat, d >= 1, NEW n \in Nat, x < d * n
  PROVE  x \div d < n
<1> DEFINE q == x \div d
<1>1. q \in Nat /\ d * q <= x
  BY Quotient
<1> HIDE DEF q
<1>2. \A a, b \in Nat : a <= b => d * a <= d * b
  OBVIOUS
<1>3. ~ (n <= q)
  BY <1>1, <1>2
<1> QED
  BY <1>1, <1>3 DEF q

\* A common factor of dividend and divisor cancels: the multiplication and the
\* shift of the Parquet index.
LEMMA QuotientScaled ==
  ASSUME NEW x \in Nat, NEW d \in Nat, d >= 1, NEW c \in Nat, c >= 1
  PROVE  (x * c) \div (d * c) = x \div d
<1> DEFINE q == x \div d
<1>1. q \in Nat /\ d * q <= x /\ x < d * q + d
  BY Quotient
<1> HIDE DEF q
<1>2. \A a, b \in Nat : (a <= b => a * c <= b * c) /\ (a < b => a * c < b * c)
  OBVIOUS
<1>3. (d * q) * c = (d * c) * q /\ (d * q + d) * c = (d * c) * q + d * c
  BY <1>1
<1>4. (d * c) * q <= x * c /\ x * c < (d * c) * q + d * c
  <2>1. (d * q) * c <= x * c
    BY <1>1, <1>2
  <2>2. x * c < (d * q + d) * c
    BY <1>1, <1>2
  <2> QED
    BY <2>1, <2>2, <1>3
<1>5. x * c \in Nat /\ d * c \in Nat /\ d * c >= 1
  OBVIOUS
<1>6. (x * c) \div (d * c) = q
  BY <1>1, <1>4, <1>5, QuotientUnique
<1> QED
  BY <1>6 DEF q

-----------------------------------------------------------------------------
(***************************************************************************)
(* Exclusive or.                                                           *)
(***************************************************************************)
\* Halving a number below a bound that is not zero gets below it.
LEMMA Halves ==
  \A n \in Nat : \A x \in 0 .. n + 1 : x \div 2 \in 0 .. n
OBVIOUS

\* Every initial part of the exclusive or is a function its equation
\* determines.
LEMMA XorInitial ==
  ASSUME NEW n \in Nat
  PROVE  \E f \in [(0 .. n) \X (0 .. n) -> Nat] :
            \A x, y \in 0 .. n :
              f[<<x, y>>] = IF <<x, y>> = <<0, 0>> THEN 0
                            ELSE 2 * f[<<x \div 2, y \div 2>>] + ((x + y) % 2)
<1> DEFINE Initial(k, f) ==
             \A x, y \in 0 .. k :
               f[<<x, y>>] = IF <<x, y>> = <<0, 0>> THEN 0
                             ELSE 2 * f[<<x \div 2, y \div 2>>] + ((x + y) % 2)
           S == {k \in Nat : \E f \in [(0 .. k) \X (0 .. k) -> Nat] : Initial(k, f)}
<1>1. 0 \in S
  <2> DEFINE f == [p \in (0 .. 0) \X (0 .. 0) |-> 0]
  <2>1. f \in [(0 .. 0) \X (0 .. 0) -> Nat] /\ Initial(0, f)
    OBVIOUS
  <2> QED
    BY <2>1
<1>2. ASSUME NEW k \in Nat, k \in S
      PROVE  k + 1 \in S
  <2>1. PICK f \in [(0 .. k) \X (0 .. k) -> Nat] : Initial(k, f)
    BY <1>2
  <2> DEFINE next(x, y) == IF <<x, y>> = <<0, 0>> THEN 0
                           ELSE 2 * f[<<x \div 2, y \div 2>>] + ((x + y) % 2)
             g == [p \in (0 .. k + 1) \X (0 .. k + 1) |-> next(p[1], p[2])]
  <2>2. \A x, y \in 0 .. k + 1 : <<x \div 2, y \div 2>> \in (0 .. k) \X (0 .. k)
    BY Halves
  <2>3. \A x, y \in 0 .. k + 1 : next(x, y) \in Nat
    <3> SUFFICES ASSUME NEW x \in 0 .. k + 1, NEW y \in 0 .. k + 1
                 PROVE  next(x, y) \in Nat
      OBVIOUS
    <3>1. f[<<x \div 2, y \div 2>>] \in Nat
      BY <2>1, <2>2
    <3> QED
      BY <3>1
  <2>4. g \in [(0 .. k + 1) \X (0 .. k + 1) -> Nat] /\ \A x, y \in 0 .. k + 1 : g[<<x, y>>] = next(x, y)
    <3> HIDE DEF next
    <3> QED
      BY <2>3
  <2>5. \A x, y \in 0 .. k : g[<<x, y>>] = f[<<x, y>>]
    <3> HIDE DEF g
    <3>1. \A x, y \in 0 .. k : x \in 0 .. k + 1 /\ y \in 0 .. k + 1
      OBVIOUS
    <3>2. \A x, y \in 0 .. k : next(x, y) = f[<<x, y>>]
      BY <2>1
    <3> HIDE DEF next
    <3> QED
      BY <2>4, <3>1, <3>2
  <2>6. Initial(k + 1, g)
    <3> SUFFICES ASSUME NEW x \in 0 .. k + 1, NEW y \in 0 .. k + 1
                 PROVE  g[<<x, y>>] = IF <<x, y>> = <<0, 0>> THEN 0
                                      ELSE 2 * g[<<x \div 2, y \div 2>>] + ((x + y) % 2)
      OBVIOUS
    <3>1. g[<<x \div 2, y \div 2>>] = f[<<x \div 2, y \div 2>>]
      <4> HIDE DEF g
      <4> QED
        BY <2>2, <2>5
    <3>2. g[<<x, y>>] = next(x, y)
      BY <2>4
    <3> HIDE DEF g
    <3> QED
      BY <3>1, <3>2
  <2> HIDE DEF g
  <2> QED
    BY <2>4, <2>6
<1>3. Nat \subseteq S
  <2> HIDE DEF S
  <2> QED
    BY <1>1, <1>2, InductionOverSet
<1> QED
  BY <1>3

\* The equation has a solution on all pairs.
LEMMA XorExists ==
  XorOfPair = [p \in Nat \X Nat |->
                 IF p = <<0, 0>> THEN 0
                 ELSE 2 * XorOfPair[<<p[1] \div 2, p[2] \div 2>>] + ((p[1] + p[2]) % 2)]
<1> DEFINE Initial(n, f) ==
             \A x, y \in 0 .. n :
               f[<<x, y>>] = IF <<x, y>> = <<0, 0>> THEN 0
                             ELSE 2 * f[<<x \div 2, y \div 2>>] + ((x + y) % 2)
           part == [n \in Nat |-> CHOOSE f \in [(0 .. n) \X (0 .. n) -> Nat] : Initial(n, f)]
           F == [p \in Nat \X Nat |-> part[p[1] + p[2]][p]]
<1>1. \A n \in Nat : part[n] \in [(0 .. n) \X (0 .. n) -> Nat] /\ Initial(n, part[n])
  <2> SUFFICES ASSUME NEW n \in Nat
               PROVE  part[n] \in [(0 .. n) \X (0 .. n) -> Nat] /\ Initial(n, part[n])
    OBVIOUS
  <2>1. \E f \in [(0 .. n) \X (0 .. n) -> Nat] : Initial(n, f)
    BY XorInitial
  <2> HIDE DEF Initial
  <2> QED
    BY <2>1
<1> HIDE DEF part
\* Two of the parts agree where both are defined.
<1> DEFINE Agree(n) == \A m \in Nat, k \in Nat : \A x, y \in 0 .. n :
                          x <= m /\ y <= m /\ x <= k /\ y <= k =>
                            part[m][<<x, y>>] = part[k][<<x, y>>]
           S == {n \in Nat : Agree(n)}
<1>2. 0 \in S
  <2> SUFFICES ASSUME NEW m \in Nat, NEW k \in Nat
               PROVE  part[m][<<0, 0>>] = part[k][<<0, 0>>]
    OBVIOUS
  <2>1. \A n \in Nat : 0 \in 0 .. n
    OBVIOUS
  <2>2. \A n \in Nat : part[n][<<0, 0>>] = 0
    BY <1>1, <2>1
  <2> QED
    BY <2>2
<1>3. ASSUME NEW n \in Nat, n \in S
      PROVE  n + 1 \in S
  <2> SUFFICES ASSUME NEW m \in Nat, NEW k \in Nat, NEW x \in 0 .. n + 1, NEW y \in 0 .. n + 1,
                      x <= m, y <= m, x <= k, y <= k
               PROVE  part[m][<<x, y>>] = part[k][<<x, y>>]
    OBVIOUS
  <2> DEFINE a == x \div 2
             b == y \div 2
  <2>1. a \in 0 .. n /\ b \in 0 .. n
    BY Halves
  <2>2. a <= m /\ b <= m /\ a <= k /\ b <= k
    OBVIOUS
  <2> HIDE DEF a, b
  <2>3. part[m][<<a, b>>] = part[k][<<a, b>>]
    BY <1>3, <2>1, <2>2
  <2>4. \A w \in {m, k} : part[w][<<x, y>>] = IF <<x, y>> = <<0, 0>> THEN 0
                                             ELSE 2 * part[w][<<a, b>>] + ((x + y) % 2)
    <3>1. \A w \in {m, k} : x \in 0 .. w /\ y \in 0 .. w /\ w \in Nat
      OBVIOUS
    <3> QED
      BY <1>1, <3>1 DEF a, b
  <2> QED
    BY <2>3, <2>4
<1>4. \A n \in Nat : Agree(n)
  <2> HIDE DEF Agree
  <2>1. Nat \subseteq S
    BY <1>2, <1>3, InductionOverSet
  <2> QED
    BY <2>1
<1>5. ASSUME NEW x \in Nat, NEW y \in Nat
      PROVE  F[<<x, y>>] = IF <<x, y>> = <<0, 0>> THEN 0
                           ELSE 2 * F[<<x \div 2, y \div 2>>] + ((x + y) % 2)
  <2> DEFINE a == x \div 2
             b == y \div 2
  <2>1. a \in Nat /\ b \in Nat /\ a <= x /\ b <= y
    OBVIOUS
  <2>2. x \in 0 .. x + y /\ y \in 0 .. x + y /\ x + y \in Nat
    OBVIOUS
  <2>3. F[<<x, y>>] = part[x + y][<<x, y>>]
    OBVIOUS
  <2>4. F[<<a, b>>] = part[a + b][<<a, b>>]
    BY <2>1
  <2>5. part[x + y][<<x, y>>] = IF <<x, y>> = <<0, 0>> THEN 0
                                ELSE 2 * part[x + y][<<a, b>>] + ((x + y) % 2)
    BY <1>1, <2>2
  <2> HIDE DEF a, b, F
  <2>6. part[x + y][<<a, b>>] = part[a + b][<<a, b>>]
    <3>1. a + b \in Nat /\ a \in 0 .. a + b /\ b \in 0 .. a + b
      BY <2>1
    <3>2. a <= a + b /\ b <= a + b /\ a <= x + y /\ b <= x + y
      BY <2>1
    <3>3. Agree(a + b)
      BY <1>4, <3>1
    <3> QED
      BY <3>1, <3>2, <3>3, <2>2
  <2>7. F[<<x, y>>] = IF <<x, y>> = <<0, 0>> THEN 0 ELSE 2 * F[<<a, b>>] + ((x + y) % 2)
    BY <2>3, <2>4, <2>5, <2>6
  <2> QED
    BY <2>7 DEF a, b
<1>6. \A p \in Nat \X Nat :
         F[p] = IF p = <<0, 0>> THEN 0
                ELSE 2 * F[<<p[1] \div 2, p[2] \div 2>>] + ((p[1] + p[2]) % 2)
  <2> HIDE DEF F
  <2> SUFFICES ASSUME NEW x \in Nat, NEW y \in Nat
               PROVE  F[<<x, y>>] = IF <<x, y>> = <<0, 0>> THEN 0
                                    ELSE 2 * F[<<x \div 2, y \div 2>>] + ((x + y) % 2)
    OBVIOUS
  <2> QED
    BY <1>5
<1>7. F = [p \in Nat \X Nat |-> F[p]]
  OBVIOUS
<1> HIDE DEF F
<1>8. F = [p \in Nat \X Nat |->
            IF p = <<0, 0>> THEN 0
            ELSE 2 * F[<<p[1] \div 2, p[2] \div 2>>] + ((p[1] + p[2]) % 2)]
  BY <1>6, <1>7
<1> QED
  BY <1>8 DEF XorOfPair

\* The exclusive or, half by half: the equation of the C operator.
LEMMA XorEquation ==
  /\ Xor(0, 0) = 0
  /\ \A x, y \in Nat : <<x, y>> # <<0, 0>> =>
       Xor(x, y) = 2 * Xor(x \div 2, y \div 2) + ((x + y) % 2)
<1> DEFINE f == XorOfPair
<1>1. f = [p \in Nat \X Nat |->
             IF p = <<0, 0>> THEN 0
             ELSE 2 * f[<<p[1] \div 2, p[2] \div 2>>] + ((p[1] + p[2]) % 2)]
  BY XorExists
<1> HIDE DEF f
<1>2. f[<<0, 0>>] = 0
  BY <1>1
<1>3. ASSUME NEW x \in Nat, NEW y \in Nat, <<x, y>> # <<0, 0>>
      PROVE  f[<<x, y>>] = 2 * f[<<x \div 2, y \div 2>>] + ((x + y) % 2)
  BY <1>1, <1>3
<1> QED
  BY <1>2, <1>3 DEF f, Xor

\* The exclusive or of two numbers is a number.
LEMMA XorType ==
  \A x, y \in Nat : Xor(x, y) \in Nat
<1> DEFINE S == {n \in Nat : \A x, y \in 0 .. n : Xor(x, y) \in Nat}
<1>1. 0 \in S
  BY XorEquation
<1>2. ASSUME NEW n \in Nat, n \in S
      PROVE  n + 1 \in S
  <2> SUFFICES ASSUME NEW x \in 0 .. n + 1, NEW y \in 0 .. n + 1
               PROVE  Xor(x, y) \in Nat
    OBVIOUS
  <2>1. x \div 2 \in 0 .. n /\ y \div 2 \in 0 .. n
    BY Halves
  <2>2. Xor(x \div 2, y \div 2) \in Nat
    BY <1>2, <2>1
  <2>3. CASE <<x, y>> = <<0, 0>>
    <3>1. x = 0 /\ y = 0
      BY <2>3
    <3> QED
      BY <3>1, XorEquation
  <2>4. CASE <<x, y>> # <<0, 0>>
    <3>1. x \in Nat /\ y \in Nat /\ (x + y) % 2 \in Nat
      OBVIOUS
    <3>2. Xor(x, y) = 2 * Xor(x \div 2, y \div 2) + ((x + y) % 2)
      BY <2>4, <3>1, XorEquation
    <3> QED
      BY <2>2, <3>1, <3>2
  <2> QED
    BY <2>3, <2>4
<1>3. Nat \subseteq S
  <2> HIDE DEF S
  <2> QED
    BY <1>1, <1>2, InductionOverSet
<1> QED
  <2> SUFFICES ASSUME NEW x \in Nat, NEW y \in Nat PROVE Xor(x, y) \in Nat
    OBVIOUS
  <2>1. x + y \in Nat /\ x \in 0 .. x + y /\ y \in 0 .. x + y
    OBVIOUS
  <2> QED
    BY <1>3, <2>1

\* Exclusive or works on the last bits and on the rest apart.
LEMMA XorStep ==
  ASSUME NEW x \in Nat, NEW y \in Nat
  PROVE  /\ Xor(x, y) \in Nat
         /\ Xor(x, y) = 2 * Xor(x \div 2, y \div 2) + ((x + y) % 2)
         /\ Xor(x, y) \div 2 = Xor(x \div 2, y \div 2)
         /\ Xor(x, y) % 2 = (x + y) % 2
<1>1. x \div 2 \in Nat /\ y \div 2 \in Nat
  OBVIOUS
<1>2. Xor(x, y) \in Nat /\ Xor(x \div 2, y \div 2) \in Nat
  BY <1>1, XorType
<1>3. Xor(x, y) = 2 * Xor(x \div 2, y \div 2) + ((x + y) % 2)
  <2>1. CASE <<x, y>> = <<0, 0>>
    <3>1. x = 0 /\ y = 0 /\ x \div 2 = 0 /\ y \div 2 = 0 /\ (x + y) % 2 = 0
      BY <2>1
    <3> QED
      BY <3>1, XorEquation
  <2>2. CASE <<x, y>> # <<0, 0>>
    BY <2>2, XorEquation
  <2> QED
    BY <2>1, <2>2
<1>4. \A q \in Nat, s \in Nat : (2 * q + (s % 2)) \div 2 = q /\ (2 * q + (s % 2)) % 2 = s % 2
  OBVIOUS
<1> QED
  BY <1>2, <1>3, <1>4

(***************************************************************************)
(* Numbers with the same halves and the same last bits are equal, which    *)
(* proves the laws of the exclusive or one bit at a time.                  *)
(***************************************************************************)
LEMMA SameBits ==
  ASSUME NEW x \in Nat, NEW y \in Nat, x \div 2 = y \div 2, x % 2 = y % 2
  PROVE  x = y
OBVIOUS

\* Exclusive or is commutative,
LEMMA XorCommutes ==
  \A x, y \in Nat : Xor(x, y) = Xor(y, x)
<1> DEFINE S == {n \in Nat : \A x, y \in 0 .. n : Xor(x, y) = Xor(y, x)}
<1>1. 0 \in S
  OBVIOUS
<1>2. ASSUME NEW n \in Nat, n \in S
      PROVE  n + 1 \in S
  <2> SUFFICES ASSUME NEW x \in 0 .. n + 1, NEW y \in 0 .. n + 1
               PROVE  Xor(x, y) = Xor(y, x)
    OBVIOUS
  <2>1. x \div 2 \in 0 .. n /\ y \div 2 \in 0 .. n
    BY Halves
  <2>2. Xor(x \div 2, y \div 2) = Xor(y \div 2, x \div 2)
    BY <1>2, <2>1
  <2>3. x \in Nat /\ y \in Nat /\ x + y = y + x
    OBVIOUS
  <2>4. Xor(x, y) = 2 * Xor(x \div 2, y \div 2) + ((x + y) % 2)
    BY <2>3, XorStep
  <2>5. Xor(y, x) = 2 * Xor(y \div 2, x \div 2) + ((y + x) % 2)
    BY <2>3, XorStep
  <2> QED
    BY <2>2, <2>3, <2>4, <2>5
<1>3. Nat \subseteq S
  <2> HIDE DEF S
  <2> QED
    BY <1>1, <1>2, InductionOverSet
<1> QED
  <2> SUFFICES ASSUME NEW x \in Nat, NEW y \in Nat PROVE Xor(x, y) = Xor(y, x)
    OBVIOUS
  <2>1. x + y \in Nat /\ x \in 0 .. x + y /\ y \in 0 .. x + y
    OBVIOUS
  <2> QED
    BY <1>3, <2>1

\* associative,
LEMMA XorAssociates ==
  \A x, y, z \in Nat : Xor(Xor(x, y), z) = Xor(x, Xor(y, z))
<1> DEFINE S == {n \in Nat : \A x, y, z \in 0 .. n : Xor(Xor(x, y), z) = Xor(x, Xor(y, z))}
<1>1. 0 \in S
  BY XorEquation
<1>2. ASSUME NEW n \in Nat, n \in S
      PROVE  n + 1 \in S
  <2> SUFFICES ASSUME NEW x \in 0 .. n + 1, NEW y \in 0 .. n + 1, NEW z \in 0 .. n + 1
               PROVE  Xor(Xor(x, y), z) = Xor(x, Xor(y, z))
    OBVIOUS
  <2>1. x \div 2 \in 0 .. n /\ y \div 2 \in 0 .. n /\ z \div 2 \in 0 .. n
    BY Halves
  <2>2. Xor(Xor(x \div 2, y \div 2), z \div 2) = Xor(x \div 2, Xor(y \div 2, z \div 2))
    BY <1>2, <2>1
  <2> DEFINE a == Xor(x, y)
             b == Xor(y, z)
  <2>0. x \in Nat /\ y \in Nat /\ z \in Nat
    OBVIOUS
  <2>3. /\ a \in Nat /\ a \div 2 = Xor(x \div 2, y \div 2) /\ a % 2 = (x + y) % 2
        /\ b \in Nat /\ b \div 2 = Xor(y \div 2, z \div 2) /\ b % 2 = (y + z) % 2
    <3>1. a \in Nat /\ a \div 2 = Xor(x \div 2, y \div 2) /\ a % 2 = (x + y) % 2
      BY <2>0, XorStep
    <3>2. b \in Nat /\ b \div 2 = Xor(y \div 2, z \div 2) /\ b % 2 = (y + z) % 2
      BY <2>0, XorStep
    <3> QED
      BY <3>1, <3>2
  <2> HIDE DEF a, b
  <2>4. /\ Xor(a, z) \in Nat /\ Xor(a, z) \div 2 = Xor(a \div 2, z \div 2) /\ Xor(a, z) % 2 = (a + z) % 2
        /\ Xor(x, b) \in Nat /\ Xor(x, b) \div 2 = Xor(x \div 2, b \div 2) /\ Xor(x, b) % 2 = (x + b) % 2
    <3>1. Xor(a, z) \in Nat /\ Xor(a, z) \div 2 = Xor(a \div 2, z \div 2) /\ Xor(a, z) % 2 = (a + z) % 2
      BY <2>0, <2>3, XorStep
    <3>2. Xor(x, b) \in Nat /\ Xor(x, b) \div 2 = Xor(x \div 2, b \div 2) /\ Xor(x, b) % 2 = (x + b) % 2
      BY <2>0, <2>3, XorStep
    <3> QED
      BY <3>1, <3>2
  <2>5. (a + z) % 2 = (x + b) % 2
    BY <2>3
  <2>6. Xor(a, z) = Xor(x, b)
    BY <2>2, <2>3, <2>4, <2>5, SameBits
  <2> QED
    BY <2>6 DEF a, b
<1>3. Nat \subseteq S
  <2> HIDE DEF S
  <2> QED
    BY <1>1, <1>2, InductionOverSet
<1> QED
  <2> SUFFICES ASSUME NEW x \in Nat, NEW y \in Nat, NEW z \in Nat
               PROVE  Xor(Xor(x, y), z) = Xor(x, Xor(y, z))
    OBVIOUS
  <2> DEFINE n == x + y + z
  <2>1. n \in Nat /\ x \in 0 .. n /\ y \in 0 .. n /\ z \in 0 .. n
    OBVIOUS
  <2> HIDE DEF n
  <2>2. n \in S
    BY <1>3, <2>1
  <2> QED
    BY <2>1, <2>2

\* and its own inverse, with 0 for a unit.
LEMMA XorCancels ==
  \A x \in Nat : Xor(x, x) = 0 /\ Xor(x, 0) = x
<1> DEFINE S == {n \in Nat : \A x \in 0 .. n : Xor(x, x) = 0 /\ Xor(x, 0) = x}
<1>1. 0 \in S
  BY XorEquation
<1>2. ASSUME NEW n \in Nat, n \in S
      PROVE  n + 1 \in S
  <2> SUFFICES ASSUME NEW x \in 0 .. n + 1
               PROVE  Xor(x, x) = 0 /\ Xor(x, 0) = x
    OBVIOUS
  <2>1. x \div 2 \in 0 .. n
    BY Halves
  <2>2. Xor(x \div 2, x \div 2) = 0 /\ Xor(x \div 2, 0) = x \div 2
    BY <1>2, <2>1
  <2>3. x \in Nat /\ (x + x) % 2 = 0 /\ (x + 0) % 2 = x % 2 /\ 0 \div 2 = 0
        /\ x = 2 * (x \div 2) + (x % 2)
    OBVIOUS
  <2>4. Xor(x, x) = 2 * Xor(x \div 2, x \div 2) + ((x + x) % 2)
    BY <2>3, XorStep
  <2>5. Xor(x, 0) = 2 * Xor(x \div 2, 0 \div 2) + ((x + 0) % 2)
    BY <2>3, XorStep
  <2> QED
    BY <2>2, <2>3, <2>4, <2>5
<1>3. Nat \subseteq S
  <2> HIDE DEF S
  <2> QED
    BY <1>1, <1>2, InductionOverSet
<1> QED
  <2> SUFFICES ASSUME NEW x \in Nat PROVE Xor(x, x) = 0 /\ Xor(x, 0) = x
    OBVIOUS
  <2>1. x \in 0 .. x
    OBVIOUS
  <2> QED
    BY <1>3, <2>1

\* What fits in k bits fits in k bits after an exclusive or.
LEMMA XorBound ==
  \A k \in Nat : \A x, y \in 0 .. Pow2[k] - 1 : Xor(x, y) \in 0 .. Pow2[k] - 1
<1> DEFINE S == {k \in Nat : \A x, y \in 0 .. Pow2[k] - 1 : Xor(x, y) \in 0 .. Pow2[k] - 1}
<1>1. 0 \in S
  <2>1. \A x \in 0 .. Pow2[0] - 1 : x = 0
    BY Pow2Step
  <2> QED
    BY <2>1, XorEquation
<1>2. ASSUME NEW k \in Nat, k \in S
      PROVE  k + 1 \in S
  <2> SUFFICES ASSUME NEW x \in 0 .. Pow2[k + 1] - 1, NEW y \in 0 .. Pow2[k + 1] - 1
               PROVE  Xor(x, y) \in 0 .. Pow2[k + 1] - 1
    OBVIOUS
  <2>1. Pow2[k] \in Nat /\ Pow2[k + 1] = 2 * Pow2[k]
    BY Pow2Step, Pow2Type
  <2>2. x \in Nat /\ y \in Nat /\ x \div 2 \in 0 .. Pow2[k] - 1 /\ y \div 2 \in 0 .. Pow2[k] - 1
    BY <2>1
  <2>3. Xor(x \div 2, y \div 2) \in 0 .. Pow2[k] - 1
    BY <1>2, <2>2
  <2>4. Xor(x, y) = 2 * Xor(x \div 2, y \div 2) + ((x + y) % 2)
    BY <2>2, XorStep
  <2> QED
    BY <2>1, <2>2, <2>3, <2>4
<1>3. Nat \subseteq S
  <2> HIDE DEF S
  <2> QED
    BY <1>1, <1>2, InductionOverSet
<1> QED
  BY <1>3

\* A division by a power of two is a shift, one place and then the others.
LEMMA ShiftByOneMore ==
  ASSUME NEW x \in Nat, NEW k \in Nat
  PROVE  x \div Pow2[k + 1] = (x \div 2) \div Pow2[k]
<1> DEFINE d == Pow2[k]
           h == x \div 2
           q == h \div d
<1>1. d \in Nat /\ d >= 1 /\ Pow2[k + 1] = 2 * d
  BY Pow2Step, Pow2Type
<1>2. h \in Nat /\ 2 * h <= x /\ x < 2 * h + 2
  OBVIOUS
<1> HIDE DEF d, h
<1>3. q \in Nat /\ d * q <= h /\ h < d * q + d
  BY <1>1, <1>2, Quotient
<1> HIDE DEF q
<1> DEFINE p == d * q
<1>4. p \in Nat /\ (2 * d) * q = 2 * p
  BY <1>1, <1>3
<1> HIDE DEF p
<1>5. p <= h /\ h < p + d
  BY <1>3 DEF p
<1>6. 2 * p <= x /\ x < 2 * p + 2 * d
  BY <1>1, <1>2, <1>4, <1>5
<1>7. 2 * d \in Nat /\ 2 * d >= 1
  BY <1>1
<1>8. (2 * d) * q <= x /\ x < (2 * d) * q + 2 * d
  BY <1>4, <1>6
<1>9. x \div (2 * d) = q
  BY <1>3, <1>7, <1>8, QuotientUnique
<1> QED
  BY <1>1, <1>9 DEF d, h, q

\* An exclusive or with k bits stays in the same aligned range of 2^k numbers.
LEMMA XorStays ==
  \A k \in Nat : \A x \in Nat, y \in 0 .. Pow2[k] - 1 : Xor(x, y) \div Pow2[k] = x \div Pow2[k]
<1> DEFINE S == {k \in Nat : \A x \in Nat, y \in 0 .. Pow2[k] - 1 :
                               Xor(x, y) \div Pow2[k] = x \div Pow2[k]}
<1>1. 0 \in S
  <2>1. \A y \in 0 .. Pow2[0] - 1 : y = 0
    BY Pow2Step
  <2> QED
    BY <2>1, XorCancels
<1>2. ASSUME NEW k \in Nat, k \in S
      PROVE  k + 1 \in S
  <2> SUFFICES ASSUME NEW x \in Nat, NEW y \in 0 .. Pow2[k + 1] - 1
               PROVE  Xor(x, y) \div Pow2[k + 1] = x \div Pow2[k + 1]
    OBVIOUS
  <2>1. Pow2[k] \in Nat /\ Pow2[k + 1] = 2 * Pow2[k]
    BY Pow2Step, Pow2Type
  <2>2. y \in Nat /\ x \div 2 \in Nat /\ y \div 2 \in 0 .. Pow2[k] - 1
    BY <2>1
  <2>3. Xor(x \div 2, y \div 2) \div Pow2[k] = (x \div 2) \div Pow2[k]
    BY <1>2, <2>2
  <2>4. Xor(x, y) \in Nat /\ Xor(x, y) \div 2 = Xor(x \div 2, y \div 2)
    BY <2>2, XorStep
  <2>5. Xor(x, y) \div Pow2[k + 1] = (Xor(x, y) \div 2) \div Pow2[k]
    BY <2>4, ShiftByOneMore
  <2>6. x \div Pow2[k + 1] = (x \div 2) \div Pow2[k]
    BY ShiftByOneMore
  <2> QED
    BY <2>3, <2>4, <2>5, <2>6
<1>3. Nat \subseteq S
  <2> HIDE DEF S
  <2> QED
    BY <1>1, <1>2, InductionOverSet
<1> QED
  BY <1>3

-----------------------------------------------------------------------------

-----------------------------------------------------------------------------
(***************************************************************************)
(* Loops.                                                                  *)
(***************************************************************************)
\* What a loop leaves after each of its steps.
Runs(f, N, start, step) ==
  \A n \in 0 .. N : f[n] = IF n = 0 THEN start ELSE step[n][f[n - 1]]

\* A loop of steps on the members of a set has a result for every count.
LEMMA LoopExists ==
  ASSUME NEW N \in Nat, NEW S, NEW start \in S, NEW step \in [1 .. N -> [S -> S]]
  PROVE  \E f \in [0 .. N -> S] : Runs(f, N, start, step)
<1> USE DEF Runs
<1> DEFINE Initial(k, f) == Runs(f, k, start, step)
           T == {k \in Nat : k <= N => \E f \in [0 .. k -> S] : Initial(k, f)}
<1>1. 0 \in T
  <2> DEFINE f == [n \in 0 .. 0 |-> start]
  <2>1. f \in [0 .. 0 -> S] /\ Initial(0, f)
    OBVIOUS
  <2> HIDE DEF f, Initial
  <2> QED
    BY <2>1
<1>2. ASSUME NEW k \in Nat, k \in T
      PROVE  k + 1 \in T
  <2> SUFFICES ASSUME k + 1 <= N
               PROVE  \E g \in [0 .. k + 1 -> S] : Initial(k + 1, g)
    OBVIOUS
  <2>1. PICK f \in [0 .. k -> S] : Initial(k, f)
    BY <1>2
  <2> DEFINE g == [n \in 0 .. k + 1 |-> IF n = k + 1 THEN step[k + 1][f[k]] ELSE f[n]]
  <2>2. step[k + 1][f[k]] \in S
    <3>1. f[k] \in S /\ step[k + 1] \in [S -> S]
      OBVIOUS
    <3> QED
      BY <3>1
  <2>3. g \in [0 .. k + 1 -> S]
    BY <2>2
  <2>4. \A n \in 0 .. k : f[n] = IF n = 0 THEN start ELSE step[n][f[n - 1]]
    BY <2>1
  <2>5. \A n \in 0 .. k + 1 : g[n] = IF n = 0 THEN start ELSE step[n][g[n - 1]]
    <3> SUFFICES ASSUME NEW n \in 0 .. k + 1
                 PROVE  g[n] = IF n = 0 THEN start ELSE step[n][g[n - 1]]
      OBVIOUS
    <3>1. CASE n = k + 1
      <4>1. n # 0 /\ n - 1 = k /\ n - 1 \in 0 .. k + 1 /\ n - 1 # k + 1
        BY <3>1
      <4>2. g[n] = step[n][f[n - 1]] /\ g[n - 1] = f[n - 1]
        BY <3>1, <4>1
      <4> HIDE DEF g
      <4> QED
        BY <4>1, <4>2
    <3>2. CASE n # k + 1
      <4>1. n \in 0 .. k
        BY <3>2
      <4>2. g[n] = f[n]
        BY <3>2
      <4>3. n # 0 => n - 1 \in 0 .. k + 1 /\ n - 1 # k + 1
        BY <4>1
      <4>4. n # 0 => g[n - 1] = f[n - 1]
        BY <4>3
      <4> HIDE DEF g
      <4> QED
        BY <2>4, <4>1, <4>2, <4>4
    <3> QED
      BY <3>1, <3>2
  <2>6. Initial(k + 1, g)
    <3> HIDE DEF g
    <3> QED
      BY <2>5
  <2> HIDE DEF g, Initial
  <2> QED
    BY <2>3, <2>6
<1>3. Nat \subseteq T
  <2> HIDE DEF T
  <2> QED
    BY <1>1, <1>2, InductionOverSet
<1>4. N \in T
  BY <1>3
<1> QED
  BY <1>4

-----------------------------------------------------------------------------
(***************************************************************************)
(* Arithmetic modulo a power of two.                                       *)
(***************************************************************************)
\* A power of two divides a product with an odd number only if it divides the
\* other factor.
LEMMA OddFactor ==
  ASSUME NEW o \in Nat, o % 2 = 1
  PROVE  \A m \in Nat : \A d, q \in Nat :
           d * o = Pow2[m] * q => \E r \in Nat : d = Pow2[m] * r
<1> DEFINE Divides(m) == \A d, q \in Nat : d * o = Pow2[m] * q => \E r \in Nat : d = Pow2[m] * r
           S == {m \in Nat : Divides(m)}
<1>1. 0 \in S
  BY Pow2Step
<1>2. ASSUME NEW m \in Nat, m \in S
      PROVE  m + 1 \in S
  <2> SUFFICES ASSUME NEW d \in Nat, NEW q \in Nat, d * o = Pow2[m + 1] * q
               PROVE  \E r \in Nat : d = Pow2[m + 1] * r
    OBVIOUS
  <2> DEFINE p == Pow2[m]
  <2>1. p \in Nat /\ p >= 1 /\ Pow2[m + 1] = 2 * p
    BY Pow2Step, Pow2Type
  <2> HIDE DEF p
  <2>2. d * o = p * (2 * q)
    BY <2>1
  <2>3. PICK r \in Nat : d = p * r
    <3>1. 2 * q \in Nat
      OBVIOUS
    <3> QED
      BY <1>2, <2>2, <3>1 DEF p
  <2>4. r * o = 2 * q
    <3>1. p * (r * o) = p * (2 * q) /\ r * o \in Nat /\ 2 * q \in Nat
      BY <2>1, <2>2, <2>3
    <3>2. \A a, b \in Nat : p * a = p * b => a = b
      BY <2>1
    <3> QED
      BY <3>1, <3>2
  <2>5. PICK s \in Nat : r = 2 * s
    <3>1. PICK t \in Nat : o = 2 * t + 1
      <4>1. o = 2 * (o \div 2) + 1 /\ o \div 2 \in Nat
        OBVIOUS
      <4> QED
        BY <4>1
    <3>2. ASSUME NEW s \in Nat, r = 2 * s + 1 PROVE FALSE
      <4>1. r * o = 2 * (2 * s * t + s + t) + 1 /\ 2 * s * t + s + t \in Nat
        BY <3>1, <3>2
      <4> QED
        BY <2>4, <4>1
    <3>3. r \div 2 \in Nat /\ (r = 2 * (r \div 2) \/ r = 2 * (r \div 2) + 1)
      OBVIOUS
    <3> QED
      BY <3>2, <3>3
  <2>6. d = Pow2[m + 1] * s
    BY <2>1, <2>3, <2>5
  <2> QED
    BY <2>6
<1>3. Nat \subseteq S
  <2> HIDE DEF S
  <2> QED
    BY <1>1, <1>2, InductionOverSet
<1> QED
  BY <1>3

\* The remainder is the one number below the divisor that leaves a multiple.
LEMMA RemainderUnique ==
  ASSUME NEW x \in Nat, NEW d \in Nat, d >= 1
  PROVE  /\ x % d \in 0 .. d - 1 /\ x \div d \in Nat /\ x = d * (x \div d) + (x % d)
         /\ \A q \in Nat, r \in 0 .. d - 1 : x = d * q + r => x % d = r
<1>1. x % d \in 0 .. d - 1 /\ x \div d \in Nat /\ x = d * (x \div d) + (x % d)
  OBVIOUS
<1>2. ASSUME NEW q \in Nat, NEW r \in 0 .. d - 1, x = d * q + r
      PROVE  x % d = r
  <2>1. d * q \in Nat /\ d * q <= x /\ x < d * q + d
    BY <1>2
  <2>2. x \div d = q
    BY <2>1, QuotientUnique
  <2> QED
    BY <1>1, <1>2, <2>1, <2>2
<1> QED
  BY <1>1, <1>2

\* Cutting to a wider word first makes no difference.
LEMMA CutTwice ==
  ASSUME NEW x \in Nat, NEW k \in Nat, NEW m \in Nat, m <= k
  PROVE  (x % Pow2[k]) % Pow2[m] = x % Pow2[m]
<1> DEFINE w == Pow2[k]
           n == Pow2[m]
           c == Pow2[k - m]
<1>1. k - m \in Nat /\ k = m + (k - m)
  OBVIOUS
<1>2. w \in Nat /\ w >= 1 /\ n \in Nat /\ n >= 1 /\ c \in Nat /\ w = n * c
  BY <1>1, Pow2Type, Pow2Sum
<1> HIDE DEF w, n, c
<1> DEFINE r == x % w
           q == x \div w
<1>3. r \in Nat /\ q \in Nat /\ x = w * q + r
  <2>1. r \in 0 .. w - 1 /\ q \in Nat /\ x = w * q + r
    BY <1>2, RemainderUnique
  <2> HIDE DEF r, q
  <2> QED
    BY <1>2, <2>1
<1> HIDE DEF r, q
<1>4. r % n \in 0 .. n - 1 /\ r \div n \in Nat /\ r = n * (r \div n) + (r % n)
  BY <1>2, <1>3, RemainderUnique
<1> DEFINE s == r \div n
           t == r % n
<1>5. s \in Nat /\ t \in 0 .. n - 1 /\ r = n * s + t
  BY <1>4
<1> HIDE DEF s, t
<1>6. x = n * (c * q + s) + t /\ c * q + s \in Nat
  BY <1>2, <1>3, <1>5
<1>7. x % n = t
  BY <1>2, <1>5, <1>6, RemainderUnique
<1> QED
  BY <1>7 DEF w, n, r, t

\* Numbers of one remainder are equal if they are less apart than the divisor,
\* and differ by a multiple of it in any case.
LEMMA SameRemainder ==
  ASSUME NEW d \in Nat, d >= 1
  PROVE  \A x, y \in Nat : x % d = y % d /\ x <= y => \E q \in Nat : y = x + d * q
<1> SUFFICES ASSUME NEW x \in Nat, NEW y \in Nat, x % d = y % d, x <= y
             PROVE  \E q \in Nat : y = x + d * q
  OBVIOUS
<1> DEFINE a == x \div d
           b == y \div d
           r == x % d
<1>1. a \in Nat /\ b \in Nat /\ r \in 0 .. d - 1 /\ x = d * a + r /\ y = d * b + r
  BY RemainderUnique
<1> HIDE DEF a, b, r
<1>2. a <= b
  <2> SUFFICES ASSUME b < a PROVE FALSE
    BY <1>1
  <2>1. \A c \in Nat : c >= 1 => d * c >= 1 /\ d * c \in Nat
    OBVIOUS
  <2>2. a - b \in Nat /\ a - b >= 1
    BY <1>1
  <2>3. d * a = d * b + d * (a - b)
    BY <1>1
  <2>4. d * (a - b) >= 1 /\ d * (a - b) \in Nat /\ d * a \in Nat /\ d * b \in Nat
    BY <1>1, <2>1, <2>2
  <2> QED
    BY <1>1, <2>3, <2>4
<1>3. b - a \in Nat /\ y = x + d * (b - a)
  BY <1>1, <1>2
<1> QED
  BY <1>3

\* A multiplication by an odd number loses nothing of a word.
LEMMA TimesTells ==
  ASSUME NEW w \in Nat, NEW m \in Nat, m % 2 = 1,
         NEW x \in 0 .. Pow2[w] - 1, NEW y \in 0 .. Pow2[w] - 1,
         Times(w, x, m) = Times(w, y, m)
  PROVE  x = y
<1> DEFINE p == Pow2[w]
<1>1. p \in Nat /\ p >= 1 /\ x \in Nat /\ y \in Nat /\ x < p /\ y < p
  BY Pow2Type
<1>2. (x * m) % p = (y * m) % p
  BY DEF Times
<1>3. ASSUME NEW u \in Nat, NEW v \in Nat, u < v, v < p, (u * m) % p = (v * m) % p
      PROVE  FALSE
  <2> DEFINE a == u * m
             b == v * m
             e == v - u
  <2>1. a \in Nat /\ b \in Nat /\ e \in Nat
    <3>1. \A i, j \in Nat : i * j \in Nat
      OBVIOUS
    <3>2. v - u \in Nat
      BY <1>3
    <3> QED
      BY <3>1, <3>2
  <2>2. b = a + e * m /\ e * m \in Nat
    <3>1. v = u + e
      BY <2>1
    <3> HIDE DEF e
    <3>2. (u + e) * m = u * m + e * m /\ e * m \in Nat
      BY <2>1
    <3> QED
      BY <3>1, <3>2
  <2> HIDE DEF p, a, b, e
  <2>3. PICK q \in Nat : b = a + p * q
    <3>1. a % p = b % p
      BY <1>3 DEF a, b
    <3>2. a <= b
      BY <2>1, <2>2
    <3> QED
      <4>1. p \in Nat /\ p >= 1
        BY <1>1
      <4>2. \A i, j \in Nat : i % p = j % p /\ i <= j => \E k \in Nat : j = i + p * k
        BY <4>1, SameRemainder
      <4> QED
        BY <2>1, <3>1, <3>2, <4>2, Zenon
  <2>4. e * m = p * q
    <3>1. p * q \in Nat
      BY <1>1
    <3>2. \A i, j, k \in Nat : k + i = k + j => i = j
      OBVIOUS
    <3>3. a + e * m = a + p * q
      BY <2>2, <2>3
    <3> QED
      BY <2>1, <2>2, <3>1, <3>2, <3>3, ZenonT(30)
  <2>5. PICK r \in Nat : e = p * r
    <3>1. \A d, k \in Nat : d * m = p * k => \E r \in Nat : d = p * r
      BY OddFactor DEF p
    <3> QED
      BY <2>1, <2>4, <3>1
  <2>6. r = 0 \/ p * r >= p
    <3>1. \A k \in Nat : k >= 1 => p * k >= p
      BY <1>1
    <3> QED
      BY <3>1
  <2>7. r # 0
    BY <1>1, <1>3, <2>5 DEF e
  <2> QED
    BY <1>1, <1>3, <2>5, <2>6, <2>7 DEF e
<1> HIDE DEF p
<1>4. ~ (x < y) /\ ~ (y < x)
  BY <1>1, <1>2, <1>3
<1> QED
  BY <1>1, <1>4

\* A product is cut to its width.
LEMMA TimesType ==
  \A w \in Nat : \A x, y \in Nat : Times(w, x, y) \in 0 .. Pow2[w] - 1
<1> SUFFICES ASSUME NEW w \in Nat, NEW x \in Nat, NEW y \in Nat
             PROVE  Times(w, x, y) \in 0 .. Pow2[w] - 1
  OBVIOUS
<1>1. Pow2[w] \in Nat /\ Pow2[w] >= 1 /\ x * y \in Nat
  BY Pow2Type
<1> DEFINE p == Pow2[w]
           z == x * y
<1> HIDE DEF p, z
<1>2. z % p \in 0 .. p - 1
  BY <1>1, RemainderUnique DEF p, z
<1> QED
  BY <1>2 DEF Times, p, z

\* An exclusive or loses nothing of either side.
LEMMA XorTells ==
  \A x, y, z \in Nat : /\ Xor(x, z) = Xor(y, z) => x = y
                       /\ Xor(z, x) = Xor(z, y) => x = y
<1>1. ASSUME NEW x \in Nat, NEW y \in Nat, NEW z \in Nat, Xor(x, z) = Xor(y, z)
      PROVE  x = y
  <2>1. Xor(Xor(x, z), z) = x /\ Xor(Xor(y, z), z) = y
    BY XorAssociates, XorCancels
  <2> QED
    BY <1>1, <2>1
<1>2. \A x, y \in Nat : Xor(x, y) = Xor(y, x)
  BY XorCommutes
<1> QED
  BY <1>1, <1>2

\* x ^= x >> shift loses nothing, for a shift of one place at least: the upper
\* bits stay and give back the others, one by one.
LEMMA XorShiftTells ==
  ASSUME NEW s \in Nat, s >= 1
  PROVE  \A x, y \in Nat : XorShift(x, s) = XorShift(y, s) => x = y
<1> DEFINE S == {n \in Nat : \A x, y \in 0 .. n : XorShift(x, s) = XorShift(y, s) => x = y}
           d == Pow2[s - 1]
<1>1. s - 1 \in Nat /\ s = (s - 1) + 1 /\ d \in Nat /\ d >= 1 /\ Pow2[s] = 2 * d
  BY Pow2Step, Pow2Type
<1> HIDE DEF d
<1>2. \A x \in Nat : /\ x \div 2 \in Nat
                     /\ x \div Pow2[s] \in Nat
                     /\ x \div Pow2[s] = (x \div 2) \div d
  <2> SUFFICES ASSUME NEW x \in Nat
               PROVE  /\ x \div 2 \in Nat
                      /\ x \div Pow2[s] \in Nat
                      /\ x \div Pow2[s] = (x \div 2) \div d
    OBVIOUS
  <2> DEFINE h == x \div 2
             q == h \div d
  <2>1. h \in Nat /\ 2 * h <= x /\ x < 2 * h + 2
    OBVIOUS
  <2> HIDE DEF h
  <2>2. q \in Nat /\ d * q <= h /\ h < d * q + d
    BY <1>1, <2>1, Quotient
  <2> HIDE DEF q
  <2>3. d * q \in Nat /\ (2 * d) * q = 2 * (d * q)
    BY <1>1, <2>2
  <2>4. 2 * d \in Nat /\ 2 * d >= 1 /\ (2 * d) * q <= x /\ x < (2 * d) * q + 2 * d
    BY <1>1, <2>1, <2>2, <2>3
  <2>5. x \div (2 * d) = q
    BY <2>2, <2>4, QuotientUnique
  <2> QED
    BY <1>1, <2>1, <2>2, <2>5 DEF h, q
<1>3. \A x \in Nat : XorShift(x, s) = Xor(x, x \div Pow2[s])
  BY DEF XorShift
<1>4. \A x \in Nat : XorShift(x, s) \div 2 = XorShift(x \div 2, s)
  <2> SUFFICES ASSUME NEW x \in Nat PROVE XorShift(x, s) \div 2 = XorShift(x \div 2, s)
    OBVIOUS
  <2>1. XorShift(x, s) \div 2 = Xor(x \div 2, (x \div Pow2[s]) \div 2)
    <3> DEFINE t == x \div Pow2[s]
    <3>1. t \in Nat /\ XorShift(x, s) = Xor(x, t)
      BY <1>2, <1>3
    <3> HIDE DEF t
    <3>2. Xor(x, t) \div 2 = Xor(x \div 2, t \div 2)
      BY <3>1, XorStep
    <3> QED
      BY <3>1, <3>2 DEF t
  <2>2. (x \div Pow2[s]) \div 2 = (x \div 2) \div Pow2[s]
    <3> DEFINE e == Pow2[s]
               h == x \div 2
               q == h \div e
    <3>1. e \in Nat /\ e >= 1
      BY <1>1
    <3> HIDE DEF e
    <3>2. h \in Nat /\ 2 * h <= x /\ x < 2 * h + 2
      OBVIOUS
    <3> HIDE DEF h
    <3>3. q \in Nat /\ e * q <= h /\ h < e * q + e
      BY <3>1, <3>2, Quotient
    <3> HIDE DEF q
    <3> DEFINE t == x \div e
    <3>4. t \in Nat /\ e * t <= x /\ x < e * t + e
      BY <3>1, Quotient
    <3> HIDE DEF t
    <3>5. e * q \in Nat /\ e * (2 * q) = 2 * (e * q) /\ e * (2 * q + 2) = 2 * (e * q) + 2 * e
      BY <3>1, <3>3
    <3>6. \A a, b \in Nat : a < b => e * a + e <= e * b
      BY <3>1
    <3>7. 2 * q \in Nat /\ 2 * q + 2 \in Nat /\ e * t \in Nat
      BY <3>1, <3>3, <3>4
    <3>8. ~ (t < 2 * q)
      <4> SUFFICES ASSUME t < 2 * q PROVE FALSE
        OBVIOUS
      <4>1. e * t + e <= e * (2 * q)
        BY <3>4, <3>6, <3>7
      <4> QED
        BY <3>1, <3>2, <3>3, <3>4, <3>5, <3>7, <4>1
    <3>9. t < 2 * q + 2
      <4> SUFFICES ASSUME 2 * q + 2 <= t PROVE FALSE
        BY <3>4, <3>7
      <4>1. e * (2 * q + 2) <= e * t
        <5>1. \A a, b \in Nat : a <= b => e * a <= e * b
          BY <3>1
        <5> QED
          BY <3>4, <3>7, <5>1
      <4> QED
        BY <3>1, <3>2, <3>3, <3>4, <3>5, <3>7, <4>1
    <3>10. t \div 2 = q
      BY <3>3, <3>4, <3>8, <3>9
    <3> QED
      BY <3>10 DEF e, h, q, t
  <2> QED
    BY <1>2, <1>3, <2>1, <2>2
<1>5. 0 \in S
  OBVIOUS
<1>6. ASSUME NEW n \in Nat, n \in S
      PROVE  n + 1 \in S
  <2> SUFFICES ASSUME NEW x \in 0 .. n + 1, NEW y \in 0 .. n + 1, XorShift(x, s) = XorShift(y, s)
               PROVE  x = y
    OBVIOUS
  <2>1. x \in Nat /\ y \in Nat
    OBVIOUS
  <2>2. x \div 2 \in 0 .. n /\ y \div 2 \in 0 .. n
    BY Halves
  <2>3. x \div 2 = y \div 2
    <3>1. XorShift(x \div 2, s) = XorShift(y \div 2, s)
      BY <1>4, <2>1
    <3> QED
      BY <1>6, <2>2, <3>1
  <2>4. x \div Pow2[s] = y \div Pow2[s] /\ x \div Pow2[s] \in Nat
    BY <1>2, <2>1, <2>3
  <2> QED
    BY <1>3, <2>1, <2>4, XorTells
<1>7. Nat \subseteq S
  <2> HIDE DEF S
  <2> QED
    BY <1>5, <1>6, InductionOverSet
<1> QED
  <2> SUFFICES ASSUME NEW x \in Nat, NEW y \in Nat, XorShift(x, s) = XorShift(y, s)
               PROVE  x = y
    OBVIOUS
  <2>1. \E n \in Nat : x \in 0 .. n /\ y \in 0 .. n
    <3>1. x + y \in Nat /\ x \in 0 .. x + y /\ y \in 0 .. x + y
      OBVIOUS
    <3> QED
      BY <3>1
  <2> HIDE DEF S
  <2>2. PICK n \in Nat : x \in 0 .. n /\ y \in 0 .. n
    BY <2>1
  <2>3. n \in S
    BY <1>7
  <2> QED
    BY <2>2, <2>3 DEF S

-----------------------------------------------------------------------------
(***************************************************************************)
(* The steps of fasthash64_var.                                            *)
(***************************************************************************)
\* What fits in an integer of w bits.
Uint(w) == 0 .. Pow2[w] - 1

\* A shift and an exclusive or stay within the width.
LEMMA XorShiftType ==
  \A w, s \in Nat : \A x \in Uint(w) : XorShift(x, s) \in Uint(w)
<1> SUFFICES ASSUME NEW w \in Nat, NEW s \in Nat, NEW x \in Uint(w)
             PROVE  XorShift(x, s) \in Uint(w)
  OBVIOUS
<1> DEFINE d == Pow2[s]
           q == x \div d
<1>1. d \in Nat /\ d >= 1 /\ x \in Nat
  BY Pow2Type DEF Uint
<1> HIDE DEF d
<1>2. q \in Nat /\ d * q <= x
  BY <1>1, Quotient
<1> HIDE DEF q
<1>3. q <= x
  <2>1. \A a \in Nat : a <= d * a
    BY <1>1
  <2>2. d * q \in Nat /\ q <= d * q
    BY <1>1, <1>2, <2>1
  <2> QED
    BY <1>1, <1>2, <2>2
<1>4. q \in Uint(w)
  <2>1. Pow2[w] \in Nat /\ x <= Pow2[w] - 1
    BY Pow2Type DEF Uint
  <2> QED
    BY <1>1, <1>2, <1>3, <2>1 DEF Uint
<1> QED
  BY <1>4, XorBound DEF XorShift, Uint, d, q

\* Mixing loses nothing of a word, and absorbing nothing of the word or of the
\* hash so far.
LEMMA AbsorbTells ==
  ASSUME NEW w \in Nat, NEW m \in Nat, m % 2 = 1, NEW s \in Nat, s >= 1
  PROVE  \A h, g, x, y \in Uint(w) :
           /\ absorb(w, m, s, h, x) \in Uint(w)
           /\ absorb(w, m, s, h, x) = absorb(w, m, s, g, x) => h = g
           /\ absorb(w, m, s, h, x) = absorb(w, m, s, h, y) => x = y
<1>1. \A x \in Uint(w) : x \in Nat
  BY DEF Uint
<1>2. \A x \in Uint(w) : Times(w, x, m) \in Uint(w)
  BY <1>1, TimesType DEF Uint
<1>3. \A x, y \in Uint(w) : Times(w, x, m) = Times(w, y, m) => x = y
  BY TimesTells DEF Uint
<1>4. \A x \in Uint(w) : XorShift(x, s) \in Uint(w)
  BY XorShiftType
<1>5. \A x, y \in Uint(w) : XorShift(x, s) = XorShift(y, s) => x = y
  BY <1>1, XorShiftTells
<1>6. \A x \in Uint(w) : mix(w, m, s, x) \in Uint(w)
  BY <1>2, <1>4 DEF mix
<1>7. \A x, y \in Uint(w) : mix(w, m, s, x) = mix(w, m, s, y) => x = y
  BY <1>2, <1>3, <1>4, <1>5 DEF mix
<1>8. \A x, y \in Uint(w) : Xor(x, y) \in Uint(w)
  BY XorBound DEF Uint
<1> SUFFICES ASSUME NEW h \in Uint(w), NEW g \in Uint(w), NEW x \in Uint(w), NEW y \in Uint(w)
             PROVE  /\ absorb(w, m, s, h, x) \in Uint(w)
                    /\ absorb(w, m, s, h, x) = absorb(w, m, s, g, x) => h = g
                    /\ absorb(w, m, s, h, x) = absorb(w, m, s, h, y) => x = y
  OBVIOUS
<1> DEFINE u == mix(w, m, s, x)
           v == mix(w, m, s, y)
<1>9. /\ u \in Uint(w) /\ v \in Uint(w) /\ (u = v => x = y)
      /\ absorb(w, m, s, h, x) = Times(w, Xor(h, u), m)
      /\ absorb(w, m, s, g, x) = Times(w, Xor(g, u), m)
      /\ absorb(w, m, s, h, y) = Times(w, Xor(h, v), m)
  BY <1>6, <1>7 DEF absorb
<1> HIDE DEF u, v
<1>10. Xor(h, u) \in Uint(w) /\ Xor(g, u) \in Uint(w) /\ Xor(h, v) \in Uint(w)
  BY <1>8, <1>9
<1>11. (Xor(h, u) = Xor(g, u) => h = g) /\ (Xor(h, u) = Xor(h, v) => u = v)
  BY <1>1, <1>9, XorTells
<1> QED
  BY <1>2, <1>3, <1>9, <1>10, <1>11

\* The loop over the words goes through hashes.
LEMMA AbsorbLoop ==
  ASSUME NEW w \in Nat, NEW m \in Nat, m % 2 = 1, NEW s \in Nat, s >= 1,
         NEW start \in Uint(w), NEW words \in Seq(Uint(w))
  PROVE  \E a \in [0 .. Len(words) -> Uint(w)] :
           /\ Absorbed(w, m, s, start, words) = a[Len(words)]
           /\ a[0] = start
           /\ \A n \in 1 .. Len(words) : a[n] = absorb(w, m, s, a[n - 1], words[n])
<1> DEFINE N == Len(words)
           S == Uint(w)
           step == [n \in 1 .. N |-> [h \in S |-> absorb(w, m, s, h, words[n])]]
           Body(a) == [n \in 0 .. N |-> IF n = 0 THEN start ELSE absorb(w, m, s, a[n - 1], words[n])]
           after == CHOOSE a : a = Body(a)
<1>1. N \in Nat /\ \A n \in 1 .. N : words[n] \in S
  OBVIOUS
<1> HIDE DEF N
<1>2. Absorbed(w, m, s, start, words) = after[N]
  BY DEF Absorbed, N
<1>3. step \in [1 .. N -> [S -> S]]
  <2>1. \A n \in 1 .. N, h \in S : absorb(w, m, s, h, words[n]) \in S
    BY <1>1, AbsorbTells
  <2> HIDE DEF S
  <2> QED
    BY <2>1
<1>4. PICK f \in [0 .. N -> S] : Runs(f, N, start, step)
  <2>1. start \in S
    OBVIOUS
  <2> HIDE DEF step, S
  <2> QED
    BY <1>1, <1>3, <2>1, LoopExists
<1>5. f = Body(f)
  <2>1. ASSUME NEW n \in 0 .. N, n # 0
        PROVE  step[n][f[n - 1]] = absorb(w, m, s, f[n - 1], words[n])
    <3>1. n \in 1 .. N /\ n - 1 \in 0 .. N
      BY <1>1, <2>1
    <3>2. f[n - 1] \in S
      BY <3>1
    <3> HIDE DEF S
    <3> QED
      BY <3>1, <3>2
  <2> HIDE DEF step, S
  <2>2. \A n \in 0 .. N : f[n] = IF n = 0 THEN start ELSE absorb(w, m, s, f[n - 1], words[n])
    BY <1>4, <2>1 DEF Runs
  <2>3. f = [n \in 0 .. N |-> f[n]]
    OBVIOUS
  <2> QED
    BY <2>2, <2>3
<1>6. after = Body(after)
  <2> HIDE DEF Body
  <2> QED
    BY <1>5
<1> HIDE DEF after
<1>7. after[0] = start /\ \A n \in 1 .. N : after[n] = absorb(w, m, s, after[n - 1], words[n])
  <2>1. \A n \in 0 .. N : after[n] = IF n = 0 THEN start ELSE absorb(w, m, s, after[n - 1], words[n])
    <3>1. after = [n \in 0 .. N |-> IF n = 0 THEN start ELSE absorb(w, m, s, after[n - 1], words[n])]
      BY <1>6
    <3> QED
      BY <3>1
  <2>2. 0 \in 0 .. N /\ \A n \in 1 .. N : n \in 0 .. N /\ n # 0
    BY <1>1
  <2> QED
    BY <2>1, <2>2
<1>8. after \in [0 .. N -> S]
  <2> DEFINE T == {n \in Nat : n <= N => after[n] \in S}
  <2>1. 0 \in T
    BY <1>7
  <2>2. ASSUME NEW n \in Nat, n \in T
        PROVE  n + 1 \in T
    <3> SUFFICES ASSUME n + 1 <= N PROVE after[n + 1] \in S
      OBVIOUS
    <3>1. after[n] \in S /\ n + 1 \in 1 .. N /\ (n + 1) - 1 = n
      BY <1>1, <2>2
    <3>2. after[n + 1] = absorb(w, m, s, after[n], words[n + 1])
      BY <1>7, <3>1
    <3>3. \A h, x \in S : absorb(w, m, s, h, x) \in S
      BY AbsorbTells
    <3>4. words[n + 1] \in S
      BY <1>1, <3>1
    <3> QED
      BY <3>1, <3>2, <3>3, <3>4, Zenon
  <2>3. Nat \subseteq T
    <3> HIDE DEF T
    <3> QED
      BY <2>1, <2>2, InductionOverSet
  <2>4. \A n \in 0 .. N : after[n] \in S
    <3>1. \A n \in 0 .. N : n \in Nat /\ n <= N
      BY <1>1
    <3> QED
      BY <2>3, <3>1
  <2>5. after = [n \in 0 .. N |-> after[n]]
    <3>1. \E b : after = [n \in 0 .. N |-> b[n]]
      <4> DEFINE b == [n \in 0 .. N |-> IF n = 0 THEN start ELSE absorb(w, m, s, after[n - 1], words[n])]
      <4>1. after = b
        BY <1>6
      <4>2. b = [n \in 0 .. N |-> b[n]]
        OBVIOUS
      <4> HIDE DEF b
      <4> QED
        BY <4>1, <4>2
    <3> QED
      BY <3>1
  <2> HIDE DEF S
  <2> QED
    BY <2>4, <2>5
<1> QED
  BY <1>2, <1>7, <1>8 DEF N

\* quickbloom.c:58-78: keys whose words differ in one place, the incomplete word
\* at the end included, have different hashes: the loop carries the difference
\* to the end and none of its steps can lose it, for every number of words and
\* every width, because the multipliers are odd and each shift is one place at
\* least.
THEOREM WordTells ==
  ASSUME NEW w \in Nat, NEW m \in Nat, m % 2 = 1, NEW f \in Nat, f % 2 = 1,
         NEW s \in Nat, s >= 1, NEW t \in Nat, t >= 1,
         NEW start \in Uint(w), NEW words \in Seq(Uint(w)), NEW others \in Seq(Uint(w)),
         Len(words) = Len(others),
         NEW i \in 1 .. Len(words), words[i] # others[i],
         \A n \in 1 .. Len(words) : n # i => words[n] = others[n]
  PROVE  finish(w, s, f, t, Absorbed(w, m, s, start, words))
           # finish(w, s, f, t, Absorbed(w, m, s, start, others))
<1> DEFINE N == Len(words)
<1>0. \A h, g, x, y \in Uint(w) :
        /\ absorb(w, m, s, h, x) = absorb(w, m, s, g, x) => h = g
        /\ absorb(w, m, s, h, x) = absorb(w, m, s, h, y) => x = y
  BY AbsorbTells
<1>1. N \in Nat /\ Len(others) = N /\ \A n \in 1 .. N : words[n] \in Uint(w) /\ others[n] \in Uint(w)
  OBVIOUS
<1>2. PICK a \in [0 .. N -> Uint(w)] :
           /\ Absorbed(w, m, s, start, words) = a[N]
           /\ a[0] = start
           /\ \A n \in 1 .. N : a[n] = absorb(w, m, s, a[n - 1], words[n])
  <2>1. \E a \in [0 .. Len(words) -> Uint(w)] :
           /\ Absorbed(w, m, s, start, words) = a[Len(words)]
           /\ a[0] = start
           /\ \A n \in 1 .. Len(words) : a[n] = absorb(w, m, s, a[n - 1], words[n])
    BY AbsorbLoop
  <2> QED
    BY <2>1
<1>3. PICK b \in [0 .. N -> Uint(w)] :
           /\ Absorbed(w, m, s, start, others) = b[N]
           /\ b[0] = start
           /\ \A n \in 1 .. N : b[n] = absorb(w, m, s, b[n - 1], others[n])
  <2>1. \E b \in [0 .. Len(others) -> Uint(w)] :
           /\ Absorbed(w, m, s, start, others) = b[Len(others)]
           /\ b[0] = start
           /\ \A n \in 1 .. Len(others) : b[n] = absorb(w, m, s, b[n - 1], others[n])
    BY AbsorbLoop
  <2> QED
    BY <1>1, <2>1
<1> HIDE DEF N
<1> DEFINE T == {n \in Nat : n <= N => /\ n < i => a[n] = b[n]
                                       /\ n >= i => a[n] # b[n]}
<1>4. i \in 1 .. N
  BY DEF N
<1>5. 0 \in T
  BY <1>2, <1>3, <1>4
<1>6. ASSUME NEW n \in Nat, n \in T
      PROVE  n + 1 \in T
  <2> SUFFICES ASSUME n + 1 <= N
               PROVE  /\ n + 1 < i => a[n + 1] = b[n + 1]
                      /\ n + 1 >= i => a[n + 1] # b[n + 1]
    OBVIOUS
  <2> DEFINE k == n + 1
             x == words[k]
             y == others[k]
             h == a[n]
             g == b[n]
  <2>1. k \in 1 .. N /\ k - 1 = n /\ n \in 0 .. N
    BY <1>1
  <2>2. h \in Uint(w) /\ g \in Uint(w) /\ x \in Uint(w) /\ y \in Uint(w)
    BY <1>1, <2>1
  <2>3. a[k] = absorb(w, m, s, h, x) /\ b[k] = absorb(w, m, s, g, y)
    BY <1>2, <1>3, <2>1
  <2>4. (n < i => h = g) /\ (n >= i => h # g)
    BY <1>1, <1>6, <2>1
  <2>5. (k # i => x = y) /\ (k = i => x # y)
    BY <2>1 DEF N
  <2> HIDE DEF x, y, h, g
  <2>6. CASE k < i
    <3>1. a[k] = b[k]
      BY <1>4, <2>1, <2>3, <2>4, <2>5, <2>6
    <3> QED
      BY <1>4, <2>1, <2>6, <3>1
  <2>7. CASE k = i
    <3>1. h = g /\ x # y
      BY <1>4, <2>1, <2>4, <2>5, <2>7
    <3>2. a[k] # b[k]
      <4>1. absorb(w, m, s, h, x) # absorb(w, m, s, h, y)
        BY <1>0, <2>2, <3>1
      <4>2. a[k] = absorb(w, m, s, h, x) /\ b[k] = absorb(w, m, s, h, y)
        BY <2>3, <3>1
      <4> QED
        BY <4>1, <4>2
    <3> QED
      BY <1>4, <2>1, <2>7, <3>2
  <2>8. CASE k > i
    <3>1. h # g /\ x = y
      BY <1>4, <2>1, <2>4, <2>5, <2>8
    <3>2. a[k] # b[k]
      <4>1. absorb(w, m, s, h, x) # absorb(w, m, s, g, x)
        BY <1>0, <2>2, <3>1
      <4>2. a[k] = absorb(w, m, s, h, x) /\ b[k] = absorb(w, m, s, g, x)
        BY <2>3, <3>1
      <4> QED
        BY <4>1, <4>2
    <3> QED
      BY <1>4, <2>1, <2>8, <3>2
  <2> QED
    BY <1>4, <2>1, <2>6, <2>7, <2>8
<1>7. a[N] # b[N]
  <2> HIDE DEF T
  <2>1. Nat \subseteq T
    BY <1>5, <1>6, InductionOverSet
  <2> QED
    BY <1>1, <1>4, <2>1 DEF T
<1>8. ASSUME NEW h \in Uint(w), NEW g \in Uint(w), h # g
      PROVE  finish(w, s, f, t, h) # finish(w, s, f, t, g)
  <2> DEFINE h1 == XorShift(h, s)
             g1 == XorShift(g, s)
             h2 == Times(w, h1, f)
             g2 == Times(w, g1, f)
  <2>1. h \in Nat /\ g \in Nat
    BY DEF Uint
  <2>2. h1 # g1
    BY <1>8, <2>1, XorShiftTells
  <2>3. h1 \in Uint(w) /\ g1 \in Uint(w)
    BY XorShiftType
  <2> HIDE DEF h1, g1
  <2>4. h2 # g2
    BY <2>2, <2>3, TimesTells DEF Uint
  <2>5. h2 \in Nat /\ g2 \in Nat
    <3>1. \A x \in Uint(w) : x \in Nat
      BY DEF Uint
    <3>2. \A x \in Nat : Times(w, x, f) \in Uint(w)
      BY TimesType DEF Uint
    <3> QED
      BY <2>3, <3>1, <3>2
  <2> HIDE DEF h2, g2
  <2>6. XorShift(h2, t) # XorShift(g2, t)
    BY <2>4, <2>5, XorShiftTells
  <2> QED
    BY <2>6 DEF finish, h1, g1, h2, g2
<1>9. a[N] \in Uint(w) /\ b[N] \in Uint(w)
  BY <1>1
<1> QED
  BY <1>2, <1>3, <1>7, <1>8, <1>9

\* Loading goes byte by byte.
LEMMA LoadLoop ==
  ASSUME NEW r \in Nat, NEW bytes \in Seq(Uint(r))
  PROVE  \E v \in [0 .. Len(bytes) -> Nat] :
           /\ load(r, bytes) = v[Len(bytes)]
           /\ v[0] = 0
           /\ \A n \in 1 .. Len(bytes) : v[n] = v[n - 1] + Pow2[r * (n - 1)] * bytes[n]
<1> DEFINE N == Len(bytes)
           digit == [n \in 1 .. N |-> Pow2[r * (n - 1)] * bytes[n]]
           step == [n \in 1 .. N |-> [x \in Nat |-> x + digit[n]]]
           Body(a) == [n \in 0 .. N |-> IF n = 0 THEN 0 ELSE a[n - 1] + Pow2[r * (n - 1)] * bytes[n]]
           value == CHOOSE a : a = Body(a)
<1>1. N \in Nat
  OBVIOUS
<1>2. load(r, bytes) = value[N]
  BY DEF load
<1>3. \A n \in 1 .. N : digit[n] \in Nat /\ digit[n] = Pow2[r * (n - 1)] * bytes[n]
  <2> TAKE n \in 1 .. N
  <2>1. bytes[n] \in Nat
    <3>1. bytes[n] \in Uint(r)
      OBVIOUS
    <3> QED
      BY <3>1 DEF Uint
  <2>2. Pow2[r * (n - 1)] \in Nat
    <3>1. n - 1 \in Nat
      BY <1>1
    <3>2. r * (n - 1) \in Nat
      BY <3>1
    <3> QED
      BY <3>2, Pow2Type
  <2>3. Pow2[r * (n - 1)] * bytes[n] \in Nat
    BY <2>1, <2>2
  <2> QED
    BY <2>3
<1> HIDE DEF N, digit
<1>4. step \in [1 .. N -> [Nat -> Nat]]
  BY <1>3
<1>5. PICK f \in [0 .. N -> Nat] : Runs(f, N, 0, step)
  <2> HIDE DEF step
  <2> QED
    BY <1>1, <1>4, LoopExists
<1>6. \A n \in 0 .. N : f[n] = IF n = 0 THEN 0 ELSE f[n - 1] + Pow2[r * (n - 1)] * bytes[n]
  <2>1. ASSUME NEW n \in 0 .. N, n # 0
        PROVE  step[n][f[n - 1]] = f[n - 1] + Pow2[r * (n - 1)] * bytes[n]
    <3>1. n \in 1 .. N /\ n - 1 \in 0 .. N
      BY <1>1, <2>1
    <3>2. f[n - 1] \in Nat
      BY <3>1
    <3>3. step[n][f[n - 1]] = f[n - 1] + digit[n]
      BY <3>1, <3>2
    <3> QED
      BY <1>3, <3>1, <3>3
  <2> HIDE DEF step
  <2> QED
    BY <1>5, <2>1 DEF Runs
<1>7. f = Body(f)
  <2>1. f = [n \in 0 .. N |-> f[n]]
    OBVIOUS
  <2> QED
    BY <1>6, <2>1
<1>8. value = Body(value)
  <2> HIDE DEF Body
  <2> QED
    BY <1>7
<1> HIDE DEF value
<1>9. \A n \in 0 .. N : value[n] = IF n = 0 THEN 0 ELSE value[n - 1] + Pow2[r * (n - 1)] * bytes[n]
  <2>1. value = [n \in 0 .. N |-> IF n = 0 THEN 0 ELSE value[n - 1] + Pow2[r * (n - 1)] * bytes[n]]
    BY <1>8
  <2> QED
    BY <2>1
<1> DEFINE T == {n \in Nat : n <= N => value[n] = f[n]}
<1>10. 0 \in T
  BY <1>1, <1>6, <1>9
<1>11. ASSUME NEW n \in Nat, n \in T
       PROVE  n + 1 \in T
  <2> SUFFICES ASSUME n + 1 <= N PROVE value[n + 1] = f[n + 1]
    OBVIOUS
  <2>1. n + 1 \in 0 .. N /\ n + 1 # 0 /\ (n + 1) - 1 = n /\ value[n] = f[n]
    BY <1>1, <1>11
  <2> QED
    BY <1>6, <1>9, <2>1
<1>12. Nat \subseteq T
  <2> HIDE DEF T
  <2> QED
    BY <1>10, <1>11, InductionOverSet
<1>13. value[N] = f[N]
  BY <1>1, <1>12
<1>14. f[0] = 0 /\ \A n \in 1 .. N : f[n] = f[n - 1] + Pow2[r * (n - 1)] * bytes[n]
  <2>1. 0 \in 0 .. N /\ \A n \in 1 .. N : n \in 0 .. N /\ n # 0
    BY <1>1
  <2> QED
    BY <1>6, <2>1
<1> QED
  BY <1>2, <1>13, <1>14 DEF N

\* quickbloom.c:61-62 and 67-75: what is loaded from bytes, a whole word or the
\* tail, fits in as many bits and tells every one of them.
THEOREM LoadTells ==
  ASSUME NEW r \in Nat, NEW bytes \in Seq(Uint(r)), NEW others \in Seq(Uint(r)),
         Len(bytes) = Len(others)
  PROVE  /\ load(r, bytes) \in Uint(r * Len(bytes))
         /\ load(r, bytes) = load(r, others) => bytes = others
<1> DEFINE N == Len(bytes)
<1>1. N \in Nat /\ Len(others) = N /\ \A n \in 1 .. N : bytes[n] \in Uint(r) /\ others[n] \in Uint(r)
  OBVIOUS
<1>2. PICK v \in [0 .. N -> Nat] :
           /\ load(r, bytes) = v[N]
           /\ v[0] = 0
           /\ \A n \in 1 .. N : v[n] = v[n - 1] + Pow2[r * (n - 1)] * bytes[n]
  <2>1. \E v \in [0 .. Len(bytes) -> Nat] :
           /\ load(r, bytes) = v[Len(bytes)]
           /\ v[0] = 0
           /\ \A n \in 1 .. Len(bytes) : v[n] = v[n - 1] + Pow2[r * (n - 1)] * bytes[n]
    BY LoadLoop
  <2> QED
    BY <2>1
<1>3. PICK u \in [0 .. N -> Nat] :
           /\ load(r, others) = u[N]
           /\ u[0] = 0
           /\ \A n \in 1 .. N : u[n] = u[n - 1] + Pow2[r * (n - 1)] * others[n]
  <2>1. \E g \in [0 .. Len(others) -> Nat] :
           /\ load(r, others) = g[Len(others)]
           /\ g[0] = 0
           /\ \A n \in 1 .. Len(others) : g[n] = g[n - 1] + Pow2[r * (n - 1)] * others[n]
    BY LoadLoop
  <2> QED
    BY <1>1, <2>1
<1>4. bytes = [n \in 1 .. N |-> bytes[n]] /\ others = [n \in 1 .. N |-> others[n]]
  BY <1>1
<1> HIDE DEF N
<1> DEFINE Below(n) == v[n] < Pow2[r * n] /\ u[n] < Pow2[r * n]
           Same(n) == v[n] = u[n] => \A i \in 1 .. n : bytes[i] = others[i]
           T == {n \in Nat : n <= N => Below(n) /\ Same(n)}
<1>5. 0 \in T
  <2>1. r * 0 = 0 /\ Pow2[0] = 1
    BY Pow2Step
  <2> QED
    BY <1>2, <1>3, <2>1
<1>6. ASSUME NEW n \in Nat, n \in T
      PROVE  n + 1 \in T
  <2> SUFFICES ASSUME n + 1 <= N PROVE Below(n + 1) /\ Same(n + 1)
    OBVIOUS
  <2> DEFINE p == Pow2[r * n]
             e == Pow2[r]
             a == bytes[n + 1]
             b == others[n + 1]
  <2>1. n + 1 \in 1 .. N /\ (n + 1) - 1 = n /\ n \in 0 .. N /\ n + 1 \in 0 .. N
    BY <1>1
  <2>2. r * n \in Nat /\ r * (n + 1) = r * n + r
    OBVIOUS
  <2>3. p \in Nat /\ p >= 1 /\ e \in Nat /\ Pow2[r * (n + 1)] = p * e
    BY <2>2, Pow2Type, Pow2Sum
  <2>4. a \in Nat /\ a < e /\ b \in Nat /\ b < e
    <3>1. a \in Uint(r) /\ b \in Uint(r)
      BY <1>1, <2>1
    <3> QED
      BY <2>3, <3>1 DEF Uint
  <2>5. v[n + 1] = v[n] + p * a /\ u[n + 1] = u[n] + p * b
    BY <1>2, <1>3, <2>1
  <2>6. v[n] \in Nat /\ u[n] \in Nat /\ v[n] < p /\ u[n] < p /\ Same(n)
    BY <1>1, <1>6, <2>1
  <2> DEFINE x == v[n]
             y == u[n]
  <2>7. x \in Nat /\ y \in Nat /\ x < p /\ y < p
    BY <2>6
  <2> HIDE DEF p, e, a, b, x, y
  <2>8. \A c, z \in Nat : c < e /\ z < p => z + p * c < p * e /\ p * c \in Nat
    <3>1. \A c, d \in Nat : c < d => p * c + p <= p * d
      BY <2>3
    <3>2. \A c \in Nat : p * c \in Nat
      BY <2>3
    <3>3. p * e \in Nat
      BY <2>3
    <3> TAKE c, z \in Nat
    <3>4. c < e => p * c + p <= p * e
      BY <2>3, <3>1
    <3>5. p * c \in Nat
      BY <3>2
    <3> QED
      BY <2>3, <3>3, <3>4, <3>5
  <2>9. x + p * a < p * e /\ y + p * b < p * e /\ p * a \in Nat /\ p * b \in Nat
    BY <2>4, <2>7, <2>8
  <2>10. ASSUME x + p * a = y + p * b
         PROVE  a = b /\ x = y
    <3> DEFINE z == x + p * a
    <3>1. z \in Nat /\ z = p * a + x /\ z = p * b + y
      BY <2>7, <2>9, <2>10
    <3> HIDE DEF z
    <3>2. ASSUME NEW c \in Nat, NEW q \in Nat, q < p, p * c \in Nat, z = p * c + q
          PROVE  z \div p = c
      <4>1. p * c <= z /\ z < p * c + p
        BY <2>3, <3>2
      <4>2. p \in Nat /\ p >= 1 /\ z \in Nat
        BY <2>3, <3>1
      <4> QED
        BY <3>2, <4>1, <4>2, QuotientUnique
    <3>3. z \div p = a /\ z \div p = b
      BY <2>4, <2>7, <2>9, <3>1, <3>2
    <3>4. a = b
      BY <3>3
    <3> QED
      BY <2>7, <2>9, <3>1, <3>4
  <2>11. Below(n + 1)
    BY <2>3, <2>5, <2>9 DEF x, y
  <2>12. Same(n + 1)
    <3> SUFFICES ASSUME v[n + 1] = u[n + 1], NEW i \in 1 .. n + 1 PROVE bytes[i] = others[i]
      OBVIOUS
    <3>1. a = b /\ v[n] = u[n]
      BY <2>5, <2>10 DEF x, y
    <3>2. CASE i = n + 1
      BY <3>1, <3>2 DEF a, b
    <3>3. CASE i # n + 1
      <4>1. i \in 1 .. n
        BY <3>3
      <4> QED
        BY <2>6, <3>1, <4>1
    <3> QED
      BY <3>2, <3>3
  <2> QED
    BY <2>11, <2>12
<1>7. N \in T
  <2> HIDE DEF T
  <2>1. Nat \subseteq T
    BY <1>5, <1>6, InductionOverSet
  <2> QED
    BY <1>1, <2>1
<1>8. Below(N) /\ Same(N)
  BY <1>1, <1>7
<1>9. load(r, bytes) \in Uint(r * N)
  <2>1. r * N \in Nat
    BY <1>1
  <2>2. Pow2[r * N] \in Nat /\ v[N] \in Nat /\ v[N] < Pow2[r * N]
    BY <1>1, <1>8, <2>1, Pow2Type
  <2> QED
    BY <1>2, <2>2 DEF Uint
<1>10. ASSUME load(r, bytes) = load(r, others)
       PROVE  bytes = others
  <2>1. \A i \in 1 .. N : bytes[i] = others[i]
    BY <1>2, <1>3, <1>8, <1>10
  <2> QED
    BY <1>4, <2>1
<1> QED
  BY <1>9, <1>10 DEF N

=============================================================================
