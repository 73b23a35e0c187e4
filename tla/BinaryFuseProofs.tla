-------------------------- MODULE BinaryFuseProofs --------------------------
(***************************************************************************)
(* Why a populate that succeeds leaves a filter that reports every key of  *)
(* the caller, for every instance of BinaryFuse.  FuseInv says of each     *)
(* loop of the function what it has done so far: SeedInv and ScatterInv    *)
(* that a round's keys have free slots and find them, CountInv that the    *)
(* cells tell of the keys counted so far and of no others, PeelInv that    *)
(* they tell of the keys not yet on the stack, and that the stack is one   *)
(* the keys can be given their cells from, AssignInv that the keys given   *)
(* theirs are reported.                                                    *)
(*                                                                         *)
(* The arithmetic comes first: what allocate can make of a size            *)
(* (Geometric), and the three cells of a hash, which are in the array and  *)
(* different, and the same from either function that computes them and     *)
(* with either multiply.                                                   *)
(***************************************************************************)
EXTENDS BinaryFuse, WordsProofs, SequenceTheorems

-----------------------------------------------------------------------------
(***************************************************************************)
(* The sizes.                                                              *)
(***************************************************************************)
LEMMA FuseWidths ==
  /\ HashBits \in Nat /\ FieldBits \in Nat /\ CountBits \in Nat /\ FingerprintBits \in Nat
  /\ HashBits >= 2 /\ HashBits % 2 = 0 /\ 2 * FieldBits <= HashBits
  /\ CountBits <= HashBits /\ FieldBits + 2 <= CountBits
BY FuseWidthAssumption

\* A wrapped number fits its width,
LEMMA WrapRange ==
  \A n \in Int : Wrap(n) \in 0 .. Pow2[CountBits] - 1
<1> DEFINE m == Pow2[CountBits]
<1>1. m \in Nat /\ m >= 1
  BY FuseWidths, Pow2Type
<1> HIDE DEF m
<1>2. \A n \in Int : n % m \in 0 .. m - 1
  BY <1>1
<1> QED
  BY <1>2 DEF Wrap, m

\* and a number that fits it is not changed.
LEMMA WrapFits ==
  \A n \in 0 .. Pow2[CountBits] - 1 : Wrap(n) = n
<1> DEFINE m == Pow2[CountBits]
<1>1. m \in Nat /\ m >= 1
  BY FuseWidths, Pow2Type
<1> HIDE DEF m
<1>2. \A n \in 0 .. m - 1 : n % m = n
  BY <1>1
<1> QED
  BY <1>2 DEF Wrap, m

\* What a filter's fields say of each other.
Geometric(f) ==
  /\ \E k \in 0 .. FieldBits : f.SegmentLength = Pow2[k]
  /\ f.SegmentCount \in Nat \ {0}
  /\ f.SegmentCountLength = f.SegmentCount * f.SegmentLength
  /\ f.ArrayLength = (f.SegmentCount + 2) * f.SegmentLength
  /\ f.ArrayLength < Pow2[CountBits]

\* binary_fuse8_allocate makes such fields whatever its sums and products come
\* to in 32 bits (src/comparisons/binaryfusefilter.h:162-195).
LEMMA AllocateGeometric ==
  ASSUME NEW n \in Nat, NEW e \in Nat, NEW capacity \in Nat
  PROVE  /\ Geometric(allocate(n, Pow2[e], capacity))
         /\ allocate(n, Pow2[e], capacity).Size = n
<1> DEFINE top == Pow2[CountBits]
           segment == Limited(Pow2[e])
           init == Wrap(Wrap(capacity + segment - 1) \div segment - 2)
           cells == Wrap((init + 2) * segment)
           total == Wrap(cells + segment - 1)
           needed == total \div segment
           count == IF needed <= 2 THEN 1 ELSE needed - 2
           f == allocate(n, Pow2[e], capacity)
<1>1. f = [Size |-> n, SegmentLength |-> segment, SegmentCount |-> count,
           SegmentCountLength |-> Wrap(count * segment),
           ArrayLength |-> Wrap((count + 2) * segment)]
  BY DEF allocate
<1>2. PICK k \in 0 .. FieldBits : segment = Pow2[k]
  <2>1. Pow2[e] \in Nat /\ Pow2[FieldBits] \in Nat /\ FieldBits \in 0 .. FieldBits
    BY FuseWidths, Pow2Type
  <2>2. CASE Pow2[e] > Pow2[FieldBits]
    BY <2>1, <2>2 DEF Limited
  <2>3. CASE ~ (Pow2[e] > Pow2[FieldBits])
    <3>1. ~ (FieldBits < e)
      BY <2>1, <2>3, Pow2Grows, FuseWidths
    <3>2. e \in 0 .. FieldBits
      BY <3>1, FuseWidths
    <3> QED
      BY <2>3, <3>2 DEF Limited
  <2> QED
    BY <2>2, <2>3
<1>3. segment \in Nat /\ segment >= 1
  BY <1>2, FuseWidths, Pow2Type
<1>4. 4 * segment <= top /\ top \in Nat
  <2>1. k \in Nat /\ FieldBits \in Nat /\ k <= FieldBits /\ CountBits \in Nat
    BY FuseWidths
  <2>2. Pow2[k] <= Pow2[FieldBits]
    BY <2>1, Pow2Monotone
  <2>3. Pow2[(FieldBits + 1) + 1] = 2 * Pow2[FieldBits + 1] /\ Pow2[FieldBits + 1] = 2 * Pow2[FieldBits]
    BY <2>1, Pow2Step
  <2>4. (FieldBits + 1) + 1 \in Nat /\ (FieldBits + 1) + 1 <= CountBits
    BY FuseWidths
  <2>5. Pow2[(FieldBits + 1) + 1] <= Pow2[CountBits]
    BY <2>1, <2>4, Pow2Monotone
  <2>6. Pow2[k] \in Nat /\ Pow2[FieldBits] \in Nat /\ Pow2[CountBits] \in Nat
    BY <2>1, Pow2Type
  <2> QED
    BY <1>2, <2>2, <2>3, <2>5, <2>6
<1> HIDE DEF segment, f
<1>5. total \in 0 .. top - 1
  <2>1. Wrap(capacity + segment - 1) \in Nat
    BY <1>3, WrapRange
  <2>2. Wrap(capacity + segment - 1) \div segment \in Nat
    BY <1>3, <2>1
  <2>3. init \in Nat
    BY <2>2, WrapRange
  <2> HIDE DEF init
  <2>4. (init + 2) * segment \in Nat
    BY <1>3, <2>3
  <2>5. cells \in Nat
    BY <2>4, WrapRange
  <2> HIDE DEF cells
  <2> QED
    BY <1>3, <2>5, WrapRange
<1> HIDE DEF total
<1>6. needed \in Nat /\ segment * needed <= total
  BY <1>3, <1>5, Quotient
<1> HIDE DEF needed
<1>7. count \in Nat \ {0} /\ segment * (count + 2) < top
  <2>1. CASE needed <= 2
    <3>1. count = 1 /\ segment * 3 <= 4 * segment
      BY <1>3, <2>1
    <3> QED
      BY <1>3, <1>4, <3>1
  <2>2. CASE ~ (needed <= 2)
    <3>1. count = needed - 2 /\ count + 2 = needed
      BY <1>6, <2>2
    <3>2. segment * (count + 2) = segment * needed /\ segment * needed \in Nat
      BY <1>3, <1>6, <3>1
    <3>3. segment * (count + 2) < top
      BY <1>4, <1>5, <1>6, <3>2
    <3> QED
      BY <1>6, <2>2, <3>1, <3>3
  <2> QED
    BY <2>1, <2>2
<1> HIDE DEF count
<1>8. /\ count * segment \in 0 .. top - 1
      /\ (count + 2) * segment \in 0 .. top - 1
  <2> DEFINE p == count * segment
  <2>1. p \in Nat /\ (count + 2) * segment = p + 2 * segment /\ segment * (count + 2) = p + 2 * segment
    BY <1>3, <1>7
  <2> HIDE DEF p
  <2>2. p \in 0 .. top - 1 /\ p + 2 * segment \in 0 .. top - 1
    BY <1>3, <1>4, <1>7, <2>1
  <2> QED
    BY <2>1, <2>2 DEF p
<1>9. Wrap(count * segment) = count * segment /\ Wrap((count + 2) * segment) = (count + 2) * segment
  BY <1>8, WrapFits
<1> HIDE DEF top
<1>10. /\ f.Size = n /\ f.SegmentLength = segment /\ f.SegmentCount = count
       /\ f.SegmentCountLength = count * segment /\ f.ArrayLength = (count + 2) * segment
  BY <1>1, <1>9
<1>11. f.ArrayLength < top
  BY <1>4, <1>8, <1>10
<1>12. Geometric(f)
  BY <1>2, <1>7, <1>10, <1>11 DEF Geometric, top
<1> QED
  BY <1>10, <1>12 DEF f

-----------------------------------------------------------------------------
(***************************************************************************)
(* The three cells of a hash.                                              *)
(***************************************************************************)
\* A whole number of segments does not change the place in one.
LEMMA SegmentsOff ==
  ASSUME NEW l \in Nat, l >= 1, NEW m \in Nat, NEW x \in Nat
  PROVE  /\ (l * m + x) \div l = m + (x \div l)
         /\ (l * m + x) % l = x % l
<1> DEFINE q == x \div l
           a == l * m
           b == l * q
<1>1. q \in Nat /\ b <= x /\ x < b + l /\ x % l = x - b
  <2>1. x % l = x - l * (x \div l)
    OBVIOUS
  <2> QED
    BY <2>1, Quotient
<1>2. a \in Nat /\ b \in Nat /\ l * (m + q) = a + b
  BY <1>1
<1> HIDE DEF q, a, b
<1>3. a + x \in Nat /\ a + b <= a + x /\ a + x < (a + b) + l
  BY <1>1, <1>2
<1>4. (a + x) \div l = m + q
  <2>1. m + q \in Nat /\ l * (m + q) <= a + x /\ a + x < l * (m + q) + l
    BY <1>1, <1>2, <1>3
  <2> QED
    BY <1>3, <2>1, QuotientUnique
<1>5. (a + x) % l = (a + x) - l * ((a + x) \div l)
  <2> DEFINE y == a + x
  <2>1. y \in Nat
    BY <1>3
  <2> HIDE DEF y
  <2>2. y % l = y - l * (y \div l)
    BY <2>1
  <2> QED
    BY <2>2 DEF y
<1>6. (a + x) % l = x % l
  BY <1>1, <1>2, <1>4, <1>5
<1> QED
  BY <1>4, <1>6 DEF a, q

\* The rest of a division by 2^m, divided by 2^k, ends in the same bits.
LEMMA LowBits ==
  ASSUME NEW x \in Nat, NEW k \in Nat, NEW m \in Nat, NEW j \in Nat, j + k <= m
  PROVE  ((x % Pow2[m]) \div Pow2[j]) % Pow2[k] = (x \div Pow2[j]) % Pow2[k]
<1> DEFINE e == m - (j + k)
           q == x \div Pow2[m]
           r == x % Pow2[m]
           J == Pow2[j]
           K == Pow2[k]
           E == Pow2[e]
           M == Pow2[m]
<1>1. e \in Nat /\ j + k \in Nat /\ m = (j + k) + e
  OBVIOUS
<1>2. /\ J \in Nat /\ J >= 1 /\ K \in Nat /\ K >= 1 /\ E \in Nat /\ E >= 1 /\ M \in Nat /\ M >= 1
  BY <1>1, Pow2Type
<1>3. M = (J * K) * E
  <2>1. Pow2[(j + k) + e] = Pow2[j + k] * Pow2[e]
    BY <1>1, Pow2Sum
  <2>2. Pow2[j + k] = Pow2[j] * Pow2[k]
    BY Pow2Sum
  <2> QED
    BY <1>1, <2>1, <2>2
<1>4. q \in Nat /\ r \in Nat /\ x = M * q + r
  <2> HIDE DEF M
  <2>1. x \div M \in Nat /\ x % M \in Nat /\ x % M = x - M * (x \div M)
    BY <1>2
  <2>2. q = x \div M /\ r = x % M
    BY DEF M
  <2> HIDE DEF q, r
  <2> DEFINE p == M * q
  <2>3. p \in Nat /\ r = x - p
    BY <1>2, <2>1, <2>2
  <2>4. x = p + r
    BY <2>1, <2>2, <2>3
  <2> QED
    BY <2>1, <2>2, <2>4
<1> DEFINE u == K * (E * q)
<1> HIDE DEF e, q, r, J, K, E, M
<1>5. u \in Nat /\ M * q = J * u
  BY <1>2, <1>3, <1>4
<1> HIDE DEF u
<1>6. x \div J = u + (r \div J)
  <2>1. x = J * u + r
    BY <1>4, <1>5
  <2>2. (J * u + r) \div J = u + (r \div J)
    BY <1>2, <1>4, <1>5, SegmentsOff
  <2> QED
    BY <2>1, <2>2
<1> DEFINE w == r \div J
<1>7. w \in Nat
  BY <1>2, <1>4, Quotient
<1> HIDE DEF w
<1>8. (K * (E * q) + w) % K = w % K
  <2>1. E * q \in Nat
    BY <1>2, <1>4
  <2> QED
    BY <1>2, <1>7, <2>1, SegmentsOff
<1>9. (x \div J) % K = (r \div J) % K
  BY <1>6, <1>8 DEF u, w
<1> QED
  BY <1>9 DEF r, J, K, M

\* The product that picks the first segment is below the cells there are.
LEMMA MulhiBelow ==
  ASSUME NEW h \in 0 .. Pow2[HashBits] - 1, NEW n \in Nat, n >= 1
  PROVE  mulhi(h, n) \in Nat /\ mulhi(h, n) < n
<1> DEFINE d == Pow2[HashBits]
           x == h * n
<1>1. d \in Nat /\ d >= 1
  BY FuseWidths, Pow2Type
<1> HIDE DEF d
<1>2. h \in Nat /\ h + 1 <= d
  BY <1>1 DEF d
<1>3. x \in Nat /\ (h + 1) * n = x + n /\ (h + 1) * n <= d * n
  BY <1>1, <1>2
<1> HIDE DEF x
<1>4. d * n \in Nat /\ x < d * n
  BY <1>1, <1>3
<1>5. x \div d \in Nat /\ x \div d < n
  BY <1>1, <1>3, <1>4, Quotient, QuotientBound
<1> QED
  BY <1>5 DEF mulhi, x, d

\* The field of a hash that a slot uses.
SlotField(s, h, f) ==
  IF s = 0 THEN 0 ELSE IF s = 1 THEN Field(h, f) ELSE h % f.SegmentLength

\* populate takes its fields from the lower bits of the hash and contain from
\* the hash: they are the same (:88-131).
LEMMA SameFields ==
  ASSUME NEW f, Geometric(f), NEW h \in 0 .. Pow2[HashBits] - 1, NEW s \in 0 .. 2
  PROVE  /\ hash_cell(s, h, f)
              = Xor(mulhi(h, f.SegmentCountLength) + s * f.SegmentLength, SlotField(s, h, f))
         /\ SlotField(s, h, f) \in 0 .. f.SegmentLength - 1
<1> DEFINE F2 == 2 * FieldBits
           hh == h % Pow2[F2]
           L == f.SegmentLength
           field == (hh \div Pow2[F2 - FieldBits * s]) % L
<1>1. PICK k \in 0 .. FieldBits : L = Pow2[k]
  BY DEF Geometric
<1>2. h \in Nat /\ F2 \in Nat /\ FieldBits \in Nat /\ k \in Nat /\ k <= FieldBits
      /\ Pow2[0] = 1 /\ L \in Nat /\ L >= 1
  BY <1>1, FuseWidths, Pow2Type, Pow2Step
<1>3. hh \in Nat /\ hh < Pow2[F2]
  <2> DEFINE m == Pow2[F2]
  <2>1. m \in Nat /\ m >= 1
    BY <1>2, Pow2Type
  <2> HIDE DEF m
  <2>2. h % m \in Nat /\ h % m < m
    BY <1>2, <2>1
  <2> QED
    BY <2>2 DEF m
<1>4. field = SlotField(s, h, f)
  <2>1. CASE s = 0
    <3>1. F2 - FieldBits * s = F2
      BY <1>2, <2>1
    <3> DEFINE m == Pow2[F2]
    <3>2. m \in Nat /\ m >= 1
      BY <1>2, Pow2Type
    <3>3. hh < m
      BY <1>3
    <3> HIDE DEF m, hh
    <3>4. hh \div m = 0
      BY <1>3, <3>2, <3>3
    <3>5. 0 % L = 0
      BY <1>2
    <3> QED
      BY <2>1, <3>1, <3>4, <3>5 DEF SlotField, m
  <2>2. CASE s = 1
    <3>1. F2 - FieldBits * s = FieldBits /\ FieldBits + k <= F2
      BY <1>2, <2>2
    <3>2. (hh \div Pow2[FieldBits]) % Pow2[k] = (h \div Pow2[FieldBits]) % Pow2[k]
      BY <1>2, <3>1, LowBits
    <3> QED
      BY <1>1, <2>2, <3>1, <3>2 DEF SlotField, Field
  <2>3. CASE s = 2
    <3>1. F2 - FieldBits * s = 0 /\ 0 + k <= F2
      BY <1>2, <2>3
    <3>2. (hh \div Pow2[0]) % Pow2[k] = (h \div Pow2[0]) % Pow2[k]
      BY <1>2, <3>1, LowBits
    <3>3. h \div 1 = h
      BY <1>2
    <3> QED
      BY <1>1, <1>2, <2>3, <3>1, <3>2, <3>3 DEF SlotField
  <2> QED
    BY <2>1, <2>2, <2>3
<1>5. SlotField(s, h, f) \in 0 .. L - 1
  <2> DEFINE p == h \div Pow2[FieldBits]
  <2>1. p \in Nat
    BY <1>2, Pow2Type, Quotient
  <2> HIDE DEF p
  <2>2. \A x \in Nat : x % L \in 0 .. L - 1
    BY <1>2
  <2>3. 0 \in 0 .. L - 1 /\ p % L \in 0 .. L - 1 /\ h % L \in 0 .. L - 1
    BY <1>2, <2>1, <2>2
  <2> QED
    BY <2>3 DEF SlotField, Field, p
<1> HIDE DEF L
<1>6. hash_cell(s, h, f) = Xor(mulhi(h, f.SegmentCountLength) + s * f.SegmentLength, field)
  BY DEF hash_cell, L
<1> QED
  BY <1>4, <1>5, <1>6 DEF L

\* The three cells of a hash are in the array, each in a segment of its own.
LEMMA CellsApart ==
  ASSUME NEW f, Geometric(f), NEW h \in 0 .. Pow2[HashBits] - 1, NEW s \in 0 .. 2
  PROVE  /\ hash_cell(s, h, f) \in 0 .. f.ArrayLength - 1
         /\ \A t \in 0 .. 2 : hash_cell(s, h, f) = hash_cell(t, h, f) => s = t
<1> DEFINE L == f.SegmentLength
           n == f.SegmentCount
           h0 == mulhi(h, f.SegmentCountLength)
           g == h0 \div L
           C(t) == hash_cell(t, h, f)
<1>1. PICK k \in 0 .. FieldBits : L = Pow2[k]
  BY DEF Geometric
<1>2. k \in Nat /\ L \in Nat /\ L >= 1 /\ n \in Nat /\ n >= 1
      /\ f.SegmentCountLength = n * L /\ f.ArrayLength = (n + 2) * L
  BY <1>1, FuseWidths, Pow2Type DEF Geometric
<1>3. h0 \in Nat /\ h0 < L * n
  <2>1. n * L \in Nat /\ n * L >= 1 /\ n * L = L * n
    BY <1>2
  <2> QED
    BY <1>2, <2>1, MulhiBelow
<1> HIDE DEF L, n, h0
<1>4. g \in Nat /\ g < n
  BY <1>2, <1>3, Quotient, QuotientBound
<1>5. ASSUME NEW t \in 0 .. 2
      PROVE  C(t) \in Nat /\ C(t) \div L = g + t
  <2> DEFINE x == L * t + h0
             y == SlotField(t, h, f)
  <2>1. L * t \in Nat /\ t \in Nat /\ L * t = t * L
    BY <1>2
  <2>2. x \in Nat
    BY <1>3, <2>1
  <2>3. y \in 0 .. L - 1 /\ C(t) = Xor(h0 + t * L, y)
    BY SameFields DEF L, h0
  <2>4. x \div L = t + g
    BY <1>2, <1>3, <2>1, SegmentsOff
  <2>5. h0 + t * L = x
    BY <1>3, <2>1
  <2> HIDE DEF x, y, g, C
  <2>6. C(t) = Xor(x, y)
    BY <2>3, <2>5
  <2>7. y \in 0 .. Pow2[k] - 1 /\ y \in Nat
    BY <1>1, <1>2, <2>3 DEF L
  <2>8. Xor(x, y) \in Nat /\ Xor(x, y) \div Pow2[k] = x \div Pow2[k]
    BY <1>2, <2>2, <2>7, XorStays, XorType
  <2>9. Pow2[k] = L
    BY <1>1 DEF L
  <2>10. t + g = g + t
    BY <1>4, <2>1 DEF g
  <2> QED
    BY <2>4, <2>6, <2>8, <2>9, <2>10
<1> HIDE DEF g, C
<1>6. ASSUME NEW t \in 0 .. 2
      PROVE  C(t) \in 0 .. f.ArrayLength - 1
  <2> DEFINE c == C(t)
             q == c \div L
  <2>1. c \in Nat /\ q = g + t /\ q \in Nat /\ q + 1 <= n + 2
    BY <1>2, <1>4, <1>5
  <2> HIDE DEF c
  <2>2. c < L * q + L
    BY <1>2, <2>1, Quotient
  <2> HIDE DEF q
  <2>3. L * q + L = L * (q + 1) /\ L * (q + 1) <= L * (n + 2) /\ L * (n + 2) = (n + 2) * L
        /\ (n + 2) * L \in Nat /\ L * q + L \in Nat
    BY <1>2, <2>1
  <2> DEFINE a == (n + 2) * L
  <2>4. a \in Nat /\ c < a
    <3> DEFINE b == L * q + L
    <3>1. b \in Nat /\ b <= a /\ c < b /\ a \in Nat
      BY <2>2, <2>3
    <3> HIDE DEF a, b
    <3> QED
      BY <2>1, <3>1
  <2>5. f.ArrayLength = a
    BY <1>2
  <2> HIDE DEF a
  <2> QED
    BY <2>1, <2>4, <2>5 DEF c
<1>7. ASSUME NEW t \in 0 .. 2, C(s) = C(t)
      PROVE  s = t
  <2>1. g + s = g + t
    BY <1>5, <1>7
  <2> QED
    BY <1>4, <2>1
<1> QED
  BY <1>6, <1>7 DEF C

\* contain computes the cells that populate does (:88-131).
LEMMA BatchIsCells ==
  ASSUME NEW f, Geometric(f), NEW h \in 0 .. Pow2[HashBits] - 1
  PROVE  hash_batch(h, f) = <<hash_cell(0, h, f), hash_cell(1, h, f), hash_cell(2, h, f)>>
<1> DEFINE L == f.SegmentLength
           h0 == mulhi(h, f.SegmentCountLength)
<1>1. L \in Nat /\ L >= 1
  <2>1. PICK k \in 0 .. FieldBits : L = Pow2[k]
    BY DEF Geometric
  <2> QED
    BY <2>1, FuseWidths, Pow2Type
<1>2. h0 \in Nat
  <2>1. f.SegmentCountLength \in Nat /\ f.SegmentCountLength >= 1
    <3>1. f.SegmentCount \in Nat /\ f.SegmentCount >= 1 /\ f.SegmentCountLength = f.SegmentCount * L
      BY DEF Geometric
    <3> QED
      BY <1>1, <3>1
  <2> QED
    BY <2>1, MulhiBelow
<1>3. /\ hash_cell(0, h, f) = Xor(h0 + 0 * L, 0)
      /\ hash_cell(1, h, f) = Xor(h0 + 1 * L, Field(h, f))
      /\ hash_cell(2, h, f) = Xor(h0 + 2 * L, h % L)
  BY SameFields DEF SlotField
<1>4. hash_batch(h, f) = <<h0, Xor(h0 + L, Field(h, f)), Xor(h0 + 2 * L, h % L)>>
  BY DEF hash_batch
<1> HIDE DEF L, h0
<1>5. h0 + 0 * L = h0 /\ h0 + 1 * L = h0 + L /\ Xor(h0, 0) = h0
  BY <1>1, <1>2, XorCancels
<1> QED
  BY <1>3, <1>4, <1>5

\* A fingerprint fits in its width.
LEMMA FingerprintFits ==
  ASSUME NEW h \in Nat
  PROVE  fingerprint(h) \in 0 .. Pow2[FingerprintBits] - 1
<1> DEFINE m == Pow2[FingerprintBits]
           d == Pow2[HashBits \div 2]
           x == Xor(h, h \div d)
<1>1. m \in Nat /\ m >= 1
  BY FuseWidths, Pow2Type
<1>2. d \in Nat /\ d >= 1
  <2>1. HashBits \div 2 \in Nat
    BY FuseWidths
  <2> QED
    BY <2>1, Pow2Type
<1> HIDE DEF m, d
<1>3. h \div d \in Nat
  BY <1>2, Quotient
<1>4. x \in Nat
  BY <1>3, XorType
<1> HIDE DEF x
<1>5. x % m \in 0 .. m - 1
  BY <1>1, <1>4
<1> QED
  BY <1>5 DEF fingerprint, m, d, x

(***************************************************************************)
(* Long multiplication with two digits: the upper half of the product, as  *)
(* the compilers without a 128-bit integer make it (:92-103).              *)
(***************************************************************************)
LEMMA LongMultiplication ==
  ASSUME NEW K \in Nat, K >= 1,
         NEW a \in Nat, NEW b \in Nat, NEW c \in Nat, NEW d \in Nat,
         NEW u \in Nat, NEW v \in Nat, v < K, b * d = K * u + v,
         NEW w \in Nat, NEW z \in Nat, b * c = K * w + z,
         NEW y \in Nat, NEW t \in Nat, t < K, a * d + u + z = K * y + t
  PROVE  ((K * a + b) * (K * c + d)) \div (K * K) = a * c + y + w
<1> DEFINE ac == a * c
           ad == a * d
           bc == b * c
           bd == b * d
           Q == ac + y + w
           KK == K * K
           rest == K * t + v
<1>1. ac \in Nat /\ ad \in Nat /\ bc \in Nat /\ bd \in Nat /\ KK \in Nat /\ KK >= 1
  OBVIOUS
<1>2. (K * a + b) * (K * c + d) = KK * ac + K * ad + K * bc + bd
  <2>1. (K * a + b) * (K * c + d) = (K * a) * (K * c) + (K * a) * d + b * (K * c) + b * d
    OBVIOUS
  <2>2. (K * a) * (K * c) = KK * ac /\ (K * a) * d = K * ad /\ b * (K * c) = K * bc
    OBVIOUS
  <2> QED
    BY <2>1, <2>2
<1>3. bd = K * u + v /\ bc = K * w + z /\ ad + u + z = K * y + t
  OBVIOUS
<1> HIDE DEF ac, ad, bc, bd
<1>4. KK * ac + K * ad + K * bc + bd = KK * Q + rest
  <2>1. K * bc = KK * w + K * z
    BY <1>3
  <2>2. K * ad + K * u + K * z = KK * y + K * t
    <3>1. K * (ad + u + z) = K * ad + K * u + K * z
      BY <1>1
    <3>2. K * (K * y + t) = KK * y + K * t
      OBVIOUS
    <3> QED
      BY <1>3, <3>1, <3>2
  <2>3. KK * Q = KK * ac + KK * y + KK * w
    BY <1>1
  <2> DEFINE p1 == KK * ac  p2 == K * ad  p3 == K * z  p4 == KK * w
             p5 == K * u    p6 == KK * y  p7 == K * t  p8 == KK * Q  p9 == K * bc
  <2>4. /\ p1 \in Nat /\ p2 \in Nat /\ p3 \in Nat /\ p4 \in Nat /\ p5 \in Nat
        /\ p6 \in Nat /\ p7 \in Nat
    BY <1>1
  <2>5. p9 = p4 + p3 /\ p2 + p5 + p3 = p6 + p7 /\ p8 = p1 + p6 + p4 /\ bd = p5 + v
    BY <1>3, <2>1, <2>2, <2>3
  <2> HIDE DEF p1, p2, p3, p4, p5, p6, p7, p8, p9, Q
  <2>6. p1 + p2 + p9 + bd = p8 + (p7 + v)
    BY <2>4, <2>5
  <2> QED
    BY <2>6 DEF p1, p2, p7, p8, p9
<1>5. rest \in Nat /\ rest < KK
  <2>1. K * t + K <= KK
    <3>1. t + 1 <= K /\ K * (t + 1) = K * t + K
      OBVIOUS
    <3>2. K * (t + 1) <= K * K
      BY <3>1
    <3> QED
      BY <3>1, <3>2
  <2> DEFINE p == K * t
  <2>2. p \in Nat
    OBVIOUS
  <2>3. p + K <= KK
    BY <2>1
  <2> HIDE DEF p, KK
  <2>4. p + v \in Nat /\ p + v < KK
    BY <1>1, <2>2, <2>3
  <2> QED
    BY <2>4 DEF p
<1>6. Q \in Nat
  BY <1>1
<1> HIDE DEF KK, rest, Q
<1> DEFINE n == KK * Q + rest
<1>7. n \in Nat /\ KK * Q <= n /\ n < KK * Q + KK
  <2> DEFINE p == KK * Q
  <2>1. p \in Nat
    BY <1>1, <1>6
  <2> HIDE DEF p
  <2>2. p + rest \in Nat /\ p <= p + rest /\ p + rest < p + KK
    BY <1>1, <1>5, <2>1
  <2> QED
    BY <2>2 DEF p
<1>8. n \div KK = Q
  <2> HIDE DEF n
  <2> QED
    BY <1>1, <1>6, <1>7, QuotientUnique
<1>9. (K * a + b) * (K * c + d) = n
  BY <1>2, <1>4
<1> QED
  BY <1>8, <1>9 DEF KK, Q, ac

\* The multiply by parts of a build without 128-bit numbers is the other one (:92-103).
THEOREM MulhiPortable ==
  ASSUME NEW x \in Nat, NEW y \in Nat
  PROVE  mulhi(x, y) = mulhi_portable(x, y)
<1> DEFINE K == Pow2[HashBits \div 2]
           a == x \div K
           b == x % K
           c == y \div K
           d == y % K
           p11 == a * c
           p01 == b * c
           p10 == a * d
           p00 == b * d
           middle == p10 + (p00 \div K) + (p01 % K)
<1>1. K \in Nat /\ K >= 1 /\ Pow2[HashBits] = K * K
  <2> DEFINE h == HashBits \div 2
  <2>1. h \in Nat /\ HashBits = h + h
    BY FuseWidths
  <2> HIDE DEF h
  <2>2. Pow2[h + h] = Pow2[h] * Pow2[h] /\ Pow2[h] \in Nat /\ Pow2[h] >= 1
    BY <2>1, Pow2Sum, Pow2Type
  <2> QED
    BY <2>1, <2>2 DEF h
<1>2. mulhi_portable(x, y) = p11 + (middle \div K) + (p01 \div K)
  BY DEF mulhi_portable
<1>3. mulhi(x, y) = (x * y) \div (K * K)
  BY <1>1 DEF mulhi
<1> HIDE DEF K
<1>4. \A n \in Nat : /\ n \div K \in Nat /\ n % K \in Nat /\ n % K < K
                     /\ n = K * (n \div K) + (n % K)
  BY <1>1
<1>5. /\ a \in Nat /\ b \in Nat /\ c \in Nat /\ d \in Nat
      /\ x = K * a + b /\ y = K * c + d
  BY <1>4
<1> HIDE DEF a, b, c, d
<1>6. p11 \in Nat /\ p01 \in Nat /\ p10 \in Nat /\ p00 \in Nat
  BY <1>5
<1> HIDE DEF p11, p01, p10, p00
<1> DEFINE u == p00 \div K
           v == p00 % K
           w == p01 \div K
           z == p01 % K
<1>7. /\ u \in Nat /\ v \in Nat /\ v < K /\ p00 = K * u + v
      /\ w \in Nat /\ z \in Nat /\ p01 = K * w + z
  BY <1>4, <1>6
<1> HIDE DEF u, v, w, z
<1>8. middle = p10 + u + z /\ middle \in Nat
  BY <1>6, <1>7 DEF u, z
<1> HIDE DEF middle
<1> DEFINE e == middle \div K
           t == middle % K
<1>9. e \in Nat /\ t \in Nat /\ t < K /\ middle = K * e + t
  BY <1>4, <1>8
<1> HIDE DEF e, t
<1>10. b * d = K * u + v /\ b * c = K * w + z /\ a * d + u + z = K * e + t
  BY <1>7, <1>8, <1>9 DEF p00, p01, p10
<1>11. ((K * a + b) * (K * c + d)) \div (K * K) = a * c + e + w
  BY <1>1, <1>5, <1>7, <1>9, <1>10, LongMultiplication
<1>12. mulhi_portable(x, y) = p11 + e + w
  BY <1>2 DEF e, w
<1> QED
  BY <1>3, <1>5, <1>11, <1>12 DEF p11

-----------------------------------------------------------------------------
(***************************************************************************)
(* Ascending orders, and the removal of copies.                            *)
(***************************************************************************)
Below(S, c) == {d \in S : d < c}

\* The rank of a member tells it from the others.
LEMMA RankInjective ==
  ASSUME NEW S \in SUBSET Nat, IsFiniteSet(S), NEW c \in S, NEW d \in S,
         Cardinality(Below(S, c)) = Cardinality(Below(S, d))
  PROVE  c = d
<1>1. ASSUME NEW a \in S, NEW b \in S, a < b
      PROVE  Cardinality(Below(S, a)) # Cardinality(Below(S, b))
  <2>1. Below(S, a) \subseteq Below(S, b) /\ a \in Below(S, b) /\ a \notin Below(S, a)
    <3>1. \A e \in S : (e < a => e < b) /\ ~ (a < a)
      BY <1>1
    <3>2. \A e \in Below(S, a) : e \in S /\ e < a
      BY DEF Below
    <3>3. Below(S, a) \subseteq Below(S, b)
      BY <3>1, <3>2 DEF Below
    <3> QED
      BY <1>1, <3>1, <3>2, <3>3 DEF Below
  <2>2. IsFiniteSet(Below(S, b))
    BY FS_Subset DEF Below
  <2> QED
    BY <2>1, <2>2, FS_Subset
<1> QED
  BY <1>1

\* Ascending(S) lists the members of S once each.
LEMMA AscendingLists ==
  ASSUME NEW S \in SUBSET Nat, IsFiniteSet(S)
  PROVE  /\ Cardinality(S) \in Nat
         /\ Ascending(S) \in [1 .. Cardinality(S) -> S]
         /\ \A a, b \in 1 .. Cardinality(S) : Ascending(S)[a] = Ascending(S)[b] => a = b
         /\ \A c \in S : \E n \in 1 .. Cardinality(S) : Ascending(S)[n] = c
<1> DEFINE N == Cardinality(S)
           rank == [c \in S |-> Cardinality(Below(S, c)) + 1]
<1>1. N \in Nat
  BY FS_CardinalityType
<1>2. \A c \in S : rank[c] \in 1 .. N
  <2> TAKE c \in S
  <2>1. Below(S, c) \subseteq S /\ c \notin Below(S, c)
    BY DEF Below
  <2>2. IsFiniteSet(Below(S, c)) /\ Cardinality(Below(S, c)) <= N /\ Cardinality(Below(S, c)) # N
    BY <2>1, FS_Subset
  <2>3. Cardinality(Below(S, c)) \in Nat
    BY <2>2, FS_CardinalityType
  <2> QED
    BY <1>1, <2>2, <2>3
<1>3. rank \in Injection(S, 1 .. N)
  <2>1. rank \in [S -> 1 .. N]
    BY <1>2
  <2>2. \A a, b \in S : rank[a] = rank[b] => a = b
    <3> SUFFICES ASSUME NEW a \in S, NEW b \in S, rank[a] = rank[b] PROVE a = b
      OBVIOUS
    <3>1. Cardinality(Below(S, a)) \in Nat /\ Cardinality(Below(S, b)) \in Nat
      <4>1. Below(S, a) \subseteq S /\ Below(S, b) \subseteq S
        BY DEF Below
      <4> QED
        BY <4>1, FS_Subset, FS_CardinalityType
    <3>2. Cardinality(Below(S, a)) = Cardinality(Below(S, b))
      BY <3>1
    <3> QED
      BY <3>2, RankInjective
  <2> HIDE DEF rank
  <2> QED
    BY <2>1, <2>2 DEF Injection, IsInjective
<1>4. \A n \in 1 .. N : \E c \in S : rank[c] = n
  <2>1. IsFiniteSet(1 .. N) /\ Cardinality(1 .. N) = N
    BY <1>1, FS_Interval
  <2> HIDE DEF rank
  <2>2. rank \in Surjection(S, 1 .. N)
    BY <1>3, <2>1, FS_Injection
  <2> QED
    BY <2>2 DEF Surjection
<1>5. \A n \in 1 .. N : Ascending(S)[n] \in S /\ rank[Ascending(S)[n]] = n
  <2> TAKE n \in 1 .. N
  <2>1. PICK c \in S : rank[c] = n
    BY <1>4
  <2>2. \A d \in S : rank[d] = n <=> Cardinality({e \in S : e < d}) = n - 1
    <3> TAKE d \in S
    <3>1. Cardinality(Below(S, d)) \in Nat
      <4>1. Below(S, d) \subseteq S
        BY DEF Below
      <4> QED
        BY <4>1, FS_Subset, FS_CardinalityType
    <3>2. rank[d] = Cardinality(Below(S, d)) + 1 /\ n \in Nat
      BY <1>1
    <3> QED
      BY <3>1, <3>2 DEF Below
  <2>3. Ascending(S)[n] = CHOOSE d \in S : Cardinality({e \in S : e < d}) = n - 1
    BY DEF Ascending
  <2> HIDE DEF rank
  <2>4. \E d \in S : Cardinality({e \in S : e < d}) = n - 1
    BY <2>1, <2>2
  <2>5. Ascending(S)[n] \in S /\ Cardinality({e \in S : e < Ascending(S)[n]}) = n - 1
    BY <2>3, <2>4
  <2> QED
    BY <2>2, <2>5
<1>6. Ascending(S) \in [1 .. N -> S]
  <2> DEFINE member(n) == CHOOSE c \in S : Cardinality({d \in S : d < c}) = n - 1
  <2>1. Ascending(S) = [n \in 1 .. N |-> member(n)]
    BY DEF Ascending
  <2> HIDE DEF member
  <2> QED
    BY <1>5, <2>1
<1>7. \A c \in S : Ascending(S)[rank[c]] = c
  <2> TAKE c \in S
  <2>1. rank[c] \in 1 .. N
    BY <1>2
  <2> HIDE DEF rank
  <2>2. Ascending(S)[rank[c]] \in S /\ rank[Ascending(S)[rank[c]]] = rank[c]
    BY <1>5, <2>1
  <2> QED
    BY <1>3, <2>2 DEF Injection, IsInjective
<1> HIDE DEF rank
<1> QED
  BY <1>1, <1>2, <1>5, <1>6, <1>7

\* After remove_dup the front of the array holds every key there is in it
\* (:27-37).
LEMMA RemoveDupKeeps ==
  ASSUME NEW A, NEW s \in Seq(A)
  PROVE  /\ Cardinality(Kept(s)) \in 0 .. Len(s)
         /\ remove_dup(s) \in Seq(A) /\ Len(remove_dup(s)) = Len(s)
         /\ \A j \in 1 .. Len(s) : \E n \in 1 .. Cardinality(Kept(s)) : remove_dup(s)[n] = s[j]
<1> DEFINE S == Kept(s)
           N == Cardinality(S)
           kept == Ascending(S)
           r == remove_dup(s)
<1>1. DOMAIN s = 1 .. Len(s) /\ Len(s) \in Nat
  OBVIOUS
<1>2. S \subseteq 1 .. Len(s)
  BY <1>1 DEF Kept
<1>3. IsFiniteSet(1 .. Len(s)) /\ Cardinality(1 .. Len(s)) = Len(s)
  BY <1>1, FS_Interval
<1>4. IsFiniteSet(S) /\ N <= Len(s) /\ S \in SUBSET Nat
  BY <1>1, <1>2, <1>3, FS_Subset
<1>5. /\ N \in Nat /\ kept \in [1 .. N -> S]
      /\ \A c \in S : \E n \in 1 .. N : kept[n] = c
  BY <1>4, AscendingLists
<1>6. Len(kept) = N
  BY <1>5
<1>7. r = [j \in 1 .. Len(s) |-> IF j <= N THEN s[kept[j]] ELSE s[j]]
  BY <1>1, <1>6 DEF remove_dup
<1> HIDE DEF kept, r
<1>8. \A n \in 1 .. N : kept[n] \in 1 .. Len(s) /\ n \in 1 .. Len(s)
  BY <1>1, <1>2, <1>4, <1>5
<1>9. r \in [1 .. Len(s) -> A]
  <2>1. \A j \in 1 .. Len(s) : s[j] \in A
    OBVIOUS
  <2>2. \A j \in 1 .. Len(s) : j <= N => s[kept[j]] \in A
    <3>1. \A j \in 1 .. Len(s) : j <= N => j \in 1 .. N
      BY <1>1, <1>5
    <3> QED
      BY <1>8, <2>1, <3>1
  <2> QED
    BY <1>7, <2>1, <2>2
<1>10. \A c \in S : \E n \in 1 .. N : r[n] = s[c]
  <2> TAKE c \in S
  <2>1. PICK n \in 1 .. N : kept[n] = c
    BY <1>5
  <2>2. n \in 1 .. Len(s) /\ n <= N
    BY <1>5, <1>8
  <2>3. r[n] = s[c]
    BY <1>7, <2>1, <2>2
  <2> QED
    BY <2>3
<1>11. ASSUME NEW j \in 1 .. Len(s)
       PROVE  \E c \in S : s[c] = s[j]
  <2> DEFINE E == {m \in 1 .. Len(s) : s[m] = s[j]}
  <2>1. E \in SUBSET Nat /\ j \in E
    BY <1>1
  <2>2. PICK m \in E : \A l \in E : m <= l
    BY <2>1, LeastNatural
  <2>3. m = 1 \/ (m - 1 \in 1 .. Len(s) /\ m - 1 \notin E)
    BY <1>1, <2>2
  <2>4. m \in S
    BY <1>1, <2>2, <2>3 DEF Kept
  <2> QED
    BY <2>2, <2>4
<1>12. r \in Seq(A) /\ Len(r) = Len(s)
  BY <1>1, <1>9
<1>13. \A j \in 1 .. Len(s) : \E n \in 1 .. N : r[n] = s[j]
  BY <1>10, <1>11
<1> QED
  BY <1>1, <1>4, <1>5, <1>12, <1>13 DEF r

-----------------------------------------------------------------------------
(***************************************************************************)
(* What a cell of t2count and t2hash says of the keys counted in it.  C is *)
(* the set of the positions of an order o of keys that are counted.        *)
(***************************************************************************)
Keys == ToSet(given)

Uses(k, c) == \E s \in Slot : Cell(k, s) = c
Odd(S) == Cardinality(S) % 2 = 1

Users(C, o, c) == {j \in C : Uses(o[j], c)}
UsersAt(C, o, b, c) == {j \in C : Cell(o[j], b) = c}
Copies(C, o, k) == {j \in C : o[j] = k}

SlotOf(C, o, c) == {b \in {1, 2} : Odd(UsersAt(C, o, b, c))}
HashOf(C, o, c) == {k \in Keys : Uses(k, c) /\ Odd(Copies(C, o, k))}

CellIs(e, C, o, c) ==
  /\ e.count = Cardinality(Users(C, o, c))
  /\ e.count < CountModulus
  /\ e.slot = SlotOf(C, o, c)
  /\ e.hash = HashOf(C, o, c)

\* The hashes of a round, in a filter that allocate made.
HashInv == Geometric(filter) /\ hash \in [Keys -> Hashes]

\* The three cells of a key are in the array and different.
LEMMA KeyCells ==
  ASSUME HashInv, NEW k \in Keys, NEW s \in Slot
  PROVE  /\ Cell(k, s) \in Cells
         /\ \A t \in Slot : Cell(k, s) = Cell(k, t) => s = t
<1>1. hash[k] \in 0 .. Pow2[HashBits] - 1 /\ s \in 0 .. 2 /\ Geometric(filter)
  BY PopulateAssumption DEF HashInv, Slot
<1> QED
  BY <1>1, CellsApart DEF Cell, Cells, Slot

\* Entry e of a cell when key k is added (d = 1) or taken off (d = -1) at slot s.
Changed(e, k, s, d) ==
  [count |-> (e.count + d) % CountModulus,
   slot  |-> SymDiff(e.slot, SlotBits(s)),
   hash  |-> SymDiff(e.hash, {k})]

\* c is the cell of k at slot s of S.
Hits(k, S, s, c) == S \subseteq Slot /\ s \in S /\ Cell(k, s) = c

\* Toggle changes the entry of a cell the key uses,
LEMMA ToggleUsed ==
  ASSUME HashInv, NEW k \in Keys, NEW S, NEW s, NEW c, Hits(k, S, s, c),
         NEW d, NEW t, c \in DOMAIN t
  PROVE  Toggle(t, k, S, d)[c] = Changed(t[c], k, s, d)
<1> DEFINE r == CHOOSE r \in S : Cell(k, r) = c
<1>1. r \in S /\ Cell(k, r) = c
  BY DEF Hits
<1>2. r = s
  BY <1>1, KeyCells DEF Hits
<1>3. Toggle(t, k, S, d)[c] = [count |-> (t[c].count + d) % CountModulus,
                               slot  |-> SlotAfter(t[c].slot, r, d),
                               hash  |-> SymDiff(t[c].hash, {k})]
  BY DEF Toggle, Hits
<1> HIDE DEF r
<1> QED
  BY <1>2, <1>3 DEF SlotAfter, Changed

\* and no other.
LEMMA ToggleUnused ==
  ASSUME NEW k, NEW S, NEW c, \A s \in S : Cell(k, s) # c, NEW d, NEW t, c \in DOMAIN t
  PROVE  Toggle(t, k, S, d)[c] = t[c]
BY DEF Toggle

\* One more member makes an even set odd and an odd set even.
LEMMA OddFlips ==
  ASSUME NEW S, IsFiniteSet(S), NEW x, x \notin S
  PROVE  Odd(S \cup {x}) <=> ~ Odd(S)
<1>1. Cardinality(S) \in Nat /\ Cardinality(S \cup {x}) = Cardinality(S) + 1
  BY FS_CardinalityType, FS_AddElement
<1>2. \A n \in Nat : (n + 1) % 2 = 1 <=> ~ (n % 2 = 1)
  OBVIOUS
<1> QED
  BY <1>1, <1>2 DEF Odd

\* D is the positions C and one more, j, where k is; c is cell s of k.
Joins(j, k, C, D, o, c, s) ==
  /\ IsFiniteSet(C) /\ j \notin C /\ D = C \cup {j}
  /\ k \in Keys /\ o[j] = k /\ s \in Slot /\ Cell(k, s) = c

\* One more key in a cell it uses: its count, its slot bits and its hash.
LEMMA CountedOnce ==
  ASSUME HashInv, NEW j, NEW k, NEW C, NEW D, NEW o, NEW c, NEW s,
         Joins(j, k, C, D, o, c, s)
  PROVE  /\ Cardinality(Users(C, o, c)) \in Nat
         /\ Cardinality(Users(D, o, c)) = Cardinality(Users(C, o, c)) + 1
         /\ SlotOf(D, o, c) = SymDiff(SlotOf(C, o, c), SlotBits(s))
         /\ HashOf(D, o, c) = SymDiff(HashOf(C, o, c), {k})
<1>0. /\ IsFiniteSet(C) /\ j \notin C /\ D = C \cup {j}
      /\ k \in Keys /\ o[j] = k /\ s \in Slot /\ Cell(k, s) = c
  BY DEF Joins
<1>1. Uses(k, c)
  BY <1>0 DEF Uses
<1>2. /\ Cardinality(Users(C, o, c)) \in Nat
      /\ Cardinality(Users(D, o, c)) = Cardinality(Users(C, o, c)) + 1
  <2>1. Users(D, o, c) = Users(C, o, c) \cup {j} /\ j \notin Users(C, o, c)
    BY <1>0, <1>1 DEF Users
  <2>2. IsFiniteSet(Users(C, o, c))
    BY <1>0, FS_Subset DEF Users
  <2>3. Cardinality(Users(C, o, c) \cup {j}) = Cardinality(Users(C, o, c)) + 1
    BY <2>1, <2>2, FS_AddElement
  <2>4. Cardinality(Users(C, o, c)) \in Nat
    BY <2>2, FS_CardinalityType
  <2> QED
    BY <2>1, <2>3, <2>4
<1>3. SlotOf(D, o, c) = SymDiff(SlotOf(C, o, c), SlotBits(s))
  <2>1. ASSUME NEW b \in {1, 2}
        PROVE  b \in SlotOf(D, o, c) <=> (b \in SlotOf(C, o, c)) # (b = s)
    <3>1. b \in Slot
      BY DEF Slot
    <3>2. Cell(k, b) = c <=> b = s
      BY <1>0, <3>1, KeyCells
    <3>3. CASE b = s
      <4>1. UsersAt(D, o, b, c) = UsersAt(C, o, b, c) \cup {j} /\ j \notin UsersAt(C, o, b, c)
        BY <1>0, <3>2, <3>3 DEF UsersAt
      <4>2. IsFiniteSet(UsersAt(C, o, b, c))
        BY <1>0, FS_Subset DEF UsersAt
      <4>3. Odd(UsersAt(C, o, b, c) \cup {j}) <=> ~ Odd(UsersAt(C, o, b, c))
        BY <4>1, <4>2, OddFlips
      <4>4. Odd(UsersAt(D, o, b, c)) <=> ~ Odd(UsersAt(C, o, b, c))
        BY <4>1, <4>3
      <4> QED
        BY <3>3, <4>4 DEF SlotOf
    <3>4. CASE b # s
      <4>1. UsersAt(D, o, b, c) = UsersAt(C, o, b, c)
        BY <1>0, <3>2, <3>4 DEF UsersAt
      <4> QED
        BY <3>4, <4>1 DEF SlotOf
    <3> QED
      BY <3>3, <3>4
  <2>2. SlotOf(D, o, c) \subseteq {1, 2} /\ SlotOf(C, o, c) \subseteq {1, 2}
    BY DEF SlotOf
  <2>3. \A b \in {1, 2} : b \in SlotBits(s) <=> b = s
    BY DEF SlotBits
  <2>4. SlotBits(s) \subseteq {1, 2}
    BY <1>0 DEF SlotBits, Slot
  <2> QED
    BY <2>1, <2>2, <2>3, <2>4 DEF SymDiff
<1>4. HashOf(D, o, c) = SymDiff(HashOf(C, o, c), {k})
  <2>1. ASSUME NEW m \in Keys
        PROVE  m \in HashOf(D, o, c) <=> (m \in HashOf(C, o, c)) # (m = k)
    <3>1. CASE m = k
      <4>1. Copies(D, o, m) = Copies(C, o, m) \cup {j} /\ j \notin Copies(C, o, m)
        BY <1>0, <3>1 DEF Copies
      <4>2. IsFiniteSet(Copies(C, o, m))
        BY <1>0, FS_Subset DEF Copies
      <4>3. Odd(Copies(C, o, m) \cup {j}) <=> ~ Odd(Copies(C, o, m))
        BY <4>1, <4>2, OddFlips
      <4>4. Odd(Copies(D, o, m)) <=> ~ Odd(Copies(C, o, m))
        BY <4>1, <4>3
      <4> QED
        BY <1>1, <3>1, <4>4 DEF HashOf
    <3>2. CASE m # k
      <4>1. Copies(D, o, m) = Copies(C, o, m)
        BY <1>0, <3>2 DEF Copies
      <4> QED
        BY <3>2, <4>1 DEF HashOf
    <3> QED
      BY <3>1, <3>2
  <2>2. HashOf(D, o, c) \subseteq Keys /\ HashOf(C, o, c) \subseteq Keys
    BY DEF HashOf
  <2>3. k \in Keys
    BY <1>0
  <2> QED
    BY <2>1, <2>2, <2>3 DEF SymDiff
<1> QED
  BY <1>2, <1>3, <1>4

\* A key changes nothing in a cell it does not use.
LEMMA CountedElsewhere ==
  ASSUME NEW C, NEW j, NEW o, NEW c, ~ Uses(o[j], c)
  PROVE  /\ Users(C \cup {j}, o, c) = Users(C, o, c)
         /\ SlotOf(C \cup {j}, o, c) = SlotOf(C, o, c)
         /\ HashOf(C \cup {j}, o, c) = HashOf(C, o, c)
<1>1. Users(C \cup {j}, o, c) = Users(C, o, c)
  BY DEF Users
<1>2. \A b \in {1, 2} : UsersAt(C \cup {j}, o, b, c) = UsersAt(C, o, b, c)
  <2>1. \A b \in {1, 2} : Cell(o[j], b) # c
    BY DEF Uses, Slot
  <2> QED
    BY <2>1 DEF UsersAt
<1>3. \A k \in Keys : Uses(k, c) => Copies(C \cup {j}, o, k) = Copies(C, o, k)
  BY DEF Copies
<1> QED
  BY <1>1, <1>2, <1>3 DEF SlotOf, HashOf

\* What is taken off again was never there.
LEMMA SymDiffTwice ==
  ASSUME NEW A, NEW B
  PROVE  SymDiff(SymDiff(A, B), B) = A
BY DEF SymDiff

(***************************************************************************)
(* Counting a key, and taking it off, keep a cell true to the keys.        *)
(***************************************************************************)
LEMMA CellAdded ==
  ASSUME HashInv, NEW j, NEW k, NEW C, NEW D, NEW o, NEW c, NEW s,
         Joins(j, k, C, D, o, c, s), NEW e, CellIs(e, C, o, c),
         NEW f, f = Changed(e, k, s, 1),
         f.count # 0
  PROVE  CellIs(f, D, o, c) /\ f.count = e.count + 1
<1>0. /\ Cardinality(Users(C, o, c)) \in Nat
      /\ Cardinality(Users(D, o, c)) = Cardinality(Users(C, o, c)) + 1
      /\ SlotOf(D, o, c) = SymDiff(SlotOf(C, o, c), SlotBits(s))
      /\ HashOf(D, o, c) = SymDiff(HashOf(C, o, c), {k})
  BY CountedOnce
<1>1. /\ e.count \in Nat /\ e.count < CountModulus /\ CountModulus \in Nat /\ CountModulus >= 1
      /\ Cardinality(Users(D, o, c)) = e.count + 1
  BY <1>0, PopulateAssumption DEF CellIs
<1>2. \A n \in Nat : n < CountModulus /\ (n + 1) % CountModulus # 0 =>
                       (n + 1) % CountModulus = n + 1 /\ n + 1 < CountModulus
  <2> SUFFICES ASSUME NEW n \in Nat, n < CountModulus, (n + 1) % CountModulus # 0
               PROVE  (n + 1) % CountModulus = n + 1 /\ n + 1 < CountModulus
    OBVIOUS
  <2>1. CASE n + 1 = CountModulus
    <3>1. CountModulus % CountModulus = 0
      BY <1>1
    <3> QED
      BY <2>1, <3>1
  <2>2. CASE n + 1 < CountModulus
    BY <1>1, <2>2
  <2> QED
    BY <1>1, <2>1, <2>2
<1>3. f.count = e.count + 1 /\ f.count < CountModulus
  BY <1>1, <1>2 DEF Changed
<1>4. f.slot = SlotOf(D, o, c) /\ f.hash = HashOf(D, o, c)
  BY <1>0 DEF CellIs, Changed
<1> QED
  BY <1>1, <1>3, <1>4 DEF CellIs

\* The same for a key that leaves: its count goes down by one and no more.
LEMMA CellRemoved ==
  ASSUME HashInv, NEW j, NEW k, NEW C, NEW D, NEW o, NEW c, NEW s,
         Joins(j, k, C, D, o, c, s), NEW e, CellIs(e, D, o, c),
         NEW f, f = Changed(e, k, s, -1)
  PROVE  CellIs(f, C, o, c) /\ e.count = f.count + 1
<1>0. /\ Cardinality(Users(C, o, c)) \in Nat
      /\ Cardinality(Users(D, o, c)) = Cardinality(Users(C, o, c)) + 1
      /\ SlotOf(D, o, c) = SymDiff(SlotOf(C, o, c), SlotBits(s))
      /\ HashOf(D, o, c) = SymDiff(HashOf(C, o, c), {k})
  BY CountedOnce
<1> DEFINE n == Cardinality(Users(C, o, c))
<1>1. n \in Nat /\ e.count = n + 1 /\ n + 1 < CountModulus /\ CountModulus \in Nat
  BY <1>0, PopulateAssumption DEF CellIs
<1> HIDE DEF n
<1>2. f.count = n /\ n < CountModulus
  <2>1. e.count + (-1) = n
    BY <1>1
  <2>2. n % CountModulus = n
    BY <1>1
  <2> QED
    BY <1>1, <2>1, <2>2 DEF Changed
<1>3. f.slot = SlotOf(C, o, c) /\ f.hash = HashOf(C, o, c)
  <2>1. /\ e.slot = SymDiff(SlotOf(C, o, c), SlotBits(s))
        /\ e.hash = SymDiff(HashOf(C, o, c), {k})
    BY <1>0 DEF CellIs, Changed
  <2> QED
    BY <2>1, SymDiffTwice DEF Changed
<1> QED
  BY <1>1, <1>2, <1>3 DEF CellIs, n

-----------------------------------------------------------------------------
(***************************************************************************)
(* The invariant of populate, loop by loop.                                *)
(***************************************************************************)
Entry == [count : 0 .. CountModulus - 1, slot : SUBSET {1, 2}, hash : SUBSET Keys]

Place == 0 .. Len(given)
Free(p) == reverseOrder[p] = NoKey
FreePlaces == {p \in 0 .. size - 1 : Free(p)}

\* Types.  No call spins.
Shape ==
  /\ pc \in {"idle", "seed", "scatter", "count", "peel", "assign", "failed", "built"}
  /\ given \in Inputs
  /\ Geometric(filter)
  /\ pc \in {"scatter", "count", "peel", "assign", "built"} => hash \in [Keys -> Hashes]
  /\ Fingerprints \in [Cells -> 0 .. Pow2[FingerprintBits] - 1]
  /\ keys \in Seq(Keys) /\ Len(keys) = Len(given)
  /\ size \in Place /\ i \in 0 .. size
  /\ duplicates \in Place /\ error \in BOOLEAN
  /\ \A b \in DOMAIN startPos : startPos[b] \in Place
  /\ reverseOrder \in [Place -> Keys \cup {NoKey, Sentinel}]
  /\ reverseH \in Seq(Slot) /\ Len(reverseH) <= Len(given)
  /\ t2 \in [Cells -> Entry]
  /\ alone \in Seq(Cells)

\* The array has all keys, and so has the part of it a round is about.
KeysInv ==
  /\ \A k \in Keys : \E j \in 1 .. Len(given) : keys[j] = k
  /\ pc \in {"idle", "seed", "scatter", "count", "peel"} =>
       \A k \in Keys : \E j \in 1 .. size : keys[j] = k

\* What Init leaves, and what a round begins with.
SeedInv ==
  /\ pc = "idle" => size = Len(given) /\ \A p \in Place : Free(p)
  /\ pc \in {"seed", "scatter"} =>
       /\ ~ Free(size)
       /\ duplicates = 0 /\ ~ error /\ reverseH = <<>>
       /\ t2 = [c \in Cells |-> Nothing]
  /\ pc = "seed" => i = 0 /\ \A p \in 0 .. size - 1 : Free(p)

\* A key takes a free slot; some segment's next slot is the first of every run
\* of free ones.
ScatterInv ==
  pc = "scatter" =>
    /\ i < size
    /\ Cardinality(FreePlaces) = size - i
    /\ \A p \in 0 .. size - 1 : reverseOrder[p] \in Keys \cup {NoKey}
    /\ \A j \in 1 .. i : \E p \in 0 .. size - 1 : reverseOrder[p] = keys[j]
    /\ startPos \in [0 .. block - 1 -> 0 .. size]
    /\ \A p \in 0 .. size - 1 :
         Free(p) /\ (p = 0 \/ ~ Free(p - 1)) => \E b \in 0 .. block - 1 : startPos[b] = p

OrderInv ==
  pc \in {"count", "peel"} =>
    /\ ~ Free(size)
    /\ \A p \in 0 .. size - 1 : reverseOrder[p] \in Keys

\* Of the keys seen the positions C are counted, one of each key at least.
CountedAre(C) ==
  /\ C \subseteq 0 .. i - 1
  /\ Cardinality(C) + duplicates = i
  /\ \A p \in 0 .. i - 1 : \E j \in C : reverseOrder[j] = reverseOrder[p]
  /\ \A c \in Cells : CellIs(t2[c], C, reverseOrder, c)

CountInv ==
  pc = "count" =>
    /\ reverseH = <<>>
    /\ duplicates <= i
    /\ \A k \in Keys : \E p \in 0 .. size - 1 : reverseOrder[p] = k
    /\ ~ error => \E C : CountedAre(C)

\* The stack: its keys, and the cells they left.
Stacked == 0 .. Len(reverseH) - 1
Own(a) == Cell(reverseOrder[a], reverseH[a + 1])
Spent == {Own(a) : a \in Stacked}

StackInv ==
  /\ \A a \in Stacked : reverseOrder[a] \in Keys
  /\ \A a, b \in Stacked : a < b => ~ Uses(reverseOrder[b], Own(a))

\* The positions C of an order o of the keys are still counted, in no cell
\* that a key on the stack left.
LeftAre(C, o) ==
  /\ C \subseteq 0 .. size - 1
  /\ Cardinality(C) + duplicates + Len(reverseH) = size
  /\ \A j \in C : o[j] \in Keys
  /\ \A k \in Keys : (\E j \in C : o[j] = k) \/ (\E a \in Stacked : reverseOrder[a] = k)
  /\ \A j \in C, c \in Spent : ~ Uses(o[j], c)
  /\ \A c \in Cells \ Spent : CellIs(t2[c], C, o, c)

QueueInv ==
  /\ \A a, b \in DOMAIN alone : alone[a] = alone[b] => a = b
  /\ \A a \in DOMAIN alone : alone[a] \notin Spent /\ t2[alone[a]].count <= 1

PeelInv == pc = "peel" => StackInv /\ QueueInv /\ \E C, o : LeftAre(C, o)

AssignInv ==
  pc = "assign" =>
    /\ StackInv
    /\ size = Len(reverseH)
    /\ \A k \in Keys : \E a \in Stacked : reverseOrder[a] = k
    /\ \A a \in i .. size - 1 : binary_fuse8_contain(reverseOrder[a])

BuiltInv == pc = "built" => \A k \in Keys : binary_fuse8_contain(k)

FuseInv ==
  /\ Shape /\ KeysInv /\ SeedInv /\ ScatterInv /\ OrderInv
  /\ CountInv /\ PeelInv /\ AssignInv /\ BuiltInv

-----------------------------------------------------------------------------
(***************************************************************************)
(* What every step knows, and what it leaves alone.                        *)
(***************************************************************************)
LEMMA GeometricType ==
  ASSUME NEW f, Geometric(f)
  PROVE  /\ f.SegmentLength \in Nat /\ f.SegmentLength >= 1
         /\ f.SegmentCount \in Nat /\ f.SegmentCount >= 1
         /\ f.SegmentCountLength \in Nat /\ f.SegmentCountLength >= 1
         /\ f.ArrayLength \in Nat /\ f.SegmentCount < f.ArrayLength
         /\ f.ArrayLength < Pow2[CountBits]
<1> DEFINE L == f.SegmentLength
           n == f.SegmentCount
           p == n * L
<1>1. L \in Nat /\ L >= 1
  BY FuseWidths, Pow2Type DEF Geometric
<1>2. n \in Nat /\ n >= 1
  BY DEF Geometric
<1>3. \A a, b \in Nat : b >= 1 => a * b \in Nat /\ a <= a * b /\ (a + 2) * b = a * b + 2 * b
  OBVIOUS
<1>4. p \in Nat /\ n <= p /\ (n + 2) * L = p + 2 * L
  BY <1>1, <1>2, <1>3
<1>5. f.SegmentCountLength = p /\ f.ArrayLength = p + 2 * L /\ f.ArrayLength < Pow2[CountBits]
  BY <1>4 DEF Geometric
<1> HIDE DEF L, n, p
<1>6. /\ f.SegmentCountLength \in Nat /\ f.SegmentCountLength >= 1
      /\ f.ArrayLength \in Nat /\ n < f.ArrayLength
  BY <1>1, <1>2, <1>4, <1>5
<1> QED
  BY <1>1, <1>2, <1>5, <1>6 DEF L, n

\* What the types and the assumptions say of the sizes and the sets.
LEMMA ShapeFacts ==
  ASSUME Shape
  PROVE  /\ given \in Seq(Keys) /\ Len(given) \in Nat
         /\ NoKey \notin Keys /\ Sentinel # NoKey
         /\ CountModulus \in Nat /\ CountModulus >= 1
         /\ filter.ArrayLength \in Nat /\ IsFiniteSet(Cells)
         /\ Cardinality(Cells) = filter.ArrayLength
         /\ Nothing \in Entry
<1>1. given \in Seq(Keys) /\ NoKey \notin Keys /\ Sentinel # NoKey
  BY PopulateAssumption DEF Shape, Keys
<1>2. CountModulus \in Nat /\ CountModulus >= 1
  BY PopulateAssumption
<1>3. Len(given) \in Nat
  BY <1>1, LenProperties
<1>4. Nothing \in Entry
  BY <1>2 DEF Nothing, Entry
<1>5. filter.ArrayLength \in Nat
  BY GeometricType DEF Shape
<1>6. IsFiniteSet(Cells) /\ Cardinality(Cells) = filter.ArrayLength
  BY <1>5, FS_Interval DEF Cells
<1> QED
  BY <1>1, <1>2, <1>3, <1>4, <1>5, <1>6

\* The caller's data and the filter's size stay.
LEMMA SameSets ==
  ASSUME UNCHANGED <<given, filter>>
  PROVE  Keys' = Keys /\ Cells' = Cells /\ Entry' = Entry /\ Place' = Place
BY DEF Keys, Cells, Entry, Place

\* A filter fresh from allocate, and an array nobody has touched.
LEMMA FuseInit ==
  Init => FuseInv
<1> SUFFICES ASSUME Init PROVE FuseInv
  OBVIOUS
<1>1. given \in Inputs /\ given \in Seq(Keys) /\ Len(given) \in Nat
  <2>1. given \in Inputs
    BY DEF Init
  <2>2. given \in Seq(Keys)
    BY <2>1, PopulateAssumption DEF Keys
  <2> QED
    BY <2>1, <2>2, LenProperties
<1>2. Geometric(filter)
  <2>1. PICK length \in Lengths, capacity \in Capacities, n \in {0, Len(given)} :
               filter = allocate(n, length, capacity)
    BY DEF Init
  <2>2. PICK e \in 0 .. length : length = Pow2[e]
    BY PopulateAssumption
  <2>3. n \in Nat /\ capacity \in Nat
    BY <1>1, PopulateAssumption
  <2>4. e \in Nat
    BY <2>2
  <2>5. Geometric(allocate(n, Pow2[e], capacity))
    BY <2>3, <2>4, AllocateGeometric
  <2> QED
    BY <2>1, <2>2, <2>5
<1>3. /\ pc = "idle" /\ keys = given /\ size = Len(given) /\ i = 0 /\ duplicates = 0
      /\ error = FALSE /\ startPos = <<>> /\ reverseH = <<>> /\ alone = <<>>
      /\ reverseOrder = [j \in 0 .. size |-> NoKey]
      /\ t2 = [c \in Cells |-> Nothing] /\ Fingerprints = [c \in Cells |-> 0]
  BY DEF Init
<1>4. Pow2[FingerprintBits] \in Nat /\ Pow2[FingerprintBits] >= 1
  BY FuseWidths, Pow2Type
<1>5. Nothing \in Entry
  BY PopulateAssumption DEF Nothing, Entry
<1>6. Shape
  <2>1. Fingerprints \in [Cells -> 0 .. Pow2[FingerprintBits] - 1]
    BY <1>3, <1>4
  <2>2. t2 \in [Cells -> Entry]
    BY <1>3, <1>5
  <2>3. size \in Place /\ i \in 0 .. size /\ duplicates \in Place
    BY <1>1, <1>3 DEF Place
  <2>7. error \in BOOLEAN
    BY <1>3
  <2>4. reverseOrder \in [Place -> Keys \cup {NoKey, Sentinel}]
    BY <1>3 DEF Place
  <2>5. reverseH \in Seq(Slot) /\ Len(reverseH) <= Len(given) /\ alone \in Seq(Cells)
    BY <1>1, <1>3, EmptySeq
  <2>6. DOMAIN startPos = {}
    BY <1>3
  <2> QED
    BY <1>1, <1>2, <1>3, <2>1, <2>2, <2>3, <2>4, <2>5, <2>6, <2>7 DEF Shape
<1>7. KeysInv
  <2>1. \A k \in Keys : \E j \in 1 .. Len(given) : given[j] = k
    <3>1. DOMAIN given = 1 .. Len(given)
      BY <1>1, LenProperties
    <3> QED
      BY <3>1 DEF Keys, ToSet
  <2> QED
    BY <1>3, <2>1 DEF KeysInv
<1>8. SeedInv
  BY <1>1, <1>3 DEF SeedInv, Free, Place
<1> QED
  BY <1>3, <1>6, <1>7, <1>8
     DEF FuseInv, ScatterInv, OrderInv, CountInv, PeelInv, AssignInv, BuiltInv

\* A round on the first m keys can begin with these tables.
Fresh(m, ks, order) ==
  /\ m \in Place
  /\ ks \in Seq(Keys) /\ Len(ks) = Len(given)
  /\ \A k \in Keys : \E j \in 1 .. m : ks[j] = k
  /\ order \in [Place -> Keys \cup {NoKey, Sentinel}]
  /\ order[m] # NoKey
  /\ \A p \in 0 .. m - 1 : order[p] = NoKey

\* A round that begins on clean tables satisfies the invariant.
LEMMA RoundBegins ==
  ASSUME Shape, NEW n, NEW m, NEW ks, NEW order, Fresh(m, ks, order), BeginRound(n, m, ks, order)
  PROVE  FuseInv'
<1> USE ShapeFacts
<1>0. UNCHANGED <<given, filter>>
  BY DEF BeginRound
<1>1. Keys' = Keys /\ Cells' = Cells /\ Entry' = Entry /\ Place' = Place
  BY <1>0, SameSets
<1>2. /\ pc' \in {"seed", "failed"} /\ size' = m /\ i' = 0 /\ duplicates' = 0 /\ error' = FALSE
      /\ keys' = ks /\ reverseOrder' = order /\ startPos' = <<>> /\ reverseH' = <<>>
      /\ t2' = [c \in Cells |-> Nothing]
      /\ UNCHANGED <<filter, given, Fingerprints, alone>>
  BY DEF BeginRound
<1>3. m \in 0 .. Len(given)
  BY DEF Fresh, Place
<1>4. Shape'
  <2>1. (Fingerprints \in [Cells -> 0 .. Pow2[FingerprintBits] - 1])'
    BY <1>1, <1>2 DEF Shape
  <2>2. (t2 \in [Cells -> Entry])'
    BY <1>1, <1>2
  <2>3. (size \in Place /\ i \in 0 .. size /\ duplicates \in Place)'
    BY <1>1, <1>2, <1>3 DEF Place
  <2>9. error' \in BOOLEAN
    BY <1>2
  <2>4. (reverseOrder \in [Place -> Keys \cup {NoKey, Sentinel}])'
    BY <1>1, <1>2 DEF Fresh
  <2>5. (reverseH \in Seq(Slot) /\ Len(reverseH) <= Len(given))' 
    BY <1>2, EmptySeq
  <2>6. DOMAIN startPos' = {}
    BY <1>2
  <2>7. (keys \in Seq(Keys) /\ Len(keys) = Len(given))'
    BY <1>1, <1>2 DEF Fresh
  <2>8. (given \in Inputs /\ Geometric(filter) /\ alone \in Seq(Cells))'
    BY <1>1, <1>2 DEF Shape, Geometric
  <2> QED
    BY <1>2, <2>1, <2>2, <2>3, <2>4, <2>5, <2>6, <2>7, <2>8, <2>9 DEF Shape
<1>5. KeysInv'
  <2>1. \A k \in Keys : \E j \in 1 .. m : ks[j] = k
    BY DEF Fresh
  <2>2. \A j \in 1 .. m : j \in 1 .. Len(given)
    BY <1>3
  <2>3. \A k \in Keys : \E j \in 1 .. Len(given) : ks[j] = k
    BY <2>1, <2>2
  <2> QED
    BY <1>1, <1>2, <2>1, <2>3 DEF KeysInv
<1>6. SeedInv'
  <2>1. Cells' = Cells /\ Nothing' = Nothing
    BY <1>1 DEF Nothing
  <2> QED
    BY <1>2, <2>1 DEF SeedInv, Free, Fresh
<1> QED
  BY <1>2, <1>4, <1>5, <1>6
     DEF FuseInv, ScatterInv, OrderInv, CountInv, PeelInv, AssignInv, BuiltInv

\* The first round (:217, :240).
LEMMA FuseStart ==
  ASSUME FuseInv, Start
  PROVE  FuseInv'
<1>1. Shape /\ size = Len(given) /\ pc = "idle"
  BY DEF FuseInv, SeedInv, Start
<1>2. Len(given) \in Nat /\ Sentinel # NoKey
  BY <1>1, ShapeFacts
<1> DEFINE order == [reverseOrder EXCEPT ![size] = Sentinel]
<1>3. Fresh(size, keys, order)
  <2>1. size \in Place /\ keys \in Seq(Keys) /\ Len(keys) = Len(given)
    BY <1>1 DEF Shape
  <2>2. \A k \in Keys : \E j \in 1 .. size : keys[j] = k
    BY <1>1 DEF FuseInv, KeysInv
  <2>3. reverseOrder \in [Place -> Keys \cup {NoKey, Sentinel}]
    BY <1>1 DEF Shape
  <2>4. order \in [Place -> Keys \cup {NoKey, Sentinel}] /\ order[size] = Sentinel
    BY <2>1, <2>3
  <2>5. \A p \in 0 .. size - 1 : p \in Place /\ p # size
    BY <1>1, <1>2 DEF Place
  <2>6. \A p \in 0 .. size - 1 : order[p] = NoKey
    BY <1>1, <2>3, <2>5 DEF FuseInv, SeedInv, Free
  <2> QED
    BY <1>2, <2>1, <2>2, <2>4, <2>6 DEF Fresh
<1>4. BeginRound(0, size, keys, order)
  BY DEF Start
<1> QED
  BY <1>1, <1>3, <1>4, RoundBegins

\* Clearing n places keeps the one behind them taken.
LEMMA ClearedFresh ==
  ASSUME Shape, OrderInv, pc \in {"count", "peel"}, NEW n \in 0 .. size
  PROVE  /\ Cleared(n) \in [Place -> Keys \cup {NoKey, Sentinel}]
         /\ Cleared(n)[n] # NoKey
         /\ \A p \in 0 .. n - 1 : Cleared(n)[p] = NoKey
<1>1. Len(given) \in Nat /\ NoKey \notin Keys
  BY ShapeFacts
<1>2. size \in 0 .. Len(given) /\ reverseOrder \in [Place -> Keys \cup {NoKey, Sentinel}]
  BY DEF Shape, Place
<1>3. reverseOrder[n] # NoKey
  <2>1. CASE n = size
    BY <2>1 DEF OrderInv, Free
  <2>2. CASE n # size
    <3>1. n \in 0 .. size - 1
      BY <1>1, <1>2, <2>2
    <3> QED
      BY <1>1, <3>1 DEF OrderInv
  <2> QED
    BY <2>1, <2>2
<1>4. n \in Place /\ \A p \in 0 .. n - 1 : p \in Place /\ p < n
  BY <1>1, <1>2 DEF Place
<1>5. DOMAIN reverseOrder = Place
  BY <1>2
<1>6. Cleared(n) = [j \in Place |-> IF j < n THEN NoKey ELSE reverseOrder[j]]
  BY <1>5 DEF Cleared
<1>7. ~ (n < n)
  BY <1>1, <1>2
<1> QED
  BY <1>2, <1>3, <1>4, <1>6, <1>7

\* A cell had more keys than six bits count (:283-293).
LEMMA FuseCountFailed ==
  ASSUME FuseInv, CountFailed
  PROVE  FuseInv'
<1>1. Shape /\ OrderInv /\ pc = "count"
  BY DEF FuseInv, CountFailed
<1>2. size \in 0 .. size
  BY <1>1, ShapeFacts DEF Shape, Place
<1>3. Fresh(size, keys, Cleared(size))
  <2>1. \A k \in Keys : \E j \in 1 .. size : keys[j] = k
    BY <1>1 DEF FuseInv, KeysInv
  <2> QED
    BY <1>1, <1>2, <2>1, ClearedFresh DEF Fresh, Shape
<1>4. BeginRound(loop + 1, size, keys, Cleared(size))
  BY DEF CountFailed
<1> QED
  BY <1>1, <1>3, <1>4, RoundBegins

\* What binary_fuse_sort_and_remove_dup makes of keys when the sort orders
\* them as p says: n of them are kept.
Sorting(p, sorted, n, ks) ==
  /\ p \in Bijection(1 .. size, 1 .. size)
  /\ sorted = [j \in 1 .. size |-> keys[p[j]]]
  /\ n = Cardinality(Kept(sorted))
  /\ ks = remove_dup(sorted) \o SubSeq(keys, size + 1, Len(keys))

\* Whatever order the sort leaves, all keys are among those kept.
LEMMA KeptKeys ==
  ASSUME Shape, \A k \in Keys : \E j \in 1 .. size : keys[j] = k,
         NEW p, NEW sorted, NEW n, NEW ks, Sorting(p, sorted, n, ks)
  PROVE  /\ n \in 0 .. size
         /\ ks \in Seq(Keys) /\ Len(ks) = Len(given)
         /\ \A k \in Keys : \E j \in 1 .. n : ks[j] = k
<1>1. Len(given) \in Nat /\ size \in Nat /\ size <= Len(given)
  BY ShapeFacts DEF Shape, Place
<1>2. keys \in Seq(Keys) /\ Len(keys) = Len(given) /\ keys \in [1 .. Len(given) -> Keys]
  BY LenProperties DEF Shape
<1>3. p \in [1 .. size -> 1 .. size] /\ \A t \in 1 .. size : \E s \in 1 .. size : p[s] = t
  BY DEF Sorting, Bijection, Injection, Surjection
<1>4. sorted \in [1 .. size -> Keys]
  <2>1. ASSUME NEW j \in 1 .. size PROVE keys[p[j]] \in Keys
    <3>1. p[j] \in 1 .. size
      BY <1>3
    <3>2. p[j] \in 1 .. Len(given)
      BY <1>1, <3>1
    <3> QED
      BY <1>2, <3>2
  <2> QED
    BY <2>1 DEF Sorting
<1>5. sorted \in Seq(Keys) /\ Len(sorted) = size
  BY <1>1, <1>4
<1> DEFINE r == remove_dup(sorted)
           rest == SubSeq(keys, size + 1, Len(keys))
<1> HIDE DEF r, rest
<1>6. /\ n \in 0 .. size /\ r \in Seq(Keys) /\ Len(r) = size
      /\ \A j \in 1 .. size : \E m \in 1 .. n : r[m] = sorted[j]
  <2>1. /\ Cardinality(Kept(sorted)) \in 0 .. Len(sorted)
        /\ remove_dup(sorted) \in Seq(Keys) /\ Len(remove_dup(sorted)) = Len(sorted)
        /\ \A j \in 1 .. Len(sorted) :
             \E m \in 1 .. Cardinality(Kept(sorted)) : remove_dup(sorted)[m] = sorted[j]
    BY <1>5, RemoveDupKeeps
  <2>2. n = Cardinality(Kept(sorted))
    BY DEF Sorting
  <2> QED
    BY <1>5, <2>1, <2>2 DEF r
<1>7. rest \in Seq(Keys) /\ Len(rest) = Len(given) - size
  <2>1. \A j \in size + 1 .. Len(keys) : keys[j] \in Keys
    BY <1>1, <1>2
  <2>2. size + 1 \in Int /\ Len(keys) \in Int
    BY <1>1, <1>2
  <2>3. /\ rest \in Seq(Keys)
        /\ Len(rest) = IF size + 1 <= Len(keys) THEN Len(keys) - (size + 1) + 1 ELSE 0
    BY <2>1, <2>2, SubSeqProperties DEF rest
  <2>4. Len(keys) = Len(given)
    BY <1>2
  <2>5. \A a, b \in Nat : a <= b => (IF a + 1 <= b THEN b - (a + 1) + 1 ELSE 0) = b - a
    OBVIOUS
  <2>6. Len(rest) = Len(given) - size
    BY <1>1, <2>3, <2>4, <2>5
  <2> QED
    BY <2>3, <2>6
<1>8. /\ ks \in Seq(Keys) /\ Len(ks) = Len(given)
      /\ \A m \in 1 .. size : ks[m] = r[m]
  <2>1. ks = r \o rest
    BY DEF r, rest, Sorting
  <2>2. /\ r \o rest \in Seq(Keys)
        /\ Len(r \o rest) = Len(r) + Len(rest)
        /\ \A m \in 1 .. Len(r) + Len(rest) :
             (r \o rest)[m] = IF m <= Len(r) THEN r[m] ELSE rest[m - Len(r)]
    <3>1. r \in Seq(Keys) /\ rest \in Seq(Keys)
      BY <1>6, <1>7
    <3> QED
      BY <3>1, ConcatProperties, Zenon
  <2>3. Len(r) + Len(rest) = Len(given) /\ Len(r) = size
    BY <1>1, <1>6, <1>7
  <2>4. ks \in Seq(Keys)
    BY <2>1, <2>2
  <2>5. Len(ks) = Len(given)
    BY <2>1, <2>2, <2>3
  <2>6. ASSUME NEW m \in 1 .. size PROVE ks[m] = r[m]
    <3>1. m \in 1 .. Len(r) + Len(rest) /\ m <= Len(r)
      BY <1>1, <2>3
    <3> QED
      BY <2>1, <2>2, <3>1
  <2> QED
    BY <2>4, <2>5, <2>6
<1>9. ASSUME NEW k \in Keys
      PROVE  \E j \in 1 .. n : ks[j] = k
  <2>1. PICK j \in 1 .. size : keys[j] = k
    OBVIOUS
  <2>2. PICK s \in 1 .. size : p[s] = j
    BY <1>3
  <2>3. sorted[s] = k
    BY <2>1, <2>2 DEF Sorting
  <2>4. PICK m \in 1 .. n : r[m] = sorted[s]
    BY <1>6
  <2>5. m \in 1 .. size
    BY <1>1, <1>6
  <2> QED
    BY <1>8, <2>3, <2>4, <2>5
<1> QED
  BY <1>6, <1>8, <1>9

\* Some keys would not peel (:335-341).
LEMMA FuseRetry ==
  ASSUME FuseInv, Retry
  PROVE  FuseInv'
<1>1. Shape /\ OrderInv /\ pc = "peel" /\ size \in 0 .. size
  <2>1. Shape /\ OrderInv /\ pc = "peel"
    BY DEF FuseInv, Retry
  <2> QED
    BY <2>1, ShapeFacts DEF Shape, Place
<1>2. \A k \in Keys : \E j \in 1 .. size : keys[j] = k
  BY <1>1 DEF FuseInv, KeysInv
<1>3. CASE duplicates = 0
  <2>1. Fresh(size, keys, Cleared(size))
    BY <1>1, <1>2, ClearedFresh DEF Fresh, Shape
  <2>2. BeginRound(loop + 1, size, keys, Cleared(size))
    BY <1>3 DEF Retry
  <2> QED
    BY <1>1, <2>1, <2>2, RoundBegins
<1>4. CASE duplicates # 0
  <2>1. PICK p \in Bijection(1 .. size, 1 .. size) :
          LET sorted == [j \in 1 .. size |-> keys[p[j]]]
              n      == Cardinality(Kept(sorted))
          IN  BeginRound(loop + 1, n,
                remove_dup(sorted) \o SubSeq(keys, size + 1, Len(keys)), Cleared(n))
    BY <1>4 DEF Retry
  <2> DEFINE sorted == [j \in 1 .. size |-> keys[p[j]]]
             n      == Cardinality(Kept(sorted))
             ks     == remove_dup(sorted) \o SubSeq(keys, size + 1, Len(keys))
  <2>2. BeginRound(loop + 1, n, ks, Cleared(n))
    BY <2>1
  <2>3. /\ n \in 0 .. size
        /\ ks \in Seq(Keys) /\ Len(ks) = Len(given)
        /\ \A k \in Keys : \E j \in 1 .. n : ks[j] = k
    <3>1. Sorting(p, sorted, n, ks)
      BY DEF Sorting
    <3> HIDE DEF sorted, n, ks
    <3> QED
      BY <1>1, <1>2, <3>1, KeptKeys
  <2> HIDE DEF sorted, n, ks
  <2>4. n \in Place
    BY <1>1, <2>3, ShapeFacts DEF Shape, Place
  <2>5. Fresh(n, ks, Cleared(n))
    BY <1>1, <2>3, <2>4, ClearedFresh DEF Fresh
  <2> QED
    BY <1>1, <2>2, <2>5, RoundBegins
<1> QED
  BY <1>3, <1>4

-----------------------------------------------------------------------------
(***************************************************************************)
(* Seeding and scattering.                                                 *)
(***************************************************************************)
\* There are as many segments to begin at as a power of two of 32 bits.
LEMMA BlockType ==
  ASSUME Geometric(filter)
  PROVE  block \in Nat /\ block >= 1 /\ block <= Pow2[CountBits]
<1> DEFINE n == filter.SegmentCount
           Powers == {Pow2[e] : e \in 1 .. CountBits}
           Fits(b) == b >= n /\ (b = 2 \/ b \div 2 < n)
           Large == {e \in 1 .. CountBits : Pow2[e] >= n}
<1>1. n \in Nat /\ n < Pow2[CountBits] /\ CountBits \in 1 .. CountBits
  <2>1. n \in Nat /\ n < filter.ArrayLength /\ filter.ArrayLength < Pow2[CountBits]
        /\ filter.ArrayLength \in Nat
    BY GeometricType
  <2>2. Pow2[CountBits] \in Nat /\ CountBits \in Nat /\ CountBits >= 1
    BY FuseWidths, Pow2Type
  <2> QED
    BY <2>1, <2>2
<1>2. \A e \in 1 .. CountBits : e \in Nat /\ Pow2[e] \in Nat
  BY FuseWidths, Pow2Type
<1>3. PICK e \in Large : \A d \in Large : e <= d
  <2>1. Large \subseteq Nat
    BY <1>2
  <2>2. CountBits \in Large
    BY <1>1, <1>2
  <2> HIDE DEF Large
  <2> QED
    BY <2>1, <2>2, LeastNatural
<1>4. Pow2[e] \in Powers /\ Fits(Pow2[e])
  <2>1. e \in 1 .. CountBits /\ Pow2[e] >= n /\ Pow2[e] \in Nat
    BY <1>2, <1>3
  <2>2. CASE e = 1
    <3>1. Pow2[1] = 2
      BY Pow2Step
    <3> QED
      BY <2>1, <2>2, <3>1
  <2>3. CASE e # 1
    <3>1. e - 1 \in 1 .. CountBits /\ ~ (e <= e - 1)
      BY <2>1, <2>3, FuseWidths
    <3>2. ~ (Pow2[e - 1] >= n)
      BY <1>3, <3>1
    <3>3. Pow2[e - 1] \in Nat /\ Pow2[(e - 1) + 1] = 2 * Pow2[e - 1] /\ (e - 1) + 1 = e
      BY <1>2, <2>1, <3>1, Pow2Step
    <3>4. Pow2[e] = 2 * Pow2[e - 1]
      BY <3>3
    <3>5. \A d \in Nat : (2 * d) \div 2 = d
      OBVIOUS
    <3>6. Pow2[e] \div 2 = Pow2[e - 1]
      BY <3>3, <3>4, <3>5
    <3>7. Pow2[e] \div 2 < n
      BY <1>1, <3>2, <3>3, <3>6
    <3> QED
      BY <2>1, <3>7
  <2> QED
    BY <2>2, <2>3
<1>5. block = CHOOSE b \in Powers : Fits(b)
  BY DEF block
<1> HIDE DEF Fits
<1>6. block \in Powers
  BY <1>4, <1>5
<1>7. \A b \in Powers : b \in Nat /\ b >= 1 /\ b <= Pow2[CountBits]
  <2>1. \A d \in 1 .. CountBits : d \in Nat /\ CountBits \in Nat /\ d <= CountBits
    BY FuseWidths
  <2> QED
    BY <2>1, Pow2Type, Pow2Monotone
<1> QED
  BY <1>6, <1>7

\* The segments begin where keys can be, the first at the first place.
LEMMA StartsType ==
  ASSUME Geometric(filter), NEW n \in Nat
  PROVE  StartsOf(n) \in [0 .. block - 1 -> 0 .. n] /\ StartsOf(n)[0] = 0
<1>1. block \in Nat /\ block >= 1
  BY BlockType
<1> DEFINE B == block
<1> HIDE DEF B
<1>2. B \in Nat /\ B >= 1
  BY <1>1 DEF B
<1>3. ASSUME NEW b \in 0 .. B - 1
      PROVE  Wrap(b * n) \div B \in 0 .. n
  <2> DEFINE p == b * n
             m == Pow2[CountBits]
  <2>1. p \in Nat /\ p <= B * n /\ B * n \in Nat
    BY <1>2
  <2>2. m \in Nat /\ m >= 1
    BY FuseWidths, Pow2Type
  <2>3. p < B * n + B
    BY <1>2, <2>1
  <2>4. B * n + B = B * (n + 1)
    BY <1>2
  <2>5. p < B * (n + 1)
    BY <2>3, <2>4
  <2> HIDE DEF p, m
  <2>6. p % m \in Nat /\ p % m <= p
    BY <2>1, <2>2
  <2>7. (p % m) < B * (n + 1)
    <3> DEFINE q == B * (n + 1)
    <3>1. q \in Nat
      BY <1>2
    <3> HIDE DEF q
    <3>2. p < q
      BY <2>5 DEF q
    <3>3. p % m < q
      BY <2>1, <2>6, <3>1, <3>2
    <3> QED
      BY <3>3 DEF q
  <2>8. (p % m) \div B < n + 1 /\ (p % m) \div B \in Nat
    BY <1>2, <2>6, <2>7, QuotientBound, Quotient
  <2>9. Wrap(b * n) = p % m
    BY DEF Wrap, p, m
  <2> QED
    BY <2>8, <2>9
<1>4. StartsOf(n) = [b \in 0 .. B - 1 |-> Wrap(b * n) \div B]
  BY DEF StartsOf, B
<1>5. 0 \in 0 .. B - 1 /\ 0 * n = 0
  BY <1>2
<1>6. Wrap(0) = 0
  BY WrapFits, FuseWidths, Pow2Type
<1>7. 0 \div B = 0
  BY <1>2
<1>8. StartsOf(n)[0] = 0
  BY <1>4, <1>5, <1>6, <1>7
<1> QED
  BY <1>3, <1>4, <1>8 DEF B

\* With no keys counted a cell is empty.
LEMMA NothingCounted ==
  ASSUME NEW o, NEW c
  PROVE  CellIs(Nothing, {}, o, c)'
<1>1. CountModulus \in Nat /\ CountModulus >= 1
  BY PopulateAssumption
<1>2. /\ Users({}, o, c)' = {}
      /\ \A b : UsersAt({}, o, b, c)' = {}
      /\ \A k : Copies({}, o, k) = {}
  BY DEF Users, UsersAt, Copies
<1>3. ~ Odd({}) /\ Cardinality({}) = 0
  BY FS_EmptySet DEF Odd
<1>4. SlotOf({}, o, c)' = {}
  BY <1>2, <1>3 DEF SlotOf
<1>5. HashOf({}, o, c)' = {}
  BY <1>2, <1>3 DEF HashOf
<1> QED
  BY <1>1, <1>2, <1>3, <1>4, <1>5 DEF CellIs, Nothing

\* The keys of the array are those of the caller.
LEMMA SameKeys ==
  ASSUME Shape, KeysInv
  PROVE  ToSet(keys) = Keys
<1>1. DOMAIN keys = 1 .. Len(given) /\ \A j \in 1 .. Len(given) : keys[j] \in Keys
  BY LenProperties DEF Shape
<1>2. \A k \in Keys : \E j \in 1 .. Len(given) : keys[j] = k
  BY DEF KeysInv
<1> QED
  BY <1>1, <1>2 DEF ToSet

\* A new seed, and where the segments start (:248-250).
LEMMA FuseReseed ==
  ASSUME FuseInv, Reseed
  PROVE  FuseInv'
<1>1. Shape /\ KeysInv /\ SeedInv /\ pc = "seed"
  BY DEF FuseInv, Reseed
<1>2. /\ i = 0 /\ (\A p \in 0 .. size - 1 : Free(p)) /\ ~ Free(size)
      /\ duplicates = 0 /\ ~ error /\ reverseH = <<>>
      /\ t2 = [c \in Cells |-> Nothing]
  BY <1>1 DEF SeedInv
<1>3. /\ pc' = IF size = 0 THEN "count" ELSE "scatter"
      /\ hash' \in Injection(ToSet(keys), Hashes)
      /\ startPos' = StartsOf(size)
      /\ UNCHANGED <<filter, given, keys, Fingerprints, size, loop, i, reverseOrder,
                     t2, duplicates, error, reverseH, alone>>
  BY DEF Reseed, caller, counts
<1>4. Keys' = Keys /\ Cells' = Cells /\ Entry' = Entry /\ Place' = Place
  BY <1>3, SameSets
<1>5. size \in Nat /\ size \in 0 .. Len(given) /\ Len(given) \in Nat
  BY <1>1, ShapeFacts DEF Shape, Place
<1>6. hash' \in [Keys -> Hashes]
  BY <1>1, <1>3, SameKeys DEF Injection
<1>7. Geometric(filter) /\ startPos' \in [0 .. block - 1 -> 0 .. size] /\ startPos'[0] = 0
      /\ block \in Nat /\ block >= 1
  BY <1>1, <1>3, <1>5, StartsType, BlockType DEF Shape
<1>8. Shape'
  <2>1. pc' \in {"count", "scatter"}
    BY <1>3
  <2>2. \A b \in DOMAIN startPos' : startPos'[b] \in Place
    BY <1>5, <1>7 DEF Place
  <2> QED
    BY <1>1, <1>3, <1>4, <1>6, <2>1, <2>2 DEF Shape, Geometric
<1>9. KeysInv'
  BY <1>1, <1>3, <1>4 DEF KeysInv
<1>10. block' = block
  BY <1>3 DEF block
<1>11. CASE size = 0
  <2>1. pc' = "count"
    BY <1>3, <1>11
  <2>2. Keys = {}
    BY <1>1, <1>11 DEF KeysInv
  <2>3. OrderInv' /\ ~ (pc' \in {"seed", "scatter"})
    BY <1>2, <1>3, <1>11 DEF OrderInv, Free
  <2>4. CountedAre({})'
    <3>1. /\ {} \subseteq (0 .. i - 1)'
          /\ Cardinality({}) + duplicates' = i'
      BY <1>2, <1>3, FS_EmptySet
    <3>2. (\A p \in 0 .. i - 1 : \E j \in {} : reverseOrder[j] = reverseOrder[p])'
      BY <1>2, <1>3
    <3>3. (\A c \in Cells : CellIs(t2[c], {}, reverseOrder, c))'
      <4> SUFFICES ASSUME NEW c \in Cells' PROVE CellIs(t2[c], {}, reverseOrder, c)'
        OBVIOUS
      <4>1. t2'[c] = Nothing
        BY <1>2, <1>3, <1>4
      <4>2. CellIs(Nothing, {}, reverseOrder, c)'
        BY NothingCounted
      <4> QED
        BY <4>1, <4>2 DEF CellIs
    <3> QED
      BY <3>1, <3>2, <3>3 DEF CountedAre
  <2>5. CountInv'
    BY <1>2, <1>3, <1>4, <2>2, <2>4 DEF CountInv
  <2> QED
    BY <1>8, <1>9, <2>1, <2>3, <2>5
       DEF FuseInv, SeedInv, ScatterInv, PeelInv, AssignInv, BuiltInv
<1>12. CASE size # 0
  <2>1. pc' = "scatter"
    BY <1>3, <1>12
  <2>2. SeedInv'
    BY <1>2, <1>3, <1>4, <2>1 DEF SeedInv, Free, Nothing
  <2>3. ScatterInv'
    <3>1. FreePlaces' = 0 .. size - 1
      BY <1>2, <1>3 DEF FreePlaces, Free
    <3>2. Cardinality(0 .. size - 1) = size
      BY <1>5, FS_Interval
    <3>3. i' < size' /\ Cardinality(FreePlaces') = size' - i'
      BY <1>2, <1>3, <1>5, <1>12, <3>1, <3>2
    <3>4. \A p \in 0 .. size' - 1 : reverseOrder'[p] \in Keys' \cup {NoKey}
      BY <1>2, <1>3 DEF Free
    <3>5. \A j \in 1 .. i' : \E p \in 0 .. size' - 1 : reverseOrder'[p] = keys'[j]
      BY <1>2, <1>3
    <3>6. startPos' \in [0 .. block' - 1 -> 0 .. size']
      BY <1>3, <1>7, <1>10
    <3>7. \A p \in 0 .. size' - 1 :
            Free(p)' /\ (p = 0 \/ ~ Free(p - 1)') => \E b \in 0 .. block' - 1 : startPos'[b] = p
      <4> SUFFICES ASSUME NEW p \in 0 .. size - 1, p = 0 \/ ~ Free(p - 1)'
                   PROVE  \E b \in 0 .. block - 1 : startPos'[b] = p
        BY <1>3, <1>10
      <4>1. p = 0
        <5>1. CASE p # 0
          <6>1. p - 1 \in 0 .. size - 1
            BY <1>5, <5>1
          <6>2. Free(p - 1)'
            BY <1>2, <1>3, <6>1 DEF Free
          <6> QED
            BY <5>1, <6>2
        <5> QED
          BY <5>1
      <4>2. 0 \in 0 .. block - 1
        BY <1>7
      <4> QED
        BY <1>7, <4>1, <4>2
    <3> QED
      BY <3>3, <3>4, <3>5, <3>6, <3>7 DEF ScatterInv
  <2> QED
    BY <1>8, <1>9, <2>1, <2>2, <2>3
       DEF FuseInv, OrderInv, CountInv, PeelInv, AssignInv, BuiltInv
<1> QED
  BY <1>5, <1>11, <1>12

\* Going on from any segment in a circle one comes to every segment.
LEMMA SegmentReached ==
  ASSUME NEW B \in Nat, B >= 1, NEW own \in Nat, NEW b \in 0 .. B - 1
  PROVE  \E d \in 0 .. B - 1 : (own + d) % B = b
<1> DEFINE q == own \div B
           o == own % B
           l == B * q
           d == IF b >= o THEN b - o ELSE b - o + B
<1>1. q \in Nat /\ l \in Nat /\ own = l + o /\ o \in 0 .. B - 1
  <2>1. q \in Nat /\ B * q <= own /\ own < B * q + B /\ own % B = own - B * q
    <3>1. q \in Nat /\ B * q <= own /\ own < B * q + B
      BY Quotient
    <3>2. own = B * (own \div B) + (own % B)
      OBVIOUS
    <3> QED
      BY <3>1, <3>2
  <2>2. B * q \in Nat
    BY <2>1
  <2> HIDE DEF q
  <2> QED
    BY <2>1, <2>2
<1>2. \A x \in Nat : (l + x) % B = x % B
  BY <1>1, SegmentsOff
<1> HIDE DEF q, o, l
<1>3. d \in 0 .. B - 1 /\ (o + d = b \/ o + d = b + B)
  BY <1>1
<1>4. own + d = l + (o + d) /\ o + d \in Nat
  BY <1>1, <1>3
<1>5. (own + d) % B = (o + d) % B
  BY <1>2, <1>4
<1>6. (o + d) % B = b
  <2>1. b % B = b
    OBVIOUS
  <2>2. CASE o + d = b
    BY <2>1, <2>2
  <2>3. CASE o + d = b + B
    <3>1. \A m \in Nat : (B * m + b) % B = b % B
      <4> SUFFICES ASSUME NEW m \in Nat PROVE (B * m + b) % B = b % B
        OBVIOUS
      <4>1. b \in Nat
        OBVIOUS
      <4> QED
        BY <4>1, SegmentsOff
    <3>2. (B * 1 + b) % B = b % B /\ B * 1 + b = b + B
      BY <3>1
    <3> QED
      BY <2>1, <2>3, <3>2
  <2> QED
    BY <1>3, <2>2, <2>3
<1> QED
  BY <1>3, <1>5, <1>6

\* A free place there is has a run of free places, and the run a first one.
LEMMA FirstOfRun ==
  ASSUME size \in Nat, FreePlaces # {}
  PROVE  \E p \in 0 .. size - 1 : Free(p) /\ (p = 0 \/ ~ Free(p - 1))
<1>1. FreePlaces \subseteq Nat
  BY DEF FreePlaces
<1>2. PICK p \in FreePlaces : \A n \in FreePlaces : p <= n
  BY <1>1, LeastNatural
<1>3. p \in 0 .. size - 1 /\ Free(p)
  BY <1>2 DEF FreePlaces
<1>4. CASE p # 0 /\ Free(p - 1)
  <2>1. p - 1 \in FreePlaces
    BY <1>3, <1>4 DEF FreePlaces
  <2>2. p <= p - 1
    BY <1>2, <2>1
  <2> QED
    BY <1>3, <2>2
<1> QED
  BY <1>3, <1>4

\* The key at place b of the segments goes to the free place p.
Settles(b, p) ==
  /\ b \in 0 .. block - 1 /\ p \in 0 .. size - 1
  /\ startPos[b] = p /\ Free(p)
  /\ reverseOrder' = [reverseOrder EXCEPT ![p] = keys[i + 1]]
  /\ startPos' = [startPos EXCEPT ![b] = p + 1]
  /\ i' = (i + 1) % size
  /\ pc' = IF i + 1 = size THEN "count" ELSE "scatter"

\* A key always finds a free place, so that the loop over the segments ends.
LEMMA PlaceFound ==
  ASSUME FuseInv, Scatter
  PROVE  \E b, p : Settles(b, p)
<1>1. Shape /\ SeedInv /\ ScatterInv /\ pc = "scatter"
  BY DEF FuseInv, Scatter
<1>2. /\ i \in Nat /\ size \in Nat /\ i < size /\ Len(given) \in Nat /\ size <= Len(given)
      /\ NoKey \notin Keys
  BY <1>1, ShapeFacts DEF Shape, Place, ScatterInv
<1>3. block \in Nat /\ block >= 1 /\ block <= Pow2[HashBits]
  <2>1. block \in Nat /\ block >= 1 /\ block <= Pow2[CountBits]
    BY <1>1, BlockType DEF Shape
  <2>2. Pow2[CountBits] <= Pow2[HashBits] /\ Pow2[CountBits] \in Nat /\ Pow2[HashBits] \in Nat
    BY FuseWidths, Pow2Monotone, Pow2Type
  <2> QED
    BY <2>1, <2>2
<1> DEFINE B == block
           own == hash[keys[i + 1]] \div (Pow2[HashBits] \div B)
           tries == {d \in 0 .. B - 1 : reverseOrder[startPos[Segment(own + d)]] = NoKey}
<1>4. startPos \in [0 .. B - 1 -> 0 .. size] /\ ~ Free(size)
  BY <1>1 DEF ScatterInv, SeedInv
<1>5. own \in Nat
  <2>1. keys[i + 1] \in Keys
    <3>1. i + 1 \in 1 .. Len(given)
      BY <1>2
    <3> QED
      BY <1>1, <3>1, LenProperties DEF Shape
  <2>2. hash[keys[i + 1]] \in Nat
    <3>1. hash \in [Keys -> Hashes]
      BY <1>1 DEF Shape
    <3>2. \A h \in Hashes : h \in Nat
      BY PopulateAssumption, FuseWidths, Pow2Type
    <3> QED
      BY <2>1, <3>1, <3>2
  <2>3. Pow2[HashBits] \div B \in Nat /\ Pow2[HashBits] \div B >= 1
    <3> DEFINE m == Pow2[HashBits]
               q == m \div B
    <3> HIDE DEF B, m
    <3>1. B \in Nat /\ B >= 1 /\ B <= m /\ m \in Nat
      BY <1>3, FuseWidths, Pow2Type DEF B, m
    <3>2. q \in Nat /\ m < B * q + B
      BY <3>1, Quotient
    <3>3. q # 0
      BY <3>1, <3>2
    <3> QED
      BY <3>2, <3>3 DEF m
  <2> QED
    BY <2>2, <2>3, Quotient
<1>6. tries # {}
  <2>1. FreePlaces # {}
    <3>1. Cardinality(FreePlaces) = size - i
      BY <1>1 DEF ScatterInv
    <3>2. Cardinality(FreePlaces) # 0
      BY <1>2, <3>1
    <3> QED
      BY <3>2, FS_EmptySet
  <2>2. PICK p \in 0 .. size - 1 : Free(p) /\ (p = 0 \/ ~ Free(p - 1))
    BY <1>2, <2>1, FirstOfRun
  <2>3. PICK b \in 0 .. B - 1 : startPos[b] = p
    BY <1>1, <2>2 DEF ScatterInv
  <2> HIDE DEF B, own
  <2>4. PICK d \in 0 .. B - 1 : (own + d) % B = b
    BY <1>3, <1>5, SegmentReached DEF B
  <2>5. Segment(own + d) = b
    BY <2>4 DEF Segment, B
  <2> QED
    BY <2>2, <2>3, <2>5 DEF Free
<1>7. Min(tries) \in tries
  <2>1. tries \subseteq Nat
    OBVIOUS
  <2> HIDE DEF tries
  <2>2. \E m \in tries : \A n \in tries : m <= n
    BY <1>6, <2>1, LeastNatural
  <2> QED
    BY <2>2 DEF Min
<1> DEFINE b == Segment(own + Min(tries))
<1>8. /\ reverseOrder' = [reverseOrder EXCEPT ![startPos[b]] = keys[i + 1]]
      /\ startPos' = [startPos EXCEPT ![b] = @ + 1]
      /\ i' = (i + 1) % size
      /\ pc' = IF i + 1 = size THEN "count" ELSE pc
  BY <1>6 DEF Scatter
<1>9. b \in 0 .. B - 1 /\ Free(startPos[b])
  <2> HIDE DEF own
  <2>1. Min(tries) \in 0 .. B - 1 /\ reverseOrder[startPos[b]] = NoKey
    BY <1>7
  <2> HIDE DEF tries
  <2>2. own + Min(tries) \in Nat
    BY <1>3, <1>5, <2>1
  <2>3. \A n \in Nat : n % B \in 0 .. B - 1
    <3> HIDE DEF B
    <3>1. B \in Nat /\ B >= 1
      BY <1>3 DEF B
    <3> QED
      BY <3>1
  <2> QED
    BY <2>1, <2>2, <2>3 DEF Free, Segment
<1> HIDE DEF b
<1>10. startPos[b] \in 0 .. size - 1
  <2>1. startPos[b] \in 0 .. size /\ startPos[b] # size
    BY <1>4, <1>9
  <2> QED
    BY <1>2, <2>1
<1>11. Settles(b, startPos[b])
  BY <1>1, <1>8, <1>9, <1>10 DEF Settles
<1> QED
  BY <1>11

\* A hash takes a free slot (:253-262).
LEMMA FuseScatter ==
  ASSUME FuseInv, Scatter
  PROVE  FuseInv'
<1>1. Shape /\ KeysInv /\ SeedInv /\ ScatterInv /\ pc = "scatter"
  BY DEF FuseInv, Scatter
<1>2. PICK b, p : Settles(b, p)
  BY PlaceFound
<1>3. UNCHANGED <<filter, given, keys, Fingerprints, size, loop, hash, t2, duplicates, error,
                  reverseH, alone>>
  BY DEF Scatter, caller, counts
<1>4. Keys' = Keys /\ Cells' = Cells /\ Entry' = Entry /\ Place' = Place /\ block' = block
  BY <1>3, SameSets DEF block
<1>5. /\ i \in Nat /\ size \in Nat /\ i < size /\ Len(given) \in Nat /\ size <= Len(given)
      /\ NoKey \notin Keys
  BY <1>1, ShapeFacts DEF Shape, Place, ScatterInv
<1>6. keys[i + 1] \in Keys /\ keys[i + 1] # NoKey
  <2>1. i + 1 \in 1 .. Len(given)
    BY <1>5
  <2> QED
    BY <1>1, <1>5, <2>1, LenProperties DEF Shape
<1>7. p \in 0 .. size - 1 /\ p \in Place /\ p # size /\ p \in Nat
  BY <1>2, <1>5 DEF Settles, Place
<1>8. /\ reverseOrder \in [Place -> Keys \cup {NoKey, Sentinel}]
      /\ reverseOrder' = [reverseOrder EXCEPT ![p] = keys[i + 1]]
  BY <1>1, <1>2 DEF Shape, Settles
<1>9. /\ reverseOrder' \in [Place -> Keys \cup {NoKey, Sentinel}]
      /\ reverseOrder'[p] = keys[i + 1]
      /\ \A r \in Place : r # p => reverseOrder'[r] = reverseOrder[r]
  BY <1>6, <1>7, <1>8
<1>10. \A r \in 0 .. size : r \in Place
  BY <1>5 DEF Place
<1>11. /\ startPos \in [0 .. block - 1 -> 0 .. size]
       /\ startPos' \in [0 .. block - 1 -> 0 .. size]
       /\ b \in 0 .. block - 1
       /\ startPos'[b] = p + 1
       /\ \A a \in 0 .. block - 1 : a # b => startPos'[a] = startPos[a]
  <2>1. startPos \in [0 .. block - 1 -> 0 .. size] /\ b \in 0 .. block - 1
    BY <1>1, <1>2 DEF ScatterInv, Settles
  <2>2. p + 1 \in 0 .. size
    BY <1>5, <1>7
  <2>3. startPos' = [startPos EXCEPT ![b] = p + 1]
    BY <1>2 DEF Settles
  <2> QED
    BY <2>1, <2>2, <2>3
<1>12. Free(p) /\ ~ Free(p)' /\ (\A r \in Place : r # p => (Free(r)' <=> Free(r))) /\ ~ Free(size)'
  <2>1. Free(p) /\ ~ Free(size)
    BY <1>1, <1>2 DEF Settles, SeedInv
  <2>2. size \in Place
    BY <1>5, <1>10
  <2> QED
    BY <1>3, <1>6, <1>7, <1>9, <2>1, <2>2 DEF Free
<1>13. Cardinality(FreePlaces') = size - (i + 1) /\ IsFiniteSet(FreePlaces')
  <2>1. FreePlaces' = FreePlaces \ {p} /\ p \in FreePlaces
    <3>1. \A r \in 0 .. size - 1 : r \in Place
      BY <1>5, <1>10
    <3>2. FreePlaces' = {r \in 0 .. size - 1 : Free(r)'}
      BY <1>3 DEF FreePlaces
    <3>3. \A r \in 0 .. size - 1 : Free(r)' <=> Free(r) /\ r # p
      BY <1>12, <3>1
    <3> QED
      BY <1>7, <1>12, <3>2, <3>3 DEF FreePlaces
  <2>2. IsFiniteSet(FreePlaces)
    <3>1. IsFiniteSet(0 .. size - 1)
      BY <1>5, FS_Interval
    <3> QED
      BY <3>1, FS_Subset DEF FreePlaces
  <2>3. Cardinality(FreePlaces) = size - i
    BY <1>1 DEF ScatterInv
  <2>4. IsFiniteSet(FreePlaces \ {p}) /\ Cardinality(FreePlaces \ {p}) = Cardinality(FreePlaces) - 1
    BY <2>1, <2>2, FS_RemoveElement
  <2> QED
    BY <1>5, <2>1, <2>3, <2>4
<1>14. \A r \in 0 .. size - 1 : reverseOrder'[r] \in Keys \cup {NoKey}
  <2> SUFFICES ASSUME NEW r \in 0 .. size - 1 PROVE reverseOrder'[r] \in Keys \cup {NoKey}
    OBVIOUS
  <2>1. reverseOrder[r] \in Keys \cup {NoKey} /\ r \in Place
    BY <1>1, <1>5, <1>10 DEF ScatterInv
  <2> QED
    BY <1>6, <1>9, <2>1
<1>15. \A j \in 1 .. i + 1 : \E r \in 0 .. size - 1 : reverseOrder'[r] = keys[j]
  <2> SUFFICES ASSUME NEW j \in 1 .. i + 1
               PROVE  \E r \in 0 .. size - 1 : reverseOrder'[r] = keys[j]
    OBVIOUS
  <2>1. CASE j = i + 1
    BY <1>7, <1>9, <2>1
  <2>2. CASE j # i + 1
    <3>1. j \in 1 .. i /\ j \in 1 .. Len(given)
      BY <1>5, <2>2
    <3>2. PICK r \in 0 .. size - 1 : reverseOrder[r] = keys[j]
      BY <1>1, <3>1 DEF ScatterInv
    <3>3. keys[j] \in Keys
      BY <1>1, <3>1, LenProperties DEF Shape
    <3>4. r # p
      BY <1>5, <1>12, <3>2, <3>3 DEF Free
    <3>5. r \in Place
      BY <1>5, <1>10
    <3> QED
      BY <1>9, <3>2, <3>4, <3>5
  <2> QED
    BY <2>1, <2>2
<1>16. \A r \in 0 .. size - 1 :
         Free(r)' /\ (r = 0 \/ ~ Free(r - 1)') => \E a \in 0 .. block - 1 : startPos'[a] = r
  <2> SUFFICES ASSUME NEW r \in 0 .. size - 1, Free(r)', r = 0 \/ ~ Free(r - 1)'
               PROVE  \E a \in 0 .. block - 1 : startPos'[a] = r
    OBVIOUS
  <2>1. r # p /\ Free(r) /\ r \in Place
    BY <1>5, <1>10, <1>12
  <2>2. CASE r = p + 1
    BY <1>11, <2>2
  <2>3. CASE r # p + 1
    <3>1. r = 0 \/ ~ Free(r - 1)
      <4>1. CASE r # 0
        <5>1. r - 1 \in Place /\ r - 1 # p
          BY <1>5, <1>7, <2>3, <4>1 DEF Place
        <5> QED
          BY <1>12, <4>1, <5>1
      <4> QED
        BY <4>1
    <3>2. PICK a \in 0 .. block - 1 : startPos[a] = r
      BY <1>1, <2>1, <3>1 DEF ScatterInv
    <3>3. a # b
      BY <1>2, <2>1, <3>2 DEF Settles
    <3> QED
      BY <1>11, <3>2, <3>3
  <2> QED
    BY <2>2, <2>3
<1>17. i' \in 0 .. size /\ (i + 1 < size => i' = i + 1) /\ (i + 1 = size => i' = 0)
  <2>1. i' = (i + 1) % size
    BY <1>2 DEF Settles
  <2>2. CASE i + 1 < size
    BY <1>5, <2>1, <2>2
  <2>3. CASE i + 1 = size
    BY <1>5, <2>1, <2>3
  <2> QED
    BY <1>5, <2>2, <2>3
<1>18. pc' = IF i + 1 = size THEN "count" ELSE "scatter"
  BY <1>2 DEF Settles
<1>19. Shape'
  <2>1. \A a \in DOMAIN startPos' : startPos'[a] \in Place
    BY <1>10, <1>11
  <2> QED
    BY <1>1, <1>3, <1>4, <1>9, <1>17, <1>18, <2>1 DEF Shape, Geometric
<1>20. KeysInv'
  BY <1>1, <1>3, <1>4, <1>18 DEF KeysInv
<1>21. CASE i + 1 < size
  <2>1. pc' = "scatter" /\ i' = i + 1
    BY <1>5, <1>17, <1>18, <1>21
  <2>2. SeedInv'
    BY <1>1, <1>3, <1>4, <1>12, <2>1 DEF SeedInv, Nothing
  <2>3. ScatterInv'
    BY <1>3, <1>4, <1>5, <1>11, <1>13, <1>14, <1>15, <1>16, <1>21, <2>1 DEF ScatterInv
  <2> QED
    BY <1>19, <1>20, <2>1, <2>2, <2>3
       DEF FuseInv, OrderInv, CountInv, PeelInv, AssignInv, BuiltInv
<1>22. CASE i + 1 = size
  <2>1. pc' = "count" /\ i' = 0
    BY <1>17, <1>18, <1>22
  <2>2. \A r \in 0 .. size - 1 : reverseOrder'[r] \in Keys
    <3>1. FreePlaces' = {}
      BY <1>5, <1>13, <1>22, FS_EmptySet
    <3>2. \A r \in 0 .. size - 1 : ~ Free(r)'
      BY <1>3, <3>1 DEF FreePlaces
    <3> QED
      BY <1>14, <3>2 DEF Free
  <2>3. OrderInv'
    BY <1>3, <1>4, <1>12, <2>2 DEF OrderInv
  <2>4. CountInv'
    <3>1. reverseH' = <<>> /\ duplicates' = 0 /\ t2' = [c \in Cells |-> Nothing]
      BY <1>1, <1>3 DEF SeedInv
    <3>2. \A k \in Keys : \E r \in 0 .. size - 1 : reverseOrder'[r] = k
      <4> SUFFICES ASSUME NEW k \in Keys PROVE \E r \in 0 .. size - 1 : reverseOrder'[r] = k
        OBVIOUS
      <4>1. PICK j \in 1 .. size : keys[j] = k
        BY <1>1 DEF KeysInv
      <4> QED
        BY <1>15, <1>22, <4>1
    <3>3. CountedAre({})'
      <4>1. /\ ({} \subseteq 0 .. i - 1)'
            /\ Cardinality({}) + duplicates' = i'
        BY <2>1, <3>1, FS_EmptySet
      <4>2. (\A r \in 0 .. i - 1 : \E j \in {} : reverseOrder[j] = reverseOrder[r])'
        BY <2>1
      <4>3. (\A c \in Cells : CellIs(t2[c], {}, reverseOrder, c))'
        <5> SUFFICES ASSUME NEW c \in Cells' PROVE CellIs(t2[c], {}, reverseOrder, c)'
          OBVIOUS
        <5>1. t2'[c] = Nothing
          BY <1>4, <3>1
        <5>2. CellIs(Nothing, {}, reverseOrder, c)'
          BY NothingCounted
        <5> QED
          BY <5>1, <5>2 DEF CellIs
      <4> QED
        BY <4>1, <4>2, <4>3 DEF CountedAre
    <3> QED
      BY <1>3, <1>4, <2>1, <3>1, <3>2, <3>3 DEF CountInv
  <2> QED
    BY <1>19, <1>20, <2>1, <2>3, <2>4
       DEF FuseInv, SeedInv, ScatterInv, PeelInv, AssignInv, BuiltInv
<1> QED
  BY <1>5, <1>21, <1>22

-----------------------------------------------------------------------------
(***************************************************************************)
(* Counting.                                                               *)
(***************************************************************************)
LEMMA ChangedType ==
  ASSUME Shape, NEW e \in Entry, NEW k \in Keys, NEW s \in Slot, NEW d \in {1, -1}
  PROVE  Changed(e, k, s, d) \in Entry
<1>1. CountModulus \in Nat /\ CountModulus >= 1
  BY ShapeFacts
<1>2. e.count \in Nat /\ e.slot \subseteq {1, 2} /\ e.hash \subseteq Keys
  BY <1>1 DEF Entry
<1>3. (e.count + d) % CountModulus \in 0 .. CountModulus - 1
  <2>1. e.count + d \in Int
    BY <1>2
  <2> QED
    BY <1>1, <2>1
<1>4. SymDiff(e.slot, SlotBits(s)) \in SUBSET {1, 2}
  <2>1. SlotBits(s) \subseteq {1, 2}
    BY DEF SlotBits, Slot
  <2> QED
    BY <1>2, <2>1 DEF SymDiff
<1>5. SymDiff(e.hash, {k}) \in SUBSET Keys
  BY <1>2 DEF SymDiff
<1> QED
  BY <1>3, <1>4, <1>5 DEF Changed, Entry

\* A key taken back leaves no trace.
LEMMA ChangedBack ==
  ASSUME Shape, NEW e \in Entry, NEW k, NEW s
  PROVE  Changed(Changed(e, k, s, 1), k, s, -1) = e
<1> DEFINE M == CountModulus
           f == Changed(e, k, s, 1)
           g == Changed(f, k, s, -1)
<1>1. M \in Nat /\ M >= 1
  BY ShapeFacts
<1>2. e.count \in 0 .. M - 1
  BY DEF Entry
<1>3. (((e.count + 1) % M) + (-1)) % M = e.count
  <2> HIDE DEF M
  <2> DEFINE n == e.count
  <2>1. n \in Nat /\ n + 1 <= M
    BY <1>1, <1>2
  <2> HIDE DEF n
  <2>2. n % M = n
    BY <1>1, <2>1
  <2>3. CASE n + 1 < M
    <3>1. (n + 1) % M = n + 1 /\ (n + 1) + (-1) = n
      BY <1>1, <2>1, <2>3
    <3> QED
      BY <2>2, <3>1 DEF n
  <2>4. CASE n + 1 = M
    <3>1. (n + 1) % M = 0
      BY <1>1, <2>4
    <3>2. (-1) % M = M - 1
      BY <1>1
    <3>3. 0 + (-1) = -1 /\ M - 1 = n
      BY <1>1, <2>1, <2>4
    <3> QED
      BY <3>1, <3>2, <3>3 DEF n
  <2> QED
    BY <1>1, <2>1, <2>3, <2>4
<1>4. f.count = (e.count + 1) % M /\ f.slot = SymDiff(e.slot, SlotBits(s))
      /\ f.hash = SymDiff(e.hash, {k})
  BY DEF Changed
<1>5. g = [count |-> (f.count + (-1)) % M, slot |-> SymDiff(f.slot, SlotBits(s)),
           hash |-> SymDiff(f.hash, {k})]
  BY DEF Changed
<1> HIDE DEF f, g, M
<1>6. SymDiff(f.slot, SlotBits(s)) = e.slot /\ SymDiff(f.hash, {k}) = e.hash
  BY <1>4, SymDiffTwice
<1>7. g = [count |-> e.count, slot |-> e.slot, hash |-> e.hash]
  BY <1>3, <1>4, <1>5, <1>6
<1>8. e = [count |-> e.count, slot |-> e.slot, hash |-> e.hash]
  BY DEF Entry
<1> QED
  BY <1>7, <1>8 DEF f, g

\* Entries stay entries.
LEMMA ToggleType ==
  ASSUME Shape, HashInv, NEW t \in [Cells -> Entry], NEW k \in Keys, NEW S \in SUBSET Slot,
         NEW d \in {1, -1}
  PROVE  Toggle(t, k, S, d) \in [Cells -> Entry]
<1>1. DOMAIN t = Cells
  OBVIOUS
<1>2. ASSUME NEW c \in Cells PROVE Toggle(t, k, S, d)[c] \in Entry
  <2>1. c \in DOMAIN t /\ t[c] \in Entry
    OBVIOUS
  <2>2. CASE \A s \in S : Cell(k, s) # c
    BY <2>1, <2>2, ToggleUnused
  <2>3. ASSUME NEW s \in S, Cell(k, s) = c PROVE Toggle(t, k, S, d)[c] \in Entry
    <3>1. Toggle(t, k, S, d)[c] = Changed(t[c], k, s, d)
      <4>1. Hits(k, S, s, c)
        BY <2>3 DEF Hits
      <4> QED
        BY <2>1, <4>1, ToggleUsed
    <3>2. s \in Slot
      OBVIOUS
    <3> QED
      BY <2>1, <3>1, <3>2, ChangedType
  <2> QED
    BY <2>2, <2>3
<1>3. Toggle(t, k, S, d) = [c \in Cells |-> Toggle(t, k, S, d)[c]]
  BY <1>1 DEF Toggle
<1> QED
  BY <1>2, <1>3

\* Adding a key and taking it off the same cells changes nothing.
LEMMA ToggleBack ==
  ASSUME Shape, HashInv, NEW t \in [Cells -> Entry], NEW k \in Keys
  PROVE  Toggle(Toggle(t, k, Slot, 1), k, Slot, -1) = t
<1> DEFINE u == Toggle(t, k, Slot, 1)
           v == Toggle(u, k, Slot, -1)
<1>1. u \in [Cells -> Entry]
  BY ToggleType
<1>2. v \in [Cells -> Entry]
  <2> HIDE DEF u
  <2> QED
    BY <1>1, ToggleType
<1>3. ASSUME NEW c \in Cells PROVE v[c] = t[c]
  <2>1. CASE \A s \in Slot : Cell(k, s) # c
    <3>0. c \in DOMAIN t /\ c \in DOMAIN u
      BY <1>1
    <3>1. u[c] = t[c]
      BY <2>1, <3>0, ToggleUnused
    <3> HIDE DEF u
    <3>2. v[c] = u[c]
      BY <2>1, <3>0, ToggleUnused
    <3> QED
      BY <3>1, <3>2
  <2>2. ASSUME NEW s \in Slot, Cell(k, s) = c PROVE v[c] = t[c]
    <3>0. c \in DOMAIN t /\ c \in DOMAIN u /\ Hits(k, Slot, s, c)
      BY <1>1, <2>2 DEF Hits
    <3>1. u[c] = Changed(t[c], k, s, 1)
      BY <3>0, ToggleUsed
    <3> HIDE DEF u
    <3>2. v[c] = Changed(u[c], k, s, -1)
      BY <3>0, ToggleUsed
    <3>3. t[c] \in Entry
      OBVIOUS
    <3> QED
      BY <3>1, <3>2, <3>3, ChangedBack
  <2> QED
    BY <2>1, <2>2
<1> HIDE DEF u, v
<1> QED
  BY <1>2, <1>3 DEF u, v

\* What is counted depends on filter, hash and given.
LEMMA CellIsSame ==
  ASSUME UNCHANGED <<filter, hash, given>>, NEW e, NEW C, NEW o, NEW c
  PROVE  CellIs(e, C, o, c)' <=> CellIs(e, C, o, c)
<1>1. Keys' = Keys /\ \A k, s : Cell(k, s)' = Cell(k, s)
  BY DEF Keys, Cell
<1>2. \A k, d : Uses(k, d)' <=> Uses(k, d)
  BY <1>1 DEF Uses
<1>3. Users(C, o, c)' = Users(C, o, c) /\ \A b : UsersAt(C, o, b, c)' = UsersAt(C, o, b, c)
  BY <1>1, <1>2 DEF Users, UsersAt
<1>4. SlotOf(C, o, c)' = SlotOf(C, o, c)
  BY <1>3 DEF SlotOf
<1>5. HashOf(C, o, c)' = HashOf(C, o, c)
  BY <1>1, <1>2 DEF HashOf
<1> QED
  BY <1>3, <1>4, <1>5 DEF CellIs

\* D is the positions C and one more, j, where key k is.
OneMore(C, D, j, k, o) ==
  IsFiniteSet(C) /\ j \notin C /\ D = C \cup {j} /\ k \in Keys /\ o[j] = k

\* A key counted in cells that do not wrap.
LEMMA KeyCounted ==
  ASSUME Shape, HashInv, NEW C, NEW D, NEW j, NEW k, NEW o, OneMore(C, D, j, k, o),
         \A c \in Cells : CellIs(t2[c], C, o, c),
         \A s \in Slot : Toggle(t2, k, Slot, 1)[Cell(k, s)].count # 0
  PROVE  \A c \in Cells : CellIs(Toggle(t2, k, Slot, 1)[c], D, o, c)
<1> SUFFICES ASSUME NEW c \in Cells PROVE CellIs(Toggle(t2, k, Slot, 1)[c], D, o, c)
  OBVIOUS
<1>1. k \in Keys /\ c \in DOMAIN t2 /\ CellIs(t2[c], C, o, c) /\ D = C \cup {j} /\ o[j] = k
  BY DEF Shape, OneMore
<1> DEFINE f == Toggle(t2, k, Slot, 1)[c]
<1>2. CASE \A s \in Slot : Cell(k, s) # c
  <2>1. f = t2[c]
    BY <1>1, <1>2, ToggleUnused
  <2>2. ~ Uses(o[j], c)
    BY <1>1, <1>2 DEF Uses
  <2> HIDE DEF f
  <2>3. /\ Users(C \cup {j}, o, c) = Users(C, o, c)
        /\ SlotOf(C \cup {j}, o, c) = SlotOf(C, o, c)
        /\ HashOf(C \cup {j}, o, c) = HashOf(C, o, c)
    BY <2>2, CountedElsewhere
  <2>4. CellIs(f, D, o, c)
    BY <1>1, <2>1, <2>3 DEF CellIs
  <2> QED
    BY <2>4 DEF f
<1>3. ASSUME NEW s \in Slot, Cell(k, s) = c PROVE CellIs(f, D, o, c)
  <2>1. Hits(k, Slot, s, c) /\ Joins(j, k, C, D, o, c, s)
    BY <1>3 DEF Hits, Joins, OneMore
  <2>2. f = Changed(t2[c], k, s, 1)
    BY <1>1, <2>1, ToggleUsed
  <2>3. f.count # 0
    BY <1>3
  <2> HIDE DEF f
  <2> QED
    BY <1>1, <2>1, <2>2, <2>3, CellAdded
<1> QED
  BY <1>2, <1>3

\* A key whose hash cancels one of two others out is one of the two.
LEMMA TwinCounted ==
  ASSUME Shape, HashInv, NEW C, NEW D, NEW j, NEW k, NEW o, OneMore(C, D, j, k, o),
         \A c \in Cells : CellIs(t2[c], C, o, c),
         IsTwin(Toggle(t2, k, Slot, 1), k)
  PROVE  \E m \in C : o[m] = k
<1>1. k \in Keys
  BY DEF OneMore
<1>2. PICK s \in Slot : Toggle(t2, k, Slot, 1)[Cell(k, s)].hash = {}
  BY DEF IsTwin
<1> DEFINE c == Cell(k, s)
<1>3. c \in Cells /\ c \in DOMAIN t2 /\ Hits(k, Slot, s, c)
  BY <1>1, KeyCells DEF Hits, Shape
<1>4. CellIs(t2[c], C, o, c)
  BY <1>3
<1>5. Toggle(t2, k, Slot, 1)[c] = Changed(t2[c], k, s, 1)
  BY <1>1, <1>3, ToggleUsed
<1>6. SymDiff(t2[c].hash, {k}) = {}
  <2>1. Toggle(t2, k, Slot, 1)[c].hash = {}
    BY <1>2
  <2> HIDE DEF c
  <2>2. Changed(t2[c], k, s, 1).hash = SymDiff(t2[c].hash, {k})
    BY DEF Changed
  <2> QED
    BY <1>5, <2>1, <2>2
<1>7. k \in t2[c].hash
  BY <1>6 DEF SymDiff
<1> HIDE DEF c
<1>8. Odd(Copies(C, o, k))
  BY <1>4, <1>7 DEF CellIs, HashOf
<1>9. Copies(C, o, k) # {}
  BY <1>8, FS_EmptySet DEF Odd
<1> QED
  BY <1>9 DEF Copies

\* A key is counted, or found to be the twin of one (:265-286).
LEMMA FuseCount ==
  ASSUME FuseInv, Count
  PROVE  FuseInv'
<1>1. Shape /\ KeysInv /\ OrderInv /\ CountInv /\ pc = "count" /\ i < size
  BY DEF FuseInv, Count
<1>2. HashInv
  BY <1>1 DEF Shape, HashInv
<1> DEFINE k     == reverseOrder[i]
           added == Toggle(t2, k, Slot, 1)
<1>3. /\ t2' = IF IsTwin(added, k) THEN Toggle(added, k, Slot, -1) ELSE added
      /\ duplicates' = duplicates + (IF IsTwin(added, k) THEN 1 ELSE 0)
      /\ error' = (error \/ Wrapped(t2', k))
      /\ i' = i + 1 /\ pc' = "count"
      /\ UNCHANGED <<filter, given, keys, Fingerprints, size, loop, hash, startPos, reverseOrder,
                     reverseH, alone>>
  BY <1>1 DEF Count, caller, scatters
<1>4. Keys' = Keys /\ Cells' = Cells /\ Entry' = Entry /\ Place' = Place
  BY <1>3, SameSets
<1>5. /\ i \in Nat /\ size \in Nat /\ Len(given) \in Nat /\ size <= Len(given)
      /\ duplicates \in Nat /\ duplicates <= i /\ t2 \in [Cells -> Entry]
  BY <1>1, ShapeFacts DEF Shape, Place, CountInv
<1>6. k \in Keys /\ i \in 0 .. size - 1
  BY <1>1, <1>5 DEF OrderInv
<1>7. added \in [Cells -> Entry]
  BY <1>1, <1>2, <1>5, <1>6, ToggleType
<1>8. IsTwin(added, k) => t2' = t2
  BY <1>1, <1>2, <1>3, <1>5, <1>6, ToggleBack
<1>9. ~ IsTwin(added, k) => t2' = added
  BY <1>3
<1>10. t2' \in [Cells -> Entry]
  BY <1>5, <1>7, <1>8, <1>9
<1>11. duplicates' \in Nat /\ duplicates' <= i' /\ i' \in 0 .. size
  BY <1>3, <1>5, <1>1
<1>12. Shape'
  <2>1. error' \in BOOLEAN
    <3>1. error \in BOOLEAN
      BY <1>1 DEF Shape
    <3> QED
      BY <1>3, Zenon
  <2>2. duplicates' \in Place
    BY <1>1, <1>3, <1>5, <1>11 DEF Place
  <2> HIDE DEF added
  <2> QED
    BY <1>1, <1>3, <1>4, <1>10, <1>11, <2>1, <2>2 DEF Shape, Geometric
<1>13. KeysInv' /\ OrderInv'
  BY <1>1, <1>3, <1>4 DEF KeysInv, OrderInv, Free
<1>14. ASSUME ~ error'
       PROVE  \E C : CountedAre(C)'
  <2>1. ~ error /\ ~ Wrapped(t2', k)
    BY <1>3, <1>14
  <2>2. PICK C : CountedAre(C)
    BY <1>1, <2>1 DEF CountInv
  <2>3. /\ C \subseteq 0 .. i - 1 /\ Cardinality(C) + duplicates = i
        /\ \A p \in 0 .. i - 1 : \E j \in C : reverseOrder[j] = reverseOrder[p]
        /\ \A c \in Cells : CellIs(t2[c], C, reverseOrder, c)
    BY <2>2 DEF CountedAre
  <2>4. IsFiniteSet(C) /\ Cardinality(C) \in Nat
    <3>1. IsFiniteSet(0 .. i - 1)
      BY <1>5, FS_Interval
    <3> QED
      BY <2>3, <3>1, FS_Subset, FS_CardinalityType
  <2>5. i \notin C
    BY <1>5, <2>3
  <2>d. PICK D : D = C \cup {i}
    OBVIOUS
  <2>6. OneMore(C, D, i, k, reverseOrder)
    BY <1>6, <2>4, <2>5, <2>d DEF OneMore
  <2>7. CASE IsTwin(added, k)
    <3>1. \E m \in C : reverseOrder[m] = k
      <4>1. IsTwin(Toggle(t2, k, Slot, 1), k)
        BY <2>7
      <4>2. \A c \in Cells : CellIs(t2[c], C, reverseOrder, c)
        BY <2>3
      <4> HIDE DEF k
      <4> QED
        BY <1>1, <1>2, <2>6, <4>1, <4>2, TwinCounted
    <3>2. \A p \in 0 .. i : \E j \in C : reverseOrder[j] = reverseOrder[p]
      <4> SUFFICES ASSUME NEW p \in 0 .. i PROVE \E j \in C : reverseOrder[j] = reverseOrder[p]
        OBVIOUS
      <4>1. CASE p = i
        BY <3>1, <4>1
      <4>2. CASE p # i
        <5>1. p \in 0 .. i - 1
          BY <1>5, <4>2
        <5> QED
          BY <2>3, <5>1
      <4> QED
        BY <4>1, <4>2
    <3>3. C \subseteq 0 .. i
      BY <1>5, <2>3
    <3>4. duplicates' = duplicates + 1
      BY <1>3, <2>7
    <3>5. (\A c \in Cells : CellIs(t2[c], C, reverseOrder, c))'
      <4> SUFFICES ASSUME NEW c \in Cells' PROVE CellIs(t2[c], C, reverseOrder, c)'
        OBVIOUS
      <4>1. CellIs(t2[c], C, reverseOrder, c)
        BY <1>4, <2>3
      <4> QED
        BY <1>3, <1>8, <2>7, <4>1, CellIsSame
    <3>6. C \subseteq 0 .. i' - 1 /\ Cardinality(C) + duplicates' = i'
      BY <1>3, <1>5, <2>3, <2>4, <3>3, <3>4
    <3>7. \A p \in 0 .. i' - 1 : \E j \in C : reverseOrder'[j] = reverseOrder'[p]
      BY <1>3, <1>5, <3>2
    <3> QED
      BY <3>5, <3>6, <3>7 DEF CountedAre
  <2>8. CASE ~ IsTwin(added, k)
    <3>1. t2' = added /\ duplicates' = duplicates
      BY <1>3, <1>5, <2>8
    <3>2. \A s \in Slot : added[Cell(k, s)].count # 0
      <4>1. \A s \in Slot : (t2')[Cell(k, s)].count # 0
        <5> HIDE DEF k
        <5> QED
          BY <2>1 DEF Wrapped
      <4> HIDE DEF k, added
      <4> QED
        BY <3>1, <4>1
    <3>3. \A c \in Cells : CellIs(added[c], D, reverseOrder, c)
      <4>1. \A c \in Cells : CellIs(t2[c], C, reverseOrder, c)
        BY <2>3
      <4>2. \A s \in Slot : Toggle(t2, k, Slot, 1)[Cell(k, s)].count # 0
        BY <3>2
      <4> HIDE DEF k
      <4> QED
        BY <1>1, <1>2, <2>6, <4>1, <4>2, KeyCounted
    <3>4. (\A c \in Cells : CellIs(t2[c], D, reverseOrder, c))'
      <4> SUFFICES ASSUME NEW c \in Cells' PROVE CellIs(t2[c], D, reverseOrder, c)'
        OBVIOUS
      <4>1. CellIs((t2')[c], D, reverseOrder, c)
        BY <1>4, <3>1, <3>3
      <4> HIDE DEF k, added
      <4>2. \A e : CellIs(e, D, reverseOrder, c)' <=> CellIs(e, D, reverseOrder, c)
        BY <1>3, CellIsSame
      <4> QED
        BY <1>3, <4>1, CellIsSame
    <3>5. D \subseteq 0 .. i' - 1 /\ Cardinality(D) + duplicates' = i'
      <4>1. Cardinality(D) = Cardinality(C) + 1
        BY <2>4, <2>5, <2>d, FS_AddElement
      <4> HIDE DEF k, added
      <4>2. Cardinality(C) + duplicates = i /\ C \subseteq 0 .. i - 1
        BY <2>3
      <4>3. Cardinality(D) + duplicates' = i'
        BY <1>3, <1>5, <2>4, <3>1, <4>1, <4>2
      <4>4. D \subseteq 0 .. i' - 1
        <5>1. i' - 1 = i
          BY <1>3, <1>5
        <5>2. 0 .. i - 1 \subseteq 0 .. i /\ i \in 0 .. i
          BY <1>5
        <5> QED
          BY <2>d, <4>2, <5>1, <5>2
      <4> QED
        BY <4>3, <4>4
    <3>6. \A p \in 0 .. i' - 1 : \E j \in D : reverseOrder'[j] = reverseOrder'[p]
      <4> HIDE DEF k, added
      <4> SUFFICES ASSUME NEW p \in 0 .. i PROVE \E j \in D : reverseOrder[j] = reverseOrder[p]
        BY <1>3, <1>5
      <4>1. CASE p = i
        BY <2>d, <4>1
      <4>2. CASE p # i
        <5>1. p \in 0 .. i - 1
          BY <1>5, <4>2
        <5> QED
          BY <2>3, <2>d, <5>1
      <4> QED
        BY <4>1, <4>2
    <3> QED
      BY <3>4, <3>5, <3>6 DEF CountedAre
  <2> QED
    BY <2>7, <2>8
<1>15. CountInv'
  <2>1. reverseH' = <<>> /\ duplicates' <= i'
    BY <1>1, <1>3, <1>11 DEF CountInv
  <2>2. (\A m \in Keys : \E p \in 0 .. size - 1 : reverseOrder[p] = m)'
    BY <1>1, <1>3, <1>4 DEF CountInv
  <2> QED
    BY <1>14, <2>1, <2>2 DEF CountInv
<1>16. SeedInv' /\ ScatterInv' /\ PeelInv' /\ AssignInv' /\ BuiltInv'
  BY <1>3 DEF SeedInv, ScatterInv, PeelInv, AssignInv, BuiltInv
<1> QED
  BY <1>12, <1>13, <1>15, <1>16 DEF FuseInv

-----------------------------------------------------------------------------
(***************************************************************************)
(* The queue: a list of different cells.                                   *)
(***************************************************************************)
Listed(q, S) == q \in Seq(S) /\ \A a, b \in DOMAIN q : q[a] = q[b] => a = b

\* A list without its last element,
LEMMA ListedFront ==
  ASSUME NEW S, NEW q, Listed(q, S), q # <<>>
  PROVE  Last(q) \in S /\ Listed(Front(q), S \ {Last(q)}) /\ Len(Front(q)) + 1 = Len(q)
<1>1. q \in Seq(S) /\ Len(q) \in Nat /\ DOMAIN q = 1 .. Len(q) /\ Len(q) >= 1
  <2>1. q \in Seq(S)
    BY DEF Listed
  <2>2. Len(q) \in Nat /\ DOMAIN q = 1 .. Len(q)
    BY <2>1, LenProperties
  <2>3. Len(q) # 0
    BY <2>1, EmptySeq
  <2> QED
    BY <2>1, <2>2, <2>3
<1>2. Last(q) = q[Len(q)] /\ Len(q) \in DOMAIN q
  BY <1>1 DEF Last
<1>3. Last(q) \in S
  BY <1>1, <1>2
<1>4. /\ Front(q) \in Seq(S) /\ Len(Front(q)) = Len(q) - 1
      /\ \A a \in 1 .. Len(q) - 1 : Front(q)[a] = q[a]
  <2>1. /\ SubSeq(q, 1, Len(q) - 1) \in Seq(S)
        /\ Len(SubSeq(q, 1, Len(q) - 1)) = Len(q) - 1
        /\ \A a \in 1 .. Len(q) - 1 : SubSeq(q, 1, Len(q) - 1)[a] = q[a]
    BY <1>1
  <2> QED
    BY <2>1 DEF Front
<1> DEFINE f == Front(q)
           n == Len(q)
<1>5. f \in Seq(S) /\ DOMAIN f = 1 .. n - 1 /\ \A a \in 1 .. n - 1 : f[a] = q[a]
  BY <1>1, <1>4, LenProperties
<1>6. \A a \in 1 .. n - 1 : a \in DOMAIN q /\ a # n /\ q[a] \in S
  <2>1. \A a \in 1 .. n - 1 : a \in 1 .. n /\ a # n
    <3>1. \A m \in Nat : \A a \in 1 .. m - 1 : a \in 1 .. m /\ a # m
      OBVIOUS
    <3> HIDE DEF n
    <3>2. n \in Nat
      BY <1>1 DEF n
    <3> QED
      BY <3>1, <3>2
  <2>2. \A a \in 1 .. n : q[a] \in S
    BY <1>1
  <2> QED
    BY <1>1, <2>1, <2>2
<1>7. \A a \in 1 .. n - 1 : f[a] \in S \ {Last(q)}
  BY <1>2, <1>5, <1>6 DEF Listed
<1>8. \A a, b \in DOMAIN f : f[a] = f[b] => a = b
  BY <1>5, <1>6 DEF Listed
<1>9. f \in Seq(S \ {Last(q)})
  <2> HIDE DEF f
  <2> QED
    BY <1>1, <1>5, <1>7, SeqDef
<1> QED
  BY <1>1, <1>3, <1>4, <1>8, <1>9 DEF Listed

\* and a list with one more.
LEMMA ListedAppend ==
  ASSUME NEW S, NEW q, Listed(q, S), NEW c, c \notin S
  PROVE  Listed(Append(q, c), S \cup {c}) /\ Len(Append(q, c)) = Len(q) + 1
<1>1. q \in Seq(S) /\ Len(q) \in Nat /\ DOMAIN q = 1 .. Len(q)
  BY LenProperties DEF Listed
<1>2. q \in Seq(S \cup {c})
  BY <1>1
<1> DEFINE r == Append(q, c)
           n == Len(q)
<1>3. r \in Seq(S \cup {c}) /\ Len(r) = n + 1 /\ r[n + 1] = c /\ \A a \in 1 .. n : r[a] = q[a]
  BY <1>2
<1>4. DOMAIN r = 1 .. n + 1
  BY <1>3, LenProperties
<1>5. \A a \in 1 .. n : q[a] \in S
  BY <1>1
<1> HIDE DEF r
<1>6. ASSUME NEW a \in DOMAIN r, NEW b \in DOMAIN r, r[a] = r[b] PROVE a = b
  <2>1. (a = n + 1 \/ a \in 1 .. n) /\ (b = n + 1 \/ b \in 1 .. n)
    BY <1>1, <1>4
  <2> QED
    BY <1>1, <1>3, <1>5, <1>6, <2>1 DEF Listed
<1> QED
  BY <1>3, <1>6 DEF Listed, r

\* A list of different members of a finite set is not longer than the set.
LEMMA ListedLength ==
  ASSUME NEW S, IsFiniteSet(S), NEW q, Listed(q, S)
  PROVE  Len(q) <= Cardinality(S)
<1>1. q \in Seq(S) /\ Len(q) \in Nat /\ DOMAIN q = 1 .. Len(q)
  BY LenProperties DEF Listed
<1>2. q \in [1 .. Len(q) -> S]
  BY <1>1
<1>3. q \in Injection(1 .. Len(q), S)
  BY <1>1, <1>2 DEF Listed, Injection, IsInjective
<1>4. Cardinality(1 .. Len(q)) <= Cardinality(S)
  BY <1>3, FS_Injection
<1>5. Cardinality(1 .. Len(q)) = Len(q)
  BY <1>1, FS_Interval
<1> QED
  BY <1>4, <1>5

-----------------------------------------------------------------------------
\* The scan of the cells (:295-299).
LEMMA FuseCounted ==
  ASSUME FuseInv, Counted
  PROVE  FuseInv'
<1>1. Shape /\ KeysInv /\ OrderInv /\ CountInv /\ pc = "count" /\ i = size /\ ~ error
  BY DEF FuseInv, Counted
<1> DEFINE S == {c \in Cells : t2[c].count = 1}
<1>2. /\ pc' = "peel" /\ alone' = Ascending(S)
      /\ UNCHANGED <<filter, given, keys, Fingerprints, size, loop, i, hash, startPos,
                     reverseOrder, t2, duplicates, error, reverseH>>
  BY DEF Counted, caller, scatters, counts
<1>3. Keys' = Keys /\ Cells' = Cells /\ Entry' = Entry /\ Place' = Place
  BY <1>2, SameSets
<1>4. S \in SUBSET Nat /\ IsFiniteSet(S) /\ S \subseteq Cells
  <2>1. IsFiniteSet(Cells) /\ filter.ArrayLength \in Nat
    BY <1>1, ShapeFacts
  <2>2. S \subseteq Cells /\ Cells \subseteq Nat
    BY <2>1 DEF Cells
  <2> QED
    BY <2>1, <2>2, FS_Subset
<1>5. /\ Cardinality(S) \in Nat /\ alone' \in [1 .. Cardinality(S) -> S]
      /\ \A a, b \in 1 .. Cardinality(S) : alone'[a] = alone'[b] => a = b
  <2> HIDE DEF S
  <2> QED
    BY <1>2, <1>4, AscendingLists
<1>6. alone' \in Seq(Cells)
  <2>1. alone' \in [1 .. Cardinality(S) -> Cells]
    BY <1>4, <1>5
  <2> HIDE DEF S
  <2> QED
    BY <1>5, <2>1, SeqDef
<1>7. Shape'
  BY <1>1, <1>2, <1>3, <1>6 DEF Shape, Geometric
<1>8. KeysInv' /\ OrderInv'
  BY <1>1, <1>2, <1>3 DEF KeysInv, OrderInv, Free
<1>9. Len(reverseH) = 0 /\ Stacked = {} /\ Spent = {} /\ Stacked' = {} /\ Spent' = {}
  <2>1. Len(reverseH) = 0
    BY <1>1 DEF CountInv
  <2>2. Stacked = {} /\ Stacked' = {}
    BY <1>2, <2>1 DEF Stacked
  <2> QED
    BY <2>1, <2>2 DEF Spent
<1>10. QueueInv'
  <2>1. DOMAIN alone' = 1 .. Cardinality(S)
    BY <1>5
  <2>2. \A a \in DOMAIN alone' : t2[alone'[a]].count = 1
    BY <1>5, <2>1
  <2> HIDE DEF S
  <2> QED
    BY <1>2, <1>5, <1>9, <2>1, <2>2 DEF QueueInv
<1>11. StackInv'
  BY <1>9 DEF StackInv
<1>12. \E C, o : LeftAre(C, o)'
  <2>1. PICK C : CountedAre(C)
    BY <1>1 DEF CountInv
  <2>2. PICK o : o = reverseOrder
    OBVIOUS
  <2>3. /\ C \subseteq 0 .. size - 1 /\ Cardinality(C) + duplicates = size
        /\ \A p \in 0 .. size - 1 : \E j \in C : o[j] = o[p]
        /\ \A c \in Cells : CellIs(t2[c], C, o, c)
    BY <1>1, <2>1, <2>2 DEF CountedAre
  <2>4. C \subseteq 0 .. size' - 1 /\ Cardinality(C) + duplicates' + Len(reverseH') = size'
    <3>1. Cardinality(C) + duplicates + 0 = size
      <4>1. duplicates \in Nat /\ size \in Nat
        BY <1>1, ShapeFacts DEF Shape, Place
      <4>2. IsFiniteSet(0 .. size - 1)
        BY <4>1, FS_Interval
      <4>3. Cardinality(C) \in Nat
        BY <2>3, <4>2, FS_Subset, FS_CardinalityType
      <4> QED
        BY <2>3, <4>1, <4>3
    <3> QED
      BY <1>2, <1>9, <2>3, <3>1
  <2>5. \A j \in C : o[j] \in Keys'
    BY <1>1, <1>3, <2>2, <2>3 DEF OrderInv
  <2>6. \A k \in Keys' : \E j \in C : o[j] = k
    <3> SUFFICES ASSUME NEW k \in Keys PROVE \E j \in C : o[j] = k
      BY <1>3
    <3>1. PICK p \in 0 .. size - 1 : o[p] = k
      BY <1>1, <2>2 DEF CountInv
    <3> QED
      BY <2>3, <3>1
  <2>7. (\A c \in Cells : CellIs(t2[c], C, o, c))'
    <3> SUFFICES ASSUME NEW c \in Cells' PROVE CellIs(t2[c], C, o, c)'
      OBVIOUS
    <3>1. CellIs(t2[c], C, o, c)
      BY <1>3, <2>3
    <3> QED
      BY <1>2, <3>1, CellIsSame
  <2>8. LeftAre(C, o)'
    <3> HIDE DEF S
    <3>1. \A k \in Keys' : (\E j \in C : o[j] = k) \/ (\E a \in Stacked' : reverseOrder'[a] = k)
      BY <2>6
    <3> QED
      BY <1>9, <2>4, <2>5, <2>7, <3>1 DEF LeftAre
  <2> QED
    BY <2>8
<1>13. PeelInv'
  BY <1>10, <1>11, <1>12 DEF PeelInv
<1>14. SeedInv' /\ ScatterInv' /\ CountInv' /\ AssignInv' /\ BuiltInv'
  BY <1>2 DEF SeedInv, ScatterInv, CountInv, AssignInv, BuiltInv
<1> QED
  BY <1>7, <1>8, <1>13, <1>14 DEF FuseInv

-----------------------------------------------------------------------------
(***************************************************************************)
(* Peeling.                                                                *)
(***************************************************************************)
\* Entry e of cell c tells of one key only, k at slot found.
Lone(e, C, o, c, k, found) ==
  /\ IsFiniteSet(C) /\ \A j \in C : o[j] \in Keys
  /\ CellIs(e, C, o, c)
  /\ e.count = 1 /\ k \in e.hash
  /\ found \in Slot /\ e.slot = SlotBits(found)

\* The key a cell with one key names is the key counted in it, and the slot bits
\* are those of the slot where the key has the cell (:305-311).
LEMMA LoneKey ==
  ASSUME HashInv, NEW C, NEW o, NEW c, NEW e, NEW k, NEW found, Lone(e, C, o, c, k, found)
  PROVE  /\ k \in Keys /\ Cell(k, found) = c
         /\ \E j \in C : o[j] = k /\ Users(C, o, c) = {j}
<1>1. /\ IsFiniteSet(C) /\ \A j \in C : o[j] \in Keys
      /\ e.count = 1 /\ k \in e.hash
      /\ found \in Slot /\ e.slot = SlotBits(found)
  BY DEF Lone
<1>2. /\ Cardinality(Users(C, o, c)) = 1
      /\ k \in HashOf(C, o, c) /\ SlotBits(found) = SlotOf(C, o, c)
  BY <1>1 DEF Lone, CellIs
<1>3. k \in Keys /\ Uses(k, c) /\ Odd(Copies(C, o, k))
  BY <1>2 DEF HashOf
<1>4. Copies(C, o, k) # {}
  BY <1>3, FS_EmptySet DEF Odd
<1>5. PICK j \in C : o[j] = k
  BY <1>4 DEF Copies
<1>6. j \in Users(C, o, c)
  BY <1>3, <1>5 DEF Users
<1>7. Users(C, o, c) = {j}
  <2>1. IsFiniteSet(Users(C, o, c))
    BY <1>1, FS_Subset DEF Users
  <2>2. PICK x : Users(C, o, c) = {x}
    BY <1>2, <2>1, FS_Singleton
  <2> QED
    BY <1>6, <2>2
<1>8. PICK s \in Slot : Cell(k, s) = c
  BY <1>3 DEF Uses
<1>9. SlotOf(C, o, c) = SlotBits(s)
  <2>1. ASSUME NEW b \in {1, 2} PROVE b \in SlotOf(C, o, c) <=> b = s
    <3>1. UsersAt(C, o, b, c) = IF b = s THEN {j} ELSE {}
      <4>1. b \in Slot
        BY DEF Slot
      <4>2. \A m \in C : Cell(o[m], b) = c => m = j
        <5> SUFFICES ASSUME NEW m \in C, Cell(o[m], b) = c PROVE m = j
          OBVIOUS
        <5>1. m \in Users(C, o, c)
          BY <4>1 DEF Users, Uses
        <5> QED
          BY <1>7, <5>1
      <4>3. Cell(k, b) = c <=> b = s
        BY <1>3, <1>8, <4>1, KeyCells
      <4>4. UsersAt(C, o, b, c) \subseteq {j}
        BY <4>2 DEF UsersAt
      <4>5. j \in UsersAt(C, o, b, c) <=> b = s
        BY <1>5, <4>3 DEF UsersAt
      <4> QED
        BY <4>4, <4>5
    <3>2. Cardinality({j}) = 1 /\ Cardinality({}) = 0
      BY FS_Singleton, FS_EmptySet
    <3>3. Odd(UsersAt(C, o, b, c)) <=> b = s
      <4>1. CASE b = s
        BY <3>1, <3>2, <4>1 DEF Odd
      <4>2. CASE b # s
        <5>1. Cardinality(UsersAt(C, o, b, c)) = 0
          BY <3>1, <3>2, <4>2
        <5> QED
          BY <4>2, <5>1 DEF Odd
      <4> QED
        BY <4>1, <4>2
    <3> QED
      BY <3>3 DEF SlotOf
  <2>2. SlotOf(C, o, c) \subseteq {1, 2}
    BY DEF SlotOf
  <2>3. SlotBits(s) \subseteq {1, 2} /\ \A b \in {1, 2} : b \in SlotBits(s) <=> b = s
    BY DEF SlotBits, Slot
  <2> QED
    BY <2>1, <2>2, <2>3
<1>10. s = found
  <2>1. SlotBits(found) = SlotBits(s)
    BY <1>2, <1>9
  <2>2. \A a, b \in {0, 1, 2} : a \in SlotBits(b) <=> a = b /\ a # 0
    BY DEF SlotBits
  <2>3. s \in {0, 1, 2} /\ found \in {0, 1, 2}
    BY <1>1 DEF Slot
  <2> QED
    BY <2>1, <2>2, <2>3
<1> QED
  BY <1>3, <1>5, <1>7, <1>8, <1>10

\* A key that leaves the cells other than its own keeps them true to the rest.
LEMMA KeyRemoved ==
  ASSUME Shape, HashInv, NEW C, NEW D, NEW j, NEW k, NEW o, OneMore(C, D, j, k, o),
         NEW found \in Slot, NEW c \in Cells, c # Cell(k, found), CellIs(t2[c], D, o, c)
  PROVE  LET f == Toggle(t2, k, Slot \ {found}, -1)[c]
         IN  /\ CellIs(f, C, o, c) /\ f.count \in Nat /\ f.count <= t2[c].count
             /\ Uses(k, c) => t2[c].count = f.count + 1
<1>1. k \in Keys /\ c \in DOMAIN t2 /\ t2 \in [Cells -> Entry] /\ D = C \cup {j} /\ o[j] = k
  BY DEF Shape, OneMore
<1> DEFINE S == Slot \ {found}
           f == Toggle(t2, k, S, -1)[c]
<1>2. f \in Entry /\ t2[c] \in Entry
  <2>1. Toggle(t2, k, S, -1) \in [Cells -> Entry]
    BY <1>1, ToggleType
  <2> QED
    BY <1>1, <2>1
<1>3. f.count \in Nat /\ t2[c].count \in Nat
  <2>1. \A e \in Entry : e.count \in Nat
    BY ShapeFacts DEF Entry
  <2> HIDE DEF f
  <2> QED
    BY <1>2, <2>1
<1>4. CASE \A s \in S : Cell(k, s) # c
  <2>1. f = t2[c]
    BY <1>1, <1>4, ToggleUnused
  <2>2. ~ Uses(o[j], c)
    BY <1>1, <1>4 DEF Uses
  <2> HIDE DEF f
  <2>3. /\ Users(C \cup {j}, o, c) = Users(C, o, c)
        /\ SlotOf(C \cup {j}, o, c) = SlotOf(C, o, c)
        /\ HashOf(C \cup {j}, o, c) = HashOf(C, o, c)
    BY <2>2, CountedElsewhere
  <2>4. CellIs(f, C, o, c)
    BY <1>1, <2>1, <2>3 DEF CellIs
  <2>5. ~ Uses(k, c) /\ f.count \in Nat /\ f.count <= t2[c].count
    BY <1>1, <1>3, <2>1, <2>2
  <2> QED
    BY <2>4, <2>5 DEF f
<1>5. ASSUME NEW s \in S, Cell(k, s) = c
      PROVE  CellIs(f, C, o, c) /\ t2[c].count = f.count + 1
  <2>1. Hits(k, S, s, c) /\ Joins(j, k, C, D, o, c, s)
    BY <1>5 DEF Hits, Joins, OneMore
  <2>2. f = Changed(t2[c], k, s, -1)
    BY <1>1, <2>1, ToggleUsed
  <2> HIDE DEF f
  <2> QED
    BY <1>1, <2>1, <2>2, CellRemoved
<1>6. CASE \E s \in S : Cell(k, s) = c
  <2>1. CellIs(f, C, o, c) /\ t2[c].count = f.count + 1
    BY <1>5, <1>6
  <2> HIDE DEF f
  <2>2. f.count <= t2[c].count
    BY <1>3, <2>1
  <2> QED
    BY <1>3, <2>1, <2>2 DEF f
<1> QED
  BY <1>4, <1>6

\* The cells the queue may hold.
Low == {c \in Cells \ Spent : t2[c].count <= 1}

\* QueueInv says that the queue lists different low cells.
LEMMA QueueListed ==
  ASSUME Shape
  PROVE  QueueInv <=> Listed(alone, Low)
<1>1. alone \in Seq(Cells) /\ DOMAIN alone = 1 .. Len(alone) /\ Len(alone) \in Nat
  BY LenProperties DEF Shape
<1>2. \A a \in DOMAIN alone : alone[a] \in Cells
  BY <1>1
<1>3. ASSUME QueueInv PROVE Listed(alone, Low)
  <2>1. \A a \in DOMAIN alone : alone[a] \in Low
    BY <1>2, <1>3 DEF QueueInv, Low
  <2>2. alone \in Seq(Low)
    BY <1>1, <2>1, SeqDef
  <2> QED
    BY <1>3, <2>2 DEF QueueInv, Listed
<1>4. ASSUME Listed(alone, Low) PROVE QueueInv
  <2>1. \A a \in DOMAIN alone : alone[a] \in Low
    BY <1>1, <1>4 DEF Listed
  <2> QED
    BY <1>4, <2>1 DEF QueueInv, Listed, Low
<1> QED
  BY <1>3, <1>4

\* What the push of a cell adds to the queue.
Pushed(c) == {d \in {c} : t2[d].count = 2}

\* A cell that is left with one key is in no list of low cells yet.
LEMMA ListedPush ==
  ASSUME NEW S, NEW q, Listed(q, S), NEW c, t2[c].count = 2 => c \notin S
  PROVE  Listed(PushIf(q, c), S \cup Pushed(c))
<1>1. CASE t2[c].count = 2
  <2>1. Pushed(c) = {c} /\ PushIf(q, c) = Append(q, c)
    BY <1>1 DEF Pushed, PushIf
  <2>2. c \notin S
    BY <1>1
  <2> QED
    BY <2>1, <2>2, ListedAppend
<1>2. CASE t2[c].count # 2
  <2>1. S \cup Pushed(c) = S /\ PushIf(q, c) = q
    BY <1>2 DEF Pushed, PushIf
  <2> QED
    BY <2>1
<1> QED
  BY <1>1, <1>2

\* A list from a set is a list from a greater one.
LEMMA ListedWider ==
  ASSUME NEW S, NEW T, S \subseteq T, NEW q, Listed(q, S)
  PROVE  Listed(q, T)
BY DEF Listed

\* The head of the queue is a cell that has more or fewer keys by now (:303-304).
LEMMA PeelSkips ==
  ASSUME FuseInv, Peel, t2[Last(alone)].count # 1
  PROVE  FuseInv'
<1>1. Shape /\ KeysInv /\ OrderInv /\ PeelInv /\ pc = "peel" /\ alone # <<>>
  BY DEF FuseInv, Peel
<1>2. /\ pc' = "peel" /\ alone' = Front(alone)
      /\ UNCHANGED <<filter, given, keys, Fingerprints, size, loop, i, hash, startPos,
                     reverseOrder, t2, duplicates, error, reverseH>>
  BY DEF Peel, caller
<1>3. Keys' = Keys /\ Cells' = Cells /\ Entry' = Entry /\ Place' = Place
  BY <1>2, SameSets
<1>4. StackInv /\ QueueInv /\ \E C, o : LeftAre(C, o)
  BY <1>1 DEF PeelInv
<1>5. Listed(alone', Low \ {Last(alone)})
  <2>1. Listed(alone, Low)
    BY <1>1, <1>4, QueueListed
  <2> QED
    BY <1>1, <1>2, <2>1, ListedFront
<1>6. Stacked' = Stacked /\ Spent' = Spent /\ \A a : Own(a)' = Own(a)
  <2>1. \A k, s : Cell(k, s)' = Cell(k, s)
    BY <1>2 DEF Cell
  <2>2. \A a : Own(a)' = Own(a)
    BY <1>2, <2>1 DEF Own
  <2>3. Stacked' = Stacked
    BY <1>2 DEF Stacked
  <2> QED
    BY <2>2, <2>3 DEF Spent
<1>7. Low' = Low
  BY <1>2, <1>3, <1>6 DEF Low
<1>8. Listed(alone', Low')
  <2>1. Low \ {Last(alone)} \subseteq Low'
    BY <1>7
  <2> QED
    BY <1>5, <2>1, ListedWider
<1>9. alone' \in Seq(Cells')
  <2>1. Low' \subseteq Cells'
    BY DEF Low
  <2> QED
    BY <1>8, <2>1 DEF Listed
<1>10. Shape'
  BY <1>1, <1>2, <1>3, <1>9 DEF Shape, Geometric
<1>11. KeysInv' /\ OrderInv'
  BY <1>1, <1>2, <1>3 DEF KeysInv, OrderInv, Free
<1>12. QueueInv'
  <2>1. (Shape => (QueueInv <=> Listed(alone, Low)))'
    BY QueueListed, PTL
  <2> QED
    BY <1>8, <1>10, <2>1 DEF Listed
<1>13. StackInv'
  <2>1. \A k, c : Uses(k, c)' = Uses(k, c)
    BY <1>2 DEF Uses, Cell
  <2> QED
    BY <1>2, <1>3, <1>4, <1>6, <2>1 DEF StackInv
<1>14. \E C, o : LeftAre(C, o)'
  <2>1. PICK C, o : LeftAre(C, o)
    BY <1>4
  <2>2. (\A c \in Cells \ Spent : CellIs(t2[c], C, o, c))'
    <3> SUFFICES ASSUME NEW c \in Cells' \ Spent' PROVE CellIs(t2[c], C, o, c)'
      OBVIOUS
    <3>1. CellIs(t2[c], C, o, c)
      BY <1>3, <1>6, <2>1 DEF LeftAre
    <3> QED
      BY <1>2, <3>1, CellIsSame
  <2>3. \A k, c : Uses(k, c)' = Uses(k, c)
    BY <1>2 DEF Uses, Cell
  <2>4. /\ C \subseteq 0 .. size' - 1
        /\ Cardinality(C) + duplicates' + Len(reverseH') = size'
        /\ \A j \in C : o[j] \in Keys'
        /\ \A k \in Keys' : (\E j \in C : o[j] = k) \/ (\E a \in Stacked' : reverseOrder'[a] = k)
        /\ \A j \in C, c \in Spent' : ~ Uses(o[j], c)'
    BY <1>2, <1>3, <1>6, <2>1, <2>3 DEF LeftAre
  <2>5. LeftAre(C, o)'
    BY <2>2, <2>4 DEF LeftAre
  <2> QED
    BY <2>5
<1>15. PeelInv'
  BY <1>12, <1>13, <1>14 DEF PeelInv
<1>16. SeedInv' /\ ScatterInv' /\ CountInv' /\ AssignInv' /\ BuiltInv'
  BY <1>2 DEF SeedInv, ScatterInv, CountInv, AssignInv, BuiltInv
<1> QED
  BY <1>10, <1>11, <1>15, <1>16 DEF FuseInv

\* The first n elements stay and one is added.
LEMMA PushedOn ==
  ASSUME NEW A, NEW q \in Seq(A), NEW x \in A
  PROVE  /\ Append(q, x) \in Seq(A) /\ Len(Append(q, x)) = Len(q) + 1
         /\ Append(q, x)[Len(q) + 1] = x
         /\ \A a \in 1 .. Len(q) : Append(q, x)[a] = q[a]
OBVIOUS

\* A key is taken off: the one cell the queue's head names is spent (:304-329).
LEMMA PeelTakes ==
  ASSUME FuseInv, Peel, t2[Last(alone)].count = 1
  PROVE  FuseInv'
<1>1. Shape /\ KeysInv /\ OrderInv /\ PeelInv /\ pc = "peel" /\ alone # <<>>
  BY DEF FuseInv, Peel
<1> DEFINE index == Last(alone)
<1>2. PICK k \in t2[index].hash, found \in Slot :
        /\ t2[index].slot = SlotBits(found)
        /\ alone' = PushIf(PushIf(Front(alone), Cell(k, (found + 1) % 3)),
                           Cell(k, (found + 2) % 3))
        /\ t2' = Toggle(t2, k, Slot \ {found}, -1)
        /\ reverseOrder' = [reverseOrder EXCEPT ![Len(reverseH)] = k]
        /\ reverseH' = Append(reverseH, found)
  BY DEF Peel
<1>3. /\ pc' = "peel"
      /\ UNCHANGED <<filter, given, keys, Fingerprints, size, loop, i, hash, startPos,
                     duplicates, error>>
  BY DEF Peel, caller
<1>4. /\ Keys' = Keys /\ Cells' = Cells /\ Entry' = Entry /\ Place' = Place
      /\ \A m, s : Cell(m, s)' = Cell(m, s)
      /\ \A m, c : Uses(m, c)' = Uses(m, c)
  BY <1>3, SameSets DEF Cell, Uses
<1>5. HashInv
  BY <1>1 DEF Shape, HashInv
<1>6. StackInv /\ Listed(alone, Low) /\ \E C, o : LeftAre(C, o)
  BY <1>1, QueueListed DEF PeelInv
<1>7. index \in Low /\ Listed(Front(alone), Low \ {index})
  BY <1>1, <1>6, ListedFront
<1>8. PICK C, o : LeftAre(C, o)
  BY <1>6
<1>9. /\ size \in Nat /\ size <= Len(given) /\ Len(given) \in Nat /\ duplicates \in Nat
      /\ IsFiniteSet(C) /\ Cardinality(C) \in Nat
  <2>1. size \in Nat /\ size <= Len(given) /\ Len(given) \in Nat /\ duplicates \in Nat
    BY <1>1, ShapeFacts DEF Shape, Place
  <2>2. IsFiniteSet(0 .. size - 1)
    BY <2>1, FS_Interval
  <2>3. C \subseteq 0 .. size - 1
    BY <1>8 DEF LeftAre
  <2> QED
    BY <2>1, <2>2, <2>3, FS_Subset, FS_CardinalityType
<1>10. Lone(t2[index], C, o, index, k, found)
  <2>1. index \in Cells \ Spent
    BY <1>7 DEF Low
  <2> QED
    BY <1>2, <1>8, <1>9, <2>1 DEF LeftAre, Lone
<1>11. k \in Keys /\ Cell(k, found) = index /\ \E j \in C : o[j] = k /\ Users(C, o, index) = {j}
  <2>1. /\ k \in Keys /\ Cell(k, found) = index
        /\ \E j \in C : o[j] = k /\ Users(C, o, index) = {j}
    <3> HIDE DEF index
    <3> QED
      BY <1>5, <1>10, LoneKey
  <2> QED
    BY <2>1
<1>12. PICK j \in C : o[j] = k /\ Users(C, o, index) = {j}
  BY <1>11
<1>13. PICK D : D = C \ {j}
  OBVIOUS
<1>14. OneMore(D, C, j, k, o) /\ Cardinality(C) = Cardinality(D) + 1 /\ Cardinality(D) \in Nat
  <2>1. IsFiniteSet(D) /\ j \notin D /\ C = D \cup {j}
    BY <1>9, <1>12, <1>13, FS_Subset
  <2>2. Cardinality(D \cup {j}) = Cardinality(D) + 1 /\ Cardinality(D) \in Nat
    BY <2>1, FS_AddElement, FS_CardinalityType
  <2> QED
    BY <1>11, <1>12, <2>1, <2>2 DEF OneMore
<1>15. PICK n : n = Len(reverseH)
  OBVIOUS
<1>16. /\ n \in Nat /\ n < size
       /\ Len(reverseH') = n + 1 /\ reverseH'[n + 1] = found
       /\ \A a \in 1 .. n : reverseH'[a] = reverseH[a]
       /\ reverseH' \in Seq(Slot)
  <2>1. reverseH \in Seq(Slot)
    BY <1>1 DEF Shape
  <2>2. n \in Nat
    BY <1>15, <2>1, LenProperties
  <2>3. Cardinality(C) + duplicates + n = size
    BY <1>8, <1>15 DEF LeftAre
  <2>4. n < size
    BY <1>9, <1>14, <2>2, <2>3
  <2> QED
    BY <1>2, <1>15, <2>1, <2>2, <2>4, PushedOn
<1>17. /\ reverseOrder'[n] = k
       /\ \A p \in Place : p # n => reverseOrder'[p] = reverseOrder[p]
       /\ reverseOrder' \in [Place -> Keys \cup {NoKey, Sentinel}]
  <2>1. n \in Place /\ reverseOrder \in [Place -> Keys \cup {NoKey, Sentinel}]
    BY <1>1, <1>9, <1>16 DEF Place, Shape
  <2> QED
    BY <1>2, <1>11, <1>15, <2>1
<1>18. /\ Stacked = 0 .. n - 1 /\ Stacked' = Stacked \cup {n} /\ n \notin Stacked
       /\ \A a \in Stacked : a \in Place /\ a < n
  BY <1>9, <1>15, <1>16 DEF Stacked, Place
<1>19. Own(n)' = index /\ \A a \in Stacked : reverseOrder'[a] = reverseOrder[a] /\ Own(a)' = Own(a)
  <2>1. Own(n)' = Cell(k, found)
    BY <1>4, <1>16, <1>17 DEF Own
  <2>2. ASSUME NEW a \in Stacked
        PROVE  reverseOrder'[a] = reverseOrder[a] /\ Own(a)' = Own(a)
    <3>1. a \in Place /\ a # n /\ a + 1 \in 1 .. n
      BY <1>16, <1>18
    <3>2. reverseOrder'[a] = reverseOrder[a] /\ reverseH'[a + 1] = reverseH[a + 1]
      BY <1>16, <1>17, <3>1
    <3> QED
      BY <1>4, <3>2 DEF Own
  <2> QED
    BY <1>11, <2>1, <2>2
<1>20. Spent' = Spent \cup {index}
  <2> DEFINE own(a) == Cell(reverseOrder'[a], reverseH'[a + 1])
  <2>1. \A a : Own(a)' = own(a)
    BY <1>4 DEF Own
  <2>2. Spent' = {own(a) : a \in Stacked'}
    BY <1>4 DEF Spent, Own
  <2>3. own(n) = index /\ \A a \in Stacked : own(a) = Own(a)
    BY <1>19, <2>1
  <2> HIDE DEF index, own
  <2> QED
    BY <1>18, <2>2, <2>3 DEF Spent
<1> DEFINE f(c) == Toggle(t2, k, Slot \ {found}, -1)[c]
<1>21. ASSUME NEW c \in Cells \ Spent, c # index
       PROVE  /\ CellIs(t2'[c], D, o, c) /\ t2'[c].count \in Nat /\ t2'[c].count <= t2[c].count
              /\ Uses(k, c) => t2[c].count = t2'[c].count + 1
  <2>1. CellIs(t2[c], C, o, c)
    BY <1>8, <1>21 DEF LeftAre
  <2>2. c \in Cells /\ c # Cell(k, found)
    BY <1>11, <1>21
  <2> HIDE DEF index
  <2>3. /\ CellIs(f(c), D, o, c) /\ f(c).count \in Nat /\ f(c).count <= t2[c].count
        /\ Uses(k, c) => t2[c].count = f(c).count + 1
    BY <1>1, <1>5, <1>14, <2>1, <2>2, KeyRemoved
  <2> QED
    BY <1>2, <2>3
<1> HIDE DEF index
<1>22. t2' \in [Cells -> Entry]
  <2>1. t2 \in [Cells -> Entry] /\ Slot \ {found} \in SUBSET Slot
    BY <1>1 DEF Shape
  <2> QED
    BY <1>1, <1>2, <1>5, <1>11, <2>1, ToggleType
<1>23. OrderInv'
  <2>1. n # size /\ size \in Place
    BY <1>9, <1>16 DEF Place
  <2>2. ~ Free(size)'
    BY <1>1, <1>3, <1>17, <2>1 DEF OrderInv, Free
  <2>3. \A p \in 0 .. size - 1 : reverseOrder'[p] \in Keys
    <3> SUFFICES ASSUME NEW p \in 0 .. size - 1 PROVE reverseOrder'[p] \in Keys
      OBVIOUS
    <3>1. p \in Place
      BY <1>9 DEF Place
    <3> QED
      BY <1>1, <1>11, <1>17, <3>1 DEF OrderInv
  <2> QED
    BY <1>3, <1>4, <2>2, <2>3 DEF OrderInv
<1>24. StackInv'
  <2>1. \A a \in Stacked' : reverseOrder'[a] \in Keys
    BY <1>6, <1>11, <1>17, <1>18, <1>19 DEF StackInv
  <2>2. ASSUME NEW a \in Stacked', NEW b \in Stacked', a < b
        PROVE  ~ Uses(reverseOrder'[b], Own(a)')
    <3>1. a \in Stacked
      BY <1>16, <1>18, <2>2
    <3>2. CASE b \in Stacked
      BY <1>6, <1>19, <2>2, <3>1, <3>2 DEF StackInv
    <3>3. CASE b = n
      <4>1. Own(a) \in Spent
        BY <3>1 DEF Spent
      <4>2. ~ Uses(k, Own(a))
        BY <1>8, <1>12, <4>1 DEF LeftAre
      <4> QED
        BY <1>17, <1>19, <3>1, <3>3, <4>2
    <3> QED
      BY <1>18, <3>2, <3>3
  <2>3. (\A a, b \in Stacked : a < b => ~ Uses(reverseOrder[b], Own(a)))'
    BY <1>4, <2>2
  <2> QED
    BY <1>4, <2>1, <2>3 DEF StackInv
<1>25. LeftAre(D, o)'
  <2>1. D \subseteq 0 .. size' - 1 /\ Cardinality(D) + duplicates' + Len(reverseH') = size'
    <3>1. C \subseteq 0 .. size - 1 /\ Cardinality(C) + duplicates + n = size
      BY <1>8, <1>15 DEF LeftAre
    <3>2. Cardinality(D) + duplicates + (n + 1) = size
      BY <1>9, <1>14, <1>16, <3>1
    <3> QED
      BY <1>3, <1>13, <1>16, <3>1, <3>2
  <2>2. \A m \in D : o[m] \in Keys'
    BY <1>4, <1>8, <1>13 DEF LeftAre
  <2>3. \A m \in Keys' : (\E l \in D : o[l] = m) \/ (\E a \in Stacked' : reverseOrder'[a] = m)
    <3> SUFFICES ASSUME NEW m \in Keys
                 PROVE  (\E l \in D : o[l] = m) \/ (\E a \in Stacked' : reverseOrder'[a] = m)
      BY <1>4
    <3>1. (\E l \in C : o[l] = m) \/ (\E a \in Stacked : reverseOrder[a] = m)
      BY <1>8 DEF LeftAre
    <3>2. ASSUME NEW l \in C, o[l] = m PROVE l \in D \/ (m = k /\ n \in Stacked')
      BY <1>12, <1>13, <1>18, <3>2
    <3> QED
      BY <1>17, <1>18, <1>19, <3>1, <3>2
  <2>4. \A m \in D, c \in Spent' : ~ Uses(o[m], c)
    <3> SUFFICES ASSUME NEW m \in D, NEW c \in Spent' PROVE ~ Uses(o[m], c)
      OBVIOUS
    <3>1. m \in C /\ m # j
      BY <1>13
    <3>2. CASE c \in Spent
      BY <1>8, <3>1, <3>2 DEF LeftAre
    <3>3. CASE c = index
      BY <1>12, <3>1, <3>3 DEF Users
    <3> QED
      BY <1>20, <3>2, <3>3
  <2>5. (\A c \in Cells \ Spent : CellIs(t2[c], D, o, c))'
    <3> SUFFICES ASSUME NEW c \in Cells' \ Spent' PROVE CellIs(t2[c], D, o, c)'
      OBVIOUS
    <3>1. c \in Cells \ Spent /\ c # index
      BY <1>4, <1>20
    <3>2. PICK e : e = t2'[c]
      OBVIOUS
    <3>3. CellIs(e, D, o, c)
      BY <1>21, <3>1, <3>2
    <3>4. CellIs(e, D, o, c)'
      BY <1>3, <3>3, CellIsSame
    <3> QED
      BY <3>2, <3>4 DEF CellIs
  <2>6. (\A m \in D, c \in Spent : ~ Uses(o[m], c))'
    BY <1>4, <2>4
  <2> QED
    BY <2>1, <2>2, <2>3, <2>5, <2>6 DEF LeftAre
<1>26. Listed(alone', Low')
  <2> DEFINE c1 == Cell(k, (found + 1) % 3)
             c2 == Cell(k, (found + 2) % 3)
             S == Low \ {index}
             T == S \cup Pushed(c1)
             U == T \cup Pushed(c2)
  <2>1. /\ (found + 1) % 3 \in Slot /\ (found + 2) % 3 \in Slot
        /\ (found + 1) % 3 # found /\ (found + 2) % 3 # found
        /\ (found + 1) % 3 # (found + 2) % 3
    BY <1>2 DEF Slot
  <2>2. /\ c1 \in Cells /\ c2 \in Cells /\ c1 # c2 /\ c1 # index /\ c2 # index
        /\ Uses(k, c1) /\ Uses(k, c2)
    <3>1. Cell(k, found) = index /\ k \in Keys
      BY <1>11
    <3> QED
      BY <1>5, <2>1, <3>1, KeyCells DEF Uses
  <2>3. c1 \notin Spent /\ c2 \notin Spent
    BY <1>8, <1>12, <2>2 DEF LeftAre
  <2>4. alone' = PushIf(PushIf(Front(alone), c1), c2)
    BY <1>2
  <2> HIDE DEF c1, c2
  <2>5. Listed(alone', U)
    <3>1. (t2[c1].count = 2 => c1 \notin S) /\ (t2[c2].count = 2 => c2 \notin T)
      <4>1. \A c : t2[c].count = 2 => c \notin Low
        BY DEF Low
      <4> QED
        BY <2>2, <4>1 DEF Pushed
    <3>2. Listed(PushIf(Front(alone), c1), T)
      <4>1. Listed(Front(alone), S)
        BY <1>7
      <4> HIDE DEF S
      <4> QED
        BY <3>1, <4>1, ListedPush
    <3> HIDE DEF T
    <3> QED
      BY <2>4, <3>1, <3>2, ListedPush
  <2>6. \A c \in U : c \in Low'
    <3> SUFFICES ASSUME NEW c \in U PROVE c \in Low'
      OBVIOUS
    <3>1. CASE c \in Low /\ c # index
      <4>1. c \in Cells \ Spent /\ t2[c].count <= 1 /\ t2[c].count \in Nat
        BY <1>1, <3>1, ShapeFacts DEF Low, Shape, Entry
      <4>2. t2'[c].count \in Nat /\ t2'[c].count <= t2[c].count
        BY <1>21, <3>1, <4>1
      <4>3. t2'[c].count <= 1
        BY <4>1, <4>2
      <4> QED
        BY <1>4, <1>20, <3>1, <4>1, <4>3 DEF Low
    <3>2. CASE (c = c1 \/ c = c2) /\ t2[c].count = 2
      <4>1. c \in Cells \ Spent /\ c # index /\ Uses(k, c)
        BY <2>2, <2>3, <3>2
      <4>2. t2'[c].count \in Nat /\ t2[c].count = t2'[c].count + 1
        BY <1>21, <4>1
      <4>3. t2'[c].count <= 1
        BY <3>2, <4>2
      <4> QED
        BY <1>4, <1>20, <4>1, <4>3 DEF Low
    <3> QED
      BY <3>1, <3>2 DEF Pushed
  <2> HIDE DEF U
  <2> QED
    BY <2>5, <2>6, ListedWider
<1>27. alone' \in Seq(Cells')
  <2>1. Low' \subseteq Cells'
    BY DEF Low
  <2> QED
    BY <1>26, <2>1 DEF Listed
<1>28. Shape'
  <2>1. reverseH' \in Seq(Slot) /\ Len(reverseH') <= Len(given)
    BY <1>9, <1>16
  <2> QED
    BY <1>1, <1>3, <1>4, <1>17, <1>22, <1>27, <2>1 DEF Shape, Geometric
<1>29. KeysInv'
  BY <1>1, <1>3, <1>4 DEF KeysInv
<1>30. QueueInv'
  <2>1. (Shape => (QueueInv <=> Listed(alone, Low)))'
    BY QueueListed, PTL
  <2> QED
    BY <1>26, <1>28, <2>1 DEF Listed
<1>31. PeelInv'
  <2>1. \E C1, o1 : LeftAre(C1, o1)'
    BY <1>25
  <2> QED
    BY <1>24, <1>30, <2>1 DEF PeelInv
<1>32. SeedInv' /\ ScatterInv' /\ CountInv' /\ AssignInv' /\ BuiltInv'
  BY <1>3 DEF SeedInv, ScatterInv, CountInv, AssignInv, BuiltInv
<1> QED
  BY <1>23, <1>28, <1>29, <1>31, <1>32 DEF FuseInv

\* The queue gives a cell (:301-330).
LEMMA FusePeel ==
  ASSUME FuseInv, Peel
  PROVE  FuseInv'
BY PeelSkips, PeelTakes

\* Nothing is left in the array (:331-334).
LEMMA FusePeeled ==
  ASSUME FuseInv, Peeled
  PROVE  FuseInv'
<1>1. Shape /\ KeysInv /\ PeelInv /\ pc = "peel" /\ AllPeeled
  BY DEF FuseInv, Peeled
<1>2. /\ pc' = "assign" /\ size' = Len(reverseH) /\ i' = Len(reverseH)
      /\ UNCHANGED <<filter, given, keys, Fingerprints, loop, hash, startPos, reverseOrder,
                     t2, duplicates, error, reverseH, alone>>
  BY DEF Peeled, caller, scatters, counts
<1>3. /\ Keys' = Keys /\ Cells' = Cells /\ Entry' = Entry /\ Place' = Place
      /\ \A k, c : Uses(k, c)' = Uses(k, c)
  BY <1>2, SameSets DEF Cell, Uses
<1>4. PICK C, o : LeftAre(C, o)
  BY <1>1 DEF PeelInv
<1>5. /\ size \in Nat /\ Len(reverseH) \in Nat /\ duplicates \in Nat
      /\ Len(reverseH) <= Len(given) /\ Len(given) \in Nat
  <2>1. reverseH \in Seq(Slot)
    BY <1>1 DEF Shape
  <2> QED
    BY <1>1, <2>1, ShapeFacts, LenProperties DEF Shape, Place
<1>6. C = {}
  <2>1. C \subseteq 0 .. size - 1 /\ Cardinality(C) + duplicates + Len(reverseH) = size
    BY <1>4 DEF LeftAre
  <2>2. IsFiniteSet(C) /\ Cardinality(C) \in Nat
    <3>1. IsFiniteSet(0 .. size - 1)
      BY <1>5, FS_Interval
    <3> QED
      BY <2>1, <3>1, FS_Subset, FS_CardinalityType
  <2>3. Cardinality(C) = 0
    BY <1>1, <1>5, <2>1, <2>2 DEF AllPeeled
  <2> QED
    BY <2>2, <2>3, FS_EmptySet
<1>7. \A k \in Keys : \E a \in Stacked : reverseOrder[a] = k
  BY <1>4, <1>6 DEF LeftAre
<1>8. Stacked' = Stacked /\ \A a : Own(a)' = Own(a)
  BY <1>2 DEF Stacked, Own, Cell
<1>9. StackInv'
  <2>1. StackInv
    BY <1>1 DEF PeelInv
  <2> QED
    BY <1>2, <1>3, <1>8, <2>1 DEF StackInv
<1>10. Shape'
  <2>1. size' \in Place /\ i' \in 0 .. size'
    BY <1>2, <1>5 DEF Place
  <2> QED
    BY <1>1, <1>2, <1>3, <2>1 DEF Shape, Geometric
<1>11. KeysInv'
  BY <1>1, <1>2, <1>3 DEF KeysInv
<1>12. AssignInv'
  <2>1. \A a \in i' .. size' - 1 : FALSE
    BY <1>2, <1>5
  <2>2. \A k \in Keys' : \E a \in Stacked' : reverseOrder'[a] = k
    BY <1>2, <1>3, <1>7, <1>8
  <2> QED
    BY <1>2, <1>9, <2>1, <2>2 DEF AssignInv
<1>13. SeedInv' /\ ScatterInv' /\ OrderInv' /\ CountInv' /\ PeelInv' /\ BuiltInv'
  BY <1>2 DEF SeedInv, ScatterInv, OrderInv, CountInv, PeelInv, BuiltInv
<1> QED
  BY <1>10, <1>11, <1>12, <1>13 DEF FuseInv

-----------------------------------------------------------------------------
(***************************************************************************)
(* Assignment.                                                             *)
(***************************************************************************)
\* The exclusive or of three cells is p when one of them is set to the
\* exclusive or of p and the two others.
LEMMA XorOfThree ==
  ASSUME NEW p \in Nat, NEW x \in Nat, NEW y \in Nat, NEW z, z = Xor(p, Xor(x, y))
  PROVE  /\ Xor(z, Xor(x, y)) = p /\ Xor(x, Xor(z, y)) = p /\ Xor(x, Xor(y, z)) = p
         /\ Xor(z, Xor(y, x)) = p /\ Xor(y, Xor(z, x)) = p /\ Xor(y, Xor(x, z)) = p
<1> DEFINE w == Xor(x, y)
<1>1. w \in Nat /\ z \in Nat /\ w = Xor(y, x)
  BY XorType, XorCommutes
<1>2. Xor(z, w) = p
  <2> HIDE DEF w
  <2>1. z = Xor(p, w)
    BY DEF w
  <2>2. Xor(Xor(p, w), w) = Xor(p, Xor(w, w))
    BY <1>1, XorAssociates
  <2>3. Xor(w, w) = 0 /\ Xor(p, 0) = p
    BY <1>1, XorCancels
  <2> QED
    BY <2>1, <2>2, <2>3
<1>3. ASSUME NEW a \in Nat, NEW b \in Nat, Xor(a, b) = w
      PROVE  Xor(a, Xor(z, b)) = p /\ Xor(a, Xor(b, z)) = p
  <2> HIDE DEF w
  <2>1. Xor(z, b) = Xor(b, z) /\ Xor(a, Xor(b, z)) = Xor(Xor(a, b), z) /\ Xor(w, z) = Xor(z, w)
    BY <1>1, XorCommutes, XorAssociates
  <2> QED
    BY <1>2, <1>3, <2>1
<1> QED
  BY <1>1, <1>2, <1>3

\* What contain computes, cell by cell.
LEMMA ContainCells ==
  ASSUME HashInv, NEW k \in Keys
  PROVE  /\ binary_fuse8_contain(k) <=>
              fingerprint(hash[k]) = Xor(Fingerprints[Cell(k, 0)],
                                         Xor(Fingerprints[Cell(k, 1)], Fingerprints[Cell(k, 2)]))
         /\ fingerprint(hash[k]) \in 0 .. Pow2[FingerprintBits] - 1
<1>1. hash[k] \in 0 .. Pow2[HashBits] - 1 /\ hash[k] \in Nat /\ Geometric(filter)
  <2>1. hash[k] \in 0 .. Pow2[HashBits] - 1 /\ Geometric(filter)
    BY PopulateAssumption DEF HashInv
  <2>2. Pow2[HashBits] \in Nat
    BY FuseWidths, Pow2Type
  <2> QED
    BY <2>1, <2>2
<1>2. hash_batch(hash[k], filter) = <<Cell(k, 0), Cell(k, 1), Cell(k, 2)>>
  BY <1>1, BatchIsCells DEF Cell
<1>3. fingerprint(hash[k]) \in 0 .. Pow2[FingerprintBits] - 1
  BY <1>1, FingerprintFits
<1> QED
  BY <1>2, <1>3 DEF binary_fuse8_contain

\* The set cell makes its key one that contain reports, and no key that does not
\* use the cell notices (:344-356).
Assigned(k, s, F) ==
  /\ k \in Keys /\ s \in Slot
  /\ F = [Fingerprints EXCEPT
            ![Cell(k, s)] = Xor(fingerprint(hash[k]),
                                Xor(Fingerprints[Cell(k, (s + 1) % 3)],
                                    Fingerprints[Cell(k, (s + 2) % 3)]))]

\* The three cells of the key give its fingerprint and no other cell has changed.
LEMMA AssignedReports ==
  ASSUME Shape, HashInv, NEW k, NEW s, NEW F, Assigned(k, s, F)
  PROVE  /\ F \in [Cells -> 0 .. Pow2[FingerprintBits] - 1]
         /\ fingerprint(hash[k]) = Xor(F[Cell(k, 0)], Xor(F[Cell(k, 1)], F[Cell(k, 2)]))
         /\ \A c \in Cells : c # Cell(k, s) => F[c] = Fingerprints[c]
<1> DEFINE p == fingerprint(hash[k])
           M == Pow2[FingerprintBits]
           x == Fingerprints[Cell(k, (s + 1) % 3)]
           y == Fingerprints[Cell(k, (s + 2) % 3)]
           z == Xor(p, Xor(x, y))
<1>1. /\ k \in Keys /\ s \in Slot /\ F = [Fingerprints EXCEPT ![Cell(k, s)] = z]
      /\ Fingerprints \in [Cells -> 0 .. M - 1]
  BY DEF Assigned, Shape
<1>2. M \in Nat /\ FingerprintBits \in Nat
  BY FuseWidths, Pow2Type
<1>3. p \in 0 .. M - 1
  BY <1>1, ContainCells
<1>4. s = 0 \/ s = 1 \/ s = 2
  BY <1>1 DEF Slot
<1>5. (s + 1) % 3 \in Slot /\ (s + 2) % 3 \in Slot
  BY <1>4 DEF Slot
<1>6. x \in 0 .. M - 1 /\ y \in 0 .. M - 1
  BY <1>1, <1>5, KeyCells
<1>7. z \in 0 .. M - 1
  <2> HIDE DEF p, x, y
  <2>1. Xor(x, y) \in 0 .. M - 1
    BY <1>2, <1>6, XorBound
  <2> QED
    BY <1>2, <1>3, <2>1, XorBound
<1>8. \A a \in 0 .. M - 1 : a \in Nat
  BY <1>2
<1>9. /\ Xor(z, Xor(x, y)) = p /\ Xor(x, Xor(y, z)) = p /\ Xor(y, Xor(z, x)) = p
  <2>1. p \in Nat /\ x \in Nat /\ y \in Nat
    BY <1>3, <1>6, <1>8
  <2> HIDE DEF p, x, y
  <2> QED
    BY <2>1, XorOfThree
<1> HIDE DEF M, z, p
<1>10. \A c \in Cells : F[c] = IF c = Cell(k, s) THEN z ELSE Fingerprints[c]
  BY <1>1
<1>11. F \in [Cells -> 0 .. M - 1]
  BY <1>1, <1>7
<1>12. /\ Cell(k, s) \in Cells /\ Cell(k, (s + 1) % 3) \in Cells /\ Cell(k, (s + 2) % 3) \in Cells
       /\ Cell(k, (s + 1) % 3) # Cell(k, s) /\ Cell(k, (s + 2) % 3) # Cell(k, s)
  <2>1. (s + 1) % 3 # s /\ (s + 2) % 3 # s
    BY <1>4
  <2> QED
    BY <1>1, <1>5, <2>1, KeyCells
<1>13. F[Cell(k, s)] = z /\ F[Cell(k, (s + 1) % 3)] = x /\ F[Cell(k, (s + 2) % 3)] = y
  BY <1>10, <1>12
<1> HIDE DEF x, y
<1>14. p = Xor(F[Cell(k, 0)], Xor(F[Cell(k, 1)], F[Cell(k, 2)]))
  <2>1. CASE s = 0
    <3>1. (s + 1) % 3 = 1 /\ (s + 2) % 3 = 2
      BY <2>1
    <3> QED
      BY <1>9, <1>13, <2>1, <3>1
  <2>2. CASE s = 1
    <3>1. (s + 1) % 3 = 2 /\ (s + 2) % 3 = 0
      BY <2>2
    <3> QED
      BY <1>9, <1>13, <2>2, <3>1
  <2>3. CASE s = 2
    <3>1. (s + 1) % 3 = 0 /\ (s + 2) % 3 = 1
      BY <2>3
    <3> QED
      BY <1>9, <1>13, <2>3, <3>1
  <2> QED
    BY <1>4, <2>1, <2>2, <2>3
<1> QED
  BY <1>10, <1>11, <1>14 DEF M, p

\* The cells contain reads, for one state after another.
LEMMA ContainEquation ==
  HashInv => \A l \in Keys : binary_fuse8_contain(l) <=>
               fingerprint(hash[l]) = Xor(Fingerprints[Cell(l, 0)],
                                          Xor(Fingerprints[Cell(l, 1)], Fingerprints[Cell(l, 2)]))
BY ContainCells

\* A key is given its own cell, and those after it keep theirs (:344-356).
LEMMA FuseAssign ==
  ASSUME FuseInv, Assign
  PROVE  FuseInv'
<1>1. Shape /\ KeysInv /\ AssignInv /\ pc = "assign" /\ i > 0
  BY DEF FuseInv, Assign
<1>2. HashInv
  BY <1>1 DEF Shape, HashInv
<1>3. PICK n : n = i - 1
  OBVIOUS
<1>4. PICK k, found : k = reverseOrder[n] /\ found = reverseH[n + 1]
  OBVIOUS
<1>5. /\ i' = n /\ pc' = "assign"
      /\ UNCHANGED <<filter, given, keys, size, loop, hash, startPos, reverseOrder, t2,
                     duplicates, error, reverseH, alone>>
  BY <1>1, <1>3 DEF Assign, caller, scatters, counts
<1>6. Fingerprints' = [Fingerprints EXCEPT
            ![Cell(k, found)] = Xor(fingerprint(hash[k]),
                                Xor(Fingerprints[Cell(k, (found + 1) % 3)],
                                    Fingerprints[Cell(k, (found + 2) % 3)]))]
  <2>1. NextOf(i) = n
    BY <1>3 DEF NextOf
  <2> QED
    BY <1>4, <2>1 DEF Assign
<1>7. /\ size = Len(reverseH) /\ size \in Nat /\ i \in 0 .. size /\ n \in 0 .. size - 1 /\ n \in Nat
      /\ Stacked = 0 .. size - 1
      /\ StackInv
  <2>1. size \in Nat
    BY <1>1, ShapeFacts DEF Shape, Place
  <2> QED
    BY <1>1, <1>3, <2>1 DEF Shape, AssignInv, Stacked
<1>8. k \in Keys /\ found \in Slot
  <2>1. reverseH \in Seq(Slot) /\ n + 1 \in 1 .. Len(reverseH)
    BY <1>1, <1>7 DEF Shape
  <2>2. found \in Slot
    BY <1>4, <2>1
  <2> QED
    BY <1>4, <1>7, <2>2 DEF StackInv
<1>9. PICK F : F = Fingerprints'
  OBVIOUS
<1>10. Assigned(k, found, F)
  BY <1>6, <1>8, <1>9 DEF Assigned
<1>11. /\ F \in [Cells -> 0 .. Pow2[FingerprintBits] - 1]
       /\ fingerprint(hash[k]) = Xor(F[Cell(k, 0)], Xor(F[Cell(k, 1)], F[Cell(k, 2)]))
       /\ \A c \in Cells : c # Cell(k, found) => F[c] = Fingerprints[c]
  BY <1>1, <1>2, <1>10, AssignedReports
<1>12. /\ Keys' = Keys /\ Cells' = Cells /\ Entry' = Entry /\ Place' = Place
       /\ \A m, s : Cell(m, s)' = Cell(m, s)
       /\ \A m, c : Uses(m, c)' = Uses(m, c)
  BY <1>5, SameSets DEF Cell, Uses
<1>13. Shape'
  <2>1. i' \in 0 .. size'
    BY <1>5, <1>7
  <2>2. Fingerprints' \in [Cells' -> 0 .. Pow2[FingerprintBits] - 1]
    BY <1>9, <1>11, <1>12
  <2> QED
    BY <1>1, <1>5, <1>12, <2>1, <2>2 DEF Shape, Geometric
<1>14. KeysInv'
  BY <1>1, <1>5, <1>12 DEF KeysInv
<1>15. StackInv'
  <2>1. Stacked' = Stacked /\ \A a : Own(a)' = Own(a)
    BY <1>5, <1>12 DEF Stacked, Own
  <2> QED
    BY <1>5, <1>7, <1>12, <2>1 DEF StackInv
<1>16. ASSUME NEW m \in Keys,
              fingerprint(hash[m]) = Xor(F[Cell(m, 0)], Xor(F[Cell(m, 1)], F[Cell(m, 2)]))
       PROVE  binary_fuse8_contain(m)'
  <2>1. HashInv'
    BY <1>2, <1>5, <1>12 DEF HashInv, Geometric
  <2>2. (HashInv => \A l \in Keys : binary_fuse8_contain(l) <=>
              fingerprint(hash[l]) = Xor(Fingerprints[Cell(l, 0)],
                                         Xor(Fingerprints[Cell(l, 1)], Fingerprints[Cell(l, 2)])))'
    BY ContainEquation, PTL
  <2> QED
    BY <1>5, <1>9, <1>12, <1>16, <2>1, <2>2
<1>17. \A a \in n .. size - 1 : binary_fuse8_contain(reverseOrder[a])'
  <2> SUFFICES ASSUME NEW a \in n .. size - 1 PROVE binary_fuse8_contain(reverseOrder[a])'
    OBVIOUS
  <2>1. PICK m : m = reverseOrder[a]
    OBVIOUS
  <2>2. a \in Stacked /\ m \in Keys
    BY <1>7, <2>1 DEF StackInv
  <2>3. CASE a = n
    BY <1>4, <1>5, <1>11, <1>16, <2>1, <2>2, <2>3
  <2>4. CASE a # n
    <3>1. a \in i .. size - 1 /\ n \in Stacked /\ n < a
      BY <1>3, <1>7, <2>4
    <3>2. binary_fuse8_contain(m)
      BY <1>1, <2>1, <3>1 DEF AssignInv
    <3>3. ~ Uses(m, Own(n))
      BY <1>7, <2>1, <2>2, <3>1 DEF StackInv
    <3>4. \A s \in Slot : Cell(m, s) \in Cells /\ Cell(m, s) # Cell(k, found)
      <4>1. Own(n) = Cell(k, found)
        BY <1>4 DEF Own
      <4> QED
        BY <1>2, <2>2, <3>3, <4>1, KeyCells DEF Uses
    <3>5. \A s \in Slot : F[Cell(m, s)] = Fingerprints[Cell(m, s)]
      BY <1>11, <3>4
    <3>6. fingerprint(hash[m]) = Xor(Fingerprints[Cell(m, 0)],
                                   Xor(Fingerprints[Cell(m, 1)], Fingerprints[Cell(m, 2)]))
      BY <1>2, <2>2, <3>2, ContainCells
    <3>7. 0 \in Slot /\ 1 \in Slot /\ 2 \in Slot
      BY DEF Slot
    <3>8. fingerprint(hash[m]) = Xor(F[Cell(m, 0)], Xor(F[Cell(m, 1)], F[Cell(m, 2)]))
      BY <3>5, <3>6, <3>7
    <3> QED
      BY <1>5, <1>16, <2>1, <2>2, <3>8
  <2> QED
    BY <2>3, <2>4
<1>18. AssignInv'
  <2>1. (\A m \in Keys : \E a \in Stacked : reverseOrder[a] = m)'
    BY <1>1, <1>5, <1>12 DEF AssignInv, Stacked
  <2>2. (\A a \in i .. size - 1 : binary_fuse8_contain(reverseOrder[a]))'
    BY <1>5, <1>17
  <2> QED
    BY <1>5, <1>7, <1>15, <2>1, <2>2 DEF AssignInv
<1>19. SeedInv' /\ ScatterInv' /\ OrderInv' /\ CountInv' /\ PeelInv' /\ BuiltInv'
  BY <1>5 DEF SeedInv, ScatterInv, OrderInv, CountInv, PeelInv, BuiltInv
<1> QED
  BY <1>13, <1>14, <1>18, <1>19 DEF FuseInv

\* All keys of the stack, hence all keys, are reported (:359).
LEMMA FuseSucceed ==
  ASSUME FuseInv, Succeed
  PROVE  FuseInv'
<1>1. Shape /\ KeysInv /\ AssignInv /\ pc = "assign" /\ i = 0
  BY DEF FuseInv, Succeed
<1>2. /\ pc' = "built"
      /\ UNCHANGED <<filter, given, keys, Fingerprints, size, loop, i, hash, startPos,
                     reverseOrder, t2, duplicates, error, reverseH, alone>>
  BY DEF Succeed, caller, scatters, counts
<1>3. Keys' = Keys /\ Cells' = Cells /\ Entry' = Entry /\ Place' = Place
  BY <1>2, SameSets
<1>4. Shape'
  BY <1>1, <1>2, <1>3 DEF Shape, Geometric
<1>5. KeysInv'
  BY <1>1, <1>2, <1>3 DEF KeysInv
<1>6. \A k \in Keys : binary_fuse8_contain(k)
  <2> SUFFICES ASSUME NEW k \in Keys PROVE binary_fuse8_contain(k)
    OBVIOUS
  <2>1. PICK a \in Stacked : reverseOrder[a] = k
    BY <1>1 DEF AssignInv
  <2>2. a \in i .. size - 1
    BY <1>1, <2>1 DEF AssignInv, Stacked
  <2> QED
    BY <1>1, <2>1, <2>2 DEF AssignInv
<1>7. BuiltInv'
  BY <1>2, <1>3, <1>6 DEF BuiltInv, binary_fuse8_contain
<1>8. SeedInv' /\ ScatterInv' /\ OrderInv' /\ CountInv' /\ PeelInv' /\ AssignInv'
  BY <1>2 DEF SeedInv, ScatterInv, OrderInv, CountInv, PeelInv, AssignInv
<1> QED
  BY <1>4, <1>5, <1>7, <1>8 DEF FuseInv

\* A call that is refused changes nothing.
LEMMA FuseRefuse ==
  ASSUME FuseInv, Refuse
  PROVE  FuseInv'
<1>1. Shape /\ KeysInv
  BY DEF FuseInv
<1>2. /\ pc' = "failed"
      /\ UNCHANGED <<filter, given, keys, Fingerprints, size, loop, i, hash, startPos,
                     reverseOrder, t2, duplicates, error, reverseH, alone>>
  BY DEF Refuse, caller, scatters, counts
<1>3. Keys' = Keys /\ Cells' = Cells /\ Entry' = Entry /\ Place' = Place
  BY <1>2, SameSets
<1>4. Shape'
  BY <1>1, <1>2, <1>3 DEF Shape, Geometric
<1>5. KeysInv'
  BY <1>1, <1>2, <1>3 DEF KeysInv
<1>6. /\ SeedInv' /\ ScatterInv' /\ OrderInv' /\ CountInv' /\ PeelInv' /\ AssignInv'
      /\ BuiltInv'
  BY <1>2 DEF SeedInv, ScatterInv, OrderInv, CountInv, PeelInv, AssignInv, BuiltInv
<1> QED
  BY <1>4, <1>5, <1>6 DEF FuseInv

\* The invariant is about the variables of the specification only.
LEMMA FuseStutter ==
  ASSUME FuseInv, UNCHANGED vars
  PROVE  FuseInv'
<1>1. UNCHANGED <<pc, filter, given, keys, Fingerprints, size, loop, i, hash, startPos,
                  reverseOrder, t2, duplicates, error, reverseH, alone>>
  BY DEF vars, caller, scatters, counts
<1>2. /\ Keys' = Keys /\ Cells' = Cells /\ Entry' = Entry /\ Place' = Place
      /\ block' = block
      /\ \A k, s : Cell(k, s)' = Cell(k, s)
      /\ \A k, c : Uses(k, c)' = Uses(k, c)
  BY <1>1, SameSets DEF block, Cell, Uses
<1>3. Stacked' = Stacked /\ Spent' = Spent /\ \A a : Own(a)' = Own(a)
  BY <1>1, <1>2 DEF Stacked, Spent, Own
<1>4. \A e, C, o, c : CellIs(e, C, o, c)' <=> CellIs(e, C, o, c)
  BY <1>1, CellIsSame
<1>5. Shape' /\ KeysInv' /\ SeedInv' /\ OrderInv'
  BY <1>1, <1>2 DEF FuseInv, Shape, Geometric, KeysInv, SeedInv, OrderInv, Free
<1>6. ScatterInv'
  BY <1>1, <1>2 DEF FuseInv, ScatterInv, FreePlaces, Free
<1>7. CountInv'
  <2>1. \A C : CountedAre(C) => CountedAre(C)'
    BY <1>1, <1>2, <1>4 DEF CountedAre
  <2> QED
    BY <1>1, <1>2, <2>1 DEF FuseInv, CountInv
<1>8. StackInv => StackInv'
  BY <1>1, <1>2, <1>3 DEF StackInv
<1>9. PeelInv'
  <2>1. \A C, o : LeftAre(C, o) => LeftAre(C, o)'
    BY <1>1, <1>2, <1>3, <1>4 DEF LeftAre
  <2>2. QueueInv => QueueInv'
    BY <1>1, <1>3 DEF QueueInv
  <2> QED
    BY <1>1, <1>8, <2>1, <2>2 DEF FuseInv, PeelInv
<1>10. AssignInv' /\ BuiltInv'
  BY <1>1, <1>2, <1>3, <1>8 DEF FuseInv, AssignInv, BuiltInv, binary_fuse8_contain
<1> QED
  BY <1>5, <1>6, <1>7, <1>9, <1>10 DEF FuseInv

\* Every step keeps the invariant.
LEMMA FuseNext ==
  ASSUME FuseInv, [Next]_vars
  PROVE  FuseInv'
BY FuseRefuse, FuseStart, FuseReseed, FuseScatter, FuseCount, FuseCountFailed, FuseCounted,
   FusePeel, FusePeeled, FuseRetry, FuseAssign, FuseSucceed, FuseStutter DEF Next

(***************************************************************************)
(* What every state of populate keeps.                                     *)
(***************************************************************************)
THEOREM FuseAlways == Spec => []FuseInv
<1>1. Init => FuseInv
  BY FuseInit
<1>2. FuseInv /\ [Next]_vars => FuseInv'
  BY FuseNext
<1> QED
  BY <1>1, <1>2, PTL DEF Spec

-----------------------------------------------------------------------------
(***************************************************************************)
(* The properties of the runs.                                             *)
(***************************************************************************)

\* The types the runs check are those of the invariant.
LEMMA ShapeTypes ==
  ASSUME Shape
  PROVE  TypeOK
<1>1. Len(given) \in Nat /\ CountModulus \in Nat
  BY ShapeFacts
<1>2. DOMAIN reverseOrder = 0 .. Len(given)
  BY DEF Shape, Place
<1>3. pc \in {"idle", "seed", "scatter", "spin", "count", "peel", "assign", "failed", "built"}
  BY DEF Shape
<1> QED
  BY <1>1, <1>2, <1>3 DEF Shape, TypeOK, Keys, Place, Entry

\* A stack that keeps off the cells left by its keys has no key twice.
LEMMA StackOrder ==
  ASSUME Shape, StackInv
  PROVE  \A a, b \in 1 .. Len(reverseH) : a < b =>
           /\ reverseOrder[a - 1] # reverseOrder[b - 1]
           /\ \A s \in Slot :
                Cell(reverseOrder[b - 1], s) # Cell(reverseOrder[a - 1], reverseH[a])
<1>1. reverseH \in Seq(Slot) /\ Len(reverseH) \in Nat
  BY LenProperties DEF Shape
<1> SUFFICES ASSUME NEW a \in 1 .. Len(reverseH), NEW b \in 1 .. Len(reverseH), a < b
             PROVE  /\ reverseOrder[a - 1] # reverseOrder[b - 1]
                    /\ \A s \in Slot :
                         Cell(reverseOrder[b - 1], s) # Cell(reverseOrder[a - 1], reverseH[a])
  OBVIOUS
<1>2. a - 1 \in Stacked /\ b - 1 \in Stacked /\ a - 1 < b - 1 /\ (a - 1) + 1 = a
  BY <1>1 DEF Stacked
<1>3. ~ Uses(reverseOrder[b - 1], Own(a - 1))
  BY <1>2 DEF StackInv
<1>4. Own(a - 1) = Cell(reverseOrder[a - 1], reverseH[a]) /\ reverseH[a] \in Slot
  BY <1>1, <1>2 DEF Own
<1> QED
  BY <1>3, <1>4 DEF Uses

\* A list of cells that lacks one is shorter than the array.
LEMMA QueueFits ==
  ASSUME FuseInv
  PROVE  QueueInArray
<1> SUFFICES ASSUME pc = "peel", alone # <<>>, t2[Last(alone)].count = 1,
                    NEW k \in t2[Last(alone)].hash, NEW s \in Slot
             PROVE  Len(PushIf(Front(alone), Cell(k, s))) < filter.ArrayLength
  BY DEF QueueInArray
<1>1. Shape /\ QueueInv /\ Listed(alone, Low)
  BY QueueListed DEF FuseInv, PeelInv
<1>2. /\ filter.ArrayLength \in Nat /\ IsFiniteSet(Cells)
      /\ Cardinality(Cells) = filter.ArrayLength
  BY <1>1, ShapeFacts
<1>3. Low \subseteq Cells
  BY DEF Low
<1>4. IsFiniteSet(Low) /\ Cardinality(Low) <= filter.ArrayLength /\ Cardinality(Low) \in Nat
  BY <1>2, <1>3, FS_Subset, FS_CardinalityType
<1>5. Len(alone) <= Cardinality(Low) /\ Len(alone) \in Nat
  BY <1>1, <1>4, ListedLength, LenProperties DEF Listed
<1>6. /\ Len(Front(alone)) + 1 = Len(alone) /\ Last(alone) \in Low
      /\ Listed(Front(alone), Low \ {Last(alone)})
  BY <1>1, ListedFront
<1>7. Front(alone) \in Seq(Low) /\ Len(Front(alone)) \in Nat
  <2>1. Front(alone) \in Seq(Low \ {Last(alone)})
    BY <1>6 DEF Listed
  <2> QED
    BY <2>1, LenProperties
<1>8. CASE t2[Cell(k, s)].count # 2
  <2>1. PushIf(Front(alone), Cell(k, s)) = Front(alone)
    BY <1>8 DEF PushIf
  <2> QED
    BY <1>2, <1>4, <1>5, <1>6, <1>7, <2>1
<1>9. CASE t2[Cell(k, s)].count = 2
  <2>1. Cell(k, s) \in Cells /\ Cell(k, s) \notin Low
    <3>1. HashInv
      BY <1>1 DEF Shape, HashInv
    <3>2. k \in Keys
      <4>1. t2[Last(alone)] \in Entry
        BY <1>1, <1>3, <1>6 DEF Shape
      <4> QED
        BY <4>1 DEF Entry
    <3> QED
      BY <1>9, <3>1, <3>2, KeyCells DEF Low
  <2>2. Cardinality(Low) < filter.ArrayLength
    <3>1. Cardinality(Low) # Cardinality(Cells)
      BY <1>2, <1>3, <2>1, FS_Subset
    <3> QED
      BY <1>2, <1>4, <3>1
  <2>3. PushIf(Front(alone), Cell(k, s)) = Append(Front(alone), Cell(k, s))
    BY <1>9 DEF PushIf
  <2>4. Len(PushIf(Front(alone), Cell(k, s))) = Len(Front(alone)) + 1
    <3>1. Front(alone) \in Seq(Cells)
      BY <1>3, <1>7
    <3> QED
      BY <2>1, <2>3, <3>1, PushedOn
  <2> QED
    BY <1>2, <1>4, <1>5, <1>6, <1>7, <2>2, <2>4
<1> QED
  BY <1>8, <1>9

\* The free slots of a round are counted down by its keys.
LEMMA FreshPlaces ==
  ASSUME FuseInv
  PROVE  RoundClean
<1>1. Shape /\ SeedInv /\ ScatterInv
  BY DEF FuseInv
<1>2. size \in Nat
  BY <1>1, ShapeFacts DEF Shape, Place
<1>3. FreePlaces = {j \in 0 .. size - 1 : reverseOrder[j] = NoKey}
  BY DEF FreePlaces, Free
<1>4. CASE pc = "seed"
  <2>1. FreePlaces = 0 .. size - 1 /\ i = 0
    BY <1>1, <1>4 DEF SeedInv, FreePlaces
  <2>2. Cardinality(FreePlaces) = size - i
    BY <1>2, <2>1, FS_Interval
  <2> QED
    BY <1>1, <1>3, <1>4, <2>2 DEF SeedInv, RoundClean, Free
<1>5. CASE pc = "scatter"
  BY <1>1, <1>3, <1>5 DEF SeedInv, ScatterInv, RoundClean, Free
<1> QED
  BY <1>4, <1>5 DEF RoundClean

\* Every key is still in the array.
LEMMA KeysStay ==
  ASSUME FuseInv
  PROVE  KeysPreserved
<1>1. Shape /\ KeysInv
  BY DEF FuseInv
<1>2. ToSet(keys) = Keys
  BY <1>1, SameKeys
<1>3. ASSUME pc \in {"seed", "scatter", "count", "peel"}
      PROVE  ToSet(SubSeq(keys, 1, size)) = Keys
  <2>1. keys \in Seq(Keys) /\ size \in Nat /\ size <= Len(keys) /\ Len(keys) \in Nat
    BY <1>1, ShapeFacts DEF Shape, Place
  <2> DEFINE r == SubSeq(keys, 1, size)
  <2>2. r \in Seq(Keys) /\ Len(r) = size /\ \A j \in 1 .. size : r[j] = keys[j]
    BY <2>1
  <2>3. DOMAIN r = 1 .. size /\ \A j \in 1 .. size : r[j] \in Keys
    BY <2>2, LenProperties
  <2>4. \A k \in Keys : \E j \in 1 .. size : keys[j] = k
    BY <1>1, <1>3 DEF KeysInv
  <2> HIDE DEF r
  <2>5. ToSet(r) = Keys
    BY <2>2, <2>3, <2>4 DEF ToSet
  <2> QED
    BY <2>5 DEF r
<1> QED
  BY <1>2, <1>3 DEF KeysPreserved, Keys

\* The invariant has the geometry of the filter.
LEMMA CellsSame ==
  ASSUME FuseInv
  PROVE  SameCells
<1> SUFFICES ASSUME NEW h \in 0 .. Pow2[HashBits] - 1
             PROVE  LET c == hash_batch(h, filter)
                    IN  /\ c = <<hash_cell(0, h, filter), hash_cell(1, h, filter),
                                 hash_cell(2, h, filter)>>
                        /\ IsInjective(c) /\ ToSet(c) \subseteq Cells
                        /\ mulhi(h, filter.SegmentCountLength)
                             = mulhi_portable(h, filter.SegmentCountLength)
  BY DEF SameCells
<1>1. Geometric(filter) /\ h \in Nat
  BY FuseWidths, Pow2Type DEF FuseInv, Shape
<1> DEFINE c == hash_batch(h, filter)
           x(s) == hash_cell(s, h, filter)
<1>2. c = <<x(0), x(1), x(2)>>
  BY <1>1, BatchIsCells
<1>3. x(0) \in Cells /\ x(1) \in Cells /\ x(2) \in Cells
      /\ x(0) # x(1) /\ x(0) # x(2) /\ x(1) # x(2)
  BY <1>1, CellsApart DEF Cells
<1>4. mulhi(h, filter.SegmentCountLength) = mulhi_portable(h, filter.SegmentCountLength)
  BY <1>1, GeometricType, MulhiPortable
<1> HIDE DEF c, x
<1>5. DOMAIN c = {1, 2, 3} /\ c[1] = x(0) /\ c[2] = x(1) /\ c[3] = x(2)
  BY <1>2
<1>6. IsInjective(c) /\ ToSet(c) \subseteq Cells
  BY <1>3, <1>5 DEF IsInjective, ToSet
<1> QED
  BY <1>2, <1>4, <1>6 DEF c, x

(***************************************************************************)
(* Types, and where the indexes of populate can be (:215-360).             *)
(***************************************************************************)
THEOREM FuseTypes == Spec => []TypeOK
<1>1. FuseInv => TypeOK
  BY ShapeTypes DEF FuseInv
<1> QED
  BY <1>1, FuseAlways, PTL

(***************************************************************************)
(* A populate that returns true leaves a filter that reports every key of  *)
(* the caller, whatever the seeds, the failed rounds and the copies of a   *)
(* key in the array were (:133-142, :344-359).                             *)
(***************************************************************************)
THEOREM FuseKeysReported == Spec => []KeysReported
<1>1. FuseInv => KeysReported
  BY DEF FuseInv, BuiltInv, KeysReported, Keys
<1> QED
  BY <1>1, FuseAlways, PTL

(***************************************************************************)
(* No key is on the stack twice and no key above another uses the other's  *)
(* own cell, which is what lets the assignment run in reverse (:300-356).  *)
(***************************************************************************)
THEOREM FuseStackSound == Spec => []StackSound
<1>1. FuseInv => StackSound
  <2> SUFFICES ASSUME FuseInv PROVE StackSound
    OBVIOUS
  <2>1. pc \in {"peel", "assign"} => Shape /\ StackInv
    BY DEF FuseInv, PeelInv, AssignInv
  <2> QED
    BY <2>1, StackOrder DEF StackSound
<1> QED
  BY <1>1, FuseAlways, PTL

(***************************************************************************)
(* A round begins, and goes on, with a free slot for each of its keys and  *)
(* something that is none behind them (:240, :288, :338).                  *)
(***************************************************************************)
THEOREM FuseRoundClean == Spec => []RoundClean
<1>1. FuseInv => RoundClean
  BY FreshPlaces
<1> QED
  BY <1>1, FuseAlways, PTL

(***************************************************************************)
(* Every write to alone is inside its capacity elements, also the one that *)
(* is made before it is known to count (:316, :324): the queue's cells are   *)
(* different and the cell that is pushed is none of them.                  *)
(***************************************************************************)
THEOREM FuseQueueInArray == Spec => []QueueInArray
<1>1. FuseInv => QueueInArray
  BY QueueFits
<1> QED
  BY <1>1, FuseAlways, PTL

(***************************************************************************)
(* The caller's array loses copies of keys and never a key, in whatever    *)
(* order qsort leaves it (:27-37, :336).                                   *)
(***************************************************************************)
THEOREM FuseKeysPreserved == Spec => []KeysPreserved
<1>1. FuseInv => KeysPreserved
  BY KeysStay
<1> QED
  BY <1>1, FuseAlways, PTL

(***************************************************************************)
(* The cells of a hash are in the array and different, and populate and    *)
(* contain agree on them, with either multiply (:88-131): for every        *)
(* geometry allocate can compute, wrapped ones included.                   *)
(***************************************************************************)
THEOREM FuseSameCells == Spec => []SameCells
<1>1. FuseInv => SameCells
  BY CellsSame
<1> QED
  BY <1>1, FuseAlways, PTL

(***************************************************************************)
(* The search for a free slot, a loop without a bound, always finds one    *)
(* (:256-259).                                                             *)
(***************************************************************************)
THEOREM FuseNeverSpins == Spec => [](pc # "spin")
<1>1. FuseInv => pc # "spin"
  BY DEF FuseInv, Shape
<1> QED
  BY <1>1, FuseAlways, PTL
=============================================================================
