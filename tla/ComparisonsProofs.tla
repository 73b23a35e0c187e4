-------------------------- MODULE ComparisonsProofs --------------------------
(***************************************************************************)
(* What the two scalar filters of src/comparisons guarantee for every      *)
(* width, size and number of blocks and in every order of calls: the       *)
(* double hashing of bloom_classic.c sets as many bits as it is meant to,  *)
(* and loses none; the blocks of bloom_impala.c are those of the Parquet   *)
(* filter with the same hashes; both have the size asked for, or the two   *)
(* outcomes that are known of sizes that are too large.                    *)
(*                                                                         *)
(* ComparisonsAlways is the inductive invariant; the theorems after it     *)
(* follow from it.                                                         *)
(***************************************************************************)
EXTENDS Comparisons, SbbfGeometryProofs

\* The instances count and halve with the operators of this module.
LEMMA SameOperators ==
  /\ Classic!Pow2 = Pow2 /\ Impala!Pow2 = Pow2
  /\ Classic!Hash = Hash /\ Classic!Size = Size /\ Impala!Hash = Hash /\ Impala!Size = Size
  /\ Impala!Lanes = Lanes /\ Impala!Word = Word /\ Impala!BlockBits = BlockBits
  /\ \A S : Classic!Cardinality(S) = Cardinality(S) /\ Impala!Cardinality(S) = Cardinality(S)
<1>1. Classic!Pow2 = Pow2 /\ Impala!Pow2 = Pow2
  BY DEF Classic!Pow2, Impala!Pow2, Pow2
<1>2. Classic!Hash = Hash /\ Classic!Size = Size /\ Impala!Hash = Hash /\ Impala!Size = Size
  BY <1>1 DEF Classic!Hash, Classic!Size, Impala!Hash, Impala!Size, Hash, Size
<1>3. Impala!Lanes = Lanes /\ Impala!Word = Word /\ Impala!BlockBits = BlockBits
  BY <1>1 DEF Impala!Lanes, Impala!Word, Impala!Bit, Impala!BlockBits, Lanes, Word, Bit, BlockBits
<1>4. \A S : Classic!Cardinality(S) = Cardinality(S) /\ Impala!Cardinality(S) = Cardinality(S)
  BY DEF Classic!Cardinality, Impala!Cardinality, Cardinality
<1> QED
  BY <1>1, <1>2, <1>3, <1>4

\* What the widths are.
LEMMA ComparedWidths ==
  /\ HalfBits \in Nat /\ SizeBits \in Nat /\ SizeBits >= 1 /\ SizeBits <= 2 * HalfBits
  /\ 2 * HalfBits \in Nat
  /\ K_HASHES \in Nat /\ K_HASHES >= 1 /\ K_HASHES <= WordBits /\ Golden \in Nat
  /\ WordBits \in Nat /\ WordBits >= 1
  /\ \A h \in Hash : h \in Nat
<1>1. WordBits \in Nat /\ WordBits >= 1
  BY ClassicAssumption, WidthAssumption, Pow2Type
<1>2. \A h \in Hash : h \in Nat
  BY DEF Hash
<1> QED
  BY <1>1, <1>2, ClassicAssumption, WidthAssumption

-----------------------------------------------------------------------------
(***************************************************************************)
(* Double hashing.                                                         *)
(***************************************************************************)
\* Steps of an odd width meet no position twice before all have been met, also
\* when the sum wraps at a wider word.
LEMMA StepsApart ==
  ASSUME NEW x \in Nat, NEW o \in Nat, o % 2 = 1,
         NEW k \in Nat, NEW m \in Nat, m <= k,
         NEW i \in Nat, NEW j \in Nat, i < j, j < Pow2[m]
  PROVE  ((x + i * o) % Pow2[k]) % Pow2[m] # ((x + j * o) % Pow2[k]) % Pow2[m]
<1> DEFINE n == Pow2[m]
           y == x + i * o
           z == x + j * o
<1>1. y \in Nat /\ z \in Nat /\ z = y + (j - i) * o /\ j - i \in Nat
  OBVIOUS
<1>2. n \in Nat /\ n >= 1
  BY Pow2Type
<1>3. (y % Pow2[k]) % n = y % n /\ (z % Pow2[k]) % n = z % n
  BY <1>1, CutTwice
<1> SUFFICES ASSUME y % n = z % n PROVE FALSE
  BY <1>3
<1> HIDE DEF n, y, z
<1>4. /\ y \div n \in Nat /\ y = n * (y \div n) + (y % n) /\ y % n \in Nat
      /\ z \div n \in Nat /\ z = n * (z \div n) + (z % n)
  <2>1. ASSUME NEW u \in Nat PROVE u \div n \in Nat /\ u = n * (u \div n) + (u % n) /\ u % n \in Nat
    <3>1. u % n \in 0 .. n - 1 /\ u \div n \in Nat /\ u = n * (u \div n) + (u % n)
      BY <1>2, RemainderUnique
    <3>2. \A e \in 0 .. n - 1 : e \in Nat
      BY <1>2
    <3> QED
      BY <3>1, <3>2
  <2> QED
    BY <1>1, <2>1
<1> DEFINE a == y \div n
           b == z \div n
           d == j - i
<1>5. a \in Nat /\ b \in Nat /\ d \in Nat /\ d >= 1 /\ d * o = n * b - n * a
  <2>1. d * o = z - y /\ d \in Nat /\ d >= 1
    BY <1>1
  <2> QED
    BY <1>2, <1>4, <2>1
<1> HIDE DEF a, b, d
<1>6. b - a \in Nat /\ d * o = n * (b - a)
  <2>1. n * b - n * a = n * (b - a)
    BY <1>2, <1>5
  <2>2. d * o \in Nat
    BY <1>5
  <2>3. \A e \in Nat : e >= 1 => n * (- e) < 0
    BY <1>2
  <2>4. b - a \in Nat
    <3> SUFFICES ASSUME ~ (b - a \in Nat) PROVE FALSE
      OBVIOUS
    <3>1. a - b \in Nat /\ a - b >= 1 /\ b - a = - (a - b)
      BY <1>5
    <3>2. n * (b - a) < 0
      BY <2>3, <3>1
    <3> QED
      BY <1>5, <2>1, <2>2, <3>2
  <2> QED
    BY <1>5, <2>1, <2>4
<1>7. PICK r \in Nat : d = n * r
  BY <1>5, <1>6, OddFactor DEF n
<1>8. r >= 1
  BY <1>2, <1>5, <1>7
<1>9. d >= n
  BY <1>2, <1>7, <1>8
<1> QED
  BY <1>2, <1>9 DEF d, n

\* The second hash is odd.
LEMMA SecondHash ==
  ASSUME NEW h \in Hash
  PROVE  /\ Classic!prehash_split(h)[1] = h
         /\ Classic!prehash_split(h)[2] \in Nat
         /\ Classic!prehash_split(h)[2] % 2 = 1
<1> DEFINE g == Classic!Times(2 * HalfBits, h, Golden)
           m == Classic!XorShift(g, (2 * HalfBits) \div 2)
<1>1. g \in Nat
  <2> DEFINE w == Pow2[2 * HalfBits]
  <2>1. w \in Nat /\ w >= 1 /\ h * Golden \in Nat
    BY ComparedWidths, Pow2Type
  <2> HIDE DEF w
  <2>2. (h * Golden) % w \in Nat
    BY <2>1, RemainderUnique
  <2> QED
    BY <2>2, SameOperators DEF Classic!Times, w
<1>2. m \in Nat
  <2> DEFINE d == Pow2[(2 * HalfBits) \div 2]
  <2>1. d \in Nat /\ d >= 1
    <3>1. (2 * HalfBits) \div 2 \in Nat
      BY ComparedWidths
    <3> QED
      BY <3>1, Pow2Type
  <2> HIDE DEF d, g
  <2>2. g \div d \in Nat
    BY <1>1, <2>1, Quotient
  <2>3. Xor(g, g \div d) \in Nat
    BY <1>1, <2>2, XorType
  <2>4. \A x, y : Classic!Xor(x, y) = Xor(x, y)
    BY DEF Classic!Xor, Xor, Classic!XorOfPair, XorOfPair
  <2> QED
    BY <2>3, <2>4, SameOperators DEF Classic!XorShift, d
<1>3. Classic!prehash_split(h) = <<h, m + 1 - (m % 2)>>
  BY DEF Classic!prehash_split
<1> HIDE DEF m
<1>4. m + 1 - (m % 2) \in Nat /\ (m + 1 - (m % 2)) % 2 = 1
  BY <1>2
<1> QED
  BY <1>3, <1>4

\* The array: a power of two of bits, in whole words.
ClassicSized ==
  \E w, m \in 0 .. SizeBits - 1 :
    /\ w <= m /\ WordBits = Pow2[w]
    /\ classic.bit_mask = Pow2[m] - 1
    /\ DOMAIN classic.words = 0 .. Pow2[m - w] - 1

\* Where the bits of a hash are, and whether they are all set.
PositionsOf(h) == Classic!Positions(Classic!prehash_split(h))
Has(h) == Classic!contains_with_pair(Classic!prehash_split(h))

\* The three places that derive the second hash agree: a key of either length
\* has the pair of its hash (bloom_classic.c:33-35, 69-72, 156-161).
LEMMA OnePair ==
  \A key : Classic!bloom_hash_pair(key) = Classic!prehash_split(bloom_hash[key])
BY DEF Classic!bloom_hash_pair, Classic!hash16_pair, Classic!prehash_split

\* The positions of a hash are in the array and different.
LEMMA PositionsApart ==
  ASSUME ClassicSized, NEW h \in Hash
  PROVE  Cardinality(PositionsOf(h)) = K_HASHES
<1>1. PICK w, m \in 0 .. SizeBits - 1 :
        w <= m /\ WordBits = Pow2[w] /\ classic.bit_mask = Pow2[m] - 1
  BY DEF ClassicSized
<1>2. w \in Nat /\ m \in Nat /\ w <= m /\ m <= 2 * HalfBits
  BY <1>1, ComparedWidths
<1> DEFINE o == Classic!prehash_split(h)[2]
           place(i) == ((h + i * o) % Pow2[2 * HalfBits]) % Pow2[m]
           I == 0 .. K_HASHES - 1
           f == [i \in I |-> place(i)]
           P == {place(i) : i \in I}
<1>3. o \in Nat /\ o % 2 = 1 /\ h \in Nat
  BY SecondHash, ComparedWidths
<1>4. PositionsOf(h) = P
  <2>1. Pow2[m] \in Nat /\ classic.bit_mask + 1 = Pow2[m]
    BY <1>1, <1>2, Pow2Type
  <2>2. Classic!prehash_split(h)[1] = h
    BY SecondHash
  <2> HIDE DEF o
  <2>3. PositionsOf(h) =
          {((Classic!prehash_split(h)[1] + i * Classic!prehash_split(h)[2]) % Pow2[2 * HalfBits])
              % (classic.bit_mask + 1) : i \in 0 .. K_HASHES - 1}
    BY SameOperators DEF PositionsOf, Classic!Positions
  <2> QED
    BY <2>1, <2>2, <2>3 DEF o
<1>5. \A i \in I : i \in Nat /\ i < Pow2[m]
  <2>1. WordBits <= Pow2[m] /\ Pow2[m] \in Nat
    BY <1>1, <1>2, Pow2Monotone, Pow2Type
  <2> QED
    BY <2>1, ComparedWidths
<1> HIDE DEF o
<1>6. \A i, j \in I : i < j => place(i) # place(j)
  <2> SUFFICES ASSUME NEW i \in I, NEW j \in I, i < j PROVE place(i) # place(j)
    OBVIOUS
  <2> DEFINE k == 2 * HalfBits
  <2>1. i \in Nat /\ j \in Nat /\ j < Pow2[m] /\ k \in Nat /\ m <= k
    BY <1>2, <1>5, ComparedWidths
  <2> HIDE DEF k, I, place, f, P
  <2>2. ((h + i * o) % Pow2[k]) % Pow2[m] # ((h + j * o) % Pow2[k]) % Pow2[m]
    BY <1>2, <1>3, <2>1, StepsApart, ZenonT(30)
  <2> QED
    BY <2>2 DEF k, place
<1>7. \A i, j \in I : place(i) = place(j) => i = j
  <2>1. \A i, j \in I : i < j \/ j < i \/ i = j
    BY <1>5
  <2> HIDE DEF place, I
  <2> QED
    BY <1>6, <2>1
<1>8. f \in Bijection(I, P)
  <2> HIDE DEF place, I
  <2>1. f \in [I -> P] /\ \A i, j \in I : f[i] = f[j] => i = j
    BY <1>7
  <2>2. \A p \in P : \E i \in I : f[i] = p
    OBVIOUS
  <2> QED
    BY <2>1, <2>2 DEF Bijection, Injection, Surjection, IsInjective
<1>9. IsFiniteSet(I) /\ Cardinality(I) = K_HASHES
  <2>1. IsFiniteSet(I) /\ Cardinality(I) = IF 0 > K_HASHES - 1 THEN 0 ELSE (K_HASHES - 1) - 0 + 1
    BY ComparedWidths, FS_Interval
  <2> QED
    BY <2>1, ComparedWidths
<1>10. Cardinality(P) = K_HASHES
  <2> HIDE DEF I, P, f
  <2> QED
    BY <1>8, <1>9, FS_Bijection DEF ExistsBijection
<1> QED
  BY <1>4, <1>10

\* set_bit and get_bit stay inside the array and inside a word of it
\* (bloom_classic.c:101-109).
LEMMA PositionInArray ==
  ASSUME ClassicSized, NEW h \in Hash, NEW pos \in PositionsOf(h)
  PROVE  /\ pos % WordBits \in 0 .. WordBits - 1
         /\ pos \div WordBits \in DOMAIN classic.words
<1>1. PICK w, m \in 0 .. SizeBits - 1 :
        /\ w <= m /\ WordBits = Pow2[w] /\ classic.bit_mask = Pow2[m] - 1
        /\ DOMAIN classic.words = 0 .. Pow2[m - w] - 1
  BY DEF ClassicSized
<1>2. w \in Nat /\ m \in Nat /\ m - w \in Nat /\ m = w + (m - w) /\ m <= 2 * HalfBits
  BY <1>1, ComparedWidths
<1>3. /\ Pow2[m] \in Nat /\ Pow2[m] >= 1 /\ Pow2[m - w] \in Nat /\ Pow2[w] \in Nat /\ Pow2[w] >= 1
      /\ Pow2[m] = Pow2[w] * Pow2[m - w]
  BY <1>2, Pow2Type, Pow2Sum
<1>4. PICK i \in 0 .. K_HASHES - 1 :
        pos = ((Classic!prehash_split(h)[1] + i * Classic!prehash_split(h)[2]) % Pow2[2 * HalfBits])
                % (classic.bit_mask + 1)
  BY SameOperators DEF PositionsOf, Classic!Positions
<1> DEFINE x == h + i * Classic!prehash_split(h)[2]
<1>5. x \in Nat
  BY SecondHash, ComparedWidths
<1>6. pos = (x % Pow2[2 * HalfBits]) % Pow2[m]
  <2>1. classic.bit_mask + 1 = Pow2[m]
    BY <1>1, <1>3
  <2> QED
    BY <1>4, <2>1, SecondHash
<1> HIDE DEF x
<1>7. pos \in 0 .. Pow2[m] - 1
  <2>1. pos = x % Pow2[m]
    BY <1>2, <1>5, <1>6, ComparedWidths, CutTwice
  <2> QED
    BY <1>3, <1>5, <2>1, RemainderUnique
<1>8. pos \in Nat /\ pos < Pow2[w] * Pow2[m - w]
  BY <1>3, <1>7
<1>9. pos \div Pow2[w] < Pow2[m - w] /\ pos \div Pow2[w] \in Nat
  BY <1>3, <1>8, QuotientBound, Quotient
<1>10. pos % WordBits \in 0 .. WordBits - 1
  BY <1>8, ComparedWidths, RemainderUnique
<1> QED
  BY <1>1, <1>3, <1>9, <1>10

\* Of the classic filter in every state: its array is sound and has the bits of
\* every hash added.
ClassicInv ==
  /\ classic \in {NoFilter, Spinning} \/ Classic!IsFilter(classic)
  /\ classic_added \subseteq Hash
  /\ classic \in {NoFilter, Spinning} => classic_added = {}
  /\ Classic!IsFilter(classic) =>
       ClassicSized /\ \A h \in classic_added : Has(h)

\* bloom_new finds the least power of two that is enough, but takes a word at
\* least.
LEMMA ClassicNew ==
  ASSUME NEW n \in Size, Classic!Powers(n) # {}
  PROVE  \E w, m \in 0 .. SizeBits - 1 :
           /\ w <= m /\ WordBits = Pow2[w]
           /\ Classic!New(n) = [words |-> [j \in 0 .. Pow2[m - w] - 1 |-> {}],
                                bit_mask |-> Pow2[m] - 1]
           /\ n <= Pow2[m] /\ (Pow2[m] = WordBits \/ Pow2[m] < 2 * n)
<1> DEFINE P == Classic!Powers(n)
           p == CHOOSE p \in P : \A q \in P : p <= q
<1>1. PICK w \in 0 .. SizeBits - 1 : WordBits = Pow2[w]
  BY ClassicAssumption
<1>2. \A e \in 0 .. SizeBits - 1 : e \in Nat /\ Pow2[e] \in Nat /\ Pow2[e] >= 1
  BY ComparedWidths, Pow2Type
<1>3. P = {Pow2[e] : e \in {d \in 0 .. SizeBits - 1 : Pow2[d] >= n}}
  BY SameOperators DEF Classic!Powers
<1>4. P \in SUBSET Nat /\ P # {}
  BY <1>2, <1>3
<1> HIDE DEF P
<1>5. p \in P /\ \A q \in P : p <= q
  <2>1. \E r \in P : \A q \in P : r <= q
    BY <1>4, LeastNatural
  <2> QED
    BY <2>1
<1> HIDE DEF p
<1>6. PICK e \in 0 .. SizeBits - 1 : p = Pow2[e] /\ p >= n
  BY <1>3, <1>5
<1>7. e = 0 \/ p < 2 * n
  <2> SUFFICES ASSUME e # 0 PROVE p < 2 * n
    OBVIOUS
  <2>1. e - 1 \in 0 .. SizeBits - 1 /\ p = 2 * Pow2[e - 1]
    <3>1. e - 1 \in Nat /\ e = (e - 1) + 1 /\ e - 1 \in 0 .. SizeBits - 1
      BY ComparedWidths
    <3> QED
      BY <1>6, <3>1, Pow2Step
  <2>2. Pow2[e - 1] < p
    BY <1>2, <2>1
  <2>3. Pow2[e - 1] \notin P
    BY <1>2, <1>4, <1>5, <1>6, <2>1, <2>2
  <2>4. ~ (Pow2[e - 1] >= n)
    BY <1>3, <2>1, <2>3
  <2> QED
    BY <1>2, <2>1, <2>4 DEF Size
<1> DEFINE m == IF p < WordBits THEN w ELSE e
           bits == IF p < WordBits THEN WordBits ELSE p
<1>8. m \in 0 .. SizeBits - 1 /\ w <= m /\ bits = Pow2[m]
  <2>1. CASE p < WordBits
    BY <1>1, <2>1
  <2>2. CASE ~ (p < WordBits)
    <3>1. ~ (e < w)
      <4> SUFFICES ASSUME e < w PROVE FALSE
        OBVIOUS
      <4>1. Pow2[e] < Pow2[w]
        BY <1>2, Pow2Grows
      <4> QED
        BY <1>1, <1>6, <2>2, <4>1
    <3> QED
      BY <1>6, <2>2, <3>1
  <2> QED
    BY <2>1, <2>2
<1>9. n <= bits /\ (bits = WordBits \/ bits < 2 * n)
  <2>1. CASE p < WordBits
    BY <1>2, <1>6, <2>1, ComparedWidths DEF Size
  <2>2. CASE ~ (p < WordBits)
    <3>1. CASE e = 0
      BY <1>2, <1>6, <2>2, <3>1, Pow2Step, ComparedWidths
    <3> QED
      BY <1>6, <1>7, <2>2, <3>1
  <2> QED
    BY <2>1, <2>2
<1>10. Classic!New(n) = [words |-> [j \in 0 .. (bits \div WordBits) - 1 |-> {}], bit_mask |-> bits - 1]
  BY DEF Classic!New, p, P
<1> HIDE DEF m, bits
<1>11. bits \div WordBits = Pow2[m - w]
  <2>1. m - w \in Nat /\ m = w + (m - w) /\ w \in Nat
    BY <1>8
  <2>2. /\ Pow2[m] = Pow2[w] * Pow2[m - w] /\ Pow2[m] \in Nat
        /\ Pow2[w] \in Nat /\ Pow2[w] >= 1 /\ Pow2[m - w] \in Nat
    <3>1. Pow2[w + (m - w)] = Pow2[w] * Pow2[m - w]
      BY <2>1, Pow2Sum
    <3>2. m \in Nat
      BY <1>8
    <3> QED
      BY <2>1, <3>1, <3>2, Pow2Type
  <2> DEFINE a == Pow2[m]
             b == Pow2[w]
             c == Pow2[m - w]
  <2>3. a = b * c /\ a \in Nat /\ b \in Nat /\ b >= 1 /\ c \in Nat
    BY <2>2
  <2> HIDE DEF a, b, c
  <2>4. b * c <= a /\ a < b * c + b
    BY <2>3
  <2>5. a \div b = c
    BY <2>3, <2>4, QuotientUnique
  <2> QED
    BY <1>1, <1>8, <2>5 DEF a, b, c
<1> QED
  BY <1>1, <1>8, <1>9, <1>10, <1>11

\* It does not return only for more than the top bit of a size.
LEMMA ClassicSpins ==
  ASSUME NEW n \in Size, Classic!Powers(n) = {}
  PROVE  n > Pow2[SizeBits - 1]
<1>1. SizeBits - 1 \in 0 .. SizeBits - 1 /\ SizeBits - 1 \in Nat
  BY ComparedWidths
<1>2. ~ (Pow2[SizeBits - 1] >= n)
  BY <1>1, SameOperators DEF Classic!Powers
<1> QED
  BY <1>1, <1>2, Pow2Type DEF Size

\* A filter is none of the two values that stand for none.
LEMMA ClassicLive ==
  ASSUME ClassicInv
  PROVE  /\ Classic!Live <=> Classic!IsFilter(classic)
         /\ Classic!IsFilter(classic) =>
              /\ classic = [words |-> classic.words, bit_mask |-> classic.bit_mask]
              /\ classic.bit_mask \in Size
              /\ classic.words \in [DOMAIN classic.words -> SUBSET (0 .. WordBits - 1)]
              /\ \E last \in Size : DOMAIN classic.words = 0 .. last
<1>1. Classic!Live <=> Classic!IsFilter(classic)
  BY ValueAssumption DEF ClassicInv, Classic!Live
<1>2. ASSUME Classic!IsFilter(classic)
      PROVE  /\ classic = [words |-> classic.words, bit_mask |-> classic.bit_mask]
             /\ classic.bit_mask \in Size
             /\ classic.words \in [DOMAIN classic.words -> SUBSET (0 .. WordBits - 1)]
             /\ \E last \in Size : DOMAIN classic.words = 0 .. last
  <2>1. PICK last \in Size :
          classic \in [words : [0 .. last -> SUBSET (0 .. WordBits - 1)], bit_mask : Size]
    BY <1>2, SameOperators DEF Classic!IsFilter
  <2> QED
    BY <2>1
<1> QED
  BY <1>1, <1>2

\* What bloom_new leaves: nothing, when it does not return, or an array of the
\* right size without a bit.
LEMMA ClassicMade ==
  ASSUME ClassicInv, NEW n \in Size, Classic!bloom_new(n)
  PROVE  /\ ClassicInv'
         /\ IF classic' = Spinning THEN n > Pow2[SizeBits - 1]
            ELSE LET bits == classic'.bit_mask + 1
                 IN  /\ bits = WordBits * Cardinality(DOMAIN classic'.words)
                     /\ bits >= n /\ (bits = WordBits \/ bits < 2 * n)
<1>1. classic = NoFilter /\ classic_added = {} /\ classic_added' = {}
  BY DEF Classic!bloom_new, ClassicInv
<1>2. CASE Classic!Powers(n) = {}
  <2>1. classic' = Spinning
    BY <1>2 DEF Classic!bloom_new
  <2>2. ~ Classic!IsFilter(classic)'
    BY <2>1, ValueAssumption
  <2> QED
    BY <1>1, <1>2, <2>1, <2>2, ClassicSpins DEF ClassicInv
<1>3. CASE Classic!Powers(n) # {}
  <2>1. classic' = Classic!New(n)
    BY <1>3 DEF Classic!bloom_new
  <2>2. PICK w, m \in 0 .. SizeBits - 1 :
           /\ w <= m /\ WordBits = Pow2[w]
           /\ classic' = [words |-> [j \in 0 .. Pow2[m - w] - 1 |-> {}],
                          bit_mask |-> Pow2[m] - 1]
           /\ n <= Pow2[m] /\ (Pow2[m] = WordBits \/ Pow2[m] < 2 * n)
    BY <1>3, <2>1, ClassicNew
  <2>3. /\ w \in Nat /\ m \in Nat /\ m - w \in Nat /\ m = w + (m - w) /\ m < SizeBits
    BY <2>2, ComparedWidths
  <2> DEFINE a == Pow2[m]
             c == Pow2[m - w]
             z == Pow2[SizeBits]
  <2>4. a \in Nat /\ c \in Nat /\ c >= 1 /\ a = WordBits * c /\ a >= 1
    BY <2>2, <2>3, Pow2Type, Pow2Sum
  <2>5. a - 1 \in Size /\ c - 1 \in Size
    <3>1. a < z /\ c < z /\ z \in Nat
      BY <2>3, ComparedWidths, Pow2Grows, Pow2Type
    <3> HIDE DEF a, c
    <3> QED
      BY <3>1, <2>4 DEF Size
  <2>6. classic' = [words |-> [j \in 0 .. c - 1 |-> {}], bit_mask |-> a - 1]
    BY <2>2
  <2>7. classic'.bit_mask = a - 1 /\ DOMAIN classic'.words = 0 .. c - 1
    BY <2>6
  <2>8. Classic!IsFilter(classic)'
    <3> HIDE DEF a, c
    <3>1. [j \in 0 .. c - 1 |-> {}] \in [0 .. c - 1 -> SUBSET (0 .. WordBits - 1)]
      OBVIOUS
    <3> QED
      BY <2>5, <2>6, <3>1, SameOperators DEF Classic!IsFilter
  <2>9. classic' # Spinning /\ classic' # NoFilter
    BY <2>8, ValueAssumption
  <2>10. ClassicSized'
    BY <2>2, <2>7 DEF ClassicSized
  <2>11. ClassicInv'
    BY <1>1, <2>8, <2>9, <2>10 DEF ClassicInv
  <2>12. Cardinality(0 .. c - 1) = c
    <3>1. 0 \in Int /\ c - 1 \in Int /\ ~ (0 > c - 1)
      BY <2>4
    <3>2. Cardinality(0 .. c - 1) = (c - 1) - 0 + 1
      BY <3>1, FS_Interval
    <3> QED
      BY <2>4, <3>2
  <2>13. a >= n /\ (a = WordBits \/ a < 2 * n)
    BY <2>2, <2>4 DEF Size
  <2> HIDE DEF a, c
  <2> QED
    BY <2>4, <2>7, <2>9, <2>11, <2>12, <2>13
<1> QED
  BY <1>2, <1>3

\* The bits a hash has are set.
LEMMA ClassicContains ==
  ASSUME NEW h
  PROVE  Has(h) <=>
           \A pos \in PositionsOf(h) : pos % WordBits \in classic.words[pos \div WordBits]
BY DEF Has, PositionsOf, Classic!contains_with_pair, Classic!get_bit

\* The bits that go into the word j when the hashes hs are inserted.
BitsFor(hs, j) ==
  {pos % WordBits : pos \in
    {p \in UNION {PositionsOf(hs[n]) : n \in DOMAIN hs} : p \div WordBits = j}}

\* An insert of hashes, in terms of the hashes.
LEMMA HashesInserted ==
  ASSUME NEW hs \in Seq(Hash), Classic!bloom_insert_prehash_bulk(hs)
  PROVE  /\ Classic!Live
         /\ classic' = [classic EXCEPT !.words =
              [j \in DOMAIN classic.words |-> classic.words[j] \cup BitsFor(hs, j)]]
         /\ classic_added' = classic_added \cup {hs[n] : n \in DOMAIN hs}
         /\ classic_asked' = <<>> /\ classic_hits' = 0
<1> DEFINE pairs == [n \in DOMAIN hs |-> Classic!prehash_split(hs[n])]
<1>1. /\ Classic!Live
      /\ classic' = [classic EXCEPT !.words = Classic!WordsWith(pairs)]
      /\ classic_added' = classic_added \cup {pairs[n][1] : n \in DOMAIN pairs}
      /\ classic_asked' = <<>> /\ classic_hits' = 0
  BY DEF Classic!bloom_insert_prehash_bulk, Classic!Insert
<1>2. DOMAIN pairs = DOMAIN hs /\ \A n \in DOMAIN hs : pairs[n] = Classic!prehash_split(hs[n])
  OBVIOUS
<1>3. \A n \in DOMAIN hs : pairs[n][1] = hs[n] /\ Classic!Positions(pairs[n]) = PositionsOf(hs[n])
  BY <1>2, SecondHash DEF PositionsOf
<1> HIDE DEF pairs
<1>4. Classic!WordsWith(pairs) =
        [j \in DOMAIN classic.words |-> classic.words[j] \cup BitsFor(hs, j)]
  <2>1. UNION {Classic!Positions(pairs[n]) : n \in DOMAIN pairs} =
          UNION {PositionsOf(hs[n]) : n \in DOMAIN hs}
    BY <1>2, <1>3
  <2> QED
    BY <2>1 DEF Classic!WordsWith, BitsFor
<1>5. {pairs[n][1] : n \in DOMAIN pairs} = {hs[n] : n \in DOMAIN hs}
  BY <1>2, <1>3
<1> QED
  BY <1>1, <1>4, <1>5

\* A query for hashes, in terms of the hashes.
LEMMA HashesAsked ==
  ASSUME NEW hs \in Seq(Hash), Classic!bloom_contains_prehash_bulk(hs)
  PROVE  /\ Classic!Live
         /\ classic' = classic /\ classic_added' = classic_added /\ classic_asked' = hs
         /\ classic_hits' = Cardinality({n \in DOMAIN hs : Has(hs[n])})
<1> DEFINE pairs == [n \in DOMAIN hs |-> Classic!prehash_split(hs[n])]
<1>1. /\ Classic!Live
      /\ classic' = classic /\ classic_added' = classic_added
      /\ classic_asked' = [n \in DOMAIN pairs |-> pairs[n][1]]
      /\ classic_hits' = Cardinality({n \in DOMAIN pairs : Classic!contains_with_pair(pairs[n])})
  BY SameOperators DEF Classic!bloom_contains_prehash_bulk, Classic!Ask
<1>2. DOMAIN pairs = DOMAIN hs /\ \A n \in DOMAIN hs : pairs[n] = Classic!prehash_split(hs[n])
  OBVIOUS
<1>3. \A n \in DOMAIN hs : pairs[n][1] = hs[n] /\ (Classic!contains_with_pair(pairs[n]) <=> Has(hs[n]))
  BY <1>2, SecondHash DEF Has
<1> HIDE DEF pairs
<1>4. [n \in DOMAIN pairs |-> pairs[n][1]] = hs
  <2>1. [n \in DOMAIN pairs |-> pairs[n][1]] = [n \in DOMAIN hs |-> hs[n]]
    BY <1>2, <1>3
  <2>2. hs = [n \in DOMAIN hs |-> hs[n]]
    OBVIOUS
  <2> QED
    BY <2>1, <2>2
<1>5. {n \in DOMAIN pairs : Classic!contains_with_pair(pairs[n])} = {n \in DOMAIN hs : Has(hs[n])}
  BY <1>2, <1>3
<1> QED
  BY <1>1, <1>4, <1>5

\* An insert loop sets the bits of its hashes and clears none.
LEMMA ClassicInsert ==
  ASSUME ClassicInv, NEW hs \in Seq(Hash), Classic!bloom_insert_prehash_bulk(hs)
  PROVE  /\ ClassicInv'
         /\ classic' \notin {NoFilter, Spinning}
         /\ classic'.bit_mask = classic.bit_mask /\ DOMAIN classic'.words = DOMAIN classic.words
<1>1. Classic!IsFilter(classic)
  BY ClassicLive, HashesInserted
<1>2. /\ ClassicSized
      /\ classic.bit_mask \in Size
      /\ classic = [words |-> classic.words, bit_mask |-> classic.bit_mask]
      /\ classic.words \in [DOMAIN classic.words -> SUBSET (0 .. WordBits - 1)]
  BY <1>1, ClassicLive DEF ClassicInv
<1>3. PICK last \in Size : DOMAIN classic.words = 0 .. last
  BY <1>1, ClassicLive
<1> DEFINE added(j) == BitsFor(hs, j)
           words == [j \in DOMAIN classic.words |-> classic.words[j] \cup added(j)]
<1>4. /\ classic' = [classic EXCEPT !.words = words]
      /\ classic_added' = classic_added \cup {hs[n] : n \in DOMAIN hs}
  BY HashesInserted
<1>5. words = [j \in DOMAIN classic.words |-> classic.words[j] \cup added(j)]
  OBVIOUS
<1>6. \A n \in DOMAIN hs : hs[n] \in Hash
  OBVIOUS
<1>7. \A j : added(j) \subseteq 0 .. WordBits - 1
  <2> SUFFICES ASSUME NEW n \in DOMAIN hs, NEW p \in PositionsOf(hs[n])
               PROVE  p % WordBits \in 0 .. WordBits - 1
    BY DEF BitsFor
  <2> QED
    BY <1>2, <1>6, PositionInArray
<1>8. words \in [DOMAIN classic.words -> SUBSET (0 .. WordBits - 1)]
  <2> HIDE DEF words, added
  <2>1. \A j \in DOMAIN classic.words : classic.words[j] \cup added(j) \in SUBSET (0 .. WordBits - 1)
    BY <1>2, <1>7
  <2> QED
    BY <1>5, <2>1
<1>9. classic' = [words |-> words, bit_mask |-> classic.bit_mask]
  <2> HIDE DEF words
  <2> QED
    BY <1>2, <1>4
<1>10. classic'.words = words /\ classic'.bit_mask = classic.bit_mask /\ DOMAIN words = DOMAIN classic.words
  <2> HIDE DEF words
  <2> QED
    BY <1>8, <1>9
<1>11. Classic!IsFilter(classic)'
  <2> HIDE DEF words
  <2>1. classic' \in [words : [0 .. last -> SUBSET (0 .. WordBits - 1)], bit_mask : Size]
    BY <1>2, <1>3, <1>8, <1>9
  <2> QED
    BY <2>1, SameOperators DEF Classic!IsFilter
<1>12. classic' \notin {NoFilter, Spinning}
  BY <1>11, ValueAssumption
<1>13. ClassicSized'
  <2> HIDE DEF words
  <2> QED
    BY <1>2, <1>10 DEF ClassicSized
<1>14. \A h : PositionsOf(h)' = PositionsOf(h)
  BY <1>10 DEF PositionsOf, Classic!Positions, Classic!prehash_split
<1>15. ASSUME NEW h \in classic_added'
       PROVE  Has(h)'
  <2> SUFFICES ASSUME NEW pos \in PositionsOf(h)
               PROVE  pos % WordBits \in words[pos \div WordBits]
    <3> HIDE DEF words
    <3>1. classic'.words = words
      BY <1>10
    <3>2. \A pos \in PositionsOf(h)' : pos % WordBits \in classic'.words[pos \div WordBits]
      BY <1>14, <3>1
    <3> QED
      BY <3>2 DEF Has, PositionsOf, Classic!contains_with_pair, Classic!get_bit
  <2> HIDE DEF words
  <2>1. h \in Hash
    BY <1>4, <1>6, <1>15 DEF ClassicInv
  <2>2. pos \div WordBits \in DOMAIN classic.words
    BY <1>2, <2>1, PositionInArray
  <2>3. words[pos \div WordBits] = classic.words[pos \div WordBits] \cup added(pos \div WordBits)
    <3> HIDE DEF added
    <3> QED
      BY <1>5, <2>2
  <2>4. CASE h \in classic_added
    <3>1. Has(h)
      BY <1>1, <2>4 DEF ClassicInv
    <3> HIDE DEF added
    <3> QED
      BY <2>3, <3>1, ClassicContains
  <2>5. CASE h \in {hs[n] : n \in DOMAIN hs}
    <3>1. pos \in UNION {PositionsOf(hs[n]) : n \in DOMAIN hs}
      BY <2>5
    <3>2. pos % WordBits \in added(pos \div WordBits)
      BY <3>1 DEF BitsFor
    <3> HIDE DEF added
    <3> QED
      BY <2>3, <3>2
  <2> QED
    BY <1>4, <1>15, <2>4, <2>5
<1>16. classic_added' \subseteq Hash
  BY <1>4, <1>6 DEF ClassicInv
<1> QED
  <2> HIDE DEF words
  <2> QED
    BY <1>10, <1>11, <1>12, <1>13, <1>15, <1>16 DEF ClassicInv

\* A query finds all that was added.
LEMMA ClassicQuery ==
  ASSUME ClassicInv, NEW hs \in Seq(Hash), Classic!bloom_contains_prehash_bulk(hs)
  PROVE  /\ classic' = classic /\ classic_added' = classic_added /\ classic_asked' = hs
         /\ classic_hits' \in 0 .. Len(hs)
         /\ classic_hits' >= Cardinality({n \in DOMAIN hs : hs[n] \in classic_added})
<1> DEFINE found == {n \in DOMAIN hs : Has(hs[n])}
           present == {n \in DOMAIN hs : hs[n] \in classic_added}
<1>1. /\ classic' = classic /\ classic_added' = classic_added /\ classic_asked' = hs
      /\ classic_hits' = Cardinality(found)
  BY HashesAsked
<1>2. Classic!IsFilter(classic)
  BY ClassicLive, HashesAsked
<1>3. present \subseteq found /\ found \subseteq DOMAIN hs
  BY <1>2 DEF ClassicInv
<1>4. IsFiniteSet(DOMAIN hs) /\ Cardinality(DOMAIN hs) = Len(hs) /\ Len(hs) \in Nat
  <2>1. DOMAIN hs = 1 .. Len(hs) /\ Len(hs) \in Nat
    OBVIOUS
  <2>2. \A n \in Nat : IsFiniteSet(1 .. n) /\ Cardinality(1 .. n) = n
    BY FS_Interval
  <2> QED
    BY <2>1, <2>2
<1> HIDE DEF found, present
<1>5. IsFiniteSet(found) /\ Cardinality(found) <= Len(hs) /\ Cardinality(found) \in Nat
  BY <1>3, <1>4, FS_Subset, FS_CardinalityType
<1>6. Cardinality(present) <= Cardinality(found) /\ Cardinality(present) \in Nat
  BY <1>3, <1>5, FS_Subset, FS_CardinalityType
<1> QED
  BY <1>1, <1>4, <1>5, <1>6 DEF present

\* A step that leaves the filter and what was added.
LEMMA ClassicKept ==
  ASSUME ClassicInv, UNCHANGED <<classic, classic_added>>
  PROVE  ClassicInv'
<1>1. \A h : Has(h)' = Has(h)
  BY DEF Has, Classic!contains_with_pair, Classic!get_bit, Classic!Positions, Classic!prehash_split
<1>2. Classic!IsFilter(classic)' = Classic!IsFilter(classic)
  OBVIOUS
<1>3. ClassicSized' = ClassicSized
  BY DEF ClassicSized
<1> QED
  BY <1>1, <1>2, <1>3 DEF ClassicInv

\* Freeing the filter forgets what it had.
LEMMA ClassicFreed ==
  ASSUME ClassicInv, Classic!bloom_free
  PROVE  ClassicInv'
<1>1. classic' = NoFilter /\ classic_added' = {}
  BY DEF Classic!bloom_free
<1>2. ~ Classic!IsFilter(classic)'
  BY <1>1, ValueAssumption
<1> QED
  BY <1>1, <1>2 DEF ClassicInv

\* The hashes a call may pass.
ClassicBatches ==
  HashBatches \cup {Classic!Hashed(ks) : ks \in KeyBatches} \cup {<<h>> : h \in Hash}

\* An insert adds, a query asks and a free drops, as the promise has it.
LEMMA ClassicPromised ==
  /\ \A hs \in ClassicBatches :
       /\ hs \in Seq(Hash) /\ Classic!bloom_insert_prehash_bulk(hs) => Classic!Promise!Add
       /\ /\ classic_asked' = hs /\ classic_added' = classic_added
          /\ classic_hits' \in 0 .. Len(hs)
          /\ classic_hits' >= Cardinality({n \in DOMAIN hs : hs[n] \in classic_added})
          => Classic!Promise!Ask
  /\ Classic!bloom_free => Classic!Promise!Drop
<1>1. ASSUME NEW hs \in ClassicBatches, hs \in Seq(Hash), Classic!bloom_insert_prehash_bulk(hs)
      PROVE  Classic!Promise!Add
  <2>1. hs \in HashBatches \cup {Classic!Hashed(ks) : ks \in KeyBatches} \cup {<<h>> : h \in Classic!Hash}
    BY SameOperators DEF ClassicBatches
  <2>2. /\ classic_added' = classic_added \cup {hs[j] : j \in DOMAIN hs}
        /\ classic_asked' = <<>> /\ classic_hits' = 0
    BY <1>1, HashesInserted
  <2> QED
    BY <2>1, <2>2 DEF Classic!Promise!Add
<1>2. ASSUME NEW hs \in ClassicBatches,
             classic_asked' = hs, classic_added' = classic_added, classic_hits' \in 0 .. Len(hs),
             classic_hits' >= Cardinality({n \in DOMAIN hs : hs[n] \in classic_added})
      PROVE  Classic!Promise!Ask
  <2>1. hs \in HashBatches \cup {Classic!Hashed(ks) : ks \in KeyBatches} \cup {<<h>> : h \in Classic!Hash}
    BY SameOperators DEF ClassicBatches
  <2>2. \A S : Classic!Promise!Cardinality(S) = Cardinality(S)
    BY DEF Classic!Promise!Cardinality, Cardinality
  <2>3. Classic!Promise!Present(hs, classic_added) = Cardinality({n \in DOMAIN hs : hs[n] \in classic_added})
    BY <2>2 DEF Classic!Promise!Present
  <2> QED
    BY <1>2, <2>1, <2>3 DEF Classic!Promise!Ask
<1>3. Classic!bloom_free => Classic!Promise!Drop
  BY DEF Classic!bloom_free, Classic!Promise!Drop
<1> QED
  BY <1>1, <1>2, <1>3

-----------------------------------------------------------------------------
(***************************************************************************)
(* The split block filter.                                                 *)
(***************************************************************************)
\* The blocks of a filter with these indexes.
BlocksOf(last) == [0 .. last -> [Lanes -> Word]]

\* Every filter is blocks with some last index.
LEMMA ImpalaFilters ==
  \A f : Impala!IsFilter(f) <=> \E last \in Size : f \in BlocksOf(last)
BY SameOperators DEF Impala!IsFilter, BlocksOf

\* nblocks counts them.
LEMMA BlockCount ==
  ASSUME NEW last \in Size, impala \in BlocksOf(last)
  PROVE  /\ DOMAIN impala = 0 .. last
         /\ Impala!nblocks = last + 1 /\ last \in Nat
         /\ Impala!nblocks \in Nat /\ Impala!nblocks >= 1
<1>1. DOMAIN impala = 0 .. last /\ last \in Nat
  BY DEF BlocksOf, Size
<1>2. 0 \in Int /\ last \in Int /\ ~ (0 > last)
  BY <1>1
<1>3. Cardinality(0 .. last) = last - 0 + 1
  BY <1>2, FS_Interval
<1> QED
  BY <1>1, <1>3, SameOperators DEF Impala!nblocks

\* The masks are those of the Parquet rule.
LEMMA MaskSame ==
  \A h : /\ Impala!block_mask(h) = mask_for(h)
         /\ Impala!mask_for(h) = mask_for(h)
         /\ \A n : Impala!Fastrange(n, h) = Fastrange(n, h)
BY SameOperators
   DEF Impala!block_mask, Impala!mask_for, mask_for, Impala!LowerHalf, LowerHalf,
       Impala!Fastrange, Fastrange, Impala!UpperHalf, UpperHalf

\* The index of a hash is in the array, and the Parquet one as far as the
\* product does not wrap.
LEMMA IndexInArray ==
  ASSUME NEW last \in Size, impala \in BlocksOf(last), NEW h \in Hash
  PROVE  /\ Impala!block_of(h) \in 0 .. last
         /\ Impala!nblocks <= Pow2[HalfBits] => Impala!block_of(h) = Fastrange(Impala!nblocks, h)
<1> DEFINE H == Pow2[HalfBits]
           W == Pow2[2 * HalfBits]
           u == UpperHalf(h)
           n == Impala!nblocks
           x == (u * n) % W
<1>1. H \in Nat /\ H >= 1 /\ u \in Nat /\ u < H
  BY HalfType
<1>2. W = H * H /\ W \in Nat /\ W >= 1
  <2>1. 2 * HalfBits = HalfBits + HalfBits /\ HalfBits \in Nat
    BY ComparedWidths
  <2>2. Pow2[HalfBits + HalfBits] = H * H
    BY <2>1, Pow2Sum
  <2> QED
    BY <2>1, <2>2, <1>1, ComparedWidths, Pow2Type
<1>3. n \in Nat /\ n >= 1 /\ n = last + 1 /\ last \in Nat
  BY BlockCount
<1>4. Impala!block_of(h) = x \div H
  BY SameOperators DEF Impala!block_of, UpperHalf
<1>5. Fastrange(n, h) = (u * n) \div H
  BY DEF Fastrange
<1> HIDE DEF H, W, u, n
<1>6. u * n \in Nat /\ u * n < H * n /\ H * n \in Nat /\ H * H \in Nat
  BY <1>1, <1>3
<1>7. x \in Nat /\ x < W /\ x <= u * n
  <2>1. x \in 0 .. W - 1 /\ (u * n) \div W \in Nat /\ u * n = W * ((u * n) \div W) + x
    BY <1>2, <1>6, RemainderUnique
  <2> HIDE DEF x
  <2>2. \A q \in Nat : W * q \in Nat
    BY <1>2
  <2> QED
    BY <1>2, <1>6, <2>1, <2>2
<1> HIDE DEF x
<1>8. x \div H < n /\ x \div H \in Nat
  <2>1. x < H * n
    BY <1>6, <1>7
  <2> QED
    BY <1>1, <1>3, <1>7, <2>1, QuotientBound, Quotient
<1>9. ASSUME n <= H PROVE x = u * n
  <2>1. u * n < H * H
    <3>1. H * n <= H * H
      BY <1>1, <1>3, <1>9
    <3> QED
      BY <1>1, <1>6, <3>1
  <2>2. u * n \in 0 .. W - 1 /\ u * n = W * 0 + u * n
    BY <1>2, <1>6, <2>1
  <2> QED
    BY <1>2, <1>6, <2>2, RemainderUnique DEF x
<1> QED
  BY <1>3, <1>4, <1>5, <1>8, <1>9 DEF H, n

\* An insert sets the bits of the mask in the block of the hash.
LEMMA InsertOne ==
  ASSUME NEW last \in Size, impala \in BlocksOf(last), NEW f \in BlocksOf(last), NEW h \in Hash
  PROVE  /\ Impala!Insert(f, h) \in BlocksOf(last)
         /\ \A j \in 0 .. last, l \in Lanes :
              Impala!Insert(f, h)[j][l] =
                IF j = Impala!block_of(h) THEN f[j][l] \cup mask_for(h)[l] ELSE f[j][l]
<1> DEFINE b == Impala!block_of(h)
           block == [l \in Lanes |-> f[b][l] \cup mask_for(h)[l]]
<1>1. b \in 0 .. last
  BY IndexInArray
<1>2. Impala!Insert(f, h) = [f EXCEPT ![b] = block]
  BY MaskSame, SameOperators DEF Impala!Insert
<1>3. mask_for(h) \in [Lanes -> Word]
  BY MaskType
<1>4. f[b] \in [Lanes -> Word]
  BY <1>1 DEF BlocksOf
<1>5. block \in [Lanes -> Word]
  <2>1. \A l \in Lanes : f[b][l] \cup mask_for(h)[l] \in Word
    <3> SUFFICES ASSUME NEW l \in Lanes PROVE f[b][l] \cup mask_for(h)[l] \in Word
      OBVIOUS
    <3>1. f[b][l] \in Word /\ mask_for(h)[l] \in Word
      BY <1>3, <1>4
    <3> HIDE DEF b
    <3> QED
      BY <3>1 DEF Word
  <2> QED
    BY <2>1
<1>6. \A l \in Lanes : block[l] = f[b][l] \cup mask_for(h)[l]
  OBVIOUS
<1> HIDE DEF b, block
<1>7. Impala!Insert(f, h) \in BlocksOf(last)
  BY <1>1, <1>2, <1>5 DEF BlocksOf
<1>8. ASSUME NEW j \in 0 .. last
      PROVE  [f EXCEPT ![b] = block][j] = IF j = b THEN block ELSE f[j]
  BY <1>8 DEF BlocksOf
<1>9. ASSUME NEW j \in 0 .. last, NEW l \in Lanes
      PROVE  Impala!Insert(f, h)[j][l] = IF j = b THEN f[j][l] \cup mask_for(h)[l] ELSE f[j][l]
  BY <1>2, <1>6, <1>8
<1> QED
  BY <1>7, <1>9 DEF b

\* The members of the masks of the first n hashes that fall on a block.
MasksOn(hs, n, j, l) ==
  UNION {mask_for(hs[m])[l] : m \in {i \in 1 .. n : Impala!block_of(hs[i]) = j}}

\* The loop adds the masks of its hashes to their blocks, and nothing else.
LEMMA InsertLoop ==
  ASSUME NEW last \in Size, impala \in BlocksOf(last), NEW hs \in Seq(Hash)
  PROVE  /\ Impala!Inserted(hs) \in BlocksOf(last)
         /\ \A j \in 0 .. last, l \in Lanes :
              Impala!Inserted(hs)[j][l] = impala[j][l] \cup MasksOn(hs, Len(hs), j, l)
<1> DEFINE N == Len(hs)
           S == BlocksOf(last)
           step == [n \in 1 .. N |-> [f \in S |-> Impala!Insert(f, hs[n])]]
           Body(a) == [n \in 0 .. N |-> IF n = 0 THEN impala ELSE Impala!Insert(a[n - 1], hs[n])]
           after == CHOOSE a : a = Body(a)
<1>1. N \in Nat /\ \A n \in 1 .. N : hs[n] \in Hash
  OBVIOUS
<1> HIDE DEF N
<1>2. Impala!Inserted(hs) = after[N]
  BY DEF Impala!Inserted, N
<1>3. step \in [1 .. N -> [S -> S]]
  <2>1. \A n \in 1 .. N, f \in S : Impala!Insert(f, hs[n]) \in S
    BY <1>1, InsertOne
  <2> HIDE DEF S
  <2> QED
    BY <2>1
<1>4. PICK f \in [0 .. N -> S] : Runs(f, N, impala, step)
  <2>1. impala \in S
    OBVIOUS
  <2> HIDE DEF step, S
  <2> QED
    BY <1>1, <1>3, <2>1, LoopExists
<1>5. f = Body(f)
  <2>1. ASSUME NEW n \in 0 .. N, n # 0
        PROVE  step[n][f[n - 1]] = Impala!Insert(f[n - 1], hs[n])
    <3>1. n \in 1 .. N /\ n - 1 \in 0 .. N
      BY <1>1, <2>1
    <3>2. f[n - 1] \in S
      BY <3>1
    <3> HIDE DEF S
    <3> QED
      BY <3>1, <3>2
  <2> HIDE DEF step, S
  <2>2. \A n \in 0 .. N : f[n] = IF n = 0 THEN impala ELSE Impala!Insert(f[n - 1], hs[n])
    BY <1>4, <2>1 DEF Runs
  <2>3. f = [n \in 0 .. N |-> f[n]]
    OBVIOUS
  <2> QED
    BY <2>2, <2>3
<1>6. after = Body(after)
  <2> HIDE DEF Body
  <2> QED
    BY <1>5
<1> HIDE DEF after
<1>7. /\ after[0] = impala
      /\ \A n \in 1 .. N : after[n] = Impala!Insert(after[n - 1], hs[n])
  <2>1. \A n \in 0 .. N : after[n] = IF n = 0 THEN impala ELSE Impala!Insert(after[n - 1], hs[n])
    <3>1. after = [n \in 0 .. N |-> IF n = 0 THEN impala ELSE Impala!Insert(after[n - 1], hs[n])]
      BY <1>6
    <3> QED
      BY <3>1
  <2>2. 0 \in 0 .. N /\ \A n \in 1 .. N : n \in 0 .. N /\ n # 0
    BY <1>1
  <2> QED
    BY <2>1, <2>2
<1> DEFINE Image(n) == /\ after[n] \in S
                       /\ \A j \in 0 .. last, l \in Lanes :
                            after[n][j][l] = impala[j][l] \cup MasksOn(hs, n, j, l)
           T == {n \in Nat : n <= N => Image(n)}
<1>8. 0 \in T
  <2>1. \A j, l : MasksOn(hs, 0, j, l) = {}
    BY DEF MasksOn
  <2> QED
    BY <1>7, <2>1
<1>9. ASSUME NEW n \in Nat, n \in T
      PROVE  n + 1 \in T
  <2> SUFFICES ASSUME n + 1 <= N PROVE Image(n + 1)
    OBVIOUS
  <2>1. after[n] \in S /\ \A j \in 0 .. last, l \in Lanes :
                            after[n][j][l] = impala[j][l] \cup MasksOn(hs, n, j, l)
    BY <1>1, <1>9
  <2> DEFINE h == hs[n + 1]
  <2>2. n + 1 \in 1 .. N /\ h \in Hash /\ (n + 1) - 1 = n
    BY <1>1
  <2>3. after[n + 1] = Impala!Insert(after[n], h)
    BY <1>7, <2>2
  <2>4. \A j, l : MasksOn(hs, n + 1, j, l) =
                    IF j = Impala!block_of(h) THEN MasksOn(hs, n, j, l) \cup mask_for(h)[l]
                    ELSE MasksOn(hs, n, j, l)
    <3> TAKE j, l
    <3> DEFINE I(k) == {i \in 1 .. k : Impala!block_of(hs[i]) = j}
               part(m) == mask_for(hs[m])[l]
    <3>1. I(n + 1) = IF j = Impala!block_of(h) THEN I(n) \cup {n + 1} ELSE I(n)
      <4>1. 1 .. n + 1 = (1 .. n) \cup {n + 1}
        OBVIOUS
      <4> QED
        BY <4>1
    <3>2. MasksOn(hs, n + 1, j, l) = UNION {part(m) : m \in I(n + 1)}
          /\ MasksOn(hs, n, j, l) = UNION {part(m) : m \in I(n)}
          /\ part(n + 1) = mask_for(h)[l]
      BY DEF MasksOn
    <3> HIDE DEF I, part
    <3>3. UNION {part(m) : m \in I(n) \cup {n + 1}} = (UNION {part(m) : m \in I(n)}) \cup part(n + 1)
      OBVIOUS
    <3> QED
      BY <3>1, <3>2, <3>3
  <2> HIDE DEF h
  <2>5. /\ Impala!Insert(after[n], h) \in S
        /\ \A j \in 0 .. last, l \in Lanes :
              Impala!Insert(after[n], h)[j][l] =
                IF j = Impala!block_of(h) THEN after[n][j][l] \cup mask_for(h)[l] ELSE after[n][j][l]
    BY <2>1, <2>2, InsertOne
  <2>6. \A j \in 0 .. last, l \in Lanes :
           after[n + 1][j][l] = impala[j][l] \cup MasksOn(hs, n + 1, j, l)
    <3> TAKE j \in 0 .. last, l \in Lanes
    <3>1. after[n + 1][j][l] =
            IF j = Impala!block_of(h) THEN after[n][j][l] \cup mask_for(h)[l] ELSE after[n][j][l]
      BY <2>3, <2>5
    <3>2. after[n][j][l] = impala[j][l] \cup MasksOn(hs, n, j, l)
      BY <2>1
    <3> QED
      BY <2>4, <3>1, <3>2
  <2> QED
    BY <2>3, <2>5, <2>6
<1>10. N \in T
  <2> HIDE DEF T
  <2>1. Nat \subseteq T
    BY <1>8, <1>9, InductionOverSet
  <2> QED
    BY <1>1, <2>1
<1>11. Image(N)
  BY <1>1, <1>10
<1> QED
  BY <1>2, <1>11 DEF N

\* Of the split block filter in every state: it has blocks, and they and its
\* answers are exact.
ImpalaInv ==
  /\ impala = NoFilter \/ Impala!IsFilter(impala)
  /\ impala_added \subseteq Hash
  /\ impala_asked \in Seq(Hash)
  /\ impala = NoFilter => impala_added = {} /\ impala_asked = <<>>
  /\ ImageExact /\ AnswersExact

\* The image that ImageExact asks for, with the operators of this module.
LEMMA ImageSame ==
  \A n, S, b : Impala!BlockImage(n, S, b) =
    [l \in Lanes |-> UNION {mask_for(h)[l] : h \in {x \in S : Fastrange(n, x) = b}}]
BY MaskSame, SameOperators DEF Impala!BlockImage

\* In words: each block has the masks of the hashes that fall on it.
LEMMA ExactMeans ==
  ASSUME NEW last \in Size, impala \in BlocksOf(last)
  PROVE  ImageExact <=>
           (last + 1 <= Pow2[HalfBits] =>
              \A j \in 0 .. last, l \in Lanes :
                impala[j][l] =
                  UNION {mask_for(h)[l] : h \in {x \in impala_added : Fastrange(last + 1, x) = j}})
<1>1. impala # NoFilter
  BY ImpalaFilters, ValueAssumption
<1>2. DOMAIN impala = 0 .. last /\ Impala!nblocks = last + 1
  BY BlockCount
<1> DEFINE image(j, l) == UNION {mask_for(h)[l] : h \in {x \in impala_added : Fastrange(last + 1, x) = j}}
<1>3. ASSUME NEW j \in 0 .. last
      PROVE  impala[j] = Impala!BlockImage(last + 1, impala_added, j) <=>
               \A l \in Lanes : impala[j][l] = image(j, l)
  <2>1. Impala!BlockImage(last + 1, impala_added, j) = [l \in Lanes |-> image(j, l)]
    BY ImageSame
  <2>2. impala[j] = [l \in Lanes |-> impala[j][l]]
    BY DEF BlocksOf
  <2> HIDE DEF image
  <2> QED
    BY <2>1, <2>2
<1> HIDE DEF image
<1>4. ImageExact <=>
        (last + 1 <= Pow2[HalfBits] =>
           \A j \in 0 .. last : impala[j] = Impala!BlockImage(last + 1, impala_added, j))
  BY <1>1, <1>2, SameOperators DEF ImageExact, Impala!ImageExact, Impala!Live
<1> QED
  BY <1>3, <1>4 DEF image

\* bloom_new: as many blocks as the size needs, unless the sum wraps, then one.
LEMMA ImpalaMade ==
  ASSUME ImpalaInv, NEW n \in Size, Impala!bloom_new(n)
  PROVE  /\ ImpalaInv'
         /\ \/ BlockBits * Impala!nblocks' >= n
            \/ Impala!nblocks' = 1 /\ n > Pow2[SizeBits] - BlockBits
<1> DEFINE Z == Pow2[SizeBits]
           x == n + BlockBits - 1
           c == (x % Z) \div BlockBits
           last == (IF c = 0 THEN 1 ELSE c) - 1
<1>1. Z \in Nat /\ Z >= 1 /\ n \in Nat /\ n < Z
  BY ComparedWidths, Pow2Type DEF Size
<1>2. BlockBits \in Nat /\ BlockBits >= 1
  <2>1. LaneLog \in Nat /\ LaneCount \in Nat /\ LaneCount >= 1
    BY WidthAssumption
  <2>2. Pow2[LaneLog] \in Nat /\ Pow2[LaneLog] >= 1
    BY <2>1, Pow2Type
  <2>3. \A a, b \in Nat : a >= 1 /\ b >= 1 => a * b \in Nat /\ a * b >= 1
    OBVIOUS
  <2> QED
    BY <2>1, <2>2, <2>3 DEF BlockBits
<1>3. impala = NoFilter /\ impala_added = {} /\ impala_asked = <<>>
  BY DEF Impala!bloom_new, ImpalaInv
<1>4. impala' = [j \in 0 .. last |-> [l \in Lanes |-> {}]]
  BY SameOperators DEF Impala!bloom_new
<1>5. impala_added' = {} /\ impala_asked' = <<>>
  BY <1>3 DEF Impala!bloom_new
<1> DEFINE B == BlockBits
<1>6. x \in Nat /\ x = n + B - 1
  BY <1>1, <1>2
<1> DEFINE r == x % Z
<1>7. r \in Nat /\ r < Z /\ r <= x /\ (x < Z => r = x) /\ (x >= Z => r <= x - Z)
  <2>1. r \in 0 .. Z - 1 /\ x \div Z \in Nat /\ x = Z * (x \div Z) + r
    BY <1>1, <1>6, RemainderUnique
  <2> DEFINE q == x \div Z
  <2>2. q \in Nat /\ r \in Nat /\ r < Z /\ x = Z * q + r
    BY <1>1, <2>1
  <2> HIDE DEF q, x, Z, r
  <2>3. q = 0 \/ Z * q >= Z
    <3>1. \A a \in Nat : a >= 1 => Z * a >= Z
      BY <1>1
    <3> QED
      BY <2>2, <3>1
  <2>4. Z * q \in Nat /\ (q = 0 => Z * q = 0)
    BY <1>1, <2>2
  <2> QED
    BY <1>1, <1>6, <2>2, <2>3, <2>4
<1> HIDE DEF x, r, Z
<1>8. c = r \div B
  BY DEF r
<1> HIDE DEF B, c
<1>9. c \in Nat /\ B * c <= r /\ r < B * c + B
  BY <1>2, <1>7, <1>8, Quotient DEF B
<1>10. B \in Nat /\ B >= 1 /\ B * c \in Nat /\ c <= B * c
  <2>1. B \in Nat /\ B >= 1
    BY <1>2 DEF B
  <2>2. \A a, b \in Nat : b >= 1 => b * a \in Nat /\ a <= b * a
    OBVIOUS
  <2> QED
    BY <1>9, <2>1, <2>2
<1>11. last \in 0 .. Z - 1 /\ last \in Nat
  BY <1>1, <1>7, <1>9, <1>10
<1>12. last \in Size
  BY <1>11 DEF Size, Z
<1>13. B * (last + 1) >= n \/ (last = 0 /\ n > Z - B)
  <2>1. CASE x < Z
    <3>1. n + B - 1 < B * c + B
      BY <1>6, <1>7, <1>9, <2>1
    <3>2. B * c >= n
      BY <1>1, <1>9, <1>10, <3>1
    <3>3. CASE c = 0
      <4>1. B * (last + 1) = B /\ B * c = 0
        BY <1>10, <3>3
      <4> QED
        BY <1>1, <1>10, <3>2, <4>1
    <3>4. CASE c # 0
      <4>1. last + 1 = c
        BY <1>9, <3>4
      <4> QED
        BY <3>2, <4>1
    <3> QED
      BY <3>3, <3>4
  <2>2. CASE ~ (x < Z)
    <3>1. r <= n + B - 1 - Z /\ n > Z - B
      BY <1>1, <1>6, <1>7, <1>10, <2>2
    <3>2. r < B
      BY <1>1, <1>7, <1>10, <3>1
    <3>3. c = 0
      <4>1. \A a \in Nat : a >= 1 => B * a >= B
        BY <1>10
      <4>2. c >= 1 => B * c >= B
        BY <1>9, <4>1
      <4> QED
        BY <1>7, <1>9, <1>10, <3>2, <4>2
    <3> QED
      BY <3>1, <3>3
  <2> QED
    BY <2>1, <2>2
<1> HIDE DEF last
<1>14. impala' \in BlocksOf(last)
  <2>1. [l \in Lanes |-> {}] \in [Lanes -> Word]
    BY DEF Word
  <2> QED
    BY <1>4, <2>1 DEF BlocksOf
<1>15. Impala!nblocks' = last + 1
  <2>1. DOMAIN impala' = 0 .. last
    BY <1>4
  <2>2. 0 \in Int /\ last \in Int /\ ~ (0 > last)
    BY <1>11
  <2>3. Cardinality(0 .. last) = last - 0 + 1
    BY <2>2, FS_Interval
  <2> QED
    BY <1>11, <2>1, <2>3, SameOperators DEF Impala!nblocks
<1>16. Impala!IsFilter(impala)' /\ impala' # NoFilter
  <2>1. Impala!IsFilter(impala)'
    BY <1>12, <1>14, SameOperators DEF Impala!IsFilter, BlocksOf
  <2> QED
    BY <2>1, ValueAssumption
<1>17. ImageExact'
  <2>1. ASSUME NEW j \in 0 .. last
        PROVE  impala'[j] = Impala!BlockImage(last + 1, {}, j)
    <3>1. impala'[j] = [l \in Lanes |-> {}]
      BY <1>4
    <3>2. Impala!BlockImage(last + 1, {}, j) = [l \in Lanes |-> {}]
      BY ImageSame
    <3> QED
      BY <3>1, <3>2
  <2>2. DOMAIN impala' = 0 .. last
    BY <1>4
  <2>3. \A j \in DOMAIN impala' : impala'[j] = Impala!BlockImage(Impala!nblocks, impala_added, j)'
    BY <1>5, <1>15, <2>1, <2>2 DEF Impala!BlockImage, Impala!Fastrange
  <2> QED
    BY <2>3 DEF ImageExact, Impala!ImageExact
<1>18. AnswersExact'
  BY <1>5 DEF AnswersExact, Impala!AnswersExact
<1>19. ImpalaInv'
  <2>1. <<>> \in Seq(Hash)
    OBVIOUS
  <2> QED
    BY <1>5, <1>16, <1>17, <1>18, <2>1 DEF ImpalaInv
<1> QED
  BY <1>11, <1>13, <1>15, <1>19 DEF B, Z

\* An insert loop leaves the blocks that the hashes so far make.
LEMMA ImpalaInsert ==
  ASSUME ImpalaInv, NEW hs \in Seq(Hash), Impala!bloom_insert_prehash_bulk(hs)
  PROVE  /\ ImpalaInv'
         /\ impala' # NoFilter /\ Impala!nblocks' = Impala!nblocks
<1>1. impala # NoFilter
  BY DEF Impala!bloom_insert_prehash_bulk, Impala!Live
<1>2. PICK last \in Size : impala \in BlocksOf(last)
  BY <1>1, ImpalaFilters DEF ImpalaInv
<1>3. /\ impala' = Impala!Inserted(hs)
      /\ impala_added' = impala_added \cup {hs[n] : n \in DOMAIN hs}
      /\ impala_asked' = <<>>
  BY DEF Impala!bloom_insert_prehash_bulk
<1>4. /\ impala' \in BlocksOf(last)
      /\ \A j \in 0 .. last, l \in Lanes :
           impala'[j][l] = impala[j][l] \cup MasksOn(hs, Len(hs), j, l)
  BY <1>2, <1>3, InsertLoop
<1>5. DOMAIN impala' = 0 .. last /\ DOMAIN impala = 0 .. last
  BY <1>2, <1>4 DEF BlocksOf
<1>6. Impala!nblocks = last + 1 /\ Impala!nblocks' = last + 1
  <2>1. Impala!nblocks = last + 1
    BY <1>2, BlockCount
  <2>2. Impala!nblocks' = Impala!nblocks
    BY <1>5 DEF Impala!nblocks
  <2> QED
    BY <2>1, <2>2
<1>7. impala' # NoFilter /\ Impala!IsFilter(impala)'
  <2>1. Impala!IsFilter(impala)'
    BY <1>4, SameOperators DEF Impala!IsFilter, BlocksOf
  <2> QED
    BY <2>1, ValueAssumption
<1>8. \A n \in DOMAIN hs : hs[n] \in Hash
  OBVIOUS
<1>9. impala_added' \subseteq Hash
  BY <1>3, <1>8 DEF ImpalaInv
<1>10. ImageExact'
  <2> SUFFICES ASSUME last + 1 <= Pow2[HalfBits], NEW j \in 0 .. last
               PROVE  impala'[j] = Impala!BlockImage(last + 1, impala_added', j)
    <3>1. ASSUME ~ (last + 1 <= Pow2[HalfBits]) PROVE ImageExact'
      BY <1>6, <3>1, SameOperators DEF ImageExact, Impala!ImageExact
    <3>2. (\A j \in 0 .. last : impala'[j] = Impala!BlockImage(last + 1, impala_added', j)) => ImageExact'
      <4>1. \A j : Impala!BlockImage(Impala!nblocks, impala_added, j)'
                     = Impala!BlockImage(last + 1, impala_added', j)
        BY <1>6 DEF Impala!BlockImage, Impala!Fastrange
      <4> QED
        BY <1>5, <4>1 DEF ImageExact, Impala!ImageExact
    <3> QED
      BY <3>1, <3>2
  <2> DEFINE at(S) == {x \in S : Fastrange(last + 1, x) = j}
             part(h, l) == mask_for(h)[l]
             new == {hs[n] : n \in DOMAIN hs}
  <2>1. \A l \in Lanes : impala[j][l] = UNION {part(h, l) : h \in at(impala_added)}
    BY <1>2, ExactMeans DEF ImpalaInv
  <2>2. \A l : MasksOn(hs, Len(hs), j, l) = UNION {part(h, l) : h \in at(new)}
    <3> TAKE l
    <3>1. DOMAIN hs = 1 .. Len(hs)
      OBVIOUS
    <3>2. \A n \in DOMAIN hs : Impala!block_of(hs[n]) = Fastrange(last + 1, hs[n])
      BY <1>2, <1>6, <1>8, IndexInArray
    <3>3. MasksOn(hs, Len(hs), j, l)
            = UNION {part(hs[n], l) : n \in {i \in DOMAIN hs : Impala!block_of(hs[i]) = j}}
      BY <3>1 DEF MasksOn
    <3>4. {i \in DOMAIN hs : Impala!block_of(hs[i]) = j}
            = {i \in DOMAIN hs : Fastrange(last + 1, hs[i]) = j}
      BY <3>2
    <3> HIDE DEF part
    <3>5. UNION {part(hs[n], l) : n \in {i \in DOMAIN hs : Fastrange(last + 1, hs[i]) = j}}
            = UNION {part(h, l) : h \in at(new)}
      OBVIOUS
    <3> QED
      BY <3>3, <3>4, <3>5
  <2>3. at(impala_added') = at(impala_added) \cup at(new)
    BY <1>3
  <2> HIDE DEF at, part, new
  <2>4. \A l \in Lanes : impala'[j][l] = UNION {part(h, l) : h \in at(impala_added')}
    <3> TAKE l \in Lanes
    <3>1. impala'[j][l] = (UNION {part(h, l) : h \in at(impala_added)})
                            \cup (UNION {part(h, l) : h \in at(new)})
      BY <1>4, <2>1, <2>2
    <3>2. (UNION {part(h, l) : h \in at(impala_added)}) \cup (UNION {part(h, l) : h \in at(new)})
            = UNION {part(h, l) : h \in at(impala_added) \cup at(new)}
      OBVIOUS
    <3> QED
      BY <2>3, <3>1, <3>2
  <2>5. impala'[j] = [l \in Lanes |-> impala'[j][l]]
    BY <1>4 DEF BlocksOf
  <2>6. Impala!BlockImage(last + 1, impala_added', j)
          = [l \in Lanes |-> UNION {part(h, l) : h \in at(impala_added')}]
    BY ImageSame DEF at, part
  <2> QED
    BY <2>4, <2>5, <2>6
<1>11. AnswersExact'
  BY <1>3 DEF AnswersExact, Impala!AnswersExact
<1>12. impala_asked' \in Seq(Hash)
  <2>1. <<>> \in Seq(Hash)
    OBVIOUS
  <2> QED
    BY <1>3, <2>1
<1> QED
  BY <1>6, <1>7, <1>9, <1>10, <1>11, <1>12 DEF ImpalaInv

\* A filter with that image reports what every split block filter reports.
LEMMA ImpalaReports ==
  ASSUME ImpalaInv, impala # NoFilter, Impala!nblocks <= Pow2[HalfBits], NEW h \in Hash
  PROVE  Impala!contains(h) <=> Impala!Reports(Impala!nblocks, impala_added, h)
<1>1. PICK last \in Size : impala \in BlocksOf(last)
  BY ImpalaFilters DEF ImpalaInv
<1>2. DOMAIN impala = 0 .. last
  BY <1>1, BlockCount
<1> DEFINE n == Impala!nblocks
           k == Impala!block_of(h)
<1>3. k \in 0 .. last /\ k = Impala!Fastrange(n, h)
  BY <1>1, IndexInArray, MaskSame
<1>4. impala[k] = Impala!BlockImage(n, impala_added, k)
  BY <1>2, <1>3, SameOperators DEF ImpalaInv, ImageExact, Impala!ImageExact, Impala!Live
<1>5. Impala!contains(h) <=> \A l \in Lanes : mask_for(h)[l] \subseteq impala[k][l]
  BY MaskSame, SameOperators DEF Impala!contains
<1>6. Impala!Reports(n, impala_added, h)
        <=> \A l \in Lanes : mask_for(h)[l] \subseteq Impala!BlockImage(n, impala_added, k)[l]
  BY <1>3, MaskSame, SameOperators DEF Impala!Reports, Impala!Covers
<1> QED
  BY <1>4, <1>5, <1>6

\* A step that leaves the filter and what was added keeps the image.
LEMMA ImageKept ==
  ASSUME ImageExact, UNCHANGED <<impala, impala_added>>
  PROVE  ImageExact' /\ Impala!nblocks' = Impala!nblocks
<1>1. Impala!nblocks' = Impala!nblocks
  BY DEF Impala!nblocks
<1>2. \A j : Impala!BlockImage(Impala!nblocks, impala_added, j)'
               = Impala!BlockImage(Impala!nblocks, impala_added, j)
  BY <1>1 DEF Impala!BlockImage, Impala!Fastrange
<1> QED
  BY <1>1, <1>2 DEF ImageExact, Impala!ImageExact, Impala!Live

\* A query counts what the filter reports.
LEMMA ImpalaQuery ==
  ASSUME ImpalaInv, NEW hs \in Seq(Hash), Impala!bloom_contains_prehash_bulk(hs)
  PROVE  ImpalaInv' /\ UNCHANGED impala
<1>1. /\ impala # NoFilter
      /\ UNCHANGED <<impala, impala_added>>
      /\ impala_asked' = hs
      /\ impala_hits' = Impala!Cardinality({n \in DOMAIN hs : Impala!contains(hs[n])})
  BY DEF Impala!bloom_contains_prehash_bulk, Impala!Live
<1>2. ImageExact' /\ Impala!nblocks' = Impala!nblocks
  BY <1>1, ImageKept DEF ImpalaInv
<1>3. AnswersExact'
  <2> SUFFICES ASSUME Impala!nblocks <= Pow2[HalfBits]
               PROVE  impala_hits' = Impala!Cardinality({n \in DOMAIN hs :
                         Impala!Reports(Impala!nblocks, impala_added, hs[n])})
    <3>1. {n \in DOMAIN impala_asked : Impala!Reports(Impala!nblocks, impala_added, impala_asked[n])}'
            = {n \in DOMAIN hs : Impala!Reports(Impala!nblocks, impala_added, hs[n])}
      BY <1>1, <1>2
         DEF Impala!Reports, Impala!Covers, Impala!BlockImage, Impala!Fastrange
    <3> QED
      BY <1>1, <1>2, <3>1, SameOperators DEF AnswersExact, Impala!AnswersExact, Impala!Live
  <2>1. \A n \in DOMAIN hs :
          Impala!contains(hs[n]) <=> Impala!Reports(Impala!nblocks, impala_added, hs[n])
    <3>1. \A n \in DOMAIN hs : hs[n] \in Hash
      OBVIOUS
    <3> QED
      BY <1>1, <3>1, ImpalaReports
  <2>2. {n \in DOMAIN hs : Impala!contains(hs[n])}
          = {n \in DOMAIN hs : Impala!Reports(Impala!nblocks, impala_added, hs[n])}
    BY <2>1
  <2> QED
    BY <1>1, <2>2
<1> QED
  BY <1>1, <1>2, <1>3 DEF ImpalaInv

\* A step that leaves the filter, what was added and the last answer.
LEMMA ImpalaKept ==
  ASSUME ImpalaInv, UNCHANGED <<impala, impala_added, impala_asked, impala_hits>>
  PROVE  ImpalaInv'
<1>1. ImageExact' /\ Impala!nblocks' = Impala!nblocks
  BY ImageKept DEF ImpalaInv
<1>2. {n \in DOMAIN impala_asked : Impala!Reports(Impala!nblocks, impala_added, impala_asked[n])}'
        = {n \in DOMAIN impala_asked : Impala!Reports(Impala!nblocks, impala_added, impala_asked[n])}
  BY <1>1 DEF Impala!Reports, Impala!Covers, Impala!BlockImage, Impala!Fastrange
<1>3. AnswersExact'
  BY <1>1, <1>2 DEF ImpalaInv, AnswersExact, Impala!AnswersExact, Impala!Live
<1> QED
  BY <1>1, <1>3 DEF ImpalaInv

\* Freeing the blocks forgets what they had.
LEMMA ImpalaFreed ==
  ASSUME ImpalaInv, Impala!bloom_free
  PROVE  ImpalaInv' /\ impala' = NoFilter
<1>1. impala' = NoFilter /\ impala_added' = {} /\ impala_asked' = <<>>
  BY DEF Impala!bloom_free
<1>2. ImageExact' /\ AnswersExact'
  BY <1>1 DEF ImageExact, AnswersExact, Impala!ImageExact, Impala!AnswersExact, Impala!Live
<1>3. <<>> \in Seq(Hash)
  OBVIOUS
<1> QED
  BY <1>1, <1>2, <1>3 DEF ImpalaInv

-----------------------------------------------------------------------------
(***************************************************************************)
(* The two filters together.                                               *)
(***************************************************************************)
\* Of every state.
IInv == ClassicInv /\ ImpalaInv /\ SizedRight

\* What a step leaves, and what it is to a caller of the classic filter.
StepKept ==
  /\ IInv'
  /\ \/ Classic!Promise!Add \/ Classic!Promise!Ask \/ Classic!Promise!Drop
     \/ UNCHANGED <<classic_added, classic_asked, classic_hits>>

\* The hashes of the keys of a call are a call of hashes.
LEMMA CallsOfHashes ==
  /\ ClassicBatches \subseteq Seq(Hash)
  /\ \A ks \in KeyBatches : Impala!Hashed(ks) \in Seq(Hash)
  /\ \A key \in DOMAIN bloom_hash :
       Classic!Hashed(<<key>>) \in ClassicBatches /\ Impala!Hashed(<<key>>) \in Seq(Hash)
<1>1. \A key \in DOMAIN bloom_hash : bloom_hash[key] \in Hash /\ xxh64[key] \in Hash
  <2>1. bloom_hash \in [DOMAIN bloom_hash -> Hash] /\ xxh64 \in [DOMAIN bloom_hash -> Hash]
    BY CallAssumption
  <2> QED
    BY <2>1
<1>2. ASSUME NEW ks \in Seq(DOMAIN bloom_hash)
      PROVE  Classic!Hashed(ks) \in Seq(Hash) /\ Impala!Hashed(ks) \in Seq(Hash)
  <2>1. DOMAIN ks = 1 .. Len(ks) /\ Len(ks) \in Nat /\ \A n \in 1 .. Len(ks) : ks[n] \in DOMAIN bloom_hash
    OBVIOUS
  <2>2. \A f, N : N \in Nat /\ f \in [1 .. N -> Hash] => f \in Seq(Hash)
    OBVIOUS
  <2>3. /\ Classic!Hashed(ks) \in [1 .. Len(ks) -> Hash]
        /\ Impala!Hashed(ks) \in [1 .. Len(ks) -> Hash]
    BY <1>1, <2>1 DEF Classic!Hashed, Impala!Hashed
  <2> QED
    BY <2>1, <2>2, <2>3
<1>3. KeyBatches \subseteq Seq(DOMAIN bloom_hash) /\ HashBatches \subseteq Seq(Hash)
  BY CallAssumption
<1>4. ClassicBatches \subseteq Seq(Hash)
  <2>1. \A h \in Hash : <<h>> \in Seq(Hash)
    OBVIOUS
  <2> QED
    BY <1>2, <1>3, <2>1 DEF ClassicBatches
<1>5. ASSUME NEW key \in DOMAIN bloom_hash
      PROVE  Classic!Hashed(<<key>>) \in ClassicBatches /\ Impala!Hashed(<<key>>) \in Seq(Hash)
  <2>1. <<key>> \in Seq(DOMAIN bloom_hash)
    OBVIOUS
  <2>2. Classic!Hashed(<<key>>) = <<bloom_hash[key]>>
    BY DEF Classic!Hashed
  <2> QED
    BY <1>1, <1>2, <2>1, <2>2 DEF ClassicBatches
<1> QED
  BY <1>2, <1>3, <1>4, <1>5

\* A call with keys does to the classic filter what one with their hashes does.
LEMMA KeysAreHashes ==
  \A ks :
    /\ Classic!bloom_insert_bulk(ks) => Classic!bloom_insert_prehash_bulk(Classic!Hashed(ks))
    /\ Classic!bloom_contains_bulk(ks) => Classic!bloom_contains_prehash_bulk(Classic!Hashed(ks))
<1> SUFFICES ASSUME NEW ks
             PROVE  [n \in DOMAIN ks |-> Classic!bloom_hash_pair(ks[n])] =
                      [n \in DOMAIN Classic!Hashed(ks) |->
                         Classic!prehash_split(Classic!Hashed(ks)[n])]
  BY DEF Classic!bloom_insert_bulk, Classic!bloom_contains_bulk,
         Classic!bloom_insert_prehash_bulk, Classic!bloom_contains_prehash_bulk
<1>1. DOMAIN Classic!Hashed(ks) = DOMAIN ks
      /\ \A n \in DOMAIN ks : Classic!Hashed(ks)[n] = bloom_hash[ks[n]]
  BY DEF Classic!Hashed
<1> QED
  BY <1>1, OnePair

\* The same array and the same blocks are as right for the size as they were.
LEMMA SizesKept ==
  ASSUME SizedRight, ClassicInv,
         nbits' = nbits, impala # NoFilter, Impala!nblocks' = Impala!nblocks,
         \/ classic' = classic
         \/ /\ classic \notin {NoFilter, Spinning} /\ classic' \notin {NoFilter, Spinning}
            /\ classic'.bit_mask = classic.bit_mask /\ DOMAIN classic'.words = DOMAIN classic.words
  PROVE  SizedRight'
BY DEF SizedRight

\* An insert of the hashes hs into one filter and gs into the other.
LEMMA InsertKeeps ==
  ASSUME IInv, NEW hs \in ClassicBatches, NEW gs \in Seq(Hash), nbits' = nbits,
         Classic!bloom_insert_prehash_bulk(hs), Impala!bloom_insert_prehash_bulk(gs)
  PROVE  StepKept
<1>1. hs \in Seq(Hash)
  BY CallsOfHashes
<1>2. /\ ClassicInv' /\ classic' \notin {NoFilter, Spinning}
      /\ classic'.bit_mask = classic.bit_mask /\ DOMAIN classic'.words = DOMAIN classic.words
  BY <1>1, ClassicInsert DEF IInv
<1>3. ImpalaInv' /\ Impala!nblocks' = Impala!nblocks
  BY ImpalaInsert DEF IInv
<1>4. classic \notin {NoFilter, Spinning} /\ impala # NoFilter
  BY <1>1, HashesInserted DEF Classic!Live, Impala!bloom_insert_prehash_bulk, Impala!Live
<1>5. SizedRight'
  BY <1>2, <1>3, <1>4, SizesKept DEF IInv
<1> QED
  BY <1>1, <1>2, <1>3, <1>5, ClassicPromised DEF IInv, StepKept

\* A query for the hashes hs in one filter and gs in the other.
LEMMA QueryKeeps ==
  ASSUME IInv, NEW hs \in ClassicBatches, NEW gs \in Seq(Hash), nbits' = nbits,
         Classic!bloom_contains_prehash_bulk(hs), Impala!bloom_contains_prehash_bulk(gs)
  PROVE  StepKept
<1>1. hs \in Seq(Hash)
  BY CallsOfHashes
<1>2. /\ classic' = classic /\ classic_added' = classic_added /\ classic_asked' = hs
      /\ classic_hits' \in 0 .. Len(hs)
      /\ classic_hits' >= Cardinality({n \in DOMAIN hs : hs[n] \in classic_added})
  BY <1>1, ClassicQuery DEF IInv
<1>3. ClassicInv'
  BY <1>2, ClassicKept DEF IInv
<1>4. ImpalaInv' /\ UNCHANGED impala
  BY ImpalaQuery DEF IInv
<1>5. impala # NoFilter /\ Impala!nblocks' = Impala!nblocks
  BY <1>4 DEF Impala!bloom_contains_prehash_bulk, Impala!Live, Impala!nblocks
<1>6. SizedRight'
  BY <1>2, <1>5, SizesKept DEF IInv
<1>7. Classic!Promise!Ask
  BY <1>2, ClassicPromised
<1> QED
  BY <1>3, <1>4, <1>6, <1>7 DEF IInv, StepKept

\* Every step of the two filters keeps what is true of them, and is one that
\* the promise allows.
LEMMA ComparisonsNext ==
  IInv /\ [Next]_vars => StepKept
<1> SUFFICES ASSUME IInv, [Next]_vars PROVE StepKept
  OBVIOUS
<1>1. CASE New
  <2>1. nbits' \in Size /\ Classic!bloom_new(nbits') /\ Impala!bloom_new(nbits')
    BY <1>1, CallAssumption DEF New
  <2>2. /\ ClassicInv'
        /\ IF classic' = Spinning THEN nbits' > Pow2[SizeBits - 1]
           ELSE LET bits == classic'.bit_mask + 1
                IN  /\ bits = WordBits * Cardinality(DOMAIN classic'.words)
                    /\ bits >= nbits' /\ (bits = WordBits \/ bits < 2 * nbits')
    BY <2>1, ClassicMade DEF IInv
  <2>3. /\ ImpalaInv'
        /\ \/ BlockBits * Impala!nblocks' >= nbits'
           \/ Impala!nblocks' = 1 /\ nbits' > Pow2[SizeBits] - BlockBits
    BY <2>1, ImpalaMade DEF IInv
  <2>4. SizedRight'
    BY <2>2, <2>3 DEF SizedRight
  <2>5. UNCHANGED <<classic_added, classic_asked, classic_hits>>
    BY <2>1 DEF Classic!bloom_new
  <2> QED
    BY <2>2, <2>3, <2>4, <2>5 DEF IInv, StepKept
<1>2. CASE Free
  <2>1. ClassicInv' /\ Classic!Promise!Drop
    BY <1>2, ClassicFreed, ClassicPromised DEF Free, IInv
  <2>2. ImpalaInv' /\ impala' = NoFilter
    BY <1>2, ImpalaFreed DEF Free, IInv
  <2> QED
    BY <2>1, <2>2 DEF IInv, StepKept, SizedRight
<1>3. CASE Insert
  <2>1. ASSUME NEW h \in Probes, Classic!bloom_insert_prehash(h), Impala!bloom_insert_prehash(h)
        PROVE  StepKept
    <3>1. h \in Hash
      BY CallAssumption
    <3>2. <<h>> \in ClassicBatches /\ <<h>> \in Seq(Hash)
      BY <3>1 DEF ClassicBatches
    <3> QED
      BY <1>3, <2>1, <3>2, InsertKeeps
         DEF Insert, Classic!bloom_insert_prehash, Impala!bloom_insert_prehash
  <2>2. ASSUME NEW key \in DOMAIN bloom_hash, Classic!bloom_insert(key), Impala!bloom_insert(key)
        PROVE  StepKept
    BY <1>3, <2>2, CallsOfHashes, KeysAreHashes, InsertKeeps
       DEF Insert, Classic!bloom_insert, Impala!bloom_insert, Impala!bloom_insert_bulk
  <2>3. ASSUME NEW hs \in HashBatches,
               Classic!bloom_insert_prehash_bulk(hs), Impala!bloom_insert_prehash_bulk(hs)
        PROVE  StepKept
    <3>1. hs \in ClassicBatches
      BY DEF ClassicBatches
    <3> QED
      BY <1>3, <2>3, <3>1, CallsOfHashes, InsertKeeps DEF Insert
  <2>4. ASSUME NEW ks \in KeyBatches, Classic!bloom_insert_bulk(ks), Impala!bloom_insert_bulk(ks)
        PROVE  StepKept
    <3>1. Classic!Hashed(ks) \in ClassicBatches
      BY DEF ClassicBatches
    <3> QED
      BY <1>3, <2>4, <3>1, CallsOfHashes, KeysAreHashes, InsertKeeps
         DEF Insert, Impala!bloom_insert_bulk
  <2> QED
    BY <1>3, <2>1, <2>2, <2>3, <2>4 DEF Insert
<1>4. CASE Query
  <2>1. ASSUME NEW h \in Probes, Classic!bloom_contains_prehash(h), Impala!bloom_contains_prehash(h)
        PROVE  StepKept
    <3>1. h \in Hash
      BY CallAssumption
    <3>2. <<h>> \in ClassicBatches /\ <<h>> \in Seq(Hash)
      BY <3>1 DEF ClassicBatches
    <3> QED
      BY <1>4, <2>1, <3>2, QueryKeeps
         DEF Query, Classic!bloom_contains_prehash, Impala!bloom_contains_prehash
  <2>2. ASSUME NEW key \in DOMAIN bloom_hash, Classic!bloom_contains(key), Impala!bloom_contains(key)
        PROVE  StepKept
    BY <1>4, <2>2, CallsOfHashes, KeysAreHashes, QueryKeeps
       DEF Query, Classic!bloom_contains, Impala!bloom_contains, Impala!bloom_contains_bulk
  <2>3. ASSUME NEW hs \in HashBatches,
               Classic!bloom_contains_prehash_bulk(hs), Impala!bloom_contains_prehash_bulk(hs)
        PROVE  StepKept
    <3>1. hs \in ClassicBatches
      BY DEF ClassicBatches
    <3> QED
      BY <1>4, <2>3, <3>1, CallsOfHashes, QueryKeeps DEF Query
  <2>4. ASSUME NEW ks \in KeyBatches, Classic!bloom_contains_bulk(ks), Impala!bloom_contains_bulk(ks)
        PROVE  StepKept
    <3>1. Classic!Hashed(ks) \in ClassicBatches
      BY DEF ClassicBatches
    <3> QED
      BY <1>4, <2>4, <3>1, CallsOfHashes, KeysAreHashes, QueryKeeps
         DEF Query, Impala!bloom_contains_bulk
  <2> QED
    BY <1>4, <2>1, <2>2, <2>3, <2>4 DEF Query
<1>5. CASE UNCHANGED vars
  <2>1. /\ UNCHANGED <<classic, classic_added>> /\ nbits' = nbits
        /\ UNCHANGED <<classic_added, classic_asked, classic_hits>>
        /\ UNCHANGED <<impala, impala_added, impala_asked, impala_hits>>
    BY <1>5 DEF vars
  <2>2. ClassicInv' /\ ImpalaInv'
    BY <2>1, ClassicKept, ImpalaKept DEF IInv
  <2>3. SizedRight'
    <3>1. Impala!nblocks' = Impala!nblocks
      BY <2>1 DEF Impala!nblocks
    <3>2. CASE impala # NoFilter
      BY <2>1, <3>1, <3>2, SizesKept DEF IInv
    <3>3. CASE impala = NoFilter
      BY <2>1, <3>3 DEF SizedRight
    <3> QED
      BY <3>2, <3>3
  <2> QED
    BY <2>1, <2>2, <2>3 DEF IInv, StepKept
<1> QED
  BY <1>1, <1>2, <1>3, <1>4, <1>5 DEF Next

\* It is true when there is no filter yet.
LEMMA ComparisonsInit ==
  Init => IInv
<1> SUFFICES ASSUME Init PROVE IInv
  OBVIOUS
<1>1. /\ classic = NoFilter /\ classic_added = {}
      /\ impala = NoFilter /\ impala_added = {} /\ impala_asked = <<>>
  BY DEF Init, Classic!Init, Impala!Init
<1>2. ClassicInv
  BY <1>1, ValueAssumption DEF ClassicInv
<1>3. ImpalaInv
  <2>1. ImageExact /\ AnswersExact
    BY <1>1 DEF ImageExact, AnswersExact, Impala!ImageExact, Impala!AnswersExact, Impala!Live
  <2>2. <<>> \in Seq(Hash)
    OBVIOUS
  <2> QED
    BY <1>1, <2>1, <2>2 DEF ImpalaInv
<1>4. SizedRight
  BY <1>1 DEF SizedRight
<1> QED
  BY <1>2, <1>3, <1>4 DEF IInv

\* The inductive invariant of both filters: the size bloom_new made never
\* changes, and what their arrays hold follows from what was inserted, whatever
\* the sizes, the calls and their order.
THEOREM ComparisonsAlways ==
  Spec => []IInv
<1>1. IInv /\ [Next]_vars => IInv'
  BY ComparisonsNext DEF StepKept
<1> QED
  BY <1>1, ComparisonsInit, PTL DEF Spec

\* bloom_classic.c:35, "odd so adds keep cycling through residues": a hash has
\* K_HASHES different bits in an array of any size, and the wrapping of the
\* 64-bit sum takes none of them away.
THEOREM PositionsDistinct ==
  Spec => []DistinctBits
<1>1. IInv => DistinctBits
  <2> SUFFICES ASSUME IInv, Classic!Live PROVE Classic!DistinctBits
    BY DEF DistinctBits, Classic!DistinctBits
  <2>1. ClassicSized
    BY ClassicLive DEF IInv, ClassicInv
  <2>2. \A h \in Hash : Cardinality(Classic!Positions(Classic!prehash_split(h))) = K_HASHES
    BY <2>1, PositionsApart DEF PositionsOf
  <2>3. \A key \in DOMAIN bloom_hash : bloom_hash[key] \in Hash
    <3>1. bloom_hash \in [DOMAIN bloom_hash -> Hash]
      BY CallAssumption
    <3> QED
      BY <3>1
  <2>4. \A key \in DOMAIN bloom_hash : Cardinality(Classic!Positions(Classic!bloom_hash_pair(key))) = K_HASHES
    BY <2>2, <2>3, OnePair
  <2> QED
    BY <2>2, <2>4, SameOperators DEF Classic!DistinctBits
<1> QED
  BY <1>1, ComparisonsAlways, PTL

\* The blocks of bloom_impala.c are at any time those of the Parquet filter with
\* the hashes inserted so far, up to 2^32 blocks.
THEOREM ImageAlways ==
  Spec => []ImageExact
<1>1. IInv => ImageExact
  BY DEF IInv, ImpalaInv
<1> QED
  BY <1>1, ComparisonsAlways, PTL

\* Its queries count what that filter reports, no more and no less.
THEOREM AnswersAlways ==
  Spec => []AnswersExact
<1>1. IInv => AnswersExact
  BY DEF IInv, ImpalaInv
<1> QED
  BY <1>1, ComparisonsAlways, PTL

\* Both filters have the bits asked for, except where the sum of bloom_impala.c
\* wraps; bloom_classic.c only hangs for more than the top bit of size_t.
THEOREM SizesRight ==
  Spec => []SizedRight
<1>1. IInv => SizedRight
  BY DEF IInv
<1> QED
  BY <1>1, ComparisonsAlways, PTL

\* The classic filter implements the promise of every filter behind the bloom_*
\* functions: a query misses nothing that was inserted.
THEOREM PromiseAlways ==
  Spec => ClassicPromise
<1>1. Init => Classic!Promise!Init
  BY DEF Init, Classic!Init, Classic!Promise!Init
<1>2. IInv /\ [Next]_vars =>
        [Classic!Promise!Add \/ Classic!Promise!Ask \/ Classic!Promise!Drop
           \/ Classic!Promise!Lose]_<<classic_added, classic_asked, classic_hits, TRUE>>
  BY ComparisonsNext DEF StepKept
<1> QED
  BY <1>1, <1>2, ComparisonsAlways, PTL
     DEF Spec, ClassicPromise, Classic!PromiseKept, Classic!Promise!Spec

=============================================================================
