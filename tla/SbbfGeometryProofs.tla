------------------------- MODULE SbbfGeometryProofs -------------------------
(*************************************************************************)
(* What the arithmetic of SbbfGeometry guarantees for every width: the   *)
(* shift of block_for is the Parquet index, every block is reached and   *)
(* nothing beyond, a mask has one bit in each lane, and qb_new makes a   *)
(* power of two of blocks within the cap.                                *)
(*************************************************************************)
EXTENDS SbbfGeometry, WordsProofs

-----------------------------------------------------------------------------
(***************************************************************************)
(* The geometry of a filter of 2^k blocks.                                 *)
(***************************************************************************)
\* The two halves of a hash that block_for and mask_for take are in range.
LEMMA HalfType ==
  /\ Pow2[HalfBits] \in Nat /\ Pow2[HalfBits] >= 1
  /\ \A h \in Hash : /\ UpperHalf(h) \in 0 .. Pow2[HalfBits] - 1
                     /\ LowerHalf(h) \in 0 .. Pow2[HalfBits] - 1
<1> USE WidthAssumption
<1>1. Pow2[HalfBits] \in Nat /\ Pow2[HalfBits] >= 1
  BY Pow2Type
<1>2. ASSUME NEW h \in Hash
      PROVE  UpperHalf(h) \in 0 .. Pow2[HalfBits] - 1
  <2>1. 2 * HalfBits = HalfBits + HalfBits
    OBVIOUS
  <2>2. Pow2[2 * HalfBits] = Pow2[HalfBits] * Pow2[HalfBits]
    BY <2>1, Pow2Sum
  <2>3. h \in Nat /\ h < Pow2[HalfBits] * Pow2[HalfBits]
    BY <2>2, <1>1 DEF Hash
  <2>4. h \div Pow2[HalfBits] < Pow2[HalfBits]
    BY <2>3, <1>1, QuotientBound
  <2>5. h \div Pow2[HalfBits] \in Nat
    BY <2>3, <1>1, Quotient
  <2> QED
    BY <2>4, <2>5, <1>1 DEF UpperHalf
<1>3. ASSUME NEW h \in Hash
      PROVE  LowerHalf(h) \in 0 .. Pow2[HalfBits] - 1
  <2>1. h \in Int
    BY DEF Hash
  <2> QED
    BY <2>1, <1>1 DEF LowerHalf
<1> QED
  BY <1>1, <1>2, <1>3

\* One bit in every lane, inside the lane.
LEMMA MaskType ==
  ASSUME NEW h \in Hash
  PROVE  /\ mask_for(h) \in [Lanes -> Word]
         /\ \A l \in Lanes : mask_for(h)[l] # {}
<1> USE WidthAssumption
<1> SUFFICES ASSUME NEW l \in Lanes
             PROVE  ((LowerHalf(h) * Salt[l]) % Pow2[HalfBits])
                      \div Pow2[HalfBits - LaneLog] \in Bit
  BY DEF mask_for, Word
<1> DEFINE prod == (LowerHalf(h) * Salt[l]) % Pow2[HalfBits]
<1>1. LowerHalf(h) \in Nat /\ Salt[l] \in Nat
  <2>1. Salt[l] \in 0 .. Pow2[HalfBits] - 1
    BY SaltAssumption
  <2> QED
    BY <2>1, HalfType
<1>2. prod \in Nat /\ prod < Pow2[HalfBits]
  <2> DEFINE y == LowerHalf(h) * Salt[l]
  <2>1. y \in Nat
    BY <1>1
  <2> HIDE DEF y
  <2>2. y % Pow2[HalfBits] \in 0 .. Pow2[HalfBits] - 1
    BY <2>1, HalfType
  <2> QED
    BY <2>2, HalfType DEF y
<1>3. HalfBits - LaneLog \in Nat /\ LaneLog \in Nat
  OBVIOUS
<1>4. Pow2[HalfBits] = Pow2[HalfBits - LaneLog] * Pow2[LaneLog]
  BY <1>3, Pow2Sum, (HalfBits - LaneLog) + LaneLog = HalfBits
<1>5. Pow2[HalfBits - LaneLog] \in Nat /\ Pow2[HalfBits - LaneLog] >= 1 /\ Pow2[LaneLog] \in Nat
  BY <1>3, Pow2Type
<1> HIDE DEF prod
<1>6. prod \div Pow2[HalfBits - LaneLog] < Pow2[LaneLog]
  BY <1>2, <1>4, <1>5, QuotientBound
<1>7. prod \div Pow2[HalfBits - LaneLog] \in Nat
  BY <1>2, <1>5, Quotient
<1> QED
  BY <1>5, <1>6, <1>7 DEF prod, Bit

\* log2_pow2 stops at the least exponent, which exists for every n up to 2^m.
LEMMA Log2Least ==
  ASSUME NEW m \in 0 .. SizeBits, NEW n \in Nat, n <= Pow2[m]
  PROVE  /\ log2_pow2(n) \in 0 .. m
         /\ n <= Pow2[log2_pow2(n)]
         /\ \A j \in 0 .. log2_pow2(n) - 1 : Pow2[j] < n
<1> USE WidthAssumption
<1> DEFINE S == {k \in Nat : n <= Pow2[k]}
<1>1. m \in S
  OBVIOUS
<1>2. PICK k \in S : \A j \in S : k <= j
  BY <1>1, LeastNatural
<1>3. k \in 0 .. m /\ n <= Pow2[k]
  BY <1>1, <1>2
<1>4. \A j \in 0 .. k - 1 : Pow2[j] < n
  <2> TAKE j \in 0 .. k - 1
  <2>1. j \in Nat /\ j \notin S
    BY <1>2
  <2>2. Pow2[j] \in Nat
    BY <2>1, Pow2Type
  <2> QED
    BY <2>1, <2>2
<1> DEFINE Least(x) == n <= Pow2[x] /\ \A j \in 0 .. x - 1 : Pow2[j] < n
           e == CHOOSE x \in 0 .. SizeBits : Least(x)
<1>5. e \in 0 .. SizeBits /\ n <= Pow2[e] /\ \A j \in 0 .. e - 1 : Pow2[j] < n
  <2>1. k \in 0 .. SizeBits /\ Least(k)
    BY <1>3, <1>4
  <2> HIDE DEF Least
  <2>2. e \in 0 .. SizeBits /\ Least(e)
    BY <2>1
  <2> QED
    BY <2>2 DEF Least
<1>6. e <= k
  <2> HIDE DEF e
  <2> SUFFICES ASSUME k < e PROVE FALSE
    BY <1>3, <1>5
  <2>1. k \in 0 .. e - 1
    BY <1>3, <1>5
  <2>2. Pow2[k] < n /\ n <= Pow2[k] /\ Pow2[k] \in Nat
    BY <2>1, <1>3, <1>5, Pow2Type
  <2> QED
    BY <2>2
<1>7. e = log2_pow2(n)
  BY DEF log2_pow2
<1> HIDE DEF e
<1> QED
  BY <1>3, <1>5, <1>6, <1>7

\* log2_pow2 of a power of two is its exponent.
LEMMA Log2Exact ==
  ASSUME NEW k \in 0 .. SizeBits
  PROVE  log2_pow2(Pow2[k]) = k
<1> USE WidthAssumption
<1>1. Pow2[k] \in Nat
  BY Pow2Type
<1> DEFINE e == log2_pow2(Pow2[k])
<1>2. e \in 0 .. k /\ Pow2[k] <= Pow2[e]
  BY <1>1, Log2Least
<1> HIDE DEF e
<1>3. ~ (e < k)
  BY <1>1, <1>2, Pow2Grows, Pow2Type
<1> QED
  BY <1>2, <1>3 DEF e

\* The idx_shift of qb_new, for a number of blocks within the cap, does not
\* wrap.
LEMMA ShiftExact ==
  ASSUME NEW k \in 0 .. HalfBits
  PROVE  IdxShift(Pow2[k]) = HalfBits - k
<1> USE WidthAssumption
<1>1. log2_pow2(Pow2[k]) = k
  BY Log2Exact
<1>2. HalfBits - k \in 0 .. Pow2[HalfBits] - 1
  BY Pow2Exceeds, HalfType
<1> DEFINE y == HalfBits - k
           z == Pow2[HalfBits]
<1>3. y \in 0 .. z - 1 /\ z \in Nat
  BY <1>2, HalfType
<1> HIDE DEF y, z
<1>4. y % z = y
  BY <1>3
<1> QED
  BY <1>1, <1>4 DEF IdxShift, y, z

\* src/quickbloom.c:107-112: on a power of two of blocks the Parquet index, a
\* multiplication, is the right shift that block_for does, for every hash and
\* every width, one block (a shift by the whole half) included.
THEOREM FastrangeIsShift ==
  ASSUME NEW k \in 0 .. HalfBits, NEW h \in Hash
  PROVE  block_for(IdxShift(Pow2[k]), h) = Fastrange(Pow2[k], h)
<1> USE WidthAssumption
<1> DEFINE d == Pow2[HalfBits - k]
           n == Pow2[k]
           u == UpperHalf(h)
<1>1. HalfBits - k \in Nat /\ k \in Nat
  OBVIOUS
<1>2. d \in Nat /\ d >= 1 /\ n \in Nat /\ n >= 1
  BY <1>1, Pow2Type
<1>3. Pow2[HalfBits] = d * n
  BY <1>1, Pow2Sum, (HalfBits - k) + k = HalfBits
<1>4. u \in Nat
  BY HalfType
<1>5. block_for(IdxShift(n), h) = u \div d
  BY ShiftExact DEF block_for
<1>6. Fastrange(n, h) = (u * n) \div (d * n)
  BY <1>3 DEF Fastrange
<1> HIDE DEF d, n, u
<1>7. (u * n) \div (d * n) = u \div d
  BY <1>2, <1>4, QuotientScaled
<1> QED
  BY <1>5, <1>6, <1>7 DEF n

\* Every hash falls on a block of the filter, and every block is some hash's.
THEOREM IndexOntoBlocks ==
  ASSUME NEW k \in 0 .. HalfBits
  PROVE  {block_for(IdxShift(Pow2[k]), h) : h \in Hash} = 0 .. Pow2[k] - 1
<1> USE WidthAssumption
<1> DEFINE d == Pow2[HalfBits - k]
           n == Pow2[k]
           H == Pow2[HalfBits]
<1>1. HalfBits - k \in Nat /\ k \in Nat
  OBVIOUS
<1>2. d \in Nat /\ d >= 1 /\ n \in Nat /\ n >= 1 /\ H \in Nat /\ H >= 1
  BY <1>1, Pow2Type
<1>3. H = d * n
  BY <1>1, Pow2Sum, (HalfBits - k) + k = HalfBits
<1>4. Pow2[2 * HalfBits] = H * H
  BY Pow2Sum, 2 * HalfBits = HalfBits + HalfBits
<1>5. \A h \in Hash : /\ block_for(IdxShift(n), h) = UpperHalf(h) \div d
                     /\ UpperHalf(h) \in Nat /\ UpperHalf(h) < H
  BY ShiftExact, HalfType DEF block_for
<1>6. ASSUME NEW h \in Hash
      PROVE  block_for(IdxShift(n), h) \in 0 .. n - 1
  <2> DEFINE u == UpperHalf(h)
  <2>1. u \in Nat /\ u < d * n /\ block_for(IdxShift(n), h) = u \div d
    BY <1>3, <1>5
  <2> HIDE DEF d, n, u
  <2>2. u \div d \in Nat /\ u \div d < n
    BY <1>2, <2>1, Quotient, QuotientBound
  <2> QED
    BY <1>2, <2>1, <2>2
<1>7. ASSUME NEW b \in 0 .. n - 1
      PROVE  \E h \in Hash : block_for(IdxShift(n), h) = b
  <2> DEFINE u == d * b
             h == u * H
  <2> HIDE DEF d, n, H
  <2>1. b \in Nat /\ b + 1 <= n
    BY <1>2
  <2>2. u \in Nat /\ u + 1 <= H
    <3>1. \A x, y \in Nat : x <= y => d * x <= d * y
      BY <1>2
    <3>2. d * (b + 1) <= d * n /\ d * (b + 1) = d * b + d
      BY <1>2, <2>1, <3>1
    <3>3. d * b \in Nat
      BY <1>2, <2>1
    <3> QED
      BY <1>2, <1>3, <3>2, <3>3
  <2> HIDE DEF u
  <2>3. h \in Nat /\ h < H * H
    <3>1. \A x, y \in Nat : x <= y => x * H <= y * H
      BY <1>2
    <3>2. (u + 1) * H <= H * H /\ (u + 1) * H = u * H + H
      BY <1>2, <2>2, <3>1
    <3>3. u * H \in Nat
      BY <1>2, <2>2
    <3> QED
      BY <1>2, <3>2, <3>3
  <2>4. h \in Hash
    BY <1>2, <1>4, <2>3 DEF Hash, H
  <2>5. h \div H = u
    <3>1. H * u <= u * H /\ u * H < H * u + H
      BY <1>2, <2>2
    <3> QED
      BY <1>2, <2>2, <2>3, <3>1, QuotientUnique
  <2>6. u \div d = b
    <3>1. d * b <= d * b /\ d * b < d * b + d
      BY <1>2, <2>1
    <3> QED
      BY <1>2, <2>1, <2>2, <3>1, QuotientUnique DEF u
  <2> HIDE DEF h
  <2>7. block_for(IdxShift(n), h) = UpperHalf(h) \div d
    BY <1>5, <2>4
  <2>8. UpperHalf(h) = u
    BY <2>5 DEF UpperHalf, H
  <2> QED
    BY <2>4, <2>6, <2>7, <2>8
<1> QED
  BY <1>6, <1>7

\* Whatever size qb_new accepts, the filter it makes has 2^k blocks, k at most
\* the cap's, and enough of them.
LEMMA NewFilter ==
  ASSUME NEW nbits \in Size, BlocksFor(nbits) <= QB_MAX_NBLOCKS
  PROVE  \E k \in 0 .. MaxBlocksLog :
           RoundedBlocks(nbits) = Pow2[k] /\ BlocksFor(nbits) <= Pow2[k]
<1> USE WidthAssumption
<1> DEFINE n == BlocksFor(nbits)
<1>1. n \in Nat
  <2>1. Pow2[LaneLog] \in Nat /\ Pow2[LaneLog] >= 1 /\ Pow2[SizeBits] \in Nat /\ Pow2[SizeBits] >= 1
    BY Pow2Type
  <2>2. BlockBits \in Nat /\ BlockBits >= 1
    <3>1. \A x, y \in Nat : x >= 1 /\ y >= 1 => x * y \in Nat /\ x * y >= 1
      OBVIOUS
    <3> QED
      BY <2>1, <3>1 DEF BlockBits
  <2> DEFINE s == nbits + (BlockBits - 1)
             r == s % Pow2[SizeBits]
  <2>3. s \in Nat
    BY <2>1, <2>2 DEF Size
  <2> HIDE DEF s
  <2>4. r \in Nat
    BY <2>1, <2>3
  <2> HIDE DEF r
  <2>5. r \div BlockBits \in Nat
    BY <2>2, <2>4, Quotient
  <2> QED
    BY <2>5 DEF BlocksFor, r, s
<1> HIDE DEF n
<1>2. n <= Pow2[MaxBlocksLog]
  BY DEF QB_MAX_NBLOCKS, n
<1>3. log2_pow2(n) \in 0 .. MaxBlocksLog /\ n <= Pow2[log2_pow2(n)]
  BY <1>1, <1>2, Log2Least, MaxBlocksLog \in 0 .. SizeBits
<1> QED
  BY <1>3 DEF RoundedBlocks, n

=============================================================================
