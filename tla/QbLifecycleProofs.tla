------------------------- MODULE QbLifecycleProofs -------------------------
(***************************************************************************)
(* Proofs about the life of filters, for any number of handles, buffers    *)
(* and addresses and for all widths: who owns which storage at each step   *)
(* of a constructor, how many blocks a constructor goes on with, and what  *)
(* those blocks hold.                                                      *)
(***************************************************************************)
EXTENDS QbLifecycle, SbbfGeometryProofs

Block == [Lanes -> Word]
BlockArray == UNION {[0 .. n - 1 -> Block] : n \in Nat}

Types ==
  /\ allocated \subseteq Addresses
  /\ memory \in [Addresses -> BlockArray]
  /\ headers \subseteq Handles
  /\ filter \in [Handles -> [nblocks_mask : Size, idx_shift : 0 .. Pow2[HalfBits] - 1,
                             bits : Addresses \cup {NoAddress}]]
  /\ pc \in [Handles -> {"null", "header", "storage", "fill", "live"}]
  /\ ctor \in [Handles -> [fn : {"none", "qb_new", "qb_deserialize"}, size : Size,
                           source : Buffers \cup {NoBuffer}, nblocks : Nat]]
  /\ failed \in [Handles -> BOOLEAN]
  /\ buffer \in [Buffers -> [nbytes : Size, blocks : BlockArray]]
  /\ inserted \in [Handles -> SUBSET Hash]
  /\ origin \in [Buffers -> SUBSET Hash]

\* A constructor past its checks has a power of two of blocks, and their
\* bytes are a size_t.
CallInv(h) ==
  pc[h] # "null" =>
    /\ ctor[h].fn \in {"qb_new", "qb_deserialize"}
    /\ \E k \in 0 .. SizeBits : ctor[h].nblocks = Pow2[k]
    /\ ctor[h].nblocks * BlockBytes \in Size
    /\ ctor[h].fn = "qb_new" =>
         /\ BlocksFor(ctor[h].size) <= QB_MAX_NBLOCKS
         /\ ctor[h].nblocks = RoundedBlocks(ctor[h].size)
    /\ ctor[h].fn = "qb_deserialize" =>
         /\ ctor[h].nblocks * BlockBytes = ctor[h].size
         /\ ctor[h].size <= QB_DESERIALIZE_MAX_BYTES

\* The bytes that were checked are still there to be copied.
SourceInv(h) ==
  pc[h] \in {"header", "storage", "fill"} /\ ctor[h].fn = "qb_deserialize" =>
    /\ ctor[h].source \in Buffers
    /\ buffer[ctor[h].source].nbytes = ctor[h].size

StorageInv(h) ==
  /\ HasStorage(h) => StorageOf(h) \in [0 .. ctor[h].nblocks - 1 -> Block]
  /\ Live(h) => /\ filter[h].nblocks_mask = ctor[h].nblocks - 1
                /\ filter[h].idx_shift = IdxShift(ctor[h].nblocks)

BufferInv(w) ==
  buffer[w].blocks \in [0 .. (buffer[w].nbytes \div BlockBytes) - 1 -> Block]

LifecycleInv ==
  /\ Types
  /\ AllocationsOwned
  /\ RefusedForCause
  /\ \A h \in Handles : CallInv(h) /\ SourceInv(h) /\ StorageInv(h)
  /\ \A w \in Buffers : BufferInv(w)

-----------------------------------------------------------------------------
\* Division leaves the remainder.
LEMMA Remainder ==
  ASSUME NEW x \in Nat, NEW d \in Nat, d >= 1
  PROVE  x % d = x - d * (x \div d)
OBVIOUS

\* A number of blocks is the quotient of its bytes (src/quickbloom.c:345-351).
LEMMA BlocksOfBytes ==
  ASSUME NEW n \in Nat
  PROVE  (n * BlockBytes) \div BlockBytes = n /\ (n * BlockBytes) % BlockBytes = 0
<1> USE LifecycleAssumption
<1> DEFINE x == n * BlockBytes
<1>1. x \in Nat /\ BlockBytes * n = x /\ x < BlockBytes * n + BlockBytes
  BY \A a, b \in Nat : a * b = b * a /\ a * b \in Nat
<1> HIDE DEF x
<1>2. x \div BlockBytes = n
  BY <1>1, QuotientUnique
<1>3. x % BlockBytes = x - BlockBytes * (x \div BlockBytes)
  BY <1>1, Remainder
<1> QED
  BY <1>1, <1>2, <1>3 DEF x

\* A length that qb_deserialize accepts is a power of two of blocks.
LEMMA AcceptedBytes ==
  ASSUME NEW nbytes \in Size, ~ Malformed(nbytes)
  PROVE  /\ (nbytes \div BlockBytes) * BlockBytes = nbytes
         /\ \E k \in 0 .. SizeBits : nbytes \div BlockBytes = Pow2[k]
         /\ nbytes <= QB_DESERIALIZE_MAX_BYTES
<1> USE LifecycleAssumption
<1> DEFINE q == nbytes \div BlockBytes
<1>1. nbytes \in Nat /\ nbytes # 0 /\ nbytes % BlockBytes = 0
  BY WidthAssumption, Pow2Type DEF Malformed, Size
<1>2. q \in Nat /\ nbytes % BlockBytes = nbytes - BlockBytes * q
  BY <1>1, Remainder, Quotient
<1>3. nbytes <= QB_DESERIALIZE_MAX_BYTES /\ IsPowerOfTwo(q)
  <2>1. QB_DESERIALIZE_MAX_BYTES \in Nat
    BY WidthAssumption, Pow2Type DEF Size
  <2> QED
    BY <1>1, <2>1 DEF Malformed
<1> HIDE DEF q
<1>4. nbytes = q * BlockBytes
  BY <1>1, <1>2
<1>5. q # 0
  BY <1>1, <1>4
<1> QED
  BY <1>3, <1>4, <1>5 DEF IsPowerOfTwo, q

\* A length that qb_deserialize refuses is that of no filter within the limit.
LEMMA RefusedBytes ==
  ASSUME NEW k \in 0 .. SizeBits, Pow2[k] * BlockBytes <= QB_DESERIALIZE_MAX_BYTES
  PROVE  ~ Malformed(Pow2[k] * BlockBytes)
<1>1. Pow2[k] \in Nat /\ Pow2[k] >= 1
  BY WidthAssumption, Pow2Type
<1> DEFINE x == Pow2[k] * BlockBytes
<1>2. x # 0
  BY <1>1, LifecycleAssumption
<1>3. x \div BlockBytes = Pow2[k] /\ x % BlockBytes = 0
  BY <1>1, BlocksOfBytes
<1>4. x <= QB_DESERIALIZE_MAX_BYTES
  OBVIOUS
<1>5. x \in Nat /\ QB_DESERIALIZE_MAX_BYTES \in Nat
  BY <1>1, LifecycleAssumption, WidthAssumption, Pow2Type DEF Size
<1> HIDE DEF x
<1>6. ~ Malformed(x)
  BY <1>2, <1>3, <1>4, <1>5 DEF Malformed, IsPowerOfTwo
<1> QED
  BY <1>6 DEF x

\* A block, and the storage of a filter, have bits.
LEMMA BlockBitsType ==
  BlockBits \in Nat /\ BlockBits >= 1
<1>1. Pow2[LaneLog] \in Nat /\ Pow2[LaneLog] >= 1
  BY WidthAssumption, Pow2Type
<1>2. \A x, y \in Nat : x >= 1 /\ y >= 1 => x * y \in Nat /\ x * y >= 1
  OBVIOUS
<1> QED
  BY <1>1, <1>2, WidthAssumption DEF BlockBits

\* The blocks qb_new counts hold the bits asked for unless its addition
\* wraps, and all but the last of them hold fewer (src/quickbloom.c:137).
LEMMA BlocksForFacts ==
  ASSUME NEW nbits \in Size
  PROVE  /\ BlocksFor(nbits) \in Nat /\ BlocksFor(nbits) >= 1
         /\ BlocksFor(nbits) > 1 => BlockBits * (BlocksFor(nbits) - 1) < nbits
         /\ nbits + BlockBits <= Pow2[SizeBits] => nbits <= BlockBits * BlocksFor(nbits)
<1> USE WidthAssumption
<1> DEFINE S == Pow2[SizeBits]
           K == BlockBits
           sum == nbits + (K - 1)
           x == sum % S
           q == x \div K
           n == IF q = 0 THEN 1 ELSE q
<1>1. S \in Nat /\ S >= 1 /\ K \in Nat /\ K >= 1 /\ nbits \in Nat /\ nbits < S
  BY Pow2Type, BlockBitsType DEF Size
<1>2. BlocksFor(nbits) = n
  BY DEF BlocksFor
<1> HIDE DEF S, K
<1>3. sum \in Nat /\ nbits <= sum /\ sum = nbits + K - 1
  BY <1>1
<1> HIDE DEF sum
<1>4. x \in Nat /\ x <= sum /\ (sum < S => x = sum)
  BY <1>1, <1>3
<1> HIDE DEF x
<1>5. q \in Nat /\ K * q <= x /\ x < K * q + K
  BY <1>1, <1>4, Quotient
<1> HIDE DEF q
<1>6. n \in Nat /\ n >= 1
  BY <1>5
<1>7. n > 1 => K * (n - 1) < nbits
  <2> SUFFICES ASSUME n > 1 PROVE K * (n - 1) < nbits
    OBVIOUS
  <2>1. n = q /\ K * (q - 1) = K * q - K
    BY <1>1, <1>5
  <2> QED
    BY <1>1, <1>3, <1>4, <1>5, <2>1
<1>8. nbits + K <= S => nbits <= K * n
  <2> SUFFICES ASSUME nbits + K <= S PROVE nbits <= K * n
    OBVIOUS
  <2>1. nbits + K - 1 < K * q + K
    BY <1>1, <1>3, <1>4, <1>5
  <2>2. nbits <= K * q
    BY <1>1, <1>5, <2>1
  <2>3. q = 0 => nbits <= K * 1
    BY <1>1, <2>2
  <2> QED
    BY <2>2, <2>3
<1> QED
  BY <1>2, <1>6, <1>7, <1>8 DEF S, K

LEMMA CapType ==
  QB_MAX_NBLOCKS \in Nat /\ QB_MAX_NBLOCKS >= 1
BY WidthAssumption, Pow2Type DEF QB_MAX_NBLOCKS

\* Fewer than all of n blocks hold at least m of them, if m < n.
LEMMA BitsOfFewer ==
  ASSUME NEW n \in Nat, NEW m \in Nat, m < n, NEW x \in Nat, BlockBits * (n - 1) < x
  PROVE  m * BlockBits < x
<1>1. BlockBits \in Nat
  BY BlockBitsType
<1>2. \A a, b, c \in Nat : a <= b => a * c <= c * b /\ a * c \in Nat /\ c * b \in Nat
  OBVIOUS
<1>3. n - 1 \in Nat /\ m <= n - 1
  OBVIOUS
<1>4. m * BlockBits <= BlockBits * (n - 1)
  BY <1>1, <1>2, <1>3
<1> QED
  BY <1>1, <1>2, <1>3, <1>4

\* A size that qb_new refuses is beyond the cap (src/quickbloom.c:133-139).
LEMMA RefusedBits ==
  ASSUME NEW nbits \in Size, BlocksFor(nbits) > QB_MAX_NBLOCKS
  PROVE  nbits > QB_MAX_NBLOCKS * BlockBits
<1>1. BlocksFor(nbits) > 1 /\ BlocksFor(nbits) \in Nat /\ nbits \in Nat
  BY CapType, BlocksForFacts, WidthAssumption, Pow2Type DEF Size
<1>2. BlockBits * (BlocksFor(nbits) - 1) < nbits
  BY <1>1, BlocksForFacts
<1>3. QB_MAX_NBLOCKS * BlockBits < nbits
  BY <1>1, <1>2, CapType, BitsOfFewer
<1>4. QB_MAX_NBLOCKS * BlockBits \in Nat
  BY CapType, BlockBitsType
<1> QED
  BY <1>1, <1>3, <1>4

\* The blocks qb_new goes on with.
LEMMA NewBlocks ==
  ASSUME NEW nbits \in Size, BlocksFor(nbits) <= QB_MAX_NBLOCKS
  PROVE  /\ RoundedBlocks(nbits) \in Nat
         /\ \E k \in 0 .. MaxBlocksLog : RoundedBlocks(nbits) = Pow2[k]
         /\ RoundedBlocks(nbits) * BlockBytes \in Size
<1> USE WidthAssumption, LifecycleAssumption
<1>1. PICK k \in 0 .. MaxBlocksLog : RoundedBlocks(nbits) = Pow2[k]
  BY NewFilter
<1>2. /\ Pow2[k] \in Nat /\ Pow2[MaxBlocksLog] \in Nat
      /\ Pow2[k] <= Pow2[MaxBlocksLog]
  BY Pow2Type, Pow2Grows
<1> DEFINE n == Pow2[k]
           m == Pow2[MaxBlocksLog]
<1>3. n \in Nat /\ m \in Nat /\ n <= m /\ m * BlockBytes \in Size
  BY <1>2 DEF QB_MAX_NBLOCKS
<1> HIDE DEF n, m
<1>4. n * BlockBytes \in Nat /\ n * BlockBytes <= m * BlockBytes
  BY <1>3, \A a, b, c \in Nat : a <= b => a * c \in Nat /\ a * c <= b * c
<1>5. n * BlockBytes \in Size
  BY <1>3, <1>4, Pow2Type DEF Size
<1> QED
  BY <1>1, <1>2, <1>5 DEF n

\* The fields of a filter of 2^k blocks fit (src/quickbloom.c:158-159).
LEMMA FieldsType ==
  ASSUME NEW n \in Nat, n * BlockBytes \in Size, \E k \in 0 .. SizeBits : n = Pow2[k]
  PROVE  /\ n >= 1 /\ n - 1 \in Size
         /\ IdxShift(n) \in 0 .. Pow2[HalfBits] - 1
<1> USE WidthAssumption, LifecycleAssumption
<1>1. n >= 1
  BY Pow2Type
<1>2. n <= n * BlockBytes
  BY <1>1, \A a, b \in Nat : b >= 1 => a <= a * b
<1>3. n - 1 \in Size
  BY <1>1, <1>2, Pow2Type DEF Size
<1>4. log2_pow2(n) \in 0 .. SizeBits
  BY Log2Least
<1> DEFINE y == HalfBits - log2_pow2(n)
           z == Pow2[HalfBits]
<1>5. y \in Int /\ z \in Nat /\ z >= 1
  BY <1>4, HalfType
<1>6. IdxShift(n) = y % z
  BY DEF IdxShift
<1> HIDE DEF y, z
<1>7. y % z \in 0 .. z - 1
  BY <1>5
<1> QED
  BY <1>1, <1>3, <1>6, <1>7 DEF z

-----------------------------------------------------------------------------
\* No filter, no storage and empty buffers satisfy the invariant.
LEMMA LifecycleInit ==
  Init => LifecycleInv
<1> SUFFICES ASSUME Init PROVE LifecycleInv
  OBVIOUS
<1> USE LifecycleAssumption DEF Init
<1>1. 0 \in Size /\ 0 \in 0 .. Pow2[HalfBits] - 1
  BY WidthAssumption, Pow2Type DEF Size
<1>2. 0 \div BlockBytes = 0
  OBVIOUS
<1>3. <<>> \in BlockArray /\ <<>> \in [0 .. 0 - 1 -> Block]
  <2>1. <<>> \in [0 .. 0 - 1 -> Block]
    OBVIOUS
  <2> QED
    BY <2>1 DEF BlockArray
<1>4. Types
  BY <1>1, <1>3 DEF Types, NoFilter, NoCall, Empty
<1>5. AllocationsOwned /\ RefusedForCause
  BY DEF AllocationsOwned, RefusedForCause, HasStorage, NoCall
<1>6. \A h \in Handles : CallInv(h) /\ SourceInv(h) /\ StorageInv(h)
  BY DEF CallInv, SourceInv, StorageInv, HasStorage, Live
<1>7. \A w \in Buffers : BufferInv(w)
  BY <1>2, <1>3 DEF BufferInv, Empty
<1> QED
  BY <1>4, <1>5, <1>6, <1>7 DEF LifecycleInv

\* A step leaves a handle alone that it does not name.
LEMMA HandleKeep ==
  ASSUME NEW g, CallInv(g), SourceInv(g), StorageInv(g),
         UNCHANGED <<pc[g], ctor[g], filter[g], memory[filter[g].bits],
                     buffer[ctor[g].source].nbytes>>
  PROVE  CallInv(g)' /\ SourceInv(g)' /\ StorageInv(g)'
BY DEF CallInv, SourceInv, StorageInv, HasStorage, Live, StorageOf

\* A constructor's first step changes nothing but the call.
LEMMA ConstructKeeps ==
  ASSUME LifecycleInv, NEW h \in Handles,
         NEW c \in [fn : {"none", "qb_new", "qb_deserialize"}, size : Size,
                    source : Buffers \cup {NoBuffer}, nblocks : Nat],
         NEW refused \in BOOLEAN, Construct(h, c, refused),
         ~ refused => CallInv(h)' /\ SourceInv(h)',
         refused => /\ c.fn = "qb_new" => c.size > QB_MAX_NBLOCKS * BlockBits
                    /\ c.fn = "qb_deserialize" =>
                         \A k \in 0 .. SizeBits :
                           Pow2[k] * BlockBytes <= QB_DESERIALIZE_MAX_BYTES =>
                             c.size # Pow2[k] * BlockBytes
  PROVE  LifecycleInv'
<1>1. /\ pc[h] = "null"
      /\ ctor' = [ctor EXCEPT ![h] = c]
      /\ failed' = [failed EXCEPT ![h] = FALSE]
      /\ pc' = [pc EXCEPT ![h] = IF refused THEN "null" ELSE "header"]
      /\ UNCHANGED <<allocated, memory, headers, filter, buffer, inserted, origin>>
  BY DEF Construct
<1>2. Types
  BY DEF LifecycleInv
<1>3. Types'
  BY <1>1, <1>2 DEF Types
<1>4. /\ pc'[h] = IF refused THEN "null" ELSE "header"
      /\ ctor'[h] = c
      /\ \A g \in Handles \ {h} : /\ pc'[g] = pc[g] /\ ctor'[g] = ctor[g]
                                  /\ failed'[g] = failed[g]
  BY <1>1, <1>2 DEF Types
<1>5. AllocationsOwned'
  <2>1. AllocationsOwned
    BY DEF LifecycleInv
  <2>2. \A g \in Handles :
          /\ pc'[g] \in {"storage", "fill", "live"} <=> pc[g] \in {"storage", "fill", "live"}
          /\ pc'[g] \in {"fill", "live"} <=> pc[g] \in {"fill", "live"}
    BY <1>1, <1>4
  <2> QED
    BY <1>1, <2>1, <2>2 DEF AllocationsOwned, HasStorage
<1>6. RefusedForCause'
  BY <1>4 DEF LifecycleInv, RefusedForCause
<1>7. ASSUME NEW g \in Handles
      PROVE  CallInv(g)' /\ SourceInv(g)' /\ StorageInv(g)'
  <2>1. CASE g = h
    BY <1>4, <2>1 DEF CallInv, SourceInv, StorageInv, HasStorage, Live
  <2>2. CASE g # h
    BY <1>1, <1>4, <2>2, HandleKeep DEF LifecycleInv
  <2> QED
    BY <2>1, <2>2
<1>8. \A w \in Buffers : BufferInv(w)'
  BY <1>1 DEF LifecycleInv, BufferInv
<1> QED
  BY <1>3, <1>5, <1>6, <1>7, <1>8 DEF LifecycleInv

\* qb_new goes on with the least power of two of blocks, or returns NULL for a
\* size beyond the cap.
LEMMA StepNew ==
  ASSUME LifecycleInv, NEW h \in Handles, NEW nbits \in NewSizes, qb_new(h, nbits)
  PROVE  LifecycleInv'
<1> DEFINE refused == BlocksFor(nbits) > QB_MAX_NBLOCKS
           c == [fn |-> "qb_new", size |-> nbits, source |-> NoBuffer,
                 nblocks |-> IF refused THEN 0 ELSE RoundedBlocks(nbits)]
<1>1. Construct(h, c, refused)
  BY DEF qb_new
<1>2. nbits \in Size
  BY LifecycleAssumption
<1>3. ~ refused => /\ RoundedBlocks(nbits) \in Nat
                   /\ \E k \in 0 .. SizeBits : RoundedBlocks(nbits) = Pow2[k]
                   /\ RoundedBlocks(nbits) * BlockBytes \in Size
                   /\ BlocksFor(nbits) <= QB_MAX_NBLOCKS
  BY <1>2, CapType, BlocksForFacts, NewBlocks, WidthAssumption
<1>4. refused => nbits > QB_MAX_NBLOCKS * BlockBits
  BY <1>2, RefusedBits
<1>5. c \in [fn : {"none", "qb_new", "qb_deserialize"}, size : Size,
             source : Buffers \cup {NoBuffer}, nblocks : Nat]
  BY <1>2, <1>3
<1>6. ~ refused => CallInv(h)' /\ SourceInv(h)'
  <2>1. ctor'[h] = c
    BY <1>1 DEF Construct, LifecycleInv, Types
  <2> QED
    BY <1>3, <2>1 DEF CallInv, SourceInv
<1>7. refused \in BOOLEAN /\ c.fn = "qb_new" /\ c.size = nbits
  OBVIOUS
<1> HIDE DEF c, refused
<1> QED
  BY <1>1, <1>4, <1>5, <1>6, <1>7, ConstructKeeps

\* qb_deserialize goes on with the blocks that are in the buffer, or returns
\* NULL for bytes that are no filter.
LEMMA StepDeserialize ==
  ASSUME LifecycleInv, NEW h \in Handles, NEW w \in Buffers, qb_deserialize(h, w)
  PROVE  LifecycleInv'
<1> DEFINE nbytes == buffer[w].nbytes
           refused == Malformed(nbytes)
           c == [fn |-> "qb_deserialize", size |-> nbytes, source |-> w,
                 nblocks |-> nbytes \div BlockBytes]
<1>1. Construct(h, c, refused)
  BY DEF qb_deserialize
<1>2. nbytes \in Size
  BY DEF LifecycleInv, Types
<1>3. nbytes \div BlockBytes \in Nat
  BY <1>2, Quotient, LifecycleAssumption, WidthAssumption, Pow2Type DEF Size
<1>4. ~ refused => /\ (nbytes \div BlockBytes) * BlockBytes = nbytes
                   /\ \E k \in 0 .. SizeBits : nbytes \div BlockBytes = Pow2[k]
                   /\ nbytes <= QB_DESERIALIZE_MAX_BYTES
  BY <1>2, AcceptedBytes
<1>5. refused => \A k \in 0 .. SizeBits :
                   Pow2[k] * BlockBytes <= QB_DESERIALIZE_MAX_BYTES =>
                     nbytes # Pow2[k] * BlockBytes
  BY RefusedBytes
<1>6. c \in [fn : {"none", "qb_new", "qb_deserialize"}, size : Size,
             source : Buffers \cup {NoBuffer}, nblocks : Nat]
  BY <1>2, <1>3
<1>7. ~ refused => CallInv(h)' /\ SourceInv(h)'
  <2>1. ctor'[h] = c /\ buffer' = buffer
    BY <1>1 DEF Construct, LifecycleInv, Types
  <2> QED
    BY <1>2, <1>4, <2>1 DEF CallInv, SourceInv
<1>8. refused \in BOOLEAN /\ c.fn = "qb_deserialize" /\ c.size = nbytes
  BY DEF Malformed, IsPowerOfTwo
<1> HIDE DEF c, refused
<1> QED
  BY <1>1, <1>5, <1>6, <1>7, <1>8, ConstructKeeps

\* The header is allocated, or the constructor returns NULL with nothing
\* allocated (src/quickbloom.c:143-144).
LEMMA StepHeader ==
  ASSUME LifecycleInv, NEW h \in Handles, AllocHeader(h)
  PROVE  LifecycleInv'
<1>1. /\ pc[h] = "header"
      /\ \/ /\ headers' = headers \cup {h}
            /\ pc' = [pc EXCEPT ![h] = "storage"]
            /\ failed' = failed
         \/ /\ pc' = [pc EXCEPT ![h] = "null"]
            /\ failed' = [failed EXCEPT ![h] = TRUE]
            /\ headers' = headers
      /\ UNCHANGED <<allocated, memory, filter, ctor, buffer, inserted, origin>>
  BY DEF AllocHeader
<1>2. Types
  BY DEF LifecycleInv
<1>3. Types'
  BY <1>1, <1>2 DEF Types
<1>4. /\ pc'[h] \in {"storage", "null"}
      /\ pc'[h] = "null" => failed'[h] /\ headers' = headers
      /\ pc'[h] = "storage" => headers' = headers \cup {h}
      /\ \A g \in Handles \ {h} : pc'[g] = pc[g] /\ failed'[g] = failed[g]
  BY <1>1, <1>2 DEF Types
<1>5. AllocationsOwned'
  <2>1. AllocationsOwned
    BY DEF LifecycleInv
  <2>2. \A g \in Handles : pc'[g] \in {"fill", "live"} <=> pc[g] \in {"fill", "live"}
    BY <1>1, <1>4
  <2>3. headers' = {g \in Handles : pc'[g] \in {"storage", "fill", "live"}}
    BY <1>1, <1>4, <2>1 DEF AllocationsOwned
  <2> QED
    BY <1>1, <2>1, <2>2, <2>3 DEF AllocationsOwned, HasStorage
<1>6. RefusedForCause'
  BY <1>1, <1>4 DEF LifecycleInv, RefusedForCause
<1>7. ASSUME NEW g \in Handles
      PROVE  CallInv(g)' /\ SourceInv(g)' /\ StorageInv(g)'
  <2>1. CASE g = h
    BY <1>1, <1>4, <2>1 DEF LifecycleInv, CallInv, SourceInv, StorageInv, HasStorage, Live
  <2>2. CASE g # h
    BY <1>1, <1>4, <2>2, HandleKeep DEF LifecycleInv
  <2> QED
    BY <2>1, <2>2
<1>8. \A w \in Buffers : BufferInv(w)'
  BY <1>1 DEF LifecycleInv, BufferInv
<1> QED
  BY <1>3, <1>5, <1>6, <1>7, <1>8 DEF LifecycleInv

\* Storage of as many blocks as were counted is allocated, with anything in it
\* (src/quickbloom.c:151).
LEMMA StepStorage ==
  ASSUME LifecycleInv, NEW h \in Handles, NEW x \in Addresses \ allocated, NEW junk \in Junk,
         pc[h] = "storage",
         allocated' = allocated \cup {x},
         memory' = [memory EXCEPT ![x] = [b \in 0 .. ctor[h].nblocks - 1 |-> junk]],
         filter' = [filter EXCEPT ![h].bits = x],
         pc' = [pc EXCEPT ![h] = "fill"],
         UNCHANGED <<headers, failed, ctor, buffer, inserted, origin>>
  PROVE  LifecycleInv'
<1>1. Types /\ AllocationsOwned
  BY DEF LifecycleInv
<1> DEFINE fresh == [b \in 0 .. ctor[h].nblocks - 1 |-> junk]
<1>2. ctor[h].nblocks \in Nat /\ fresh \in [0 .. ctor[h].nblocks - 1 -> Block]
  BY <1>1, LifecycleAssumption DEF Types, Block
<1>3. fresh \in BlockArray
  BY <1>2 DEF BlockArray
<1>4. memory' = [memory EXCEPT ![x] = fresh]
  OBVIOUS
<1> HIDE DEF fresh
<1>5. Types'
  <2>1. filter' \in [Handles -> [nblocks_mask : Size, idx_shift : 0 .. Pow2[HalfBits] - 1,
                                bits : Addresses \cup {NoAddress}]]
    BY <1>1 DEF Types
  <2>2. memory' \in [Addresses -> BlockArray]
    BY <1>1, <1>3, <1>4 DEF Types
  <2>3. pc' \in [Handles -> {"null", "header", "storage", "fill", "live"}]
    BY <1>1 DEF Types
  <2> QED
    BY <1>1, <2>1, <2>2, <2>3 DEF Types
<1>6. /\ pc'[h] = "fill" /\ filter'[h].bits = x /\ memory'[x] = fresh
      /\ \A g \in Handles \ {h} : pc'[g] = pc[g] /\ filter'[g] = filter[g]
      /\ \A y \in Addresses \ {x} : memory'[y] = memory[y]
  BY <1>1, <1>4 DEF Types
<1>7. \A g \in Handles : HasStorage(g) => g # h /\ filter[g].bits \in allocated
  BY <1>1 DEF AllocationsOwned, HasStorage
<1>8. AllocationsOwned'
  <2>1. headers' = {g \in Handles : pc'[g] \in {"storage", "fill", "live"}}
    BY <1>1, <1>6 DEF AllocationsOwned
  <2>2. \A g \in Handles : HasStorage(g)' <=> g = h \/ HasStorage(g)
    BY <1>6 DEF HasStorage
  <2>3. \A g \in Handles : HasStorage(g) => filter'[g].bits = filter[g].bits
    BY <1>6, <1>7
  <2>4. allocated' = {filter'[g].bits : g \in {y \in Handles : HasStorage(y)'}}
    <3>1. \A a : a \in allocated <=> \E g \in Handles : HasStorage(g) /\ a = filter[g].bits
      BY <1>1 DEF AllocationsOwned
    <3>2. \A a : a \in allocated' <=> \E g \in Handles : HasStorage(g)' /\ a = filter'[g].bits
      BY <1>6, <2>2, <2>3, <3>1
    <3> QED
      BY <3>2
  <2>5. ASSUME NEW f \in Handles, NEW g \in Handles, HasStorage(f)', HasStorage(g)',
               filter'[f].bits = filter'[g].bits
        PROVE  f = g
    BY <1>1, <1>6, <1>7, <2>2, <2>3, <2>5 DEF AllocationsOwned
  <2> QED
    BY <2>1, <2>4, <2>5 DEF AllocationsOwned
<1>9. RefusedForCause'
  BY <1>6 DEF LifecycleInv, RefusedForCause
<1>10. ASSUME NEW g \in Handles
       PROVE  CallInv(g)' /\ SourceInv(g)' /\ StorageInv(g)'
  <2>1. CASE g = h
    <3>1. CallInv(h) /\ SourceInv(h)
      BY DEF LifecycleInv
    <3> QED
      BY <1>2, <1>6, <2>1, <3>1 DEF CallInv, SourceInv, StorageInv, HasStorage, Live, StorageOf
  <2>2. CASE g # h
    <3>1. CallInv(g) /\ SourceInv(g) /\ StorageInv(g)
      BY DEF LifecycleInv
    <3>2. HasStorage(g) => filter[g].bits \in Addresses \ {x}
      BY <1>1, <1>7 DEF Types
    <3> QED
      BY <1>6, <2>2, <3>1, <3>2 DEF CallInv, SourceInv, StorageInv, HasStorage, Live, StorageOf
  <2> QED
    BY <2>1, <2>2
<1>11. \A w \in Buffers : BufferInv(w)'
  BY DEF LifecycleInv, BufferInv
<1> QED
  BY <1>5, <1>8, <1>9, <1>10, <1>11 DEF LifecycleInv

\* posix_memalign fails, and the header is given back (src/quickbloom.c:151-154).
LEMMA StepStorageFails ==
  ASSUME LifecycleInv, NEW h \in Handles,
         pc[h] = "storage",
         headers' = headers \ {h},
         pc' = [pc EXCEPT ![h] = "null"],
         failed' = [failed EXCEPT ![h] = TRUE],
         UNCHANGED <<allocated, memory, filter, ctor, buffer, inserted, origin>>
  PROVE  LifecycleInv'
<1>1. Types /\ AllocationsOwned
  BY DEF LifecycleInv
<1>2. Types'
  BY <1>1 DEF Types
<1>3. /\ pc'[h] = "null" /\ failed'[h]
      /\ \A g \in Handles \ {h} : pc'[g] = pc[g] /\ failed'[g] = failed[g]
  BY <1>1 DEF Types
<1>4. AllocationsOwned'
  <2>1. headers' = {g \in Handles : pc'[g] \in {"storage", "fill", "live"}}
    BY <1>1, <1>3 DEF AllocationsOwned
  <2>2. \A g \in Handles : pc'[g] \in {"fill", "live"} <=> pc[g] \in {"fill", "live"}
    BY <1>3
  <2> QED
    BY <1>1, <2>1, <2>2 DEF AllocationsOwned, HasStorage
<1>5. RefusedForCause'
  BY <1>3 DEF LifecycleInv, RefusedForCause
<1>6. ASSUME NEW g \in Handles
      PROVE  CallInv(g)' /\ SourceInv(g)' /\ StorageInv(g)'
  <2>1. CASE g = h
    BY <1>3, <2>1 DEF CallInv, SourceInv, StorageInv, HasStorage, Live
  <2>2. CASE g # h
    BY <1>3, <2>2, HandleKeep DEF LifecycleInv
  <2> QED
    BY <2>1, <2>2
<1>7. \A w \in Buffers : BufferInv(w)'
  BY DEF LifecycleInv, BufferInv
<1> QED
  BY <1>2, <1>4, <1>5, <1>6, <1>7 DEF LifecycleInv

\* The image of any hashes is made of blocks.
LEMMA ImageType ==
  ASSUME NEW n, NEW S \in SUBSET Hash, NEW b
  PROVE  BlockImage(n, S, b) \in Block
<1>1. ASSUME NEW l \in Lanes
      PROVE  UNION {mask_for(h)[l] : h \in {x \in S : Fastrange(n, x) = b}} \in Word
  <2>1. \A h \in Hash : mask_for(h)[l] \subseteq Bit
    BY <1>1, MaskType DEF Word
  <2> QED
    BY <2>1 DEF Word
<1> QED
  BY <1>1 DEF BlockImage, Block

\* A filter whose storage alone changes.
LEMMA StorageChanges ==
  ASSUME LifecycleInv, NEW h \in Handles, HasStorage(h),
         NEW content \in [0 .. ctor[h].nblocks - 1 -> Block],
         memory' = [memory EXCEPT ![filter[h].bits] = content]
  PROVE  /\ filter[h].bits \in Addresses
         /\ memory' \in [Addresses -> BlockArray]
         /\ memory'[filter[h].bits] = content
         /\ \A g \in Handles \ {h} :
              HasStorage(g) => memory'[filter[g].bits] = memory[filter[g].bits]
<1>1. Types /\ AllocationsOwned
  BY DEF LifecycleInv
<1>2. \A g \in Handles : HasStorage(g) => filter[g].bits \in Addresses
  BY <1>1 DEF Types, AllocationsOwned
<1>3. \A g \in Handles \ {h} : HasStorage(g) => filter[g].bits # filter[h].bits
  BY <1>1 DEF AllocationsOwned
<1>4. content \in BlockArray
  BY <1>1 DEF Types, BlockArray
<1> QED
  BY <1>1, <1>2, <1>3, <1>4 DEF Types

\* What Fill writes: zeros or the bytes that were checked, a block for each
\* that was counted (src/quickbloom.c:155, 358).
Content(h) ==
  IF ctor[h].fn = "qb_deserialize" THEN buffer[ctor[h].source].blocks
  ELSE [b \in 0 .. ctor[h].nblocks - 1 |-> Zero]

LEMMA ContentType ==
  ASSUME LifecycleInv, NEW h \in Handles, pc[h] = "fill"
  PROVE  Content(h) \in [0 .. ctor[h].nblocks - 1 -> Block]
<1>1. CallInv(h) /\ SourceInv(h) /\ Types
  BY DEF LifecycleInv
<1>2. CASE ctor[h].fn = "qb_deserialize"
  <2>1. /\ ctor[h].source \in Buffers
        /\ buffer[ctor[h].source].nbytes = ctor[h].nblocks * BlockBytes
    BY <1>1, <1>2 DEF CallInv, SourceInv
  <2>2. buffer[ctor[h].source].nbytes \div BlockBytes = ctor[h].nblocks
    BY <1>1, <2>1, BlocksOfBytes DEF Types
  <2>3. BufferInv(ctor[h].source)
    BY <2>1 DEF LifecycleInv
  <2> QED
    BY <1>2, <2>2, <2>3 DEF BufferInv, Content
<1>3. CASE ctor[h].fn # "qb_deserialize"
  BY <1>3 DEF Content, Zero, Block, Word
<1> QED
  BY <1>2, <1>3

\* The filter is filled and returned.
LEMMA StepFill ==
  ASSUME LifecycleInv, NEW h \in Handles, Fill(h)
  PROVE  LifecycleInv'
<1> DEFINE n == ctor[h].nblocks
<1>1. /\ pc[h] = "fill"
      /\ memory' = [memory EXCEPT ![filter[h].bits] = Content(h)]
      /\ filter' = [filter EXCEPT ![h].nblocks_mask = n - 1, ![h].idx_shift = IdxShift(n)]
      /\ pc' = [pc EXCEPT ![h] = "live"]
      /\ UNCHANGED <<allocated, headers, ctor, failed, buffer, origin>>
  BY DEF Fill, Content
<1>2. inserted' = [inserted EXCEPT ![h] = IF ctor[h].fn = "qb_deserialize"
                                          THEN origin[ctor[h].source] ELSE {}]
  BY DEF Fill
<1>3. Types /\ AllocationsOwned /\ CallInv(h) /\ SourceInv(h)
  BY DEF LifecycleInv
<1>4. n \in Nat /\ n - 1 \in Size /\ IdxShift(n) \in 0 .. Pow2[HalfBits] - 1
  BY <1>1, <1>3, FieldsType DEF Types, CallInv
<1>5. Content(h) \in [0 .. n - 1 -> Block]
  BY <1>1, ContentType
<1>6. HasStorage(h)
  BY <1>1 DEF HasStorage
<1>7. /\ memory' \in [Addresses -> BlockArray]
      /\ memory'[filter[h].bits] = Content(h)
      /\ \A g \in Handles \ {h} :
           HasStorage(g) => memory'[filter[g].bits] = memory[filter[g].bits]
  BY <1>1, <1>5, <1>6, StorageChanges
<1>0. filter' \in [Handles -> [nblocks_mask : Size, idx_shift : 0 .. Pow2[HalfBits] - 1,
                            bits : Addresses \cup {NoAddress}]]
  <2> DEFINE m == n - 1
             s == IdxShift(n)
  <2>1. filter' = [filter EXCEPT ![h].nblocks_mask = m, ![h].idx_shift = s]
    BY <1>1
  <2>2. m \in Size /\ s \in 0 .. Pow2[HalfBits] - 1
    BY <1>4
  <2> HIDE DEF m, s
  <2> DEFINE T == [nblocks_mask : Size, idx_shift : 0 .. Pow2[HalfBits] - 1,
                   bits : Addresses \cup {NoAddress}]
             F == [filter EXCEPT ![h].nblocks_mask = m]
  <2>3. F \in [Handles -> T]
    BY <1>3, <2>2 DEF Types
  <2>4. filter' = [F EXCEPT ![h].idx_shift = s]
    BY <1>3, <2>1 DEF Types
  <2> HIDE DEF F
  <2>5. [F EXCEPT ![h].idx_shift = s] \in [Handles -> T]
    BY <2>2, <2>3
  <2> QED
    BY <2>4, <2>5
<1>8. /\ pc'[h] = "live"
      /\ filter'[h].nblocks_mask = n - 1 /\ filter'[h].idx_shift = IdxShift(n)
      /\ \A g \in Handles : filter'[g].bits = filter[g].bits
      /\ \A g \in Handles \ {h} : pc'[g] = pc[g] /\ filter'[g] = filter[g]
  BY <1>1, <1>3 DEF Types
<1>9. Types'
  <2>2. pc' \in [Handles -> {"null", "header", "storage", "fill", "live"}]
    BY <1>1, <1>3 DEF Types
  <2>3. inserted' \in [Handles -> SUBSET Hash]
    <3>1. ctor[h].fn = "qb_deserialize" => origin[ctor[h].source] \in SUBSET Hash
      BY <1>1, <1>3 DEF Types, SourceInv
    <3> QED
      BY <1>2, <1>3, <3>1 DEF Types
  <2> QED
    BY <1>1, <1>3, <1>7, <1>0, <2>2, <2>3 DEF Types
<1>10. \A g \in Handles : /\ HasStorage(g)' <=> HasStorage(g)
                          /\ pc'[g] \in {"storage", "fill", "live"} <=>
                               pc[g] \in {"storage", "fill", "live"}
  BY <1>1, <1>8 DEF HasStorage
<1>11. AllocationsOwned'
  <2>1. headers' = {g \in Handles : pc'[g] \in {"storage", "fill", "live"}}
    BY <1>1, <1>3, <1>10 DEF AllocationsOwned
  <2>2. allocated' = {filter'[g].bits : g \in {y \in Handles : HasStorage(y)'}}
    <3>1. \A a : a \in allocated <=> \E g \in Handles : HasStorage(g) /\ a = filter[g].bits
      BY <1>3 DEF AllocationsOwned
    <3>2. \A a : a \in allocated' <=> \E g \in Handles : HasStorage(g)' /\ a = filter'[g].bits
      <4>1. /\ allocated' = allocated
            /\ \A g \in Handles : filter'[g].bits = filter[g].bits /\ (HasStorage(g)' <=> HasStorage(g))
        BY <1>1, <1>8, <1>10
      <4> QED
        BY <4>1, <3>1
    <3> QED
      BY <3>2
  <2>3. \A f, g \in Handles :
          HasStorage(f)' /\ HasStorage(g)' /\ filter'[f].bits = filter'[g].bits => f = g
    BY <1>3, <1>8, <1>10 DEF AllocationsOwned
  <2> QED
    BY <2>1, <2>2, <2>3 DEF AllocationsOwned
<1>12. RefusedForCause'
  BY <1>1, <1>8 DEF LifecycleInv, RefusedForCause
<1>13. ASSUME NEW g \in Handles
       PROVE  CallInv(g)' /\ SourceInv(g)' /\ StorageInv(g)'
  <2>1. CASE g = h
    BY <1>1, <1>3, <1>5, <1>7, <1>8, <2>1
       DEF CallInv, SourceInv, StorageInv, HasStorage, Live, StorageOf
  <2>2. CASE g # h
    <3>1. CallInv(g) /\ SourceInv(g) /\ StorageInv(g)
      BY DEF LifecycleInv
    <3> QED
      BY <1>1, <1>7, <1>8, <2>2, <3>1
         DEF CallInv, SourceInv, StorageInv, HasStorage, Live, StorageOf
  <2> QED
    BY <2>1, <2>2
<1>14. \A w \in Buffers : BufferInv(w)'
  BY <1>1 DEF LifecycleInv, BufferInv
<1> QED
  BY <1>9, <1>11, <1>12, <1>13, <1>14 DEF LifecycleInv

\* qb_free gives back the two allocations of this filter and of no other.
LEMMA StepFree ==
  ASSUME LifecycleInv, NEW h \in Handles, qb_free(h)
  PROVE  LifecycleInv'
<1>1. /\ pc[h] = "live"
      /\ allocated' = allocated \ {filter[h].bits}
      /\ memory' = [memory EXCEPT ![filter[h].bits] = <<>>]
      /\ headers' = headers \ {h}
      /\ filter' = [filter EXCEPT ![h] = NoFilter]
      /\ pc' = [pc EXCEPT ![h] = "null"]
      /\ ctor' = [ctor EXCEPT ![h] = NoCall]
      /\ inserted' = [inserted EXCEPT ![h] = {}]
      /\ UNCHANGED <<failed, buffer, origin>>
  BY DEF qb_free
<1>2. Types /\ AllocationsOwned
  BY DEF LifecycleInv
<1>3. /\ pc'[h] = "null" /\ ctor'[h] = NoCall
      /\ \A g \in Handles \ {h} : pc'[g] = pc[g] /\ filter'[g] = filter[g] /\ ctor'[g] = ctor[g]
      /\ \A y \in Addresses \ {filter[h].bits} : memory'[y] = memory[y]
  BY <1>1, <1>2 DEF Types
<1>4. Types'
  <2>1. 0 \in Size /\ 0 \in 0 .. Pow2[HalfBits] - 1
    BY WidthAssumption, Pow2Type DEF Size
  <2>2. <<>> \in BlockArray
    <3>1. <<>> \in [0 .. 0 - 1 -> Block]
      OBVIOUS
    <3> QED
      BY <3>1 DEF BlockArray
  <2> QED
    BY <1>1, <1>2, <2>1, <2>2 DEF Types, NoFilter, NoCall
<1>5. /\ \A g \in Handles : HasStorage(g)' <=> g # h /\ HasStorage(g)
      /\ \A g \in Handles \ {h} :
           HasStorage(g) => /\ filter[g].bits \in Addresses
                            /\ filter[g].bits # filter[h].bits
  BY <1>1, <1>2, <1>3 DEF Types, AllocationsOwned, HasStorage
<1>6. AllocationsOwned'
  <2>1. headers' = {g \in Handles : pc'[g] \in {"storage", "fill", "live"}}
    BY <1>1, <1>2, <1>3 DEF AllocationsOwned
  <2>2. allocated' = {filter'[g].bits : g \in {y \in Handles : HasStorage(y)'}}
    <3>1. \A a : a \in allocated <=> \E g \in Handles : HasStorage(g) /\ a = filter[g].bits
      BY <1>2 DEF AllocationsOwned
    <3>2. \A a : a \in allocated' <=> \E g \in Handles : HasStorage(g)' /\ a = filter'[g].bits
      BY <1>1, <1>3, <1>5, <3>1
    <3> QED
      BY <3>2
  <2>3. \A f, g \in Handles :
          HasStorage(f)' /\ HasStorage(g)' /\ filter'[f].bits = filter'[g].bits => f = g
    BY <1>2, <1>3, <1>5 DEF AllocationsOwned
  <2> QED
    BY <2>1, <2>2, <2>3 DEF AllocationsOwned
<1>7. RefusedForCause'
  BY <1>1, <1>3 DEF LifecycleInv, RefusedForCause, NoCall
<1>8. ASSUME NEW g \in Handles
      PROVE  CallInv(g)' /\ SourceInv(g)' /\ StorageInv(g)'
  <2>1. CASE g = h
    BY <1>3, <2>1 DEF CallInv, SourceInv, StorageInv, HasStorage, Live
  <2>2. CASE g # h
    <3>1. CallInv(g) /\ SourceInv(g) /\ StorageInv(g)
      BY DEF LifecycleInv
    <3> QED
      BY <1>1, <1>3, <1>5, <2>2, <3>1
         DEF CallInv, SourceInv, StorageInv, HasStorage, Live, StorageOf
  <2> QED
    BY <2>1, <2>2
<1>9. \A w \in Buffers : BufferInv(w)'
  BY <1>1 DEF LifecycleInv, BufferInv
<1> QED
  BY <1>4, <1>6, <1>7, <1>8, <1>9 DEF LifecycleInv

\* Where an insertion goes, and what it makes of the storage.
Inserting(h, x) ==
  [StorageOf(h) EXCEPT ![block_for(filter[h].idx_shift, x)] =
     [l \in Lanes |-> @[l] \cup mask_for(x)[l]]]

LEMMA InsertingType ==
  ASSUME LifecycleInv, NEW h \in Handles, Live(h), NEW x \in Hash
  PROVE  Inserting(h, x) \in [0 .. ctor[h].nblocks - 1 -> Block]
<1> DEFINE blk == block_for(filter[h].idx_shift, x)
           D == 0 .. ctor[h].nblocks - 1
           word == [l \in Lanes |-> StorageOf(h)[blk][l] \cup mask_for(x)[l]]
<1>1. StorageOf(h) \in [D -> Block]
  BY DEF LifecycleInv, StorageInv, HasStorage, Live
<1>2. blk \in D => word \in Block
  <2>1. mask_for(x) \in Block
    BY MaskType DEF Block
  <2> QED
    BY <1>1, <2>1 DEF Block, Word
<1>3. Inserting(h, x) = [StorageOf(h) EXCEPT ![blk] = word]
  BY DEF Inserting
<1> HIDE DEF blk, word, D
<1> QED
  BY <1>1, <1>2, <1>3 DEF D

LEMMA StepInsert ==
  ASSUME LifecycleInv, NEW h \in Handles, NEW x \in Inserted, qb_insert_prehash(h, x)
  PROVE  LifecycleInv'
<1>1. /\ pc[h] = "live"
      /\ inserted' = [inserted EXCEPT ![h] = @ \cup {x}]
      /\ UNCHANGED <<allocated, headers, filter, pc, ctor, failed, buffer, origin>>
  BY DEF qb_insert_prehash
<1>2. Types /\ x \in Hash /\ Live(h) /\ HasStorage(h)
  BY <1>1, LifecycleAssumption DEF LifecycleInv, Live, HasStorage
<1>3. memory' = [memory EXCEPT ![filter[h].bits] = Inserting(h, x)]
  BY <1>2 DEF qb_insert_prehash, Inserting, StorageOf, Types
<1>4. Inserting(h, x) \in [0 .. ctor[h].nblocks - 1 -> Block]
  BY <1>2, InsertingType
<1>5. /\ memory' \in [Addresses -> BlockArray]
      /\ memory'[filter[h].bits] = Inserting(h, x)
      /\ \A g \in Handles \ {h} :
           HasStorage(g) => memory'[filter[g].bits] = memory[filter[g].bits]
  BY <1>2, <1>3, <1>4, StorageChanges
<1>6. Types'
  BY <1>1, <1>2, <1>5 DEF Types
<1>7. AllocationsOwned' /\ RefusedForCause'
  BY <1>1 DEF LifecycleInv, AllocationsOwned, RefusedForCause, HasStorage
<1>8. ASSUME NEW g \in Handles
      PROVE  CallInv(g)' /\ SourceInv(g)' /\ StorageInv(g)'
  <2>1. CallInv(g) /\ SourceInv(g) /\ StorageInv(g)
    BY DEF LifecycleInv
  <2>2. CASE g = h
    BY <1>1, <1>4, <1>5, <2>1, <2>2
       DEF CallInv, SourceInv, StorageInv, HasStorage, Live, StorageOf
  <2>3. CASE g # h
    BY <1>1, <1>5, <2>1, <2>3
       DEF CallInv, SourceInv, StorageInv, HasStorage, Live, StorageOf
  <2> QED
    BY <2>2, <2>3
<1>9. \A w \in Buffers : BufferInv(w)'
  BY <1>1 DEF LifecycleInv, BufferInv
<1> QED
  BY <1>6, <1>7, <1>8, <1>9 DEF LifecycleInv

\* A client writes a buffer that no qb_deserialize is reading.
LEMMA StepBuffer ==
  ASSUME LifecycleInv, NEW w \in Buffers, ~ BeingRead(w),
         NEW nbytes \in Size, NEW S \in SUBSET Hash,
         NEW blocks \in [0 .. (nbytes \div BlockBytes) - 1 -> Block],
         buffer' = [buffer EXCEPT ![w] = [nbytes |-> nbytes, blocks |-> blocks]],
         origin' = [origin EXCEPT ![w] = S],
         UNCHANGED <<allocated, memory, headers, filter, pc, ctor, failed, inserted>>
  PROVE  LifecycleInv'
<1>1. Types
  BY DEF LifecycleInv
<1>2. blocks \in BlockArray
  <2>1. nbytes \div BlockBytes \in Nat
    BY Quotient, LifecycleAssumption, WidthAssumption, Pow2Type DEF Size
  <2> QED
    BY <2>1 DEF BlockArray
<1>3. Types'
  BY <1>1, <1>2 DEF Types
<1>4. AllocationsOwned' /\ RefusedForCause'
  BY DEF LifecycleInv, AllocationsOwned, RefusedForCause, HasStorage
<1>5. ASSUME NEW g \in Handles
      PROVE  CallInv(g)' /\ SourceInv(g)' /\ StorageInv(g)'
  <2>1. CallInv(g) /\ SourceInv(g) /\ StorageInv(g)
    BY DEF LifecycleInv
  <2>2. CallInv(g)' /\ StorageInv(g)'
    BY <2>1 DEF CallInv, StorageInv, HasStorage, Live, StorageOf
  <2>3. SourceInv(g)'
    BY <1>1, <2>1 DEF SourceInv, BeingRead, Types
  <2> QED
    BY <2>2, <2>3
<1>6. \A v \in Buffers : BufferInv(v)'
  <2>1. /\ buffer'[w].nbytes = nbytes /\ buffer'[w].blocks = blocks
        /\ \A v \in Buffers \ {w} : buffer'[v] = buffer[v]
    BY <1>1 DEF Types
  <2> QED
    BY <2>1 DEF LifecycleInv, BufferInv
<1> QED
  BY <1>3, <1>4, <1>5, <1>6 DEF LifecycleInv

\* What qb_serialize writes: as many bytes as the storage has
\* (src/quickbloom.c:330-337).
LEMMA SerializedFacts ==
  ASSUME LifecycleInv, NEW h \in Handles, Live(h)
  PROVE  /\ NBlocksOf(h) = ctor[h].nblocks /\ ctor[h].nblocks \in Nat
         /\ qb_serialized_size(h) \in Size
         /\ qb_serialized_size(h) \div BlockBytes = NBlocksOf(h)
         /\ StorageOf(h) \in [0 .. NBlocksOf(h) - 1 -> Block]
<1>1. Types /\ CallInv(h) /\ StorageInv(h)
  BY DEF LifecycleInv
<1>2. ctor[h].nblocks \in Nat /\ filter[h].nblocks_mask = ctor[h].nblocks - 1
  BY <1>1 DEF Types, StorageInv
<1>3. NBlocksOf(h) = ctor[h].nblocks
  BY <1>2 DEF NBlocksOf
<1>4. qb_serialized_size(h) = ctor[h].nblocks * BlockBytes
  BY <1>3 DEF qb_serialized_size, NBlocksOf
<1>5. StorageOf(h) \in [0 .. NBlocksOf(h) - 1 -> Block]
  BY <1>1, <1>3 DEF StorageInv, HasStorage, Live
<1> QED
  BY <1>1, <1>2, <1>3, <1>4, <1>5, BlocksOfBytes DEF CallInv, Live

LEMMA StepSerialize ==
  ASSUME LifecycleInv, NEW h \in Handles, NEW w \in Buffers, qb_serialize(h, w)
  PROVE  LifecycleInv'
<1> DEFINE blocks == [b \in 0 .. NBlocksOf(h) - 1 |-> StorageOf(h)[b]]
<1>1. /\ Live(h) /\ ~ BeingRead(w)
      /\ buffer' = [buffer EXCEPT ![w] = [nbytes |-> qb_serialized_size(h), blocks |-> blocks]]
      /\ origin' = [origin EXCEPT ![w] = inserted[h]]
      /\ UNCHANGED <<allocated, memory, headers, filter, pc, ctor, failed, inserted>>
  BY DEF qb_serialize, Live
<1>2. /\ qb_serialized_size(h) \in Size
      /\ qb_serialized_size(h) \div BlockBytes = NBlocksOf(h)
      /\ blocks \in [0 .. NBlocksOf(h) - 1 -> Block]
  BY <1>1, SerializedFacts
<1>3. inserted[h] \in SUBSET Hash
  BY DEF LifecycleInv, Types
<1> HIDE DEF blocks
<1> QED
  BY <1>1, <1>2, <1>3, StepBuffer

LEMMA StepReceive ==
  ASSUME LifecycleInv, NEW w \in Buffers, NEW nbytes \in ForeignSizes,
         NEW S \in SUBSET Inserted, ReceiveBytes(w, nbytes, S)
  PROVE  LifecycleInv'
<1> DEFINE n == nbytes \div BlockBytes
           blocks == [b \in 0 .. n - 1 |-> BlockImage(n, S, b)]
<1>1. /\ ~ BeingRead(w)
      /\ buffer' = [buffer EXCEPT ![w] = [nbytes |-> nbytes, blocks |-> blocks]]
      /\ origin' = [origin EXCEPT ![w] = S]
      /\ UNCHANGED <<allocated, memory, headers, filter, pc, ctor, failed, inserted>>
  BY DEF ReceiveBytes
<1>2. nbytes \in Size /\ S \in SUBSET Hash
  BY LifecycleAssumption
<1>3. blocks \in [0 .. n - 1 -> Block]
  BY <1>2, ImageType
<1> HIDE DEF blocks
<1> QED
  BY <1>1, <1>2, <1>3, StepBuffer

LEMMA LifecycleNext ==
  LifecycleInv /\ [Next]_vars => LifecycleInv'
<1> SUFFICES ASSUME LifecycleInv, [Next]_vars PROVE LifecycleInv'
  OBVIOUS
<1>1. ASSUME NEW h \in Handles, NEW nbits \in NewSizes, qb_new(h, nbits)
      PROVE  LifecycleInv'
  BY <1>1, StepNew
<1>2. ASSUME NEW h \in Handles, AllocHeader(h) PROVE LifecycleInv'
  BY <1>2, StepHeader
<1>3. ASSUME NEW h \in Handles, AllocStorage(h) PROVE LifecycleInv'
  BY <1>3, StepStorage, StepStorageFails DEF AllocStorage
<1>4. ASSUME NEW h \in Handles, Fill(h) PROVE LifecycleInv'
  BY <1>4, StepFill
<1>5. ASSUME NEW h \in Handles, qb_free(h) PROVE LifecycleInv'
  BY <1>5, StepFree
<1>6. ASSUME NEW h \in Handles, NEW x \in Inserted, qb_insert_prehash(h, x)
      PROVE  LifecycleInv'
  BY <1>6, StepInsert
<1>7. ASSUME NEW h \in Handles, NEW w \in Buffers, qb_deserialize(h, w)
      PROVE  LifecycleInv'
  BY <1>7, StepDeserialize
<1>8. ASSUME NEW h \in Handles, NEW w \in Buffers, qb_serialize(h, w)
      PROVE  LifecycleInv'
  BY <1>8, StepSerialize
<1>9. ASSUME NEW w \in Buffers, NEW nbytes \in ForeignSizes, NEW S \in SUBSET Inserted,
             ReceiveBytes(w, nbytes, S)
      PROVE  LifecycleInv'
  BY <1>9, StepReceive
<1>10. CASE UNCHANGED vars
  <2>1. Types' /\ AllocationsOwned' /\ RefusedForCause'
    BY <1>10 DEF vars, LifecycleInv, Types, AllocationsOwned, RefusedForCause, HasStorage
  <2>2. \A h \in Handles : CallInv(h)' /\ SourceInv(h)' /\ StorageInv(h)'
    BY <1>10, HandleKeep DEF vars, LifecycleInv
  <2>3. \A w \in Buffers : BufferInv(w)'
    BY <1>10 DEF vars, LifecycleInv, BufferInv
  <2> QED
    BY <2>1, <2>2, <2>3 DEF LifecycleInv
<1> QED
  BY <1>1, <1>2, <1>3, <1>4, <1>5, <1>6, <1>7, <1>8, <1>9, <1>10 DEF Next

\* The invariant holds at every step of every client.
THEOREM LifecycleAlways ==
  Spec => []LifecycleInv
<1>1. Init => LifecycleInv
  BY LifecycleInit
<1>2. LifecycleInv /\ [Next]_vars => LifecycleInv'
  BY LifecycleNext
<1> QED
  BY <1>1, <1>2, PTL DEF Spec

-----------------------------------------------------------------------------
\* The variables keep their types.
THEOREM TypeCorrect ==
  Spec => []TypeOK
<1>1. LifecycleInv => TypeOK
  <2> SUFFICES ASSUME LifecycleInv PROVE TypeOK
    OBVIOUS
  <2>1. Types
    BY DEF LifecycleInv
  <2>2. \A x \in allocated : \A b \in DOMAIN memory[x] : memory[x][b] \in [Lanes -> Word]
    BY <2>1 DEF Types, BlockArray, Block
  <2> QED
    BY <2>1, <2>2 DEF Types, TypeOK
<1> QED
  BY <1>1, LifecycleAlways, PTL

\* No allocation is lost or shared, whichever of them fails and however the
\* constructors of several handles interleave (src/quickbloom.c:143-154,
\* 162-166, 353-357).
THEOREM NothingLeaks ==
  Spec => []AllocationsOwned
<1>1. LifecycleInv => AllocationsOwned
  BY DEF LifecycleInv
<1> QED
  BY <1>1, LifecycleAlways, PTL

\* A constructor returns NULL only for lack of memory, a size beyond the cap
\* or bytes that are no filter (src/quickbloom.c:133-139, 344-351).
THEOREM RefusalsJustified ==
  Spec => []RefusedForCause
<1>1. LifecycleInv => RefusedForCause
  BY DEF LifecycleInv
<1> QED
  BY <1>1, LifecycleAlways, PTL

\* qb_new makes the least power of two of blocks that has the bits it is asked
\* for, and none beyond the cap, unless its addition wraps
\* (src/quickbloom.c:136-144).
THEOREM CapacityKept ==
  Spec => []CapacityTight
<1>1. LifecycleInv => CapacityTight
  <2> SUFFICES ASSUME LifecycleInv, NEW h \in Handles, Live(h), ctor[h].fn = "qb_new",
                      ctor[h].size <= Pow2[SizeBits] - BlockBits
               PROVE  \E k \in 0 .. MaxBlocksLog :
                        /\ NBlocksOf(h) = Pow2[k]
                        /\ ctor[h].size <= Pow2[k] * BlockBits
                        /\ k > 0 => ctor[h].size > Pow2[k - 1] * BlockBits
    BY DEF CapacityTight
  <2> DEFINE nbits == ctor[h].size
             B == BlocksFor(nbits)
  <2>1. Types /\ CallInv(h)
    BY DEF LifecycleInv
  <2>2. nbits \in Size /\ B <= QB_MAX_NBLOCKS /\ NBlocksOf(h) = RoundedBlocks(nbits)
    BY <2>1, SerializedFacts DEF Types, CallInv, Live
  <2>3. /\ B \in Nat /\ B >= 1
        /\ B > 1 => BlockBits * (B - 1) < nbits
        /\ nbits <= BlockBits * B
    <3>1. nbits \in Nat /\ Pow2[SizeBits] \in Nat /\ BlockBits \in Nat
      BY <2>2, BlockBitsType, Pow2Type, WidthAssumption DEF Size
    <3>2. nbits + BlockBits <= Pow2[SizeBits]
      BY <3>1
    <3> QED
      BY <2>2, <3>2, BlocksForFacts
  <2> DEFINE k == log2_pow2(B)
  <2>4. /\ k \in 0 .. MaxBlocksLog /\ B <= Pow2[k]
        /\ \A j \in 0 .. k - 1 : Pow2[j] < B
    <3>1. MaxBlocksLog \in 0 .. SizeBits
      BY WidthAssumption
    <3> QED
      BY <2>2, <2>3, <3>1, Log2Least DEF QB_MAX_NBLOCKS
  <2>5. NBlocksOf(h) = Pow2[k]
    BY <2>2 DEF RoundedBlocks
  <2>6. /\ nbits \in Nat /\ Pow2[k] \in Nat /\ k \in Nat
        /\ BlockBits \in Nat /\ BlockBits >= 1
    BY <2>2, <2>4, BlockBitsType, Pow2Type, WidthAssumption DEF Size
  <2> HIDE DEF B, k
  <2>7. nbits <= Pow2[k] * BlockBits
    <3>1. \A a, b, c \in Nat : a <= b => c * a <= b * c
      OBVIOUS
    <3>2. BlockBits * B <= Pow2[k] * BlockBits
      BY <2>3, <2>4, <2>6, <3>1
    <3>3. BlockBits * B \in Nat /\ Pow2[k] * BlockBits \in Nat
      BY <2>3, <2>6
    <3> QED
      BY <2>3, <2>6, <3>2, <3>3
  <2>8. k > 0 => nbits > Pow2[k - 1] * BlockBits
    <3> SUFFICES ASSUME k > 0 PROVE nbits > Pow2[k - 1] * BlockBits
      OBVIOUS
    <3>1. k - 1 \in Nat /\ Pow2[k - 1] \in Nat /\ Pow2[k - 1] >= 1
      BY <2>6, Pow2Type
    <3>2. Pow2[k - 1] < B
      BY <2>4, <3>1, WidthAssumption
    <3>3. BlockBits * (B - 1) < nbits
      BY <2>3, <3>1, <3>2
    <3>4. Pow2[k - 1] * BlockBits < nbits
      BY <2>3, <2>6, <3>1, <3>2, <3>3, BitsOfFewer
    <3>5. Pow2[k - 1] * BlockBits \in Nat
      BY <2>6, <3>1
    <3> QED
      BY <2>6, <3>1, <3>4, <3>5
  <2> QED
    BY <2>4, <2>5, <2>7, <2>8
<1> QED
  BY <1>1, LifecycleAlways, PTL

-----------------------------------------------------------------------------
(***************************************************************************)
(* What follows needs a filter to have no more blocks than there are       *)
(* halves of a hash.  The default of QB_DESERIALIZE_MAX_BYTES, 2^25 blocks *)
(* (src/quickbloom.c:322-324), is far below; a build that overrides it may *)
(* go beyond.                                                              *)
(***************************************************************************)
LimitWithinHash == QB_DESERIALIZE_MAX_BYTES <= Pow2[HalfBits] * BlockBytes

LEMMA LiveSize ==
  ASSUME LimitWithinHash, LifecycleInv, NEW h \in Handles, pc[h] # "null"
  PROVE  \E k \in 0 .. HalfBits : ctor[h].nblocks = Pow2[k]
<1> USE WidthAssumption, LifecycleAssumption
<1>1. Types /\ CallInv(h)
  BY DEF LifecycleInv
<1>2. CASE ctor[h].fn = "qb_new"
  <2>1. ctor[h].size \in Size
    BY <1>1 DEF Types
  <2>2. \E k \in 0 .. MaxBlocksLog : ctor[h].nblocks = Pow2[k]
    BY <1>1, <1>2, <2>1, NewBlocks DEF CallInv
  <2> QED
    BY <2>2
<1>3. CASE ctor[h].fn = "qb_deserialize"
  <2>1. PICK k \in 0 .. SizeBits : ctor[h].nblocks = Pow2[k]
    BY <1>1 DEF CallInv
  <2> DEFINE a == Pow2[k]
             b == Pow2[HalfBits]
  <2>2. a \in Nat /\ b \in Nat
    BY Pow2Type
  <2>3. a * BlockBytes <= QB_DESERIALIZE_MAX_BYTES /\ QB_DESERIALIZE_MAX_BYTES <= b * BlockBytes
    BY <1>1, <1>3, <2>1 DEF CallInv, LimitWithinHash
  <2>4. QB_DESERIALIZE_MAX_BYTES \in Nat
    BY Pow2Type DEF Size
  <2> HIDE DEF a, b
  <2>5. \A x, y, c \in Nat : c >= 1 /\ x < y => x * c < y * c
    OBVIOUS
  <2>6. a * BlockBytes \in Nat /\ b * BlockBytes \in Nat
    BY <2>2
  <2>7. ~ (b < a)
    BY <2>2, <2>3, <2>4, <2>5, <2>6
  <2>8. k <= HalfBits
    BY <2>2, <2>7, Pow2Grows DEF a, b
  <2> QED
    BY <2>1, <2>8
<1> QED
  BY <1>1, <1>2, <1>3 DEF CallInv

\* What a filter in use is: as many blocks as its fields say, and an index
\* that is Parquet's.
LEMMA LiveFacts ==
  ASSUME LimitWithinHash, LifecycleInv, NEW h \in Handles, Live(h)
  PROVE  /\ NBlocksOf(h) = ctor[h].nblocks /\ NBlocksOf(h) \in Nat
         /\ StorageOf(h) \in [0 .. NBlocksOf(h) - 1 -> Block]
         /\ \A x \in Hash :
              /\ block_for(filter[h].idx_shift, x) = Fastrange(NBlocksOf(h), x)
              /\ block_for(filter[h].idx_shift, x) \in 0 .. NBlocksOf(h) - 1
         /\ {block_for(filter[h].idx_shift, x) : x \in Hash} = 0 .. NBlocksOf(h) - 1
<1>1. /\ NBlocksOf(h) = ctor[h].nblocks /\ ctor[h].nblocks \in Nat
      /\ StorageOf(h) \in [0 .. NBlocksOf(h) - 1 -> Block]
  BY SerializedFacts
<1>2. PICK k \in 0 .. HalfBits : ctor[h].nblocks = Pow2[k]
  BY LiveSize DEF Live
<1>3. filter[h].idx_shift = IdxShift(Pow2[k])
  BY <1>2 DEF LifecycleInv, StorageInv
<1>4. \A x \in Hash : block_for(filter[h].idx_shift, x) = Fastrange(NBlocksOf(h), x)
  BY <1>1, <1>2, <1>3, FastrangeIsShift
<1>5. {block_for(filter[h].idx_shift, x) : x \in Hash} = 0 .. NBlocksOf(h) - 1
  BY <1>1, <1>2, <1>3, IndexOntoBlocks
<1> QED
  BY <1>1, <1>4, <1>5

\* The index of every hash is Parquet's, inside the storage, and reaches all
\* of it (src/quickbloom.c:107-112, 125-131, 158-159).
THEOREM IndexAlways ==
  ASSUME LimitWithinHash
  PROVE  Spec => []IndexCoversStorage
<1>1. LifecycleInv => IndexCoversStorage
  <2> SUFFICES ASSUME LifecycleInv, NEW h \in Handles, Live(h)
               PROVE  /\ DOMAIN StorageOf(h) = 0 .. NBlocksOf(h) - 1
                      /\ \A x \in Hash :
                           block_for(filter[h].idx_shift, x) = Fastrange(NBlocksOf(h), x)
                      /\ {block_for(filter[h].idx_shift, x) : x \in Hash} = DOMAIN StorageOf(h)
    BY DEF IndexCoversStorage
  <2> QED
    BY LiveFacts
<1> QED
  BY <1>1, LifecycleAlways, PTL

-----------------------------------------------------------------------------
\* What one filter holds, and what a buffer holds for the filter it may become.
Exact(h) ==
  Live(h) => \A b \in 0 .. NBlocksOf(h) - 1 :
               StorageOf(h)[b] = BlockImage(NBlocksOf(h), inserted[h], b)

OriginInv(w) ==
  LET n == buffer[w].nbytes \div BlockBytes IN
  \A b \in 0 .. n - 1 : buffer[w].blocks[b] = BlockImage(n, origin[w], b)

ContentsInv ==
  /\ \A h \in Handles : Exact(h)
  /\ \A w \in Buffers : OriginInv(w)

LEMMA ExactKeep ==
  ASSUME NEW g, Exact(g), Live(g)' => Live(g),
         UNCHANGED <<filter[g], memory[filter[g].bits], inserted[g]>>
  PROVE  Exact(g)'
BY DEF Exact, NBlocksOf, StorageOf

LEMMA OriginKeep ==
  ASSUME NEW w, OriginInv(w), UNCHANGED <<buffer[w], origin[w]>>
  PROVE  OriginInv(w)'
BY DEF OriginInv

\* A step that returns no filter and changes none.
LEMMA ContentsKeep ==
  ASSUME ContentsInv, \A g \in Handles : Live(g)' => Live(g),
         UNCHANGED <<filter, memory, inserted, buffer, origin>>
  PROVE  ContentsInv'
BY ExactKeep, OriginKeep DEF ContentsInv

\* An insertion adds its mask to one block of an image.
LEMMA ImageInsert ==
  ASSUME NEW n, NEW S, NEW x, NEW b
  PROVE  BlockImage(n, S \cup {x}, b) =
           IF Fastrange(n, x) = b
           THEN [l \in Lanes |-> BlockImage(n, S, b)[l] \cup mask_for(x)[l]]
           ELSE BlockImage(n, S, b)
<1> DEFINE Of(T) == {y \in T : Fastrange(n, y) = b}
           Bits(T, l) == UNION {mask_for(h)[l] : h \in Of(T)}
<1>1. \A T : BlockImage(n, T, b) = [l \in Lanes |-> Bits(T, l)]
  BY DEF BlockImage
<1>2. ASSUME Fastrange(n, x) = b, NEW l \in Lanes
      PROVE  Bits(S \cup {x}, l) = Bits(S, l) \cup mask_for(x)[l]
  <2>1. Of(S \cup {x}) = Of(S) \cup {x}
    BY <1>2
  <2> HIDE DEF Of
  <2> QED
    BY <2>1
<1>3. ASSUME Fastrange(n, x) # b
      PROVE  Of(S \cup {x}) = Of(S)
  BY <1>3
<1> HIDE DEF Bits
<1>4. CASE Fastrange(n, x) = b
  <2>1. /\ BlockImage(n, S \cup {x}, b) = [l \in Lanes |-> Bits(S \cup {x}, l)]
        /\ \A l \in Lanes : BlockImage(n, S, b)[l] = Bits(S, l)
    BY <1>1
  <2> QED
    BY <1>2, <1>4, <2>1
<1>5. CASE Fastrange(n, x) # b
  <2>1. \A l : Bits(S \cup {x}, l) = Bits(S, l)
    BY <1>3, <1>5 DEF Bits
  <2> QED
    BY <1>1, <1>5, <2>1
<1> QED
  BY <1>4, <1>5

\* An empty filter is the image of no hash.
LEMMA ImageEmpty ==
  ASSUME NEW n, NEW b
  PROVE  BlockImage(n, {}, b) = Zero
BY DEF BlockImage, Zero

LEMMA ContentsInit ==
  Init => ContentsInv
<1> SUFFICES ASSUME Init PROVE ContentsInv
  OBVIOUS
<1>1. \A h \in Handles : Exact(h)
  BY DEF Init, Exact, Live
<1>2. ASSUME NEW w \in Buffers PROVE OriginInv(w)
  <2>1. buffer[w].nbytes \div BlockBytes = 0
    BY LifecycleAssumption DEF Init, Empty
  <2> QED
    BY <2>1 DEF OriginInv
<1> QED
  BY <1>1, <1>2 DEF ContentsInv

\* memset leaves the image of nothing, memcpy that of the buffer.
LEMMA ContentsFill ==
  ASSUME LifecycleInv, ContentsInv, NEW h \in Handles, Fill(h)
  PROVE  ContentsInv'
<1> DEFINE n == ctor[h].nblocks
           S == IF ctor[h].fn = "qb_deserialize" THEN origin[ctor[h].source] ELSE {}
<1>1. /\ pc[h] = "fill"
      /\ memory' = [memory EXCEPT ![filter[h].bits] = Content(h)]
      /\ filter' = [filter EXCEPT ![h].nblocks_mask = n - 1, ![h].idx_shift = IdxShift(n)]
      /\ inserted' = [inserted EXCEPT ![h] = S]
      /\ pc' = [pc EXCEPT ![h] = "live"]
      /\ UNCHANGED <<buffer, origin>>
  BY DEF Fill, Content
<1>2. Types /\ CallInv(h) /\ SourceInv(h)
  BY DEF LifecycleInv
<1>3. n \in Nat /\ Content(h) \in [0 .. n - 1 -> Block] /\ HasStorage(h)
  BY <1>1, <1>2, ContentType DEF Types, HasStorage
<1>4. /\ memory'[filter[h].bits] = Content(h)
      /\ \A g \in Handles \ {h} :
           HasStorage(g) => memory'[filter[g].bits] = memory[filter[g].bits]
  BY <1>1, <1>3, StorageChanges
<1>5. /\ filter'[h].bits = filter[h].bits /\ filter'[h].nblocks_mask + 1 = n
      /\ inserted'[h] = S
      /\ \A g \in Handles \ {h} : /\ pc'[g] = pc[g] /\ filter'[g] = filter[g]
                                  /\ inserted'[g] = inserted[g]
  <2>1. inserted'[h] = S /\ \A g \in Handles \ {h} : inserted'[g] = inserted[g]
    BY <1>1, <1>2 DEF Types
  <2>2. /\ filter'[h].bits = filter[h].bits /\ filter'[h].nblocks_mask = n - 1
        /\ \A g \in Handles \ {h} : pc'[g] = pc[g] /\ filter'[g] = filter[g]
    BY <1>1, <1>2 DEF Types
  <2> QED
    BY <1>3, <2>1, <2>2
<1>6. \A b \in 0 .. n - 1 : Content(h)[b] = BlockImage(n, S, b)
  <2>1. CASE ctor[h].fn = "qb_deserialize"
    <3>1. /\ ctor[h].source \in Buffers
          /\ buffer[ctor[h].source].nbytes = n * BlockBytes
      BY <1>1, <1>2, <2>1 DEF CallInv, SourceInv
    <3>2. buffer[ctor[h].source].nbytes \div BlockBytes = n
      BY <1>3, <3>1, BlocksOfBytes
    <3>3. OriginInv(ctor[h].source)
      BY <3>1 DEF ContentsInv
    <3> QED
      BY <2>1, <3>2, <3>3 DEF OriginInv, Content
  <2>2. CASE ctor[h].fn # "qb_deserialize"
    BY <2>2, ImageEmpty DEF Content
  <2> QED
    BY <2>1, <2>2
<1>7. ASSUME NEW g \in Handles PROVE Exact(g)'
  <2>1. CASE g = h
    <3>1. StorageOf(h)' = Content(h) /\ NBlocksOf(h)' = n
      BY <1>4, <1>5 DEF StorageOf, NBlocksOf
    <3> QED
      BY <1>5, <1>6, <2>1, <3>1 DEF Exact
  <2>2. CASE g # h
    <3>1. Live(g)' => Live(g) /\ HasStorage(g)
      BY <1>5, <2>2 DEF Live, HasStorage
    <3> QED
      BY <1>4, <1>5, <2>2, <3>1 DEF ContentsInv, Exact, StorageOf, NBlocksOf
  <2> QED
    BY <2>1, <2>2
<1>8. \A w \in Buffers : OriginInv(w)'
  BY <1>1, OriginKeep DEF ContentsInv
<1> QED
  BY <1>7, <1>8 DEF ContentsInv

\* Storage that is taken, or given back, is no other filter's.
LEMMA ContentsStorage ==
  ASSUME LifecycleInv, ContentsInv, NEW h \in Handles, AllocStorage(h) \/ qb_free(h)
  PROVE  ContentsInv'
<1>1. Types /\ AllocationsOwned
  BY DEF LifecycleInv
<1>2. UNCHANGED <<buffer, origin>>
  BY DEF AllocStorage, qb_free
<1>3. ~ Live(h)'
  BY <1>1 DEF AllocStorage, qb_free, Live, Types
<1>4. ASSUME NEW g \in Handles, g # h, Live(g)'
      PROVE  /\ Live(g)
             /\ filter'[g] = filter[g] /\ inserted'[g] = inserted[g]
             /\ memory'[filter[g].bits] = memory[filter[g].bits]
  <2>1. Live(g) /\ filter'[g] = filter[g] /\ inserted'[g] = inserted[g]
    BY <1>1, <1>4 DEF AllocStorage, qb_free, Live, Types
  <2>2. filter[g].bits \in allocated /\ filter[g].bits \in Addresses
    BY <1>1, <2>1 DEF AllocationsOwned, HasStorage, Live, Types
  <2>3. CASE AllocStorage(h)
    BY <1>1, <2>1, <2>2, <2>3 DEF AllocStorage, Types
  <2>4. CASE qb_free(h)
    <3>1. filter[g].bits # filter[h].bits
      BY <1>1, <1>4, <2>1, <2>4 DEF AllocationsOwned, HasStorage, Live, qb_free
    <3> QED
      BY <1>1, <2>1, <2>2, <2>4, <3>1 DEF qb_free, Types
  <2> QED
    BY <2>3, <2>4
<1>5. \A g \in Handles : Exact(g)'
  BY <1>3, <1>4 DEF ContentsInv, Exact, StorageOf, NBlocksOf
<1>6. \A w \in Buffers : OriginInv(w)'
  BY <1>2, OriginKeep DEF ContentsInv
<1> QED
  BY <1>5, <1>6 DEF ContentsInv

\* An insertion adds its mask to the block that the Parquet rule names, and
\* touches no other filter.
LEMMA ContentsInsert ==
  ASSUME LimitWithinHash, LifecycleInv, ContentsInv,
         NEW h \in Handles, NEW x \in Inserted, qb_insert_prehash(h, x)
  PROVE  ContentsInv'
<1> DEFINE n == NBlocksOf(h)
           blk == block_for(filter[h].idx_shift, x)
<1>1. /\ Live(h) /\ HasStorage(h)
      /\ inserted' = [inserted EXCEPT ![h] = @ \cup {x}]
      /\ UNCHANGED <<filter, pc, buffer, origin>>
  BY DEF qb_insert_prehash, Live, HasStorage
<1>2. Types /\ x \in Hash
  BY LifecycleAssumption DEF LifecycleInv
<1>3. memory' = [memory EXCEPT ![filter[h].bits] = Inserting(h, x)]
  BY <1>2 DEF qb_insert_prehash, Inserting, StorageOf, Types
<1>4. /\ memory'[filter[h].bits] = Inserting(h, x)
      /\ \A g \in Handles \ {h} :
           HasStorage(g) => memory'[filter[g].bits] = memory[filter[g].bits]
  BY <1>1, <1>2, <1>3, InsertingType, StorageChanges
<1>5. /\ StorageOf(h) \in [0 .. n - 1 -> Block]
      /\ blk = Fastrange(n, x) /\ blk \in 0 .. n - 1
  BY <1>1, <1>2, LiveFacts
<1>6. inserted'[h] = inserted[h] \cup {x}
  BY <1>1, <1>2 DEF Types
<1>7. ASSUME NEW b \in 0 .. n - 1
      PROVE  Inserting(h, x)[b] = BlockImage(n, inserted[h] \cup {x}, b)
  <2>1. StorageOf(h)[b] = BlockImage(n, inserted[h], b)
    BY <1>1 DEF ContentsInv, Exact
  <2>2. Inserting(h, x)[b] = IF blk = b
                             THEN [l \in Lanes |-> StorageOf(h)[b][l] \cup mask_for(x)[l]]
                             ELSE StorageOf(h)[b]
    <3> HIDE DEF blk
    <3>1. Inserting(h, x) = [StorageOf(h) EXCEPT ![blk] =
                               [l \in Lanes |-> @[l] \cup mask_for(x)[l]]]
      BY DEF Inserting, blk
    <3> QED
      BY <1>5, <3>1
  <2> QED
    BY <1>5, <2>1, <2>2, ImageInsert
<1>8. ASSUME NEW g \in Handles PROVE Exact(g)'
  <2>1. CASE g = h
    <3>1. StorageOf(h)' = Inserting(h, x) /\ NBlocksOf(h)' = n
      BY <1>1, <1>4 DEF StorageOf, NBlocksOf
    <3> QED
      BY <1>6, <1>7, <2>1, <3>1 DEF Exact
  <2>2. CASE g # h
    <3>1. Live(g)' => Live(g) /\ HasStorage(g)
      BY <1>1 DEF Live, HasStorage
    <3>2. inserted'[g] = inserted[g]
      BY <1>1, <1>2, <2>2 DEF Types
    <3> QED
      BY <1>1, <1>4, <2>2, <3>1, <3>2 DEF ContentsInv, Exact, StorageOf, NBlocksOf
  <2> QED
    BY <2>1, <2>2
<1>9. \A w \in Buffers : OriginInv(w)'
  BY <1>1, OriginKeep DEF ContentsInv
<1> QED
  BY <1>8, <1>9 DEF ContentsInv

\* A buffer that is written holds the image its origin says.
LEMMA ContentsBuffer ==
  ASSUME LifecycleInv, ContentsInv, NEW w \in Buffers, NEW nbytes, NEW blocks, NEW S,
         buffer' = [buffer EXCEPT ![w] = [nbytes |-> nbytes, blocks |-> blocks]],
         origin' = [origin EXCEPT ![w] = S],
         \A b \in 0 .. (nbytes \div BlockBytes) - 1 :
           blocks[b] = BlockImage(nbytes \div BlockBytes, S, b),
         UNCHANGED <<filter, memory, inserted, pc>>
  PROVE  ContentsInv'
<1>1. Types
  BY DEF LifecycleInv
<1>2. \A g \in Handles : Exact(g)'
  BY ExactKeep DEF ContentsInv, Live
<1>3. /\ buffer'[w].nbytes = nbytes /\ buffer'[w].blocks = blocks /\ origin'[w] = S
      /\ \A v \in Buffers \ {w} : buffer'[v] = buffer[v] /\ origin'[v] = origin[v]
  BY <1>1 DEF Types
<1>4. OriginInv(w)'
  BY <1>3 DEF OriginInv
<1>5. \A v \in Buffers : OriginInv(v)'
  BY <1>3, <1>4, OriginKeep DEF ContentsInv
<1> QED
  BY <1>2, <1>5 DEF ContentsInv

LEMMA ContentsNext ==
  ASSUME LimitWithinHash
  PROVE  LifecycleInv /\ ContentsInv /\ [Next]_vars => ContentsInv'
<1> SUFFICES ASSUME LifecycleInv, ContentsInv, [Next]_vars PROVE ContentsInv'
  OBVIOUS
<1>1. Types
  BY DEF LifecycleInv
<1>2. ASSUME NEW h \in Handles, NEW nbits \in NewSizes, qb_new(h, nbits)
      PROVE  ContentsInv'
  BY <1>1, <1>2, ContentsKeep DEF qb_new, Construct, Live, Types
<1>3. ASSUME NEW h \in Handles, NEW w \in Buffers, qb_deserialize(h, w)
      PROVE  ContentsInv'
  BY <1>1, <1>3, ContentsKeep DEF qb_deserialize, Construct, Live, Types
<1>4. ASSUME NEW h \in Handles, AllocHeader(h) PROVE ContentsInv'
  BY <1>1, <1>4, ContentsKeep DEF AllocHeader, Live, Types
<1>5. ASSUME NEW h \in Handles, AllocStorage(h) \/ qb_free(h) PROVE ContentsInv'
  BY <1>5, ContentsStorage
<1>6. ASSUME NEW h \in Handles, Fill(h) PROVE ContentsInv'
  BY <1>6, ContentsFill
<1>7. ASSUME NEW h \in Handles, NEW x \in Inserted, qb_insert_prehash(h, x)
      PROVE  ContentsInv'
  BY <1>7, ContentsInsert
<1>8. ASSUME NEW h \in Handles, NEW w \in Buffers, qb_serialize(h, w)
      PROVE  ContentsInv'
  <2> DEFINE blocks == [b \in 0 .. NBlocksOf(h) - 1 |-> StorageOf(h)[b]]
  <2>1. /\ Live(h)
        /\ buffer' = [buffer EXCEPT ![w] = [nbytes |-> qb_serialized_size(h), blocks |-> blocks]]
        /\ origin' = [origin EXCEPT ![w] = inserted[h]]
        /\ UNCHANGED <<filter, memory, inserted, pc>>
    BY <1>8 DEF qb_serialize, Live
  <2>2. qb_serialized_size(h) \div BlockBytes = NBlocksOf(h)
    BY <2>1, SerializedFacts
  <2>3. \A b \in 0 .. NBlocksOf(h) - 1 : blocks[b] = BlockImage(NBlocksOf(h), inserted[h], b)
    BY <2>1 DEF ContentsInv, Exact
  <2> HIDE DEF blocks
  <2> QED
    BY <2>1, <2>2, <2>3, ContentsBuffer
<1>9. ASSUME NEW w \in Buffers, NEW nbytes \in ForeignSizes, NEW S \in SUBSET Inserted,
             ReceiveBytes(w, nbytes, S)
      PROVE  ContentsInv'
  <2> DEFINE n == nbytes \div BlockBytes
             blocks == [b \in 0 .. n - 1 |-> BlockImage(n, S, b)]
  <2>1. /\ buffer' = [buffer EXCEPT ![w] = [nbytes |-> nbytes, blocks |-> blocks]]
        /\ origin' = [origin EXCEPT ![w] = S]
        /\ UNCHANGED <<filter, memory, inserted, pc>>
    BY <1>9 DEF ReceiveBytes
  <2>2. \A b \in 0 .. n - 1 : blocks[b] = BlockImage(n, S, b)
    OBVIOUS
  <2> HIDE DEF blocks
  <2> QED
    BY <2>1, <2>2, ContentsBuffer
<1>10. CASE UNCHANGED vars
  BY <1>10, ContentsKeep DEF vars, Live
<1> QED
  BY <1>2, <1>3, <1>4, <1>5, <1>6, <1>7, <1>8, <1>9, <1>10 DEF Next

\* A filter holds exactly the hashes inserted into it, here or before it was
\* serialized: nothing of what its memory held, nothing of another filter
\* (src/quickbloom.c:155, 338, 358).
THEOREM ContentsAlways ==
  ASSUME LimitWithinHash
  PROVE  Spec => []ImageExact
<1>1. Init => LifecycleInv /\ ContentsInv
  BY LifecycleInit, ContentsInit
<1>2. LifecycleInv /\ ContentsInv /\ [Next]_vars => (LifecycleInv /\ ContentsInv)'
  BY LifecycleNext, ContentsNext
<1>3. ContentsInv => ImageExact
  BY DEF ContentsInv, Exact, ImageExact
<1> QED
  BY <1>1, <1>2, <1>3, PTL DEF Spec
=============================================================================
