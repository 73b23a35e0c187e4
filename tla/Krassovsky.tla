----------------------------- MODULE Krassovsky -----------------------------
(***************************************************************************)
(* src/comparisons/bloom_krassovsky.c: a filter of one-word blocks.  A hash*)
(* picks a mask from a table of overlapping bit patterns, a rotation of it *)
(* and a block.  The first bloom_new makes the table; filters then use it  *)
(* by scalar code one at a time and by vector code BatchSize at a time.    *)
(*                                                                         *)
(* A word or vector lane is the set of its one bits, the table that of all *)
(* its bits.  prng_next is any number.  Both ways of allocating the blocks *)
(* leave them zero; running out of memory is left out.  The C code has     *)
(* LOG_NUM_MASKS = 10, ROTATE_BITS = 6, ByteBits = 8, BatchSize = 8, 57    *)
(* bits per mask of which 4 or 5 are set, and hashes of 64 bits.           *)
(***************************************************************************)
EXTENDS Integers, FiniteSets, SequencesExt, PowersOfTwo

CONSTANTS
  LOG_NUM_MASKS, BITS_PER_MASK, MIN_BITS_SET, MAX_BITS_SET, ROTATE_BITS,
  ByteBits, BatchSize, HashBits, SizeBits,
  Sizes,                     \* the sizes in bits bloom_new is called with
  Probes,                    \* the hashes of single calls, and
  HashBatches,               \* those of bulk calls
  bloom_hash, Short,         \* key -> hash, and the keys whose length is not 16
  KeyBatches,                \* the arrays of keys, of one length, of bulk calls
  NoFilter, Spinning

VARIABLES
  pc,                        \* in bloom_new: "pattern", "slide", "make"; otherwise "ready"
  MASK_TABLE, mask_table_inited,
  i, cur, num_set, nbits,    \* locals of bloom_new and mask_table_init
  bv,                        \* the blocks
  added, asked, hits         \* history: what was inserted, the last query, its answer

locals  == <<i, cur, num_set, nbits>>
history == <<added, asked, hits>>
vars == <<pc, MASK_TABLE, mask_table_inited, locals, bv, history>>

WordBits  == Pow2[ROTATE_BITS]
NUM_MASKS == Pow2[LOG_NUM_MASKS]
Hash == 0 .. Pow2[HashBits] - 1

\* The blocks of a filter, whatever its size.
Filters ==
  UNION {[0 .. (Pow2[e] \div WordBits) - 1 -> SUBSET (0 .. WordBits - 1)] :
         e \in ROTATE_BITS .. SizeBits - 1}

\* A mask that starts at any bit of a byte is in the word read at that byte.
ASSUME WidthAssumption ==
  /\ {LOG_NUM_MASKS, MIN_BITS_SET, MAX_BITS_SET, ROTATE_BITS, HashBits, SizeBits} \subseteq Nat
  /\ {BITS_PER_MASK, ByteBits, BatchSize} \subseteq Nat \ {0}
  /\ BITS_PER_MASK + ByteBits <= WordBits + 1

ASSUME CallAssumption ==
  /\ Sizes \subseteq Nat /\ Probes \subseteq Hash /\ HashBatches \subseteq Seq(Hash)
  /\ bloom_hash \in [DOMAIN bloom_hash -> Hash]
  /\ KeyBatches \subseteq Seq(DOMAIN bloom_hash)

ASSUME ValueAssumption == NoFilter \notin Filters /\ Spinning \notin Filters

Init ==
  /\ pc = "ready" /\ MASK_TABLE = {} /\ mask_table_inited = FALSE
  /\ i = 0 /\ cur = 0 /\ num_set = 0 /\ nbits = 0
  /\ bv = NoFilter /\ added = {} /\ asked = <<>> /\ hits = 0

bloom_new ==
  /\ pc = "ready" /\ bv = NoFilter
  /\ nbits' \in Sizes
  /\ IF mask_table_inited
     THEN pc' = "make" /\ UNCHANGED <<MASK_TABLE, num_set>>
     ELSE pc' = "pattern" /\ MASK_TABLE' = {} /\ num_set' \in MIN_BITS_SET .. MAX_BITS_SET
  /\ UNCHANGED <<mask_table_inited, i, cur, bv, history>>

\* The first mask: num_set bits, none drawn twice.
Pattern ==
  /\ pc = "pattern"
  /\ IF Cardinality(MASK_TABLE) = num_set
     THEN pc' = "slide" /\ cur' = num_set /\ i' = BITS_PER_MASK /\ UNCHANGED MASK_TABLE
     ELSE /\ \E pos \in 0 .. BITS_PER_MASK - 1 \ MASK_TABLE : MASK_TABLE' = MASK_TABLE \cup {pos}
          /\ UNCHANGED <<pc, cur, i>>
  /\ UNCHANGED <<mask_table_inited, num_set, nbits, bv, history>>

\* Whether the window may move on to a zero.
MayStay(leaving, n) == ~(leaving = 1 /\ n = MIN_BITS_SET)

\* Mutation: the upper bound is not looked at.
MayEnter_any(leaving, n) == TRUE

\* Whether it may move on to a one.
MayEnter(leaving, n) == ~(leaving = 0 /\ n = MAX_BITS_SET)

\* Each next mask loses a bit in front and gains bit i behind.
Slide ==
  /\ pc = "slide"
  /\ i < NUM_MASKS + BITS_PER_MASK - 1
  /\ LET leaving == IF i - BITS_PER_MASK \in MASK_TABLE THEN 1 ELSE 0
     IN  \/ /\ MayEnter(leaving, cur)
            /\ MASK_TABLE' = MASK_TABLE \cup {i}
            /\ cur' = cur + 1 - leaving
         \/ /\ MayStay(leaving, cur)
            /\ MASK_TABLE' = MASK_TABLE
            /\ cur' = cur - leaving
  /\ i' = i + 1
  /\ UNCHANGED <<pc, mask_table_inited, num_set, nbits, bv, history>>

Slid ==
  /\ pc = "slide"
  /\ i = NUM_MASKS + BITS_PER_MASK - 1
  /\ pc' = "make" /\ mask_table_inited' = TRUE
  /\ i' = 0 /\ cur' = 0 /\ num_set' = 0
  /\ UNCHANGED <<MASK_TABLE, nbits, bv, history>>

\* What pow2_bits may be when its loop ends; doubling the top bit makes it 0.
Powers ==
  {Pow2[e] : e \in {d \in ROTATE_BITS .. SizeBits - 1 : Pow2[d] >= nbits}}

Make ==
  /\ pc = "make"
  /\ pc' = "ready" /\ nbits' = 0
  /\ bv' = IF Powers = {} THEN Spinning
           ELSE [j \in 0 .. (Min(Powers) \div WordBits) - 1 |-> {}]
  /\ UNCHANGED <<MASK_TABLE, mask_table_inited, i, cur, num_set, history>>

-----------------------------------------------------------------------------
\* The bits of table entry idx: a word from its byte on, shifted and cut off.
Entry(idx) ==
  LET first == ByteBits * (idx \div ByteBits)
      raw   == {p - first : p \in MASK_TABLE \cap (first .. first + WordBits - 1)}
      bit   == idx % ByteBits
  IN  {p - bit : p \in {q \in raw : q >= bit}} \cap (0 .. BITS_PER_MASK - 1)

Rotation(h) == (h \div NUM_MASKS) % WordBits

ShiftLeft(bits, n) == {p + n : p \in bits} \cap (0 .. WordBits - 1)
ShiftRight(bits, n) == {p - n : p \in bits} \cap (0 .. WordBits - 1)

\* The scalar code keeps clear of a shift by the whole width.
construct_mask_scalar(h) ==
  LET rot == Rotation(h) unrot == Entry(h % NUM_MASKS)
  IN  ShiftLeft(unrot, rot) \cup IF rot = 0 THEN {} ELSE ShiftRight(unrot, WordBits - rot)

\* Mutation: the part that leaves the word at its end is lost.
Down_lost(unrot, n) == {}

\* _mm256_srlv_epi64, which gives zero for a shift by the whole width.
Down(unrot, n) == ShiftRight(unrot, n)

\* One lane of the vector code.
construct_mask_avx2(h) ==
  LET rot == Rotation(h) unrot == Entry(h % NUM_MASKS)
  IN  ShiftLeft(unrot, rot) \cup Down(unrot, WordBits - rot)

block_idx(h) == (h \div (NUM_MASKS * WordBits)) % Cardinality(DOMAIN bv)

\* How many hashes of a bulk call go through the vector code: all whole batches.
Batched(n) == n - (n % BatchSize)

\* Mutation: a last batch that is not whole is forgotten.
Rest_none(n) == {}

\* The others.
Rest(n) == Batched(n) + 1 .. n

\* The blocks with the masks of the hashes: vec by batches, the rest one by one.
WithMasks(hs, vec, rest) ==
  [j \in DOMAIN bv |->
     bv[j] \cup (UNION {construct_mask_avx2(hs[n]) : n \in {m \in vec : block_idx(hs[m]) = j}})
           \cup (UNION {construct_mask_scalar(hs[n]) : n \in {m \in rest : block_idx(hs[m]) = j}})]

Found(hs, vec, rest) ==
  Cardinality({n \in vec : construct_mask_avx2(hs[n]) \subseteq bv[block_idx(hs[n])]})
    + Cardinality({n \in rest : construct_mask_scalar(hs[n]) \subseteq bv[block_idx(hs[n])]})

Live == pc = "ready" /\ bv \notin {NoFilter, Spinning}

Insert(hs, vec, rest) ==
  /\ Live
  /\ bv' = WithMasks(hs, vec, rest)
  /\ added' = added \cup ToSet(hs)
  /\ asked' = <<>> /\ hits' = 0
  /\ UNCHANGED <<pc, MASK_TABLE, mask_table_inited, locals>>

Query(hs, vec, rest) ==
  /\ Live
  /\ asked' = hs
  /\ hits' = Found(hs, vec, rest)
  /\ UNCHANGED <<pc, MASK_TABLE, mask_table_inited, locals, bv, added>>

bloom_insert_prehash(h) == Insert(<<h>>, {}, {1})
bloom_contains_prehash(h) == Query(<<h>>, {}, {1})

bloom_insert(key) == bloom_insert_prehash(bloom_hash[key])
bloom_contains(key) == bloom_contains_prehash(bloom_hash[key])

bloom_insert_batch8(hs) == Len(hs) = BatchSize /\ Insert(hs, DOMAIN hs, {})
bloom_contains_batch8(hs) == Len(hs) = BatchSize /\ Query(hs, DOMAIN hs, {})

bloom_insert_batch8_bulk(hs) == Insert(hs, 1 .. Batched(Len(hs)), Rest(Len(hs)))
bloom_contains_batch8_bulk(hs) == Query(hs, 1 .. Batched(Len(hs)), Rest(Len(hs)))

Hashed(keys) == [n \in DOMAIN keys |-> bloom_hash[keys[n]]]

\* Only keys of length 16 are hashed in batches.
bloom_insert_bulk(keys) ==
  IF ToSet(keys) \cap Short = {}
  THEN bloom_insert_batch8_bulk(Hashed(keys))
  ELSE Insert(Hashed(keys), {}, DOMAIN keys)

bloom_contains_bulk(keys) ==
  IF ToSet(keys) \cap Short = {}
  THEN bloom_contains_batch8_bulk(Hashed(keys))
  ELSE Query(Hashed(keys), {}, DOMAIN keys)

bloom_insert_prehash_bulk(hs) == bloom_insert_batch8_bulk(hs)
bloom_contains_prehash_bulk(hs) == bloom_contains_batch8_bulk(hs)

bloom_free ==
  /\ Live
  /\ bv' = NoFilter
  /\ added' = {} /\ asked' = <<>> /\ hits' = 0
  /\ UNCHANGED <<pc, MASK_TABLE, mask_table_inited, locals>>

Next ==
  \/ bloom_new \/ Pattern \/ Slide \/ Slid \/ Make \/ bloom_free
  \/ \E h \in Probes : bloom_insert_prehash(h) \/ bloom_contains_prehash(h)
  \/ \E key \in DOMAIN bloom_hash : bloom_insert(key) \/ bloom_contains(key)
  \/ \E hs \in HashBatches : \/ bloom_insert_batch8(hs) \/ bloom_contains_batch8(hs)
                             \/ bloom_insert_prehash_bulk(hs) \/ bloom_contains_prehash_bulk(hs)
  \/ \E keys \in KeyBatches : bloom_insert_bulk(keys) \/ bloom_contains_bulk(keys)

Spec == Init /\ [][Next]_vars

-----------------------------------------------------------------------------
Promise ==
  INSTANCE MemberPromise WITH
    Batches <- HashBatches \cup {Hashed(ks) : ks \in KeyBatches} \cup {<<h>> : h \in Hash},
    intact <- TRUE

(***************************************************************************)
(* A query misses nothing inserted, whichever of the two went through the  *)
(* vector code and whichever through the scalar code, in batches that are  *)
(* whole or not (:181-328), with whatever table was drawn (:57-90).        *)
(***************************************************************************)
PromiseKept == Promise!Spec

(***************************************************************************)
(* Every mask, rotated, has MIN_BITS_SET to MAX_BITS_SET bits: the sliding *)
(* window never leaves these bounds (:72-88), and reading an entry at any  *)
(* bit of a byte gets all its bits (:165-170).  A mask without any would   *)
(* make every query for it a hit.                                          *)
(***************************************************************************)
MaskBits ==
  mask_table_inited =>
    \A h \in Hash : Cardinality(construct_mask_scalar(h)) \in MIN_BITS_SET .. MAX_BITS_SET

(***************************************************************************)
(* A lane of the vector code makes the mask of the scalar code, also for   *)
(* no rotation, of which the scalar code makes a special case (:173, :216).*)
(***************************************************************************)
LanesAgree ==
  mask_table_inited => \A h \in Hash : construct_mask_avx2(h) = construct_mask_scalar(h)
=============================================================================
