---------------------------- MODULE ImpalaBloom ----------------------------
(***************************************************************************)
(* src/comparisons/bloom_impala.c: the split block Bloom filter by the     *)
(* book, for any number of blocks, scalar, hashing keys with XXH64.        *)
(*                                                                         *)
(* Both ways of allocating the blocks leave them zero; running out of      *)
(* memory is left out.  uint64_t has 2 * HalfBits bits.                    *)
(***************************************************************************)
EXTENDS SbbfGeometry, FiniteSets, Sequences

CONSTANTS
  xxh64,                    \* key -> hash
  KeyBatches, HashBatches,  \* the arrays a call may pass
  NoFilter

VARIABLES
  blocks,               \* the filter: block -> lane -> the set of its one bits
  added, asked, hits    \* history: what was inserted, the last query, its answer

IsFilter(f) == \E last \in Size : f \in [0 .. last -> [Lanes -> Word]]

nblocks == Cardinality(DOMAIN blocks)

block_mask(h) ==
  [l \in Lanes |->
     {((LowerHalf(h) * Salt[l]) % Pow2[HalfBits]) \div Pow2[HalfBits - LaneLog]}]

\* Mutation: the index from the lower half, which also makes the mask.
block_of_low(h) == (((h % Pow2[HalfBits]) * nblocks) % Pow2[2 * HalfBits]) \div Pow2[HalfBits]

\* block_for: the product wraps for filters of more than 2^32 blocks.
block_of(h) == (((h \div Pow2[HalfBits]) * nblocks) % Pow2[2 * HalfBits]) \div Pow2[HalfBits]

\* Mutation: an insert that finds a bit set leaves the block as it is.
Insert_once(f, h) ==
  IF \E l \in Lanes : block_mask(h)[l] \subseteq f[block_of(h)][l] THEN f
  ELSE [f EXCEPT ![block_of(h)] = [l \in Lanes |-> @[l] \cup block_mask(h)[l]]]

Insert(f, h) ==
  [f EXCEPT ![block_of(h)] = [l \in Lanes |-> @[l] \cup block_mask(h)[l]]]

contains(h) == \A l \in Lanes : block_mask(h)[l] \subseteq blocks[block_of(h)][l]

\* The blocks after a loop of inserts.
Inserted(hashes) ==
  LET after[n \in 0 .. Len(hashes)] ==
        IF n = 0 THEN blocks ELSE Insert(after[n - 1], hashes[n])
  IN  after[Len(hashes)]

Init == blocks = NoFilter /\ added = {} /\ asked = <<>> /\ hits = 0

Live == blocks # NoFilter

\* The addition wraps at the width of size_t.
bloom_new(nbits) ==
  /\ blocks = NoFilter
  /\ LET n == ((nbits + BlockBits - 1) % Pow2[SizeBits]) \div BlockBits
     IN  blocks' = [j \in 0 .. (IF n = 0 THEN 1 ELSE n) - 1 |-> [l \in Lanes |-> {}]]
  /\ UNCHANGED <<added, asked, hits>>

bloom_free ==
  /\ Live
  /\ blocks' = NoFilter
  /\ added' = {} /\ asked' = <<>> /\ hits' = 0

bloom_insert_prehash_bulk(hashes) ==
  /\ Live
  /\ blocks' = Inserted(hashes)
  /\ added' = added \cup {hashes[n] : n \in DOMAIN hashes}
  /\ asked' = <<>> /\ hits' = 0

bloom_contains_prehash_bulk(hashes) ==
  /\ Live
  /\ asked' = hashes
  /\ hits' = Cardinality({n \in DOMAIN hashes : contains(hashes[n])})
  /\ UNCHANGED <<blocks, added>>

Hashed(keys) == [n \in DOMAIN keys |-> xxh64[keys[n]]]

bloom_insert_bulk(keys) == bloom_insert_prehash_bulk(Hashed(keys))

bloom_contains_bulk(keys) == bloom_contains_prehash_bulk(Hashed(keys))

bloom_insert_prehash(h) == bloom_insert_prehash_bulk(<<h>>)

bloom_contains_prehash(h) == bloom_contains_prehash_bulk(<<h>>)

bloom_insert(key) == bloom_insert_bulk(<<key>>)

bloom_contains(key) == bloom_contains_bulk(<<key>>)

-----------------------------------------------------------------------------
(***************************************************************************)
(* The blocks are those of every split block filter with these hashes: the *)
(* image that quickbloom's filters have for a power of two of blocks (see  *)
(* QuickBloom) this one has for any number, as far as the fastrange of the *)
(* Parquet specification reaches (:131-135).                               *)
(***************************************************************************)
ImageExact ==
  Live /\ nblocks <= Pow2[HalfBits] =>
    \A j \in DOMAIN blocks : blocks[j] = BlockImage(nblocks, added, j)

(***************************************************************************)
(* A query counts each of its hashes the filter reports, and those are the *)
(* ones whose mask other hashes cover, whatever the number of blocks; in   *)
(* particular all that were inserted.                                      *)
(***************************************************************************)
AnswersExact ==
  Live /\ nblocks <= Pow2[HalfBits] /\ asked # <<>> =>
    hits = Cardinality({n \in DOMAIN asked : Reports(nblocks, added, asked[n])})
=============================================================================
