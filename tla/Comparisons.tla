---------------------------- MODULE Comparisons ----------------------------
(***************************************************************************)
(* The two scalar filters of src/comparisons given the same calls, as the  *)
(* tests and benchmarks of the repository do (test_bloom.py, harness.py):  *)
(* one filter of each of the same size, then inserts and queries in any    *)
(* order and form.                                                         *)
(***************************************************************************)
EXTENDS SbbfGeometry, FiniteSets, Sequences

CONSTANTS
  WordBits, K_HASHES, Golden,
  bloom_hash, xxh64,        \* key -> hash, in the one filter and in the other
  Short,                    \* the keys whose length is not 16
  Sizes,                    \* the sizes in bits that are asked for
  Probes,                   \* the hashes single calls pass
  KeyBatches, HashBatches,  \* the arrays of bulk calls
  NoFilter, Spinning

VARIABLES
  nbits,                                                \* the size asked for last
  classic, classic_added, classic_asked, classic_hits,  \* the state of ClassicBloom
  impala, impala_added, impala_asked, impala_hits       \* the state of ImpalaBloom

vars == <<nbits, classic, classic_added, classic_asked, classic_hits,
          impala, impala_added, impala_asked, impala_hits>>

Classic ==
  INSTANCE ClassicBloom WITH HashBits <- 2 * HalfBits, b <- classic,
    added <- classic_added, asked <- classic_asked, hits <- classic_hits

Impala ==
  INSTANCE ImpalaBloom WITH blocks <- impala,
    added <- impala_added, asked <- impala_asked, hits <- impala_hits

\* In C there are 2^6 bits in a word and 8 of them to a hash.
ASSUME ClassicAssumption ==
  /\ \E w \in 0 .. SizeBits - 1 : WordBits = Pow2[w]
  /\ SizeBits <= 2 * HalfBits
  /\ K_HASHES \in 1 .. WordBits
  /\ Golden \in Nat

ASSUME CallAssumption ==
  /\ Sizes \subseteq Size /\ Probes \subseteq Hash /\ HashBatches \subseteq Seq(Hash)
  /\ {bloom_hash, xxh64} \subseteq [DOMAIN bloom_hash -> Hash]
  /\ KeyBatches \subseteq Seq(DOMAIN bloom_hash)

ASSUME ValueAssumption ==
  /\ ~ Classic!IsFilter(NoFilter) /\ ~ Impala!IsFilter(NoFilter)
  /\ ~ Classic!IsFilter(Spinning) /\ Spinning # NoFilter

Init == nbits = 0 /\ Classic!Init /\ Impala!Init

New ==
  /\ nbits' \in Sizes
  /\ Classic!bloom_new(nbits') /\ Impala!bloom_new(nbits')

Free ==
  /\ nbits' = 0
  /\ Classic!bloom_free /\ Impala!bloom_free

Insert ==
  /\ UNCHANGED nbits
  /\ \/ \E h \in Probes : Classic!bloom_insert_prehash(h) /\ Impala!bloom_insert_prehash(h)
     \/ \E key \in DOMAIN bloom_hash : Classic!bloom_insert(key) /\ Impala!bloom_insert(key)
     \/ \E hashes \in HashBatches :
          Classic!bloom_insert_prehash_bulk(hashes) /\ Impala!bloom_insert_prehash_bulk(hashes)
     \/ \E keys \in KeyBatches :
          Classic!bloom_insert_bulk(keys) /\ Impala!bloom_insert_bulk(keys)

Query ==
  /\ UNCHANGED nbits
  /\ \/ \E h \in Probes : Classic!bloom_contains_prehash(h) /\ Impala!bloom_contains_prehash(h)
     \/ \E key \in DOMAIN bloom_hash : Classic!bloom_contains(key) /\ Impala!bloom_contains(key)
     \/ \E hashes \in HashBatches :
          Classic!bloom_contains_prehash_bulk(hashes) /\ Impala!bloom_contains_prehash_bulk(hashes)
     \/ \E keys \in KeyBatches :
          Classic!bloom_contains_bulk(keys) /\ Impala!bloom_contains_bulk(keys)

Next == New \/ Free \/ Insert \/ Query

Spec == Init /\ [][Next]_vars

-----------------------------------------------------------------------------
ClassicPromise == Classic!PromiseKept
DistinctBits == Classic!DistinctBits
ImageExact == Impala!ImageExact
AnswersExact == Impala!AnswersExact

(***************************************************************************)
(* Both filters have at least the bits asked for.  The classic one is the  *)
(* next power of two, and its bloom_new returns unless that is more than   *)
(* size_t holds (bloom_classic.c:82); the other one rounds up to blocks,   *)
(* and has a single one when that sum wraps (bloom_impala.c:138).          *)
(***************************************************************************)
SizedRight ==
  impala # NoFilter =>
    /\ IF classic = Spinning THEN nbits > Pow2[SizeBits - 1]
       ELSE LET bits == classic.bit_mask + 1
            IN  /\ bits = WordBits * Cardinality(DOMAIN classic.words)
                /\ bits >= nbits /\ (bits = WordBits \/ bits < 2 * nbits)
    /\ \/ BlockBits * Impala!nblocks >= nbits
       \/ Impala!nblocks = 1 /\ nbits > Pow2[SizeBits] - BlockBits
=============================================================================
