---------------------------- MODULE ClassicBloom ----------------------------
(***************************************************************************)
(* src/comparisons/bloom_classic.c: the textbook Bloom filter, K_HASHES    *)
(* bits anywhere in an array, found by double hashing.                     *)
(*                                                                         *)
(* Both ways of allocating the array leave it zero; running out of memory  *)
(* is left out.  The C code has HashBits = SizeBits = WordBits = 64 and    *)
(* K_HASHES = 8.                                                           *)
(***************************************************************************)
EXTENDS Words, FiniteSets, Sequences

CONSTANTS
  HashBits, SizeBits,   \* widths of a hash and of size_t
  WordBits,             \* bits of a word of the array
  K_HASHES,
  Golden,               \* the odd multiplier that makes h2
  bloom_hash, Short,    \* key -> h1, and the keys whose length is not 16
  KeyBatches, HashBatches,  \* the arrays a call may pass, of keys of one length
  NoFilter,
  Spinning              \* bloom_new does not return

VARIABLES
  b,                    \* the filter: word -> the set of its one bits, and bit_mask
  added, asked, hits    \* history: what was inserted, the last query, its answer

Hash == 0 .. Pow2[HashBits] - 1
Size == 0 .. Pow2[SizeBits] - 1

IsFilter(f) ==
  \E last \in Size :
    f \in [words : [0 .. last -> SUBSET (0 .. WordBits - 1)], bit_mask : Size]

\* Mutation: a size between two powers of two is rounded down.
Powers_below(nbits) == {Pow2[e] : e \in {d \in 0 .. SizeBits - 1 : 2 * Pow2[d] > nbits}}

\* What pow2 may be when the loop ends; doubling the top bit makes it 0.
Powers(nbits) == {Pow2[e] : e \in {d \in 0 .. SizeBits - 1 : Pow2[d] >= nbits}}

New(nbits) ==
  LET pow2 == CHOOSE p \in Powers(nbits) : \A q \in Powers(nbits) : p <= q
      bits == IF pow2 < WordBits THEN WordBits ELSE pow2
  IN  [words |-> [j \in 0 .. (bits \div WordBits) - 1 |-> {}], bit_mask |-> bits - 1]

(***************************************************************************)
(* The pair h1, h2 of double hashing.  The code derives h2 in three places *)
(* that must agree.                                                        *)
(***************************************************************************)
\* Of a key of 16 bytes.
hash16_pair(key) ==
  LET h1 == bloom_hash[key]
      m  == XorShift(Times(HashBits, h1, Golden), HashBits \div 2)
  IN  <<h1, m + 1 - (m % 2)>>

\* Mutation: the shift is left out of the pair of a short key.
bloom_hash_pair_unmixed(key) ==
  IF key \notin Short THEN hash16_pair(key)
  ELSE LET h == bloom_hash[key]
           m == Times(HashBits, h, Golden)
       IN  <<h, m + 1 - (m % 2)>>

\* Of a key.
bloom_hash_pair(key) ==
  IF key \notin Short THEN hash16_pair(key)
  ELSE LET h == bloom_hash[key]
           m == XorShift(Times(HashBits, h, Golden), HashBits \div 2)
       IN  <<h, m + 1 - (m % 2)>>

\* Mutation: the second hash may be even.
prehash_split_even(h) == <<h, XorShift(Times(HashBits, h, Golden), HashBits \div 2)>>

\* Of a hash the caller hands in.
prehash_split(h) ==
  LET m == XorShift(Times(HashBits, h, Golden), HashBits \div 2)
  IN  <<h, m + 1 - (m % 2)>>

\* Where the bits of a pair are: pos starts at h1 and wraps as h2 is added.
Positions(pair) ==
  {((pair[1] + i * pair[2]) % Pow2[HashBits]) % (b.bit_mask + 1) : i \in 0 .. K_HASHES - 1}

get_bit(pos) == pos % WordBits \in b.words[pos \div WordBits]

contains_with_pair(pair) == \A pos \in Positions(pair) : get_bit(pos)

\* The words after a loop of insert_with_pair.
WordsWith(pairs) ==
  [j \in DOMAIN b.words |->
     b.words[j] \cup {pos % WordBits : pos \in
       {p \in UNION {Positions(pairs[n]) : n \in DOMAIN pairs} : p \div WordBits = j}}]

Init == b = NoFilter /\ added = {} /\ asked = <<>> /\ hits = 0

Live == b \notin {NoFilter, Spinning}

bloom_new(nbits) ==
  /\ b = NoFilter
  /\ b' = IF Powers(nbits) = {} THEN Spinning ELSE New(nbits)
  /\ UNCHANGED <<added, asked, hits>>

bloom_free ==
  /\ Live
  /\ b' = NoFilter
  /\ added' = {} /\ asked' = <<>> /\ hits' = 0

\* What an insert does with its pairs, and a query with its.
Insert(pairs) ==
  /\ Live
  /\ b' = [b EXCEPT !.words = WordsWith(pairs)]
  /\ added' = added \cup {pairs[n][1] : n \in DOMAIN pairs}
  /\ asked' = <<>> /\ hits' = 0

Ask(pairs) ==
  /\ Live
  /\ asked' = [n \in DOMAIN pairs |-> pairs[n][1]]
  /\ hits' = Cardinality({n \in DOMAIN pairs : contains_with_pair(pairs[n])})
  /\ UNCHANGED <<b, added>>

bloom_insert_bulk(keys) == Insert([n \in DOMAIN keys |-> bloom_hash_pair(keys[n])])

bloom_contains_bulk(keys) == Ask([n \in DOMAIN keys |-> bloom_hash_pair(keys[n])])

bloom_insert_prehash_bulk(hashes) == Insert([n \in DOMAIN hashes |-> prehash_split(hashes[n])])

bloom_contains_prehash_bulk(hashes) == Ask([n \in DOMAIN hashes |-> prehash_split(hashes[n])])

bloom_insert(key) == bloom_insert_bulk(<<key>>)

bloom_contains(key) == bloom_contains_bulk(<<key>>)

bloom_insert_prehash(h) == bloom_insert_prehash_bulk(<<h>>)

bloom_contains_prehash(h) == bloom_contains_prehash_bulk(<<h>>)

-----------------------------------------------------------------------------
\* What a call with these keys is to the promise.
Hashed(keys) == [n \in DOMAIN keys |-> bloom_hash[keys[n]]]

Promise ==
  INSTANCE MemberPromise WITH
    Batches <- HashBatches \cup {Hashed(ks) : ks \in KeyBatches} \cup {<<h>> : h \in Hash},
    intact <- TRUE

(***************************************************************************)
(* A query, by key or by hash, one or many, misses nothing that was        *)
(* inserted in any of these ways (:128-187): what was inserted as a key is *)
(* found by its hash and the other way round, which needs the same second  *)
(* hash of both, at either length (:33-35, :69-72, :156-161).              *)
(***************************************************************************)
PromiseKept == Promise!Spec

(***************************************************************************)
(* Every hash has K_HASHES bits of its own, "odd so adds keep cycling      *)
(* through residues" (:35), also in the smallest array and where the sum   *)
(* wraps, and whichever way its pair is made: fewer would make more false  *)
(* positives.                                                              *)
(***************************************************************************)
DistinctBits ==
  Live =>
    /\ \A h \in Hash : Cardinality(Positions(prehash_split(h))) = K_HASHES
    /\ \A key \in DOMAIN bloom_hash : Cardinality(Positions(bloom_hash_pair(key))) = K_HASHES
=============================================================================
