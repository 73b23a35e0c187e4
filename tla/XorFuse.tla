------------------------------ MODULE XorFuse ------------------------------
(***************************************************************************)
(* src/comparisons/bloom_xorfuse.c: the bloom_* functions on top of a      *)
(* binary fuse filter, which holds a fixed array of keys.  Keys are staged *)
(* in a buffer; a query builds the filter from all of them if it is not    *)
(* built; an insert throws a built filter away.                            *)
(*                                                                         *)
(* A filter is the set of the hashes it reports.  What populate does is in *)
(* BinaryFuse: from there come that a populated filter reports all keys    *)
(* (KeysReported) and that the buffer keeps them (KeysPreserved), so that  *)
(* the buffer is a set and a length here.  Results of allocation that the  *)
(* code does not look at are looked at here: a null pointer that is used   *)
(* ends the run in Crashed.                                                *)
(***************************************************************************)
EXTENDS SequencesExt, PowersOfTwo

CONSTANTS
  Hash,         \* 0 and 1, which build stages into an empty filter, among them
  bloom_hash,   \* key -> hash
  KeyBatches,   \* the arrays of keys a call may pass
  HashBatches,  \* the arrays of hashes a call may pass
  Reserve,      \* the elements bloom_new reserves, and
  MinCapacity,  \* those of the first growth of an empty buffer: 1024 in C
  MaxStaged,    \* bound: a call that would stage more is not made
  Fails,        \* what may fail: "new", "reserve", "realloc", "allocate", "populate"
  Unbuilt,      \* no Fingerprints
  Crashed

ASSUME HashAssumption ==
  /\ {0, 1} \subseteq Hash
  /\ bloom_hash \in [DOMAIN bloom_hash -> Hash]
  /\ KeyBatches \subseteq Seq(DOMAIN bloom_hash)
  /\ HashBatches \subseteq Seq(Hash)

ASSUME SizeAssumption == Reserve \in Nat /\ MinCapacity \in Nat \ {0} /\ MaxStaged \in Nat

VARIABLES
  x,            \* the wrapper xf_t
  added, asked, hits   \* history: what was inserted, the last query, its answer

vars == <<x, added, asked, hits>>

\* live: between bloom_new and bloom_free.  populated: what populate returned.
\* arrays: how many arrays of Fingerprints are allocated.
Wrapper ==
  [live : BOOLEAN, staged : SUBSET Hash, buf_len : 0 .. MaxStaged + 2, buf_cap : Nat,
   built : BOOLEAN, filter : {Unbuilt} \cup SUBSET Hash, populated : BOOLEAN, arrays : Nat]

ASSUME ValueAssumption == (\A F \in SUBSET Hash : F # Unbuilt) /\ Crashed \notin Wrapper

NoWrapper ==
  [live |-> FALSE, staged |-> {}, buf_len |-> 0, buf_cap |-> 0,
   built |-> FALSE, filter |-> Unbuilt, populated |-> FALSE, arrays |-> 0]

May(failure, outcomes) == IF failure \in Fails THEN outcomes ELSE {}

Hashed(keys) == [j \in DOMAIN keys |-> bloom_hash[keys[j]]]

\* Mutation: the buffer grows once at most.
Grown_once(cap, need) ==
  IF cap >= need THEN cap ELSE IF cap = 0 THEN MinCapacity ELSE 2 * cap

\* Doubling until need elements fit, in buf_push and in the bulk functions.
Grown(cap, need) ==
  LET sizes == {cap} \cup {(IF cap = 0 THEN MinCapacity ELSE cap) * Pow2[k] : k \in 0 .. need}
  IN  Min({c \in sizes : c >= need})

(***************************************************************************)
(* The outcomes of staging hashes: realloc's result is stored and written  *)
(* through unseen.                                                         *)
(***************************************************************************)
Push(w, hashes) ==
  LET len == w.buf_len + Len(hashes)
  IN  {[w EXCEPT !.staged = @ \cup ToSet(hashes), !.buf_len = len,
                 !.buf_cap = Grown(@, len)]}
      \cup IF len > w.buf_cap THEN May("realloc", {Crashed}) ELSE {}

(***************************************************************************)
(* The outcomes of build on a wrapper that is not built: binary_fuse8_     *)
(* allocate and binary_fuse8_populate, either of which may fail.  populate *)
(* writes to Fingerprints when it succeeds, and leaves them zero when it   *)
(* fails, which is some set of hashes reported.                            *)
(***************************************************************************)
Populate(w) ==
  LET done(F, ok, n) ==
        [w EXCEPT !.built = TRUE, !.filter = F, !.populated = ok, !.arrays = @ + n]
  IN  {done(F, TRUE, 1) : F \in {G \in SUBSET Hash : w.staged \subseteq G}}
      \cup May("populate", {done(F, FALSE, 1) : F \in SUBSET Hash})
      \cup May("allocate", {Crashed} \cup May("populate", {done(Unbuilt, FALSE, 0)}))

build(w) ==
  IF w = Crashed THEN {Crashed}
  ELSE IF w.built THEN {w}
  ELSE UNION {IF v = Crashed THEN {Crashed} ELSE Populate(v) :
              v \in IF w.buf_len = 0 THEN Push(w, <<0, 1>>) ELSE {w}}

\* Mutation: the flag is cleared and the filter kept.
FreeFilter_kept(w) == [w EXCEPT !.built = FALSE]

binary_fuse8_free(w) ==
  [w EXCEPT !.filter = Unbuilt, !.populated = FALSE,
            !.arrays = IF w.filter = Unbuilt THEN @ ELSE @ - 1]

\* Mutation: a filter that is built stays as it is.
Discarded_never(w) == w

FreeFilter(w) == [binary_fuse8_free(w) EXCEPT !.built = FALSE]

Discarded(w) == IF w.built THEN FreeFilter(w) ELSE w

Init == x = NoWrapper /\ added = {} /\ asked = <<>> /\ hits = 0

Live == x # Crashed /\ x.live

bloom_new ==
  /\ x = NoWrapper
  /\ x' \in {[NoWrapper EXCEPT !.live = TRUE, !.buf_cap = Reserve]}
            \cup May("reserve", {[NoWrapper EXCEPT !.live = TRUE]})
            \cup May("new", {NoWrapper})
  /\ UNCHANGED <<added, asked, hits>>

bloom_free ==
  /\ Live
  /\ x' = [NoWrapper EXCEPT !.arrays = Discarded(x).arrays]
  /\ added' = {} /\ asked' = <<>> /\ hits' = 0

\* What a call that stages hashes leaves, when it returns.
Staged(hashes, outcomes) ==
  /\ Live
  /\ x.buf_len + Len(hashes) <= MaxStaged
  /\ x' \in outcomes
  /\ IF x' = Crashed
     THEN UNCHANGED <<added, asked, hits>>
     ELSE added' = added \cup ToSet(hashes) /\ asked' = <<>> /\ hits' = 0

bloom_insert_prehash(h) == Staged(<<h>>, Push(Discarded(x), <<h>>))

bloom_insert(key) == bloom_insert_prehash(bloom_hash[key])

InsertBulk(hashes) == Staged(hashes, UNION {build(w) : w \in Push(Discarded(x), hashes)})

bloom_insert_prehash_bulk(hashes) == InsertBulk(hashes)

bloom_insert_bulk(keys) == InsertBulk(Hashed(keys))

\* A query builds first, then reads Fingerprints.
Query(hashes) ==
  /\ Live
  /\ \E w \in build(x) :
       IF w = Crashed \/ (hashes # <<>> /\ w.filter = Unbuilt)
       THEN x' = Crashed /\ UNCHANGED <<asked, hits>>
       ELSE /\ x' = w
            /\ asked' = hashes
            /\ hits' = Cardinality({j \in DOMAIN hashes : hashes[j] \in w.filter})
  /\ UNCHANGED added

bloom_contains_prehash(h) == Query(<<h>>)

bloom_contains(key) == Query(<<bloom_hash[key]>>)

bloom_contains_prehash_bulk(hashes) == Query(hashes)

bloom_contains_bulk(keys) == Query(Hashed(keys))

Next ==
  \/ bloom_new \/ bloom_free
  \/ \E h \in Hash : bloom_insert_prehash(h) \/ bloom_contains_prehash(h)
  \/ \E key \in DOMAIN bloom_hash : bloom_insert(key) \/ bloom_contains(key)
  \/ \E hs \in HashBatches : bloom_insert_prehash_bulk(hs) \/ bloom_contains_prehash_bulk(hs)
  \/ \E ks \in KeyBatches : bloom_insert_bulk(ks) \/ bloom_contains_bulk(ks)

Spec == Init /\ [][Next]_vars

-----------------------------------------------------------------------------
\* Types, and that the staged keys are inside the buffer (:88, :157, :183).
TypeOK ==
  /\ x \in Wrapper \cup {Crashed}
  /\ x # Crashed => x.buf_len <= x.buf_cap
  /\ added \subseteq Hash

Promise ==
  INSTANCE MemberPromise WITH
    Batches <- HashBatches \cup {Hashed(ks) : ks \in KeyBatches} \cup {<<h>> : h \in Hash},
    intact <- x # Crashed /\ (x.filter = Unbuilt \/ x.populated)

(***************************************************************************)
(* Whatever the order of inserts, queries and builds, and whichever form   *)
(* of call was used, a query misses nothing inserted, unless the very      *)
(* filter it reads is one whose populate failed: an earlier failure that   *)
(* an insert has thrown away does no harm (:12-18, :133, :139).            *)
(***************************************************************************)
PromiseKept == Promise!Spec

(***************************************************************************)
(* The wrapper owns at most one array, the one it reads; bloom_free and a  *)
(* rebuild leave none behind (:122, :133, :155, :182).                     *)
(***************************************************************************)
ArraysOwned ==
  x # Crashed => x.arrays = IF x.live /\ x.built /\ x.filter # Unbuilt THEN 1 ELSE 0

(***************************************************************************)
(* The comment of the field (:84): "1 once binary_fuse8_populate has       *)
(* succeeded".                                                             *)
(***************************************************************************)
BuiltMeansPopulated == x # Crashed /\ x.built => x.populated
=============================================================================
