--------------------------- MODULE XorFuseProofs ---------------------------
(*************************************************************************)
(* Why the shim of src/comparisons/bloom_xorfuse.c keeps the promise of  *)
(* every filter behind the bloom_* functions, whatever fails: between    *)
(* two calls a wrapper that was not lost is sound, which is to say that  *)
(* its buffer holds what it counts, that it owns the one array it reads, *)
(* and that a filter that was populated reports all that is staged.      *)
(*************************************************************************)
EXTENDS XorFuse, WordsProofs

Sound(w) ==
  /\ w.buf_len <= w.buf_cap
  /\ w.arrays = IF w.filter = Unbuilt THEN 0 ELSE 1
  /\ w.filter # Unbuilt => w.live /\ w.built
  /\ w.populated => w.filter # Unbuilt /\ w.staged \subseteq w.filter
  /\ ~ w.live => w = NoWrapper

\* A wrapper in use.
Usable(w) == w \in Wrapper /\ Sound(w) /\ w.live

\* Nothing that was inserted is missing from the buffer, which a failed
\* populate leaves as it is.
StagingInv ==
  /\ x \in Wrapper \cup {Crashed}
  /\ added \subseteq Hash
  /\ x # Crashed => Sound(x) /\ added \subseteq x.staged

-----------------------------------------------------------------------------
\* The doubling of the buffer (:90, :158) ends at a capacity that suffices, also
\* from the empty buffer that a failed reservation leaves.
LEMMA GrownFits ==
  ASSUME NEW cap \in Nat, NEW need \in Nat
  PROVE  Grown(cap, need) \in Nat /\ Grown(cap, need) >= need
<1> DEFINE base == IF cap = 0 THEN MinCapacity ELSE cap
           sizes == {cap} \cup {base * Pow2[k] : k \in 0 .. need}
           large == {c \in sizes : c >= need}
<1>1. base \in Nat /\ base >= 1
  BY SizeAssumption
<1> HIDE DEF base
<1>2. \A a, b \in Nat : a >= 1 => a * b \in Nat /\ a * b >= b
  OBVIOUS
<1>3. \A k \in Nat : base * Pow2[k] \in Nat /\ base * Pow2[k] >= Pow2[k]
  BY <1>1, <1>2, Pow2Type
<1>4. large \in SUBSET Nat
  BY <1>3
<1>5. base * Pow2[need] \in large
  BY <1>3, Pow2Exceeds, Pow2Type
<1>6. \E m \in large : \A n \in large : m <= n
  BY <1>4, <1>5, LeastNatural
<1>7. Min(large) \in large
  BY <1>6 DEF Min
<1>8. Grown(cap, need) = Min(large)
  BY DEF Grown, base
<1> QED
  BY <1>4, <1>7, <1>8

\* Staging (:87, :157, :183) keeps a wrapper that has no filter usable, unless
\* realloc failed: the staged keys are in the buffer and nothing else changes.
LEMMA PushKeeps ==
  ASSUME NEW w, Usable(w), ~ w.built, NEW hashes \in Seq(Hash),
         w.buf_len + Len(hashes) <= MaxStaged + 2,
         NEW v \in Push(w, hashes), v # Crashed
  PROVE  /\ Usable(v) /\ ~ v.built
         /\ v.staged = w.staged \cup ToSet(hashes)
         /\ v.buf_len = w.buf_len + Len(hashes)
<1> DEFINE len == w.buf_len + Len(hashes)
<1>1. v = [w EXCEPT !.staged = @ \cup ToSet(hashes), !.buf_len = len,
                    !.buf_cap = Grown(@, len)]
  BY DEF Push, May
<1>2. w.buf_len \in Nat /\ Len(hashes) \in Nat /\ len \in 0 .. MaxStaged + 2
  BY SizeAssumption DEF Usable, Wrapper
<1>3. Grown(w.buf_cap, len) \in Nat /\ Grown(w.buf_cap, len) >= len
  BY <1>2, GrownFits DEF Usable, Wrapper
<1>4. ToSet(hashes) \subseteq Hash
  BY DEF ToSet
<1> HIDE DEF len
<1>5. /\ v.staged = w.staged \cup ToSet(hashes) /\ v.buf_len = len
      /\ v.buf_cap = Grown(w.buf_cap, len)
      /\ v.live = w.live /\ v.built = w.built /\ v.filter = w.filter
      /\ v.populated = w.populated /\ v.arrays = w.arrays
  BY <1>1 DEF Usable, Wrapper
<1>6. v \in Wrapper
  BY <1>1, <1>2, <1>3, <1>4 DEF Usable, Wrapper
<1>7. w.filter = Unbuilt /\ ~ w.populated
  BY DEF Usable, Sound
<1> QED
  BY <1>3, <1>5, <1>6, <1>7 DEF Usable, Sound, len

\* A wrapper that was built of one without a filter.
LEMMA BuiltUsable ==
  ASSUME NEW w, Usable(w), ~ w.built,
         NEW F \in {Unbuilt} \cup SUBSET Hash, NEW ok \in BOOLEAN, NEW n \in {0, 1},
         F = Unbuilt <=> n = 0, ok => F # Unbuilt /\ w.staged \subseteq F
  PROVE  LET v == [w EXCEPT !.built = TRUE, !.filter = F, !.populated = ok, !.arrays = @ + n]
         IN  Usable(v) /\ v.staged = w.staged
<1> DEFINE v == [w EXCEPT !.built = TRUE, !.filter = F, !.populated = ok, !.arrays = @ + n]
<1>1. w.filter = Unbuilt /\ w.arrays = 0 /\ w.arrays + n = n
  BY DEF Usable, Sound
<1>2. v = [[[w EXCEPT !.built = TRUE, !.filter = F] EXCEPT !.arrays = n] EXCEPT !.populated = ok]
  BY <1>1
<1> HIDE DEF v
<1> DEFINE u == [w EXCEPT !.built = TRUE, !.filter = F]
<1>3. /\ u \in Wrapper /\ u.built = TRUE /\ u.filter = F
      /\ u.live = w.live /\ u.staged = w.staged /\ u.buf_len = w.buf_len
      /\ u.buf_cap = w.buf_cap
  BY DEF Usable, Wrapper
<1> HIDE DEF u
<1> DEFINE s == [u EXCEPT !.arrays = n]
<1>4. /\ s \in Wrapper /\ s.built = TRUE /\ s.filter = F /\ s.arrays = n
      /\ s.live = w.live /\ s.staged = w.staged /\ s.buf_len = w.buf_len
      /\ s.buf_cap = w.buf_cap
  BY <1>3 DEF Wrapper
<1>5. v = [s EXCEPT !.populated = ok]
  BY <1>2 DEF u
<1> HIDE DEF s
<1>6. /\ v \in Wrapper /\ v.built = TRUE /\ v.filter = F /\ v.populated = ok /\ v.arrays = n
      /\ v.live = w.live /\ v.staged = w.staged /\ v.buf_len = w.buf_len
      /\ v.buf_cap = w.buf_cap
  BY <1>4, <1>5 DEF Wrapper
<1>7. v.buf_len <= v.buf_cap /\ v.live
  BY <1>6 DEF Usable, Sound
<1> QED
  BY <1>6, <1>7 DEF Usable, Sound, v

\* Building (:102-104) keeps a usable wrapper usable, unless allocate failed and
\* populate wrote all the same.
LEMMA PopulateKeeps ==
  ASSUME NEW w, Usable(w), ~ w.built, NEW v \in Populate(w), v # Crashed
  PROVE  Usable(v) /\ v.staged = w.staged
<1> DEFINE After(F, ok, n) ==
             [w EXCEPT !.built = TRUE, !.filter = F, !.populated = ok, !.arrays = @ + n]
<1>1. CASE \E F \in SUBSET Hash : v = After(F, TRUE, 1) /\ w.staged \subseteq F
  <2>1. PICK F \in SUBSET Hash : v = After(F, TRUE, 1) /\ w.staged \subseteq F
    BY <1>1
  <2>2. F \in {Unbuilt} \cup SUBSET Hash /\ (F = Unbuilt <=> 1 = 0)
    BY ValueAssumption
  <2>3. TRUE => F # Unbuilt /\ w.staged \subseteq F
    BY <2>1, <2>2
  <2>4. Usable(After(F, TRUE, 1)) /\ After(F, TRUE, 1).staged = w.staged
    BY <2>2, <2>3, BuiltUsable, 1 \in {0, 1}, TRUE \in BOOLEAN
  <2> QED
    BY <2>1, <2>4
<1>2. CASE \E F \in SUBSET Hash : v = After(F, FALSE, 1)
  <2>1. PICK F \in SUBSET Hash : v = After(F, FALSE, 1)
    BY <1>2
  <2>2. F \in {Unbuilt} \cup SUBSET Hash /\ (F = Unbuilt <=> 1 = 0)
    BY ValueAssumption
  <2>3. FALSE => F # Unbuilt /\ w.staged \subseteq F
    BY <2>1, <2>2
  <2>4. Usable(After(F, FALSE, 1)) /\ After(F, FALSE, 1).staged = w.staged
    BY <2>2, <2>3, BuiltUsable, 1 \in {0, 1}, FALSE \in BOOLEAN
  <2> QED
    BY <2>1, <2>4
<1>3. CASE v = After(Unbuilt, FALSE, 0)
  BY <1>3, BuiltUsable
<1>4. \/ \E F \in SUBSET Hash : v = After(F, TRUE, 1) /\ w.staged \subseteq F
      \/ \E F \in SUBSET Hash : v = After(F, FALSE, 1)
      \/ v = After(Unbuilt, FALSE, 0)
  BY DEF Populate, May
<1> QED
  BY <1>1, <1>2, <1>3, <1>4

\* What build leaves is usable and has all that was staged, though it stages two
\* keys of its own in an empty buffer (:98-101).
LEMMA BuildKeeps ==
  ASSUME NEW w, Usable(w), NEW v \in build(w), v # Crashed
  PROVE  Usable(v) /\ w.staged \subseteq v.staged
<1>0. w # Crashed
  BY ValueAssumption DEF Usable
<1>1. CASE w.built
  BY <1>0, <1>1 DEF build
<1>2. CASE ~ w.built
  <2>1. PICK u \in (IF w.buf_len = 0 THEN Push(w, <<0, 1>>) ELSE {w}) :
          u # Crashed /\ v \in Populate(u)
    <3> DEFINE before == IF w.buf_len = 0 THEN Push(w, <<0, 1>>) ELSE {w}
    <3>1. v \in UNION {IF u = Crashed THEN {Crashed} ELSE Populate(u) : u \in before}
      BY <1>0, <1>2 DEF build
    <3>2. PICK u \in before : v \in (IF u = Crashed THEN {Crashed} ELSE Populate(u))
      <4> HIDE DEF before
      <4> QED
        BY <3>1
    <3> QED
      BY <3>2
  <2>2. Usable(u) /\ ~ u.built /\ w.staged \subseteq u.staged
    <3>1. CASE w.buf_len = 0
      <4>1. <<0, 1>> \in Seq(Hash) /\ Len(<<0, 1>>) = 2
        BY HashAssumption
      <4>2. w.buf_len + Len(<<0, 1>>) <= MaxStaged + 2
        BY <3>1, <4>1, SizeAssumption
      <4> QED
        <5>1. u \in Push(w, <<0, 1>>)
          BY <2>1, <3>1
        <5> HIDE DEF Push
        <5>2. Usable(u) /\ ~ u.built /\ u.staged = w.staged \cup ToSet(<<0, 1>>)
          BY <1>2, <2>1, <4>1, <4>2, <5>1, PushKeeps
        <5> QED
          BY <5>2
    <3>2. CASE w.buf_len # 0
      BY <1>2, <2>1, <3>2
    <3> QED
      BY <3>1, <3>2
  <2> QED
    BY <2>1, <2>2, PopulateKeeps
<1> QED
  BY <1>1, <1>2

\* Throwing the filter away (:133, :155, :182) gives its array back and keeps
\* the buffer.
LEMMA DiscardKeeps ==
  ASSUME NEW w, Usable(w)
  PROVE  LET v == Discarded(w) IN
         /\ Usable(v) /\ ~ v.built /\ v.filter = Unbuilt /\ v.arrays = 0
         /\ v.staged = w.staged /\ v.buf_len = w.buf_len
<1> DEFINE v == Discarded(w)
<1>1. CASE ~ w.built
  BY <1>1 DEF Discarded, Usable, Sound
<1>2. CASE w.built
  <2> DEFINE n == IF w.filter = Unbuilt THEN w.arrays ELSE w.arrays - 1
             u == binary_fuse8_free(w)
  <2>1. n = 0
    BY DEF Usable, Sound
  <2>2. u = [w EXCEPT !.filter = Unbuilt, !.populated = FALSE, !.arrays = n]
    BY DEF binary_fuse8_free
  <2> HIDE DEF n, u
  <2> DEFINE a == [w EXCEPT !.filter = Unbuilt, !.arrays = n]
  <2>3. u = [a EXCEPT !.populated = FALSE]
    BY <2>2
  <2>4. /\ a \in Wrapper /\ a.filter = Unbuilt /\ a.arrays = 0
        /\ a.live /\ a.staged = w.staged /\ a.buf_len = w.buf_len /\ a.buf_cap = w.buf_cap
    BY <2>1 DEF Usable, Wrapper
  <2> HIDE DEF a
  <2>5. /\ u \in Wrapper /\ u.filter = Unbuilt /\ u.populated = FALSE /\ u.arrays = 0
        /\ u.live /\ u.staged = w.staged /\ u.buf_len = w.buf_len /\ u.buf_cap = w.buf_cap
    BY <2>3, <2>4 DEF Wrapper
  <2>6. v = [u EXCEPT !.built = FALSE]
    BY <1>2 DEF Discarded, FreeFilter, u
  <2> HIDE DEF v
  <2>7. /\ v \in Wrapper /\ v.filter = Unbuilt /\ v.populated = FALSE /\ v.arrays = 0
        /\ v.live /\ v.staged = w.staged /\ v.buf_len = w.buf_len /\ v.buf_cap = w.buf_cap
        /\ v.built = FALSE
    BY <2>5, <2>6 DEF Wrapper
  <2>8. Usable(v)
    BY <2>7 DEF Usable, Sound
  <2> QED
    BY <2>7, <2>8 DEF v
<1> QED
  BY <1>1, <1>2

-----------------------------------------------------------------------------
(***************************************************************************)
(* The invariant, call by call; and each call as a step of the promise.    *)
(***************************************************************************)
AllBatches == HashBatches \cup {Hashed(ks) : ks \in KeyBatches} \cup {<<h>> : h \in Hash}

\* intact, as the promise sees it.
IntactOf(w) == w # Crashed /\ (w.filter = Unbuilt \/ w.populated)

\* What a call passes on is an array of hashes, the batch of one too.
LEMMA BatchHashes ==
  /\ AllBatches \subseteq Seq(Hash)
  /\ \A key \in DOMAIN bloom_hash : bloom_hash[key] \in Hash
<1>1. ASSUME NEW ks \in KeyBatches PROVE Hashed(ks) \in Seq(Hash)
  BY HashAssumption DEF Hashed
<1>2. ASSUME NEW h \in Hash PROVE <<h>> \in Seq(Hash)
  OBVIOUS
<1>3. HashBatches \subseteq Seq(Hash)
  BY HashAssumption
<1>4. \A key \in DOMAIN bloom_hash : bloom_hash[key] \in Hash
  BY HashAssumption
<1> HIDE DEF Hashed
<1>5. AllBatches \subseteq Seq(Hash)
  BY <1>1, <1>2, <1>3 DEF AllBatches
<1> QED
  BY <1>4, <1>5

\* The promise counts with the same cardinality.
LEMMA SameCardinality ==
  \A S : Promise!Cardinality(S) = Cardinality(S)
BY DEF Promise!Cardinality, Cardinality

\* A call that stages hashes, with some outcomes of it.
LEMMA StagedKeeps ==
  ASSUME StagingInv, NEW hashes \in AllBatches, NEW outcomes, Staged(hashes, outcomes),
         \A v \in outcomes : v # Crashed =>
            Usable(v) /\ x.staged \cup ToSet(hashes) \subseteq v.staged
  PROVE  StagingInv' /\ (Promise!Add \/ Promise!Lose)
<1>1. x' \in outcomes /\ hashes \in Seq(Hash) /\ ToSet(hashes) \subseteq Hash
  BY BatchHashes DEF Staged, ToSet
<1>2. x # Crashed /\ added \subseteq x.staged
  BY DEF Staged, Live, StagingInv
<1>3. CASE x' = Crashed
  <2>1. UNCHANGED <<added, asked, hits>> /\ ~ IntactOf(x')
    BY <1>3 DEF Staged, IntactOf
  <2> QED
    BY <1>3, <2>1 DEF StagingInv, Promise!Lose, IntactOf
<1>4. CASE x' # Crashed
  <2>1. added' = added \cup ToSet(hashes) /\ asked' = <<>> /\ hits' = 0
    BY <1>4 DEF Staged
  <2>2. Usable(x') /\ added' \subseteq x'.staged
    BY <1>1, <1>2, <1>4, <2>1
  <2>3. Promise!Add
    <3>1. hashes \in HashBatches \cup {Hashed(ks) : ks \in KeyBatches} \cup {<<h>> : h \in Hash}
      BY DEF AllBatches
    <3>2. added' = added \cup {hashes[j] : j \in DOMAIN hashes}
      BY <2>1 DEF ToSet
    <3> QED
      BY <2>1, <3>1, <3>2 DEF Promise!Add
  <2> QED
    BY <1>1, <2>1, <2>2, <2>3 DEF StagingInv, Usable
<1> QED
  BY <1>3, <1>4

LEMMA InsertKeeps ==
  ASSUME StagingInv, NEW h \in Hash, bloom_insert_prehash(h)
  PROVE  StagingInv' /\ (Promise!Add \/ Promise!Lose)
<1> DEFINE d == Discarded(x)
<1>1. Usable(x) /\ <<h>> \in Seq(Hash) /\ Len(<<h>>) = 1
  BY DEF bloom_insert_prehash, Staged, Live, StagingInv, Usable
<1>2. Usable(d) /\ ~ d.built /\ d.staged = x.staged /\ d.buf_len = x.buf_len
  BY <1>1, DiscardKeeps
<1>3. x.buf_len \in Nat /\ x.buf_len + Len(<<h>>) <= MaxStaged
  BY <1>1 DEF bloom_insert_prehash, Staged, Usable, Wrapper
<1> HIDE DEF d
<1>4. d.buf_len + Len(<<h>>) <= MaxStaged + 2
  BY <1>1, <1>2, <1>3, SizeAssumption
<1>5. \A v \in Push(d, <<h>>) : v # Crashed =>
         Usable(v) /\ x.staged \cup ToSet(<<h>>) \subseteq v.staged
  <2> SUFFICES ASSUME NEW v \in Push(d, <<h>>), v # Crashed
               PROVE  Usable(v) /\ x.staged \cup ToSet(<<h>>) \subseteq v.staged
    OBVIOUS
  <2>1. Usable(v) /\ v.staged = d.staged \cup ToSet(<<h>>)
    BY <1>1, <1>2, <1>4, PushKeeps
  <2> QED
    BY <1>2, <2>1
<1> QED
  BY <1>5, StagedKeeps DEF bloom_insert_prehash, AllBatches, d

LEMMA InsertBulkKeeps ==
  ASSUME StagingInv, NEW hashes \in AllBatches, InsertBulk(hashes)
  PROVE  StagingInv' /\ (Promise!Add \/ Promise!Lose)
<1> DEFINE d == Discarded(x)
           outcomes == UNION {build(w) : w \in Push(d, hashes)}
<1>1. Usable(x) /\ hashes \in Seq(Hash)
  BY BatchHashes DEF InsertBulk, Staged, Live, StagingInv, Usable
<1>2. Usable(d) /\ ~ d.built /\ d.staged = x.staged /\ d.buf_len = x.buf_len
  BY <1>1, DiscardKeeps
<1>3. x.buf_len \in Nat /\ Len(hashes) \in Nat /\ x.buf_len + Len(hashes) <= MaxStaged
  BY <1>1 DEF InsertBulk, Staged, Usable, Wrapper
<1>4. Staged(hashes, outcomes)
  BY DEF InsertBulk
<1> HIDE DEF d
<1>5. d.buf_len + Len(hashes) <= MaxStaged + 2
  BY <1>2, <1>3, SizeAssumption
<1>6. ASSUME NEW v \in outcomes, v # Crashed
      PROVE  Usable(v) /\ x.staged \cup ToSet(hashes) \subseteq v.staged
  <2>1. PICK w \in Push(d, hashes) : v \in build(w)
    OBVIOUS
  <2>2. w # Crashed
    BY <1>6, <2>1 DEF build
  <2>3. Usable(w) /\ w.staged = x.staged \cup ToSet(hashes)
    BY <1>1, <1>2, <1>5, <2>1, <2>2, PushKeeps
  <2> QED
    BY <1>6, <2>1, <2>3, BuildKeeps
<1> HIDE DEF outcomes
<1> QED
  BY <1>4, <1>6, StagedKeeps

\* A query counts at least the inserted hashes among its own, when the filter it
\* reads was populated (:139, :172, :196).
LEMMA QueryKeeps ==
  ASSUME StagingInv, NEW hashes \in AllBatches, Query(hashes)
  PROVE  StagingInv' /\ (Promise!Ask \/ Promise!Lose)
<1>1. Usable(x) /\ hashes \in Seq(Hash) /\ added' = added /\ added \subseteq x.staged
  BY BatchHashes DEF Query, Live, StagingInv, Usable
<1>2. PICK w \in build(x) :
        IF w = Crashed \/ (hashes # <<>> /\ w.filter = Unbuilt)
        THEN x' = Crashed /\ UNCHANGED <<asked, hits>>
        ELSE /\ x' = w
             /\ asked' = hashes
             /\ hits' = Cardinality({j \in DOMAIN hashes : hashes[j] \in w.filter})
  BY DEF Query
<1>3. CASE w = Crashed \/ (hashes # <<>> /\ w.filter = Unbuilt)
  BY <1>1, <1>2, <1>3 DEF StagingInv, Promise!Lose
<1>4. CASE w # Crashed /\ (hashes = <<>> \/ w.filter # Unbuilt)
  <2> DEFINE found == {j \in DOMAIN hashes : hashes[j] \in w.filter}
             present == {j \in DOMAIN hashes : hashes[j] \in added}
  <2>1. x' = w /\ asked' = hashes /\ hits' = Cardinality(found)
    BY <1>2, <1>4
  <2>2. Usable(w) /\ x.staged \subseteq w.staged
    BY <1>1, <1>4, BuildKeeps
  <2>3. StagingInv'
    BY <1>1, <1>4, <2>1, <2>2 DEF StagingInv, Usable
  <2>4. /\ IsFiniteSet(DOMAIN hashes) /\ Cardinality(DOMAIN hashes) = Len(hashes)
        /\ Len(hashes) \in Nat
    <3>1. DOMAIN hashes = 1 .. Len(hashes) /\ Len(hashes) \in Nat
      BY <1>1
    <3>2. IsFiniteSet(1 .. Len(hashes)) /\ Cardinality(1 .. Len(hashes)) = Len(hashes)
      <4>1. \A n \in Nat : IsFiniteSet(1 .. n) /\ Cardinality(1 .. n) = n
        BY FS_Interval
      <4> QED
        BY <3>1, <4>1
    <3> QED
      BY <3>1, <3>2
  <2>5. IsFiniteSet(found) /\ Cardinality(found) <= Len(hashes)
    BY <2>4, FS_Subset, found \in SUBSET DOMAIN hashes
  <2>6. Cardinality(found) \in 0 .. Len(hashes)
    BY <2>4, <2>5, FS_CardinalityType
  <2>7. IntactOf(w) => Cardinality(found) >= Cardinality(present)
    <3> SUFFICES ASSUME IntactOf(w) PROVE Cardinality(found) >= Cardinality(present)
      OBVIOUS
    <3>1. present \subseteq found
      <4>1. CASE hashes = <<>>
        BY <4>1
      <4>2. CASE w.filter # Unbuilt
        <5>1. w.populated /\ w.staged \subseteq w.filter
          BY <2>2, <4>2 DEF IntactOf, Usable, Sound
        <5> QED
          BY <1>1, <2>2, <5>1
      <4> QED
        BY <1>4, <4>1, <4>2
    <3>2. IsFiniteSet(present) /\ Cardinality(present) <= Cardinality(found)
      BY <2>5, <3>1, FS_Subset
    <3>3. Cardinality(present) \in Nat /\ Cardinality(found) \in Nat
      BY <2>5, <3>2, FS_CardinalityType
    <3> QED
      BY <3>2, <3>3
  <2>8. hashes \in HashBatches \cup {Hashed(ks) : ks \in KeyBatches} \cup {<<h>> : h \in Hash}
    BY DEF AllBatches
  <2>9. Promise!Ask
    <3>1. Promise!Present(asked', added) = Cardinality(present)
      BY <2>1, SameCardinality DEF Promise!Present
    <3>2. hits' \in 0 .. Len(asked') /\ UNCHANGED added
      BY <1>1, <2>1, <2>6
    <3>3. IntactOf(x') => hits' >= Promise!Present(asked', added)
      BY <2>1, <2>7, <3>1
    <3>4. asked' \in HashBatches \cup {Hashed(ks) : ks \in KeyBatches} \cup {<<h>> : h \in Hash}
      BY <2>1, <2>8
    <3> QED
      BY <3>2, <3>3, <3>4 DEF Promise!Ask, IntactOf
  <2> QED
    BY <2>3, <2>9
<1> QED
  BY <1>2, <1>3, <1>4

\* A new wrapper has nothing staged, whether the reservation succeeded or not.
LEMMA NewKeeps ==
  ASSUME StagingInv, bloom_new
  PROVE  StagingInv' /\ UNCHANGED <<added, asked, hits, IntactOf(x)>>
<1>1. x = NoWrapper /\ NoWrapper # Crashed /\ UNCHANGED <<added, asked, hits>>
  <2>1. x = NoWrapper /\ UNCHANGED <<added, asked, hits>>
    BY DEF bloom_new
  <2>2. NoWrapper \in Wrapper
    BY SizeAssumption DEF NoWrapper, Wrapper
  <2> QED
    BY <2>1, <2>2, ValueAssumption
<1>2. PICK cap \in {0, Reserve} :
        x' = NoWrapper \/ x' = [NoWrapper EXCEPT !.live = TRUE, !.buf_cap = cap]
  BY DEF bloom_new, May, NoWrapper
<1>3. NoWrapper \in Wrapper
  BY SizeAssumption DEF NoWrapper, Wrapper
<1>4. CASE x' = NoWrapper
  BY <1>1, <1>4 DEF StagingInv, IntactOf
<1>5. CASE x' = [NoWrapper EXCEPT !.live = TRUE, !.buf_cap = cap]
  <2>1. /\ x' \in Wrapper /\ x'.live = TRUE /\ x'.buf_cap = cap /\ x'.buf_len = 0
        /\ x'.staged = {} /\ x'.built = FALSE /\ x'.filter = Unbuilt
        /\ x'.populated = FALSE /\ x'.arrays = 0
    BY <1>3, <1>5, SizeAssumption DEF NoWrapper, Wrapper
  <2>2. x' # Crashed /\ Sound(x') /\ added' \subseteq x'.staged
    <3>1. added = {}
      BY <1>1 DEF StagingInv, NoWrapper
    <3> QED
      BY <1>1, <2>1, <3>1, SizeAssumption, ValueAssumption DEF Sound
  <2>3. IntactOf(x') = TRUE /\ IntactOf(x) = TRUE
    BY <1>1, <2>1, <2>2 DEF IntactOf, NoWrapper
  <2> QED
    BY <1>1, <2>1, <2>2, <2>3 DEF StagingInv
<1> QED
  BY <1>2, <1>4, <1>5

\* Freeing gives back the array and leaves no wrapper (:119-125).
LEMMA FreeKeeps ==
  ASSUME StagingInv, bloom_free
  PROVE  StagingInv' /\ Promise!Drop
<1>1. Usable(x)
  BY DEF bloom_free, Live, StagingInv, Usable
<1>2. Discarded(x).arrays = 0
  BY <1>1, DiscardKeeps
<1>3. x' = NoWrapper
  BY <1>2 DEF bloom_free, NoWrapper
<1>4. NoWrapper \in Wrapper /\ Sound(NoWrapper)
  BY SizeAssumption DEF NoWrapper, Wrapper, Sound
<1> QED
  BY <1>3, <1>4 DEF bloom_free, StagingInv, Promise!Drop

LEMMA StagingInit ==
  Init => StagingInv /\ Promise!Init
<1> SUFFICES ASSUME Init PROVE StagingInv /\ Promise!Init
  OBVIOUS
<1>1. NoWrapper \in Wrapper /\ Sound(NoWrapper)
  BY SizeAssumption DEF NoWrapper, Wrapper, Sound
<1>2. NoWrapper # Crashed
  BY <1>1, ValueAssumption
<1> QED
  BY <1>1, <1>2 DEF Init, StagingInv, Promise!Init, NoWrapper

\* A step of the shim is one of the promise, or none.
StepKept ==
  \/ Promise!Add \/ Promise!Ask \/ Promise!Drop \/ Promise!Lose
  \/ UNCHANGED <<added, asked, hits, IntactOf(x)>>

LEMMA StagingNext ==
  StagingInv /\ [Next]_vars => StagingInv' /\ StepKept
<1> SUFFICES ASSUME StagingInv, [Next]_vars PROVE StagingInv' /\ StepKept
  OBVIOUS
<1>0. ASSUME NEW hs \in AllBatches, InsertBulk(hs) \/ Query(hs)
      PROVE  StagingInv' /\ StepKept
  BY <1>0, InsertBulkKeeps, QueryKeeps DEF StepKept
<1>1. CASE bloom_new
  BY <1>1, NewKeeps DEF StepKept
<1>2. CASE bloom_free
  BY <1>2, FreeKeeps DEF StepKept
<1>3. ASSUME NEW h \in Hash, bloom_insert_prehash(h) PROVE StagingInv' /\ StepKept
  BY <1>3, InsertKeeps DEF StepKept
<1>4. ASSUME NEW h \in Hash, bloom_contains_prehash(h) PROVE StagingInv' /\ StepKept
  BY <1>0, <1>4 DEF bloom_contains_prehash, AllBatches
<1>5. ASSUME NEW key \in DOMAIN bloom_hash, bloom_insert(key) \/ bloom_contains(key)
      PROVE  StagingInv' /\ StepKept
  <2>1. bloom_hash[key] \in Hash
    BY BatchHashes
  <2> QED
    BY <1>3, <1>4, <1>5, <2>1 DEF bloom_insert, bloom_contains, bloom_contains_prehash
<1>6. ASSUME NEW hs \in HashBatches,
             bloom_insert_prehash_bulk(hs) \/ bloom_contains_prehash_bulk(hs)
      PROVE  StagingInv' /\ StepKept
  BY <1>0, <1>6 DEF bloom_insert_prehash_bulk, bloom_contains_prehash_bulk, AllBatches
<1>7. ASSUME NEW ks \in KeyBatches, bloom_insert_bulk(ks) \/ bloom_contains_bulk(ks)
      PROVE  StagingInv' /\ StepKept
  BY <1>0, <1>7 DEF bloom_insert_bulk, bloom_contains_bulk, AllBatches
<1>8. CASE UNCHANGED vars
  BY <1>8 DEF vars, StagingInv, StepKept
<1> QED
  BY <1>1, <1>2, <1>3, <1>4, <1>5, <1>6, <1>7, <1>8 DEF Next

THEOREM StagingAlways ==
  Spec => []StagingInv
BY StagingInit, StagingNext, PTL DEF Spec

\* Types, and the bound of the buffer: no key is written past its end.
THEOREM TypeCorrect ==
  Spec => []TypeOK
<1>1. StagingInv => TypeOK
  BY DEF StagingInv, TypeOK, Sound
<1> QED
  BY <1>1, StagingAlways, PTL

\* The wrapper owns the array it reads and no other, whatever fails and in
\* whatever order calls come.
THEOREM ArraysAccounted ==
  Spec => []ArraysOwned
<1>1. StagingInv => ArraysOwned
  BY DEF StagingInv, ArraysOwned, Sound
<1> QED
  BY <1>1, StagingAlways, PTL

\* A query misses nothing that was inserted unless the filter it reads is one
\* whose populate failed, for every set of hashes, every way of batching them
\* and every failure.
THEOREM PromiseAlways ==
  Spec => PromiseKept
<1>1. StepKept <=> [Promise!Add \/ Promise!Ask \/ Promise!Drop \/ Promise!Lose]_<<added, asked, hits, IntactOf(x)>>
  BY DEF StepKept
<1> QED
  BY <1>1, StagingInit, StagingNext, StagingAlways, PTL
     DEF Spec, PromiseKept, Promise!Spec, IntactOf

=============================================================================
