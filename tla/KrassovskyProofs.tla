-------------------------- MODULE KrassovskyProofs --------------------------
(*************************************************************************)
(* Why the filter of src/comparisons/bloom_krassovsky.c misses nothing,  *)
(* and why none of its masks is empty or crowded, for every width of the *)
(* table and whatever was drawn.  The table is one long string of bits;  *)
(* mask number idx is the window of BITS_PER_MASK of them that starts at *)
(* idx.  While the table is made every window that is complete is within *)
(* the bounds, and cur counts the last one.                              *)
(*************************************************************************)
EXTENDS Krassovsky, WordsProofs

Window(idx) == MASK_TABLE \cap (idx .. idx + BITS_PER_MASK - 1)
Ones(idx) == Cardinality(Window(idx))
Bounded(idx) == Ones(idx) \in MIN_BITS_SET .. MAX_BITS_SET

TableInv ==
  /\ pc \in {"ready", "pattern", "slide", "make"}
  /\ MASK_TABLE \subseteq Nat
  /\ mask_table_inited \in BOOLEAN
  /\ mask_table_inited =>
       pc \in {"ready", "make"} /\ \A idx \in 0 .. NUM_MASKS - 1 : Bounded(idx)
  /\ pc = "make" => mask_table_inited
  /\ pc = "pattern" =>
       /\ num_set \in MIN_BITS_SET .. MAX_BITS_SET
       /\ MASK_TABLE \subseteq 0 .. BITS_PER_MASK - 1
       /\ Cardinality(MASK_TABLE) <= num_set
  /\ pc = "slide" =>
       /\ i \in BITS_PER_MASK .. NUM_MASKS + BITS_PER_MASK - 1
       /\ MASK_TABLE \subseteq 0 .. i - 1
       /\ cur = Ones(i - BITS_PER_MASK)
       /\ \A idx \in 0 .. i - BITS_PER_MASK : Bounded(idx)

\* Nothing is in a filter that is not there, a filter is there only when the
\* table is made, and it has the masks of all that was inserted.
FilterInv ==
  /\ bv \in Filters \cup {NoFilter, Spinning}
  /\ added \subseteq Hash
  /\ pc # "ready" => bv = NoFilter
  /\ bv \in {NoFilter, Spinning} => added = {}
  /\ bv \in Filters => \A h \in added : construct_mask_scalar(h) \subseteq bv[block_idx(h)]

-----------------------------------------------------------------------------
(***************************************************************************)
(* The sizes, and the parts of a hash.                                     *)
(***************************************************************************)
LEMMA Widths ==
  /\ LOG_NUM_MASKS \in Nat /\ ROTATE_BITS \in Nat /\ HashBits \in Nat /\ SizeBits \in Nat
  /\ MIN_BITS_SET \in Nat /\ MAX_BITS_SET \in Nat
  /\ BITS_PER_MASK \in Nat \ {0} /\ ByteBits \in Nat \ {0} /\ BatchSize \in Nat \ {0}
  /\ WordBits \in Nat \ {0} /\ NUM_MASKS \in Nat \ {0}
  /\ BITS_PER_MASK <= WordBits
  /\ BITS_PER_MASK + ByteBits <= WordBits + 1
  /\ \A h \in Hash : h \in Nat
<1>1. WordBits \in Nat \ {0} /\ NUM_MASKS \in Nat \ {0}
  BY WidthAssumption, Pow2Type DEF WordBits, NUM_MASKS
<1>2. \A h \in Hash : h \in Nat
  BY DEF Hash
<1> QED
  BY <1>1, <1>2, WidthAssumption

\* A remainder is below its divisor and complements the quotient: how an index
\* into the table is a byte and a bit of it (:165-170).
LEMMA Remainder ==
  ASSUME NEW a \in Nat, NEW d \in Nat \ {0}
  PROVE  /\ a % d \in 0 .. d - 1
         /\ a \div d \in Nat
         /\ a = d * (a \div d) + (a % d)
OBVIOUS

LEMMA PartsInRange ==
  ASSUME NEW h \in Hash
  PROVE  h % NUM_MASKS \in 0 .. NUM_MASKS - 1 /\ Rotation(h) \in 0 .. WordBits - 1
<1>1. h % NUM_MASKS \in 0 .. NUM_MASKS - 1 /\ h \div NUM_MASKS \in Nat
  BY Widths, Remainder
<1>2. (h \div NUM_MASKS) % WordBits \in 0 .. WordBits - 1
  BY <1>1, Widths, Remainder
<1> QED
  BY <1>1, <1>2 DEF Rotation

\* A filter has at least one block, and a hash picks one of them (:177-179).
LEMMA FilterShape ==
  ASSUME NEW f \in Filters
  PROVE  \E n \in Nat \ {0} : /\ f \in [0 .. n - 1 -> SUBSET (0 .. WordBits - 1)]
                              /\ Cardinality(DOMAIN f) = n
                              /\ [0 .. n - 1 -> SUBSET (0 .. WordBits - 1)] \subseteq Filters
<1>1. PICK e \in ROTATE_BITS .. SizeBits - 1 :
        f \in [0 .. (Pow2[e] \div WordBits) - 1 -> SUBSET (0 .. WordBits - 1)]
  BY DEF Filters
<1> DEFINE n == Pow2[e] \div WordBits
<1>2. n \in Nat \ {0}
  <2>1. e \in Nat /\ Pow2[e] \in Nat
    BY Widths, Pow2Type
  <2>2. Pow2[e] >= WordBits
    <3>1. e = ROTATE_BITS \/ ROTATE_BITS < e
      BY Widths
    <3> QED
      BY <2>1, <3>1, Widths, Pow2Grows DEF WordBits
  <2>3. n \in Nat /\ Pow2[e] < WordBits * n + WordBits
    <3> DEFINE x == Pow2[e]
    <3>1. x \in Nat /\ WordBits \in Nat /\ WordBits >= 1
      BY <2>1, Widths
    <3> HIDE DEF x
    <3>2. x \div WordBits \in Nat /\ x < WordBits * (x \div WordBits) + WordBits
      BY <3>1, Quotient
    <3> QED
      BY <3>2 DEF x
  <2> HIDE DEF n
  <2>4. WordBits * 0 = 0
    BY Widths
  <2>5. n # 0
    BY <2>1, <2>2, <2>3, <2>4, Widths
  <2> QED
    BY <2>3, <2>5
<1>3. [0 .. n - 1 -> SUBSET (0 .. WordBits - 1)] \subseteq Filters
  BY DEF Filters
<1> HIDE DEF n
<1>4. Cardinality(0 .. n - 1) = n
  BY <1>2, FS_Interval
<1>5. DOMAIN f = 0 .. n - 1
  BY <1>1 DEF n
<1> QED
  BY <1>1, <1>2, <1>3, <1>4, <1>5 DEF n

LEMMA BlockOf ==
  ASSUME NEW h \in Hash, bv \in Filters
  PROVE  block_idx(h) \in DOMAIN bv
<1>1. PICK n \in Nat \ {0} : /\ bv \in [0 .. n - 1 -> SUBSET (0 .. WordBits - 1)]
                             /\ Cardinality(DOMAIN bv) = n
  BY FilterShape
<1>2. h \in Nat /\ NUM_MASKS * WordBits \in Nat \ {0}
  <2>1. \A a, b \in Nat \ {0} : a * b \in Nat \ {0}
    OBVIOUS
  <2> QED
    BY <2>1, Widths
<1>3. h \div (NUM_MASKS * WordBits) \in Nat
  BY <1>2, Remainder
<1>4. block_idx(h) \in 0 .. n - 1
  BY <1>1, <1>3, Remainder DEF block_idx
<1> QED
  BY <1>1, <1>4

-----------------------------------------------------------------------------
(***************************************************************************)
(* A mask is a window of the table, rotated.                               *)
(***************************************************************************)
\* What is read at a byte, shifted and cut off, is the window at a bit of it: a
\* whole mask fits whichever bit that is.
LEMMA EntryIsWindow ==
  ASSUME MASK_TABLE \subseteq Nat, NEW idx \in Nat
  PROVE  Entry(idx) = {p - idx : p \in Window(idx)}
<1> DEFINE bit == idx % ByteBits
           first == ByteBits * (idx \div ByteBits)
<1>1. /\ bit \in 0 .. ByteBits - 1 /\ first \in Nat /\ idx = first + bit
  <2>1. \A a, b \in Nat : a * b \in Nat
    OBVIOUS
  <2> QED
    BY Widths, Remainder, <2>1
<1>2. Entry(idx) = {p - bit : p \in {q \in {r - first : r \in MASK_TABLE \cap
                                             (first .. first + WordBits - 1)} : q >= bit}}
                     \cap (0 .. BITS_PER_MASK - 1)
  BY DEF Entry
<1> HIDE DEF bit, first
<1>3. ASSUME NEW e \in Entry(idx)
      PROVE  e \in {p - idx : p \in Window(idx)}
  <2>1. PICK r \in MASK_TABLE \cap (first .. first + WordBits - 1) :
          r - first >= bit /\ e = (r - first) - bit /\ e \in 0 .. BITS_PER_MASK - 1
    BY <1>2
  <2>2. r \in Nat /\ e = r - idx
    BY <1>1, <2>1
  <2>3. r \in Window(idx)
    BY <1>1, <2>1, <2>2, Widths DEF Window
  <2> QED
    BY <2>2, <2>3
<1>4. ASSUME NEW p \in Window(idx)
      PROVE  p - idx \in Entry(idx)
  <2>1. /\ p \in MASK_TABLE /\ p \in Nat
        /\ idx <= p /\ p <= idx + BITS_PER_MASK - 1
    BY Widths DEF Window
  <2>2. p \in first .. first + WordBits - 1 /\ p - first >= bit
    BY <1>1, <2>1, Widths
  <2>3. p - idx = (p - first) - bit /\ p - idx \in 0 .. BITS_PER_MASK - 1
    BY <1>1, <2>1, Widths
  <2> QED
    BY <1>2, <2>1, <2>2, <2>3
<1> QED
  BY <1>3, <1>4

\* The lane of the vector code shifts by the whole width where the scalar code
\* does not shift, and both get nothing (:173, :216).
LEMMA LanesSame ==
  ASSUME NEW h \in Hash
  PROVE  construct_mask_avx2(h) = construct_mask_scalar(h)
<1> DEFINE rot == Rotation(h)
           unrot == Entry(h % NUM_MASKS)
<1>1. rot \in 0 .. WordBits - 1
  BY PartsInRange
<1>2. unrot \subseteq 0 .. BITS_PER_MASK - 1
  BY DEF Entry
<1>3. /\ construct_mask_avx2(h) = ShiftLeft(unrot, rot) \cup ShiftRight(unrot, WordBits - rot)
      /\ construct_mask_scalar(h) =
           ShiftLeft(unrot, rot) \cup IF rot = 0 THEN {} ELSE ShiftRight(unrot, WordBits - rot)
  BY DEF construct_mask_avx2, construct_mask_scalar, Down
<1> HIDE DEF rot, unrot
<1>4. ShiftRight(unrot, WordBits - 0) = {}
  BY <1>2, Widths DEF ShiftRight
<1> QED
  BY <1>3, <1>4

\* Sets whose members correspond one to one have as many.
LEMMA SameSize ==
  ASSUME NEW S, IsFiniteSet(S), NEW T, NEW f \in [S -> T],
         \A a, b \in S : f[a] = f[b] => a = b,
         \A y \in T : \E a \in S : f[a] = y
  PROVE  Cardinality(T) = Cardinality(S)
<1>1. f \in Bijection(S, T)
  BY DEF Bijection, Injection, Surjection, IsInjective
<1> QED
  BY <1>1, FS_Bijection DEF ExistsBijection

LEMMA WindowFinite ==
  ASSUME NEW idx \in Nat
  PROVE  IsFiniteSet(Window(idx)) /\ Ones(idx) \in Nat
<1>1. IsFiniteSet(idx .. idx + BITS_PER_MASK - 1)
  BY Widths, FS_Interval
<1>2. IsFiniteSet(Window(idx))
  BY <1>1, FS_Subset, Window(idx) \in SUBSET (idx .. idx + BITS_PER_MASK - 1) DEF Window
<1> QED
  BY <1>2, FS_CardinalityType DEF Ones

\* Rotating moves every bit to a place of its own: no bit of a mask is lost and
\* no two fall together (:171-174).
LEMMA MaskSize ==
  ASSUME MASK_TABLE \subseteq Nat, NEW h \in Hash
  PROVE  Cardinality(construct_mask_scalar(h)) = Ones(h % NUM_MASKS)
<1> DEFINE rot == Rotation(h)
           idx == h % NUM_MASKS
           W == Window(idx)
           places == {p - idx : p \in W}
           mask == construct_mask_scalar(h)
           place == [p \in W |-> IF (p - idx) + rot < WordBits
                                 THEN (p - idx) + rot ELSE ((p - idx) + rot) - WordBits]
<1>1. rot \in 0 .. WordBits - 1 /\ idx \in Nat
  BY PartsInRange, Widths
<1>2. \A p \in W : p \in Nat /\ p - idx \in 0 .. BITS_PER_MASK - 1
  BY <1>1, Widths DEF Window
<1>3. mask = ShiftLeft(places, rot)
               \cup IF rot = 0 THEN {} ELSE ShiftRight(places, WordBits - rot)
  <2>1. Entry(idx) = {p - idx : p \in W}
    BY <1>1, EntryIsWindow
  <2> QED
    BY <2>1 DEF construct_mask_scalar
<1>4. IsFiniteSet(W)
  BY <1>1, WindowFinite
<1>5. \A p \in W : p - idx \in places
  OBVIOUS
<1>6. \A r \in places : \E p \in W : r = p - idx
  OBVIOUS
<1> HIDE DEF rot, idx, W, mask, places
<1>7. place \in [W -> mask]
  <2> SUFFICES ASSUME NEW p \in W PROVE place[p] \in mask
    OBVIOUS
  <2>1. p \in Nat /\ p - idx \in 0 .. BITS_PER_MASK - 1
    BY <1>2
  <2>2. p - idx \in places
    BY <1>5
  <2>3. CASE (p - idx) + rot < WordBits
    <3>1. (p - idx) + rot \in ShiftLeft(places, rot)
      BY <1>1, <2>1, <2>3, <2>2, Widths DEF ShiftLeft
    <3> QED
      BY <1>3, <2>3, <3>1
  <2>4. CASE ~ ((p - idx) + rot < WordBits)
    <3>1. rot # 0 /\ (p - idx) - (WordBits - rot) = ((p - idx) + rot) - WordBits
      BY <1>1, <2>1, <2>4, Widths
    <3>2. (p - idx) - (WordBits - rot) \in ShiftRight(places, WordBits - rot)
      BY <1>1, <2>1, <2>4, <2>2, <3>1, Widths DEF ShiftRight
    <3> QED
      BY <1>3, <2>4, <3>1, <3>2
  <2> QED
    BY <2>3, <2>4
<1>8. \A a, b \in W : place[a] = place[b] => a = b
  BY <1>1, <1>2, Widths
<1>9. ASSUME NEW y \in mask PROVE \E p \in W : place[p] = y
  <2>1. CASE y \in ShiftLeft(places, rot)
    <3>1. PICK p \in W : y = (p - idx) + rot /\ y \in 0 .. WordBits - 1
      BY <1>6, <2>1 DEF ShiftLeft
    <3>2. place[p] = y
      BY <1>1, <1>2, <3>1, Widths
    <3> QED
      BY <3>2
  <2>2. CASE rot # 0 /\ y \in ShiftRight(places, WordBits - rot)
    <3>1. PICK p \in W : y = (p - idx) - (WordBits - rot) /\ y \in 0 .. WordBits - 1
      BY <1>6, <2>2 DEF ShiftRight
    <3>2. place[p] = y
      BY <1>1, <1>2, <3>1, Widths
    <3> QED
      BY <3>2
  <2> QED
    BY <1>3, <2>1, <2>2
<1> HIDE DEF place
<1> QED
  BY <1>4, <1>7, <1>8, <1>9, SameSize DEF Ones, idx, W, mask

-----------------------------------------------------------------------------
(***************************************************************************)
(* Making the table.                                                       *)
(***************************************************************************)
\* A window moved on by one loses its first bit and gains the next.
LEMMA WindowMoves ==
  ASSUME MASK_TABLE \subseteq Nat, NEW n \in Nat, n >= BITS_PER_MASK,
         MASK_TABLE \subseteq 0 .. n - 1, MASK_TABLE' \in {MASK_TABLE, MASK_TABLE \cup {n}}
  PROVE  LET leaving == IF n - BITS_PER_MASK \in MASK_TABLE THEN 1 ELSE 0
             entering == IF n \in MASK_TABLE' THEN 1 ELSE 0
         IN  /\ Ones(n - BITS_PER_MASK) - leaving \in Nat
             /\ Ones((n + 1) - BITS_PER_MASK)' =
                  (Ones(n - BITS_PER_MASK) - leaving) + entering
<1> DEFINE first == n - BITS_PER_MASK
           old == Window(first)
           kept == old \ {first}
           new == Window((n + 1) - BITS_PER_MASK)'
<1>1. first \in Nat /\ BITS_PER_MASK \in Nat \ {0} /\ n \notin MASK_TABLE
  BY Widths
<1>2. IsFiniteSet(old)
  BY <1>1, WindowFinite
<1>3. first \in old <=> first \in MASK_TABLE
  BY <1>1 DEF Window
<1>4. new = IF n \in MASK_TABLE' THEN kept \cup {n} ELSE kept
  BY <1>1 DEF Window
<1>5. n \notin kept
  BY <1>1 DEF Window
<1>6. /\ IsFiniteSet(kept)
      /\ Cardinality(kept) = Cardinality(old) - (IF first \in MASK_TABLE THEN 1 ELSE 0)
  BY <1>2, <1>3, FS_RemoveElement, FS_CardinalityType
<1>7. Cardinality(kept) \in Nat
  BY <1>6, FS_CardinalityType
<1>8. Cardinality(kept \cup {n}) = Cardinality(kept) + 1
  BY <1>5, <1>6, FS_AddElement
<1>9. Ones((n + 1) - BITS_PER_MASK)' = Cardinality(new)
  BY DEF Ones
<1> HIDE DEF old, kept, new
<1> QED
  BY <1>4, <1>6, <1>7, <1>8, <1>9 DEF Ones, old

\* A window before n is the same when only bit n changes.
LEMMA EarlierKept ==
  ASSUME NEW n \in Nat, MASK_TABLE' \in {MASK_TABLE, MASK_TABLE \cup {n}},
         NEW idx \in Nat, idx + BITS_PER_MASK <= n
  PROVE  Ones(idx)' = Ones(idx)
<1>1. Window(idx)' = Window(idx)
  BY Widths DEF Window
<1> QED
  BY <1>1 DEF Ones

LEMMA TableNew ==
  ASSUME TableInv, bloom_new
  PROVE  TableInv'
<1>1. CASE mask_table_inited
  BY <1>1 DEF bloom_new, TableInv, Bounded, Ones, Window
<1>2. CASE ~ mask_table_inited
  BY <1>2, Widths, FS_EmptySet DEF bloom_new, TableInv
<1> QED
  BY <1>1, <1>2

\* The first mask has num_set bits when the drawing ends (:63-70).
LEMMA TablePattern ==
  ASSUME TableInv, Pattern
  PROVE  TableInv'
<1>1. /\ num_set \in MIN_BITS_SET .. MAX_BITS_SET /\ num_set' = num_set
      /\ MASK_TABLE \subseteq 0 .. BITS_PER_MASK - 1 /\ Cardinality(MASK_TABLE) <= num_set
      /\ ~ mask_table_inited /\ mask_table_inited' = mask_table_inited
      /\ num_set \in Nat
  BY Widths DEF Pattern, TableInv
<1>2. IsFiniteSet(MASK_TABLE)
  <2>1. IsFiniteSet(0 .. BITS_PER_MASK - 1)
    BY Widths, FS_Interval
  <2> QED
    BY <1>1, <2>1, FS_Subset
<1>3. CASE Cardinality(MASK_TABLE) = num_set
  <2>1. /\ pc' = "slide" /\ cur' = num_set /\ i' = BITS_PER_MASK
        /\ MASK_TABLE' = MASK_TABLE
    BY <1>3 DEF Pattern
  <2>2. i' - BITS_PER_MASK = 0 /\ Window(0)' = MASK_TABLE
    <3>1. i' - BITS_PER_MASK = 0
      BY <2>1, Widths
    <3>2. 0 + BITS_PER_MASK - 1 = BITS_PER_MASK - 1
      BY Widths
    <3>3. Window(0)' = MASK_TABLE \cap (0 .. BITS_PER_MASK - 1)
      BY <2>1, <3>2 DEF Window
    <3> QED
      BY <1>1, <3>1, <3>3
  <2>3. Ones(0)' = num_set
    BY <1>3, <2>2 DEF Ones
  <2>4. \A idx \in 0 .. i' - BITS_PER_MASK : Bounded(idx)'
    BY <1>1, <2>2, <2>3 DEF Bounded
  <2>5. i' \in BITS_PER_MASK .. NUM_MASKS + BITS_PER_MASK - 1
    BY <2>1, Widths
  <2>6. MASK_TABLE' \subseteq 0 .. i' - 1 /\ MASK_TABLE' \subseteq Nat
    BY <1>1, <2>1
  <2> QED
    BY <1>1, <2>1, <2>2, <2>3, <2>4, <2>5, <2>6 DEF TableInv
<1>4. CASE Cardinality(MASK_TABLE) # num_set
  <2>1. PICK pos \in (0 .. BITS_PER_MASK - 1) \ MASK_TABLE :
          MASK_TABLE' = MASK_TABLE \cup {pos} /\ pc' = pc
    BY <1>4 DEF Pattern
  <2>2. Cardinality(MASK_TABLE') = Cardinality(MASK_TABLE) + 1
    BY <1>2, <2>1, FS_AddElement
  <2>3. Cardinality(MASK_TABLE) \in Nat
    BY <1>2, FS_CardinalityType
  <2>4. Cardinality(MASK_TABLE') <= num_set'
    BY <1>1, <1>4, <2>2, <2>3
  <2>5. MASK_TABLE' \subseteq 0 .. BITS_PER_MASK - 1 /\ MASK_TABLE' \subseteq Nat
    BY <1>1, <2>1
  <2>6. pc' = "pattern"
    BY <2>1 DEF Pattern
  <2> QED
    BY <1>1, <2>4, <2>5, <2>6 DEF TableInv
<1> QED
  BY <1>3, <1>4

\* The next window stays within the bounds whichever bit is drawn (:72-88).
LEMMA TableSlide ==
  ASSUME TableInv, Slide
  PROVE  TableInv'
<1>1. /\ pc = "slide" /\ pc' = pc /\ ~ mask_table_inited
      /\ mask_table_inited' = mask_table_inited
      /\ i \in Nat /\ i >= BITS_PER_MASK /\ i < NUM_MASKS + BITS_PER_MASK - 1 /\ i' = i + 1
      /\ MASK_TABLE \subseteq 0 .. i - 1 /\ MASK_TABLE \subseteq Nat
      /\ cur = Ones(i - BITS_PER_MASK)
      /\ \A idx \in 0 .. i - BITS_PER_MASK : Bounded(idx)
  BY Widths DEF Slide, TableInv
<1>2. PICK n \in Nat : n = i
  BY <1>1
<1> DEFINE leaving == IF n - BITS_PER_MASK \in MASK_TABLE THEN 1 ELSE 0
           entering == IF n \in MASK_TABLE' THEN 1 ELSE 0
<1>3. \/ ~ (leaving = 0 /\ cur = MAX_BITS_SET) /\ MASK_TABLE' = MASK_TABLE \cup {n}
           /\ cur' = cur + (1 - leaving)
      \/ ~ (leaving = 1 /\ cur = MIN_BITS_SET) /\ MASK_TABLE' = MASK_TABLE
           /\ cur' = cur - leaving
  <2>1. \/ MayEnter(leaving, cur) /\ MASK_TABLE' = MASK_TABLE \cup {n}
             /\ cur' = cur + (1 - leaving)
        \/ MayStay(leaving, cur) /\ MASK_TABLE' = MASK_TABLE /\ cur' = cur - leaving
    BY <1>2 DEF Slide
  <2> HIDE DEF leaving
  <2> QED
    BY <2>1 DEF MayEnter, MayStay
<1>4. n \notin MASK_TABLE
  BY <1>1, <1>2
<1>5. /\ cur - leaving \in Nat
      /\ Ones((n + 1) - BITS_PER_MASK)' = (cur - leaving) + entering
  BY <1>1, <1>2, <1>3, WindowMoves
<1>6. cur \in MIN_BITS_SET .. MAX_BITS_SET
  <2>1. Bounded(i - BITS_PER_MASK)
    BY <1>1, Widths
  <2> QED
    BY <1>1, <2>1 DEF Bounded
<1>7. leaving \in {0, 1}
  OBVIOUS
<1>8. /\ cur' = (cur - leaving) + entering
      /\ cur' \in MIN_BITS_SET .. MAX_BITS_SET
  <2>1. CASE /\ ~ (leaving = 0 /\ cur = MAX_BITS_SET) /\ MASK_TABLE' = MASK_TABLE \cup {n}
             /\ cur' = cur + (1 - leaving)
    <3>1. entering = 1
      BY <2>1
    <3> HIDE DEF leaving, entering
    <3> QED
      BY <1>6, <1>7, <2>1, <3>1, Widths
  <2>2. CASE /\ ~ (leaving = 1 /\ cur = MIN_BITS_SET) /\ MASK_TABLE' = MASK_TABLE
             /\ cur' = cur - leaving
    <3>1. entering = 0
      BY <1>4, <2>2
    <3> HIDE DEF leaving, entering
    <3> QED
      BY <1>6, <1>7, <2>2, <3>1, Widths
  <2> QED
    BY <1>3, <2>1, <2>2
<1> HIDE DEF leaving, entering
<1>9. i' = n + 1 /\ MASK_TABLE' \in {MASK_TABLE, MASK_TABLE \cup {n}}
  BY <1>1, <1>2, <1>3
<1>10. (cur = Ones(i - BITS_PER_MASK))'
  BY <1>5, <1>8, <1>9
<1>11. ASSUME NEW idx \in 0 .. (n + 1) - BITS_PER_MASK PROVE Bounded(idx)'
  <2>1. CASE idx = (n + 1) - BITS_PER_MASK
    BY <1>5, <1>8, <2>1 DEF Bounded
  <2>2. CASE idx # (n + 1) - BITS_PER_MASK
    <3>1. idx \in 0 .. n - BITS_PER_MASK /\ idx \in Nat /\ idx + BITS_PER_MASK <= n
      BY <2>2, Widths
    <3>2. Ones(idx)' = Ones(idx)
      BY <1>9, <3>1, EarlierKept
    <3> QED
      BY <1>1, <1>2, <3>1, <3>2 DEF Bounded
  <2> QED
    BY <2>1, <2>2
<1>12. \A idx \in 0 .. i' - BITS_PER_MASK : Bounded(idx)'
  BY <1>9, <1>11
<1>13. MASK_TABLE' \subseteq 0 .. i' - 1 /\ MASK_TABLE' \subseteq Nat
  <2>1. \A p \in MASK_TABLE' : p \in Nat /\ p <= n
    BY <1>1, <1>2, <1>9
  <2> QED
    BY <1>9, <2>1
<1>14. i' \in BITS_PER_MASK .. NUM_MASKS + BITS_PER_MASK - 1
  BY <1>1, Widths
<1> QED
  BY <1>1, <1>10, <1>12, <1>13, <1>14 DEF TableInv

LEMMA TableSlid ==
  ASSUME TableInv, Slid
  PROVE  TableInv'
<1>1. /\ pc' = "make" /\ mask_table_inited' = TRUE /\ MASK_TABLE' = MASK_TABLE
      /\ i - BITS_PER_MASK = NUM_MASKS - 1 /\ MASK_TABLE \subseteq Nat
      /\ \A idx \in 0 .. i - BITS_PER_MASK : Bounded(idx)
  BY Widths DEF Slid, TableInv
<1>2. \A idx \in 0 .. NUM_MASKS - 1 : Bounded(idx)'
  BY <1>1 DEF Bounded, Ones, Window
<1> QED
  BY <1>1, <1>2 DEF TableInv

\* Making and freeing filters and using them does not touch the table.
LEMMA TableKept ==
  ASSUME TableInv, UNCHANGED <<MASK_TABLE, mask_table_inited, i, cur, num_set>>,
         pc' = pc \/ (pc = "make" /\ pc' = "ready")
  PROVE  TableInv'
BY DEF TableInv, Bounded, Ones, Window

-----------------------------------------------------------------------------
(***************************************************************************)
(* Using a filter.                                                         *)
(***************************************************************************)
LEMMA FilterMake ==
  ASSUME FilterInv, Make
  PROVE  FilterInv'
<1>1. bv = NoFilter /\ added = {} /\ added' = added /\ pc' = "ready"
  BY DEF FilterInv, Make, history
<1>2. bv' \in Filters \cup {Spinning}
  <2>1. CASE Powers = {}
    BY <2>1 DEF Make
  <2>2. CASE Powers # {}
    <3>1. Powers \in SUBSET Nat
      <4>1. \A e \in ROTATE_BITS .. SizeBits - 1 : e \in Nat
        BY Widths
      <4> QED
        BY <4>1, Pow2Type DEF Powers
    <3>2. Min(Powers) \in Powers
      BY <2>2, <3>1, LeastNatural DEF Min
    <3>3. PICK e \in ROTATE_BITS .. SizeBits - 1 : Min(Powers) = Pow2[e]
      BY <3>2 DEF Powers
    <3>4. bv' = [j \in 0 .. (Pow2[e] \div WordBits) - 1 |-> {}]
      BY <2>2, <3>3 DEF Make
    <3>5. bv' \in [0 .. (Pow2[e] \div WordBits) - 1 -> SUBSET (0 .. WordBits - 1)]
      BY <3>4
    <3> QED
      BY <3>5 DEF Filters
  <2> QED
    BY <2>1, <2>2
<1> QED
  BY <1>1, <1>2 DEF FilterInv

\* What an insert leaves has the masks of its hashes, by whichever code, and
\* those it had.
LEMMA FilterInsert ==
  ASSUME FilterInv, NEW hs \in Seq(Hash), NEW vec, NEW rest, vec \cup rest = DOMAIN hs,
         Insert(hs, vec, rest)
  PROVE  FilterInv'
<1>1. /\ bv \in Filters /\ bv' = WithMasks(hs, vec, rest) /\ added' = added \cup ToSet(hs)
      /\ MASK_TABLE' = MASK_TABLE /\ pc' = "ready"
      /\ \A h \in added : construct_mask_scalar(h) \subseteq bv[block_idx(h)]
  BY DEF Insert, Live, FilterInv
<1>2. added \subseteq Hash /\ ToSet(hs) \subseteq Hash
  BY DEF FilterInv, ToSet
<1>3. \A h \in Hash : construct_mask_scalar(h) \subseteq 0 .. WordBits - 1
  BY DEF construct_mask_scalar, ShiftLeft, ShiftRight
<1>4. \A n \in DOMAIN hs : hs[n] \in Hash /\ construct_mask_avx2(hs[n]) = construct_mask_scalar(hs[n])
  BY LanesSame
<1>5. PICK n \in Nat \ {0} : /\ bv \in [0 .. n - 1 -> SUBSET (0 .. WordBits - 1)]
                             /\ [0 .. n - 1 -> SUBSET (0 .. WordBits - 1)] \subseteq Filters
  BY <1>1, FilterShape
<1>6. DOMAIN bv' = DOMAIN bv
  BY <1>1 DEF WithMasks
<1>7. ASSUME NEW j \in DOMAIN bv
      PROVE  /\ bv'[j] \subseteq 0 .. WordBits - 1
             /\ bv[j] \subseteq bv'[j]
             /\ \A m \in DOMAIN hs : block_idx(hs[m]) = j =>
                  construct_mask_scalar(hs[m]) \subseteq bv'[j]
  <2>1. bv'[j] = bv[j]
         \cup (UNION {construct_mask_avx2(hs[k]) : k \in {m \in vec : block_idx(hs[m]) = j}})
         \cup (UNION {construct_mask_scalar(hs[k]) : k \in {m \in rest : block_idx(hs[m]) = j}})
    BY <1>1 DEF WithMasks
  <2>2. bv[j] \subseteq 0 .. WordBits - 1
    BY <1>5
  <2> HIDE DEF construct_mask_avx2, construct_mask_scalar, block_idx
  <2>3. bv'[j] \subseteq 0 .. WordBits - 1
    <3> SUFFICES ASSUME NEW q \in bv'[j] PROVE q \in 0 .. WordBits - 1
      OBVIOUS
    <3>1. CASE q \in bv[j]
      BY <2>2, <3>1
    <3>2. CASE \E k \in vec : q \in construct_mask_avx2(hs[k])
      BY <1>3, <1>4, <3>2
    <3>3. CASE \E k \in rest : q \in construct_mask_scalar(hs[k])
      BY <1>3, <1>4, <3>3
    <3> QED
      BY <2>1, <3>1, <3>2, <3>3
  <2>4. ASSUME NEW m \in DOMAIN hs, block_idx(hs[m]) = j
        PROVE  construct_mask_scalar(hs[m]) \subseteq bv'[j]
    <3>1. CASE m \in vec
      BY <1>4, <2>1, <2>4, <3>1
    <3>2. CASE m \in rest
      <4>1. m \in {e \in rest : block_idx(hs[e]) = j}
        BY <2>4, <3>2
      <4>2. construct_mask_scalar(hs[m]) \in
              {construct_mask_scalar(hs[k]) : k \in {e \in rest : block_idx(hs[e]) = j}}
        BY <4>1
      <4> QED
        BY <2>1, <4>2
    <3> QED
      BY <3>1, <3>2
  <2> QED
    BY <2>1, <2>3, <2>4
<1>8. bv' \in Filters
  <2>1. bv' = [j \in DOMAIN bv |-> bv'[j]]
    BY <1>1 DEF WithMasks
  <2>2. DOMAIN bv = 0 .. n - 1
    BY <1>5
  <2>3. bv' \in [0 .. n - 1 -> SUBSET (0 .. WordBits - 1)]
    BY <1>7, <2>1, <2>2
  <2> QED
    BY <1>5, <2>3
<1>9. ASSUME NEW h \in added'
      PROVE  construct_mask_scalar(h)' \subseteq bv'[block_idx(h)']
  <2>1. h \in Hash /\ block_idx(h) \in DOMAIN bv
    BY <1>1, <1>2, BlockOf
  <2>2. construct_mask_scalar(h)' = construct_mask_scalar(h) /\ block_idx(h)' = block_idx(h)
    BY <1>1, <1>6 DEF construct_mask_scalar, Entry, block_idx
  <2>3. CASE h \in added
    BY <1>1, <1>7, <2>1, <2>2, <2>3
  <2>4. CASE h \in ToSet(hs)
    <3>1. PICK m \in DOMAIN hs : h = hs[m]
      BY <2>4 DEF ToSet
    <3> QED
      BY <1>7, <2>1, <2>2, <3>1
  <2> QED
    BY <1>1, <2>3, <2>4
<1> QED
  BY <1>1, <1>2, <1>8, <1>9, ValueAssumption DEF FilterInv

LEMMA FilterKept ==
  ASSUME FilterInv, UNCHANGED <<bv, added, MASK_TABLE>>, pc' = pc
  PROVE  FilterInv'
<1>1. \A h : construct_mask_scalar(h)' = construct_mask_scalar(h)
  BY DEF construct_mask_scalar, Entry
<1>2. \A h : block_idx(h)' = block_idx(h)
  BY DEF block_idx
<1> QED
  BY <1>1, <1>2 DEF FilterInv


-----------------------------------------------------------------------------
(***************************************************************************)
(* The calls as steps of the promise.                                      *)
(***************************************************************************)
AllBatches == HashBatches \cup {Hashed(ks) : ks \in KeyBatches} \cup {<<h>> : h \in Hash}

\* The vector code and the scalar code share the hashes of a call.
Split(hs, vec, rest) == vec \cup rest = DOMAIN hs /\ vec \cap rest = {}

LEMMA BatchHashes ==
  /\ AllBatches \subseteq Seq(Hash)
  /\ \A key \in DOMAIN bloom_hash : bloom_hash[key] \in Hash
<1>1. ASSUME NEW ks \in KeyBatches PROVE Hashed(ks) \in Seq(Hash)
  BY CallAssumption DEF Hashed
<1>2. ASSUME NEW h \in Hash PROVE <<h>> \in Seq(Hash)
  OBVIOUS
<1>3. HashBatches \subseteq Seq(Hash)
  BY CallAssumption
<1>4. \A key \in DOMAIN bloom_hash : bloom_hash[key] \in Hash
  BY CallAssumption
<1> HIDE DEF Hashed
<1>5. AllBatches \subseteq Seq(Hash)
  BY <1>1, <1>2, <1>3 DEF AllBatches
<1> QED
  BY <1>4, <1>5

\* Whole batches and a rest make up a call, whatever its length (:276-280).
LEMMA BulkSplit ==
  ASSUME NEW hs \in Seq(Hash)
  PROVE  Split(hs, 1 .. Batched(Len(hs)), Rest(Len(hs)))
<1> DEFINE n == Len(hs)
<1>1. n \in Nat /\ DOMAIN hs = 1 .. n
  OBVIOUS
<1> HIDE DEF n
<1>2. n - (n % BatchSize) \in 0 .. n
  <2>1. \A q, r \in Nat : n = q + r => n - r \in 0 .. n
    BY <1>1
  <2>2. \A a, b \in Nat : a * b \in Nat
    OBVIOUS
  <2>3. /\ n % BatchSize \in Nat /\ BatchSize * (n \div BatchSize) \in Nat
        /\ n = BatchSize * (n \div BatchSize) + (n % BatchSize)
    <3>1. BatchSize \in Nat \ {0} /\ BatchSize \in Nat
      BY Widths
    <3>2. n % BatchSize \in 0 .. BatchSize - 1 /\ n \div BatchSize \in Nat
      BY <1>1, <3>1, Remainder
    <3>3. n = BatchSize * (n \div BatchSize) + (n % BatchSize)
      BY <1>1, <3>1, Remainder
    <3>4. n % BatchSize \in Nat
      BY <3>1, <3>2
    <3> QED
      BY <2>2, <3>1, <3>2, <3>3, <3>4
  <2> QED
    BY <2>1, <2>3
<1> DEFINE b == n - (n % BatchSize)
<1>3. b \in 0 .. n
  BY <1>2
<1> HIDE DEF b
<1>4. (1 .. b) \cup (b + 1 .. n) = 1 .. n /\ (1 .. b) \cap (b + 1 .. n) = {}
  BY <1>1, <1>3
<1> QED
  BY <1>1, <1>4 DEF Split, Batched, Rest, b, n

\* A query finds each of its hashes once, and all the inserted ones.
LEMMA FoundCounts ==
  ASSUME FilterInv, bv \in Filters, NEW hs \in Seq(Hash), NEW vec, NEW rest,
         Split(hs, vec, rest)
  PROVE  /\ Found(hs, vec, rest) \in 0 .. Len(hs)
         /\ Found(hs, vec, rest) >= Cardinality({n \in DOMAIN hs : hs[n] \in added})
<1> DEFINE byVec == {n \in vec : construct_mask_avx2(hs[n]) \subseteq bv[block_idx(hs[n])]}
           byRest == {n \in rest : construct_mask_scalar(hs[n]) \subseteq bv[block_idx(hs[n])]}
           present == {n \in DOMAIN hs : hs[n] \in added}
<1>1. /\ Len(hs) \in Nat /\ IsFiniteSet(DOMAIN hs) /\ Cardinality(DOMAIN hs) = Len(hs)
  <2>1. DOMAIN hs = 1 .. Len(hs) /\ Len(hs) \in Nat
    OBVIOUS
  <2>2. \A n \in Nat : IsFiniteSet(1 .. n) /\ Cardinality(1 .. n) = n
    BY FS_Interval
  <2> QED
    BY <2>1, <2>2
<1>2. byVec \in SUBSET DOMAIN hs /\ byRest \in SUBSET DOMAIN hs /\ byVec \cap byRest = {}
  BY DEF Split
<1>3. IsFiniteSet(byVec) /\ IsFiniteSet(byRest)
  BY <1>1, <1>2, FS_Subset
<1>4. Found(hs, vec, rest) = Cardinality(byVec \cup byRest)
  <2>1. Found(hs, vec, rest) = Cardinality(byVec) + Cardinality(byRest)
    BY DEF Found
  <2> HIDE DEF byVec, byRest
  <2>2. Cardinality(byVec \cup byRest) = Cardinality(byVec) + Cardinality(byRest) - 0
    BY <1>2, <1>3, FS_Union, FS_EmptySet
  <2>3. Cardinality(byVec) \in Nat /\ Cardinality(byRest) \in Nat
    BY <1>3, FS_CardinalityType
  <2> QED
    BY <2>1, <2>2, <2>3
<1>5. present \subseteq byVec \cup byRest
  <2> SUFFICES ASSUME NEW n \in DOMAIN hs, hs[n] \in added PROVE n \in byVec \cup byRest
    OBVIOUS
  <2>1. hs[n] \in Hash /\ construct_mask_scalar(hs[n]) \subseteq bv[block_idx(hs[n])]
    BY DEF FilterInv
  <2>2. construct_mask_avx2(hs[n]) = construct_mask_scalar(hs[n])
    BY <2>1, LanesSame
  <2> QED
    BY <2>1, <2>2 DEF Split
<1> HIDE DEF byVec, byRest, present
<1>6. byVec \cup byRest \in SUBSET DOMAIN hs
  BY <1>2
<1>7. /\ IsFiniteSet(byVec \cup byRest) /\ Cardinality(byVec \cup byRest) <= Len(hs)
      /\ Cardinality(byVec \cup byRest) \in Nat
  BY <1>1, <1>6, FS_Subset, FS_CardinalityType
<1>8. Cardinality(present) <= Cardinality(byVec \cup byRest) /\ Cardinality(present) \in Nat
  BY <1>5, <1>7, FS_Subset, FS_CardinalityType
<1> QED
  BY <1>1, <1>4, <1>7, <1>8 DEF present

\* The promise counts with the same cardinality.
LEMMA SameCardinality ==
  \A S : Promise!Cardinality(S) = Cardinality(S)
BY DEF Promise!Cardinality, Cardinality

\* A step of the filter keeps the invariants and is one of the promise, or none.
StepKept ==
  /\ TableInv' /\ FilterInv'
  /\ Promise!Add \/ Promise!Ask \/ Promise!Drop \/ UNCHANGED history

LEMMA InsertKeeps ==
  ASSUME TableInv, FilterInv, NEW hs \in AllBatches, NEW vec, NEW rest, Split(hs, vec, rest),
         Insert(hs, vec, rest)
  PROVE  StepKept
<1>1. hs \in Seq(Hash)
  BY BatchHashes
<1>2. FilterInv'
  BY <1>1, FilterInsert DEF Split
<1>3. TableInv'
  BY TableKept DEF Insert, locals
<1>4. Promise!Add
  <2>1. hs \in HashBatches \cup {Hashed(ks) : ks \in KeyBatches} \cup {<<h>> : h \in Hash}
    BY DEF AllBatches
  <2>2. added' = added \cup {hs[j] : j \in DOMAIN hs} /\ asked' = <<>> /\ hits' = 0
    BY DEF Insert, ToSet
  <2> QED
    BY <2>1, <2>2 DEF Promise!Add
<1> QED
  BY <1>2, <1>3, <1>4 DEF StepKept

LEMMA QueryKeeps ==
  ASSUME TableInv, FilterInv, NEW hs \in AllBatches, NEW vec, NEW rest, Split(hs, vec, rest),
         Query(hs, vec, rest)
  PROVE  StepKept
<1>1. hs \in Seq(Hash)
  BY BatchHashes
<1>2. bv \in Filters
  BY DEF Query, Live, FilterInv
<1>3. FilterInv' /\ TableInv'
  BY TableKept, FilterKept DEF Query, locals
<1>4. Promise!Ask
  <2>1. asked' = hs /\ hits' = Found(hs, vec, rest) /\ UNCHANGED added
    BY DEF Query
  <2>2. hs \in HashBatches \cup {Hashed(ks) : ks \in KeyBatches} \cup {<<h>> : h \in Hash}
    BY DEF AllBatches
  <2>3. Promise!Present(hs, added) = Cardinality({n \in DOMAIN hs : hs[n] \in added})
    BY SameCardinality DEF Promise!Present
  <2>4. hits' \in 0 .. Len(hs) /\ hits' >= Promise!Present(hs, added)
    BY <1>1, <1>2, <2>1, <2>3, FoundCounts
  <2> QED
    BY <2>1, <2>2, <2>4 DEF Promise!Ask
<1> QED
  BY <1>3, <1>4 DEF StepKept

\* Before there is a filter nothing was inserted.
LEMMA NoFilterKept ==
  ASSUME FilterInv, bv = NoFilter, UNCHANGED <<bv, added>>
  PROVE  FilterInv'
BY ValueAssumption DEF FilterInv

LEMMA CallSplits ==
  /\ \A h \in Hash : Split(<<h>>, {}, {1}) /\ <<h>> \in AllBatches
  /\ \A hs \in HashBatches : hs \in AllBatches /\ Split(hs, DOMAIN hs, {})
  /\ \A ks \in KeyBatches : Hashed(ks) \in AllBatches /\ Split(Hashed(ks), {}, DOMAIN ks)
  /\ \A hs \in AllBatches : Split(hs, 1 .. Batched(Len(hs)), Rest(Len(hs)))
<1>1. \A h \in Hash : Split(<<h>>, {}, {1}) /\ <<h>> \in AllBatches
  BY DEF Split, AllBatches
<1>2. \A hs \in HashBatches : hs \in AllBatches /\ Split(hs, DOMAIN hs, {})
  BY DEF Split, AllBatches
<1>3. \A ks \in KeyBatches : Hashed(ks) \in AllBatches /\ Split(Hashed(ks), {}, DOMAIN ks)
  BY DEF Split, AllBatches, Hashed
<1>4. \A hs \in AllBatches : Split(hs, 1 .. Batched(Len(hs)), Rest(Len(hs)))
  BY BatchHashes, BulkSplit
<1> QED
  BY <1>1, <1>2, <1>3, <1>4

LEMMA KrassovskyNext ==
  TableInv /\ FilterInv /\ [Next]_vars => StepKept
<1> SUFFICES ASSUME TableInv, FilterInv, [Next]_vars PROVE StepKept
  OBVIOUS
<1>1. CASE bloom_new
  BY <1>1, TableNew, NoFilterKept DEF bloom_new, StepKept, history
<1>2. CASE Pattern
  <2>1. bv = NoFilter /\ UNCHANGED <<bv, history>>
    BY <1>2 DEF Pattern, FilterInv
  <2> QED
    BY <1>2, <2>1, TablePattern, NoFilterKept DEF StepKept, history
<1>3. CASE Slide
  <2>1. bv = NoFilter /\ UNCHANGED <<bv, history>>
    BY <1>3 DEF Slide, FilterInv
  <2> QED
    BY <1>3, <2>1, TableSlide, NoFilterKept DEF StepKept, history
<1>4. CASE Slid
  <2>1. bv = NoFilter /\ UNCHANGED <<bv, history>>
    BY <1>4 DEF Slid, FilterInv
  <2> QED
    BY <1>4, <2>1, TableSlid, NoFilterKept DEF StepKept, history
<1>5. CASE Make
  BY <1>5, FilterMake, TableKept DEF Make, StepKept
<1>6. CASE bloom_free
  <2>1. TableInv'
    BY <1>6, TableKept DEF bloom_free, locals
  <2>2. FilterInv'
    BY <1>6, ValueAssumption DEF bloom_free, FilterInv, Live
  <2> QED
    BY <1>6, <2>1, <2>2 DEF bloom_free, StepKept, Promise!Drop
<1>7. ASSUME NEW h \in Hash, bloom_insert_prehash(h) \/ bloom_contains_prehash(h)
      PROVE  StepKept
  BY <1>7, CallSplits, InsertKeeps, QueryKeeps DEF bloom_insert_prehash, bloom_contains_prehash
<1>8. ASSUME NEW h \in Probes, bloom_insert_prehash(h) \/ bloom_contains_prehash(h)
      PROVE  StepKept
  BY <1>7, <1>8, CallAssumption
<1>9. ASSUME NEW key \in DOMAIN bloom_hash, bloom_insert(key) \/ bloom_contains(key)
      PROVE  StepKept
  BY <1>7, <1>9, BatchHashes DEF bloom_insert, bloom_contains
<1>10. ASSUME NEW hs \in AllBatches, bloom_insert_batch8_bulk(hs) \/ bloom_contains_batch8_bulk(hs)
       PROVE  StepKept
  BY <1>10, CallSplits, InsertKeeps, QueryKeeps
     DEF bloom_insert_batch8_bulk, bloom_contains_batch8_bulk
<1>11. ASSUME NEW hs \in HashBatches,
              \/ bloom_insert_batch8(hs) \/ bloom_contains_batch8(hs)
              \/ bloom_insert_prehash_bulk(hs) \/ bloom_contains_prehash_bulk(hs)
       PROVE  StepKept
  BY <1>10, <1>11, CallSplits, InsertKeeps, QueryKeeps
     DEF bloom_insert_batch8, bloom_contains_batch8,
         bloom_insert_prehash_bulk, bloom_contains_prehash_bulk
<1>12. ASSUME NEW ks \in KeyBatches, bloom_insert_bulk(ks) \/ bloom_contains_bulk(ks)
       PROVE  StepKept
  BY <1>10, <1>12, CallSplits, InsertKeeps, QueryKeeps
     DEF bloom_insert_bulk, bloom_contains_bulk
<1>13. CASE UNCHANGED vars
  BY <1>13, TableKept, FilterKept DEF vars, locals, history, StepKept
<1> QED
  BY <1>1, <1>2, <1>3, <1>4, <1>5, <1>6, <1>8, <1>9, <1>11, <1>12, <1>13 DEF Next

LEMMA KrassovskyInit ==
  Init => TableInv /\ FilterInv
BY DEF Init, TableInv, FilterInv

THEOREM KrassovskyAlways ==
  Spec => [](TableInv /\ FilterInv)
<1>1. TableInv /\ FilterInv /\ [Next]_vars => (TableInv /\ FilterInv)'
  BY KrassovskyNext DEF StepKept
<1> QED
  BY <1>1, KrassovskyInit, PTL DEF Spec

\* Every mask, rotated, is within the bounds, so that no query is answered by a
\* mask without bits: for every table that may be drawn.
THEOREM MasksBounded ==
  Spec => []MaskBits
<1>1. TableInv => MaskBits
  <2> SUFFICES ASSUME TableInv, mask_table_inited, NEW h \in Hash
               PROVE  Cardinality(construct_mask_scalar(h)) \in MIN_BITS_SET .. MAX_BITS_SET
    BY DEF MaskBits
  <2>1. h % NUM_MASKS \in 0 .. NUM_MASKS - 1
    BY PartsInRange
  <2>2. Bounded(h % NUM_MASKS) /\ MASK_TABLE \subseteq Nat
    BY <2>1 DEF TableInv
  <2> QED
    BY <2>2, MaskSize DEF Bounded
<1> QED
  BY <1>1, KrassovskyAlways, PTL

\* The vector code and the scalar code make the same masks.
THEOREM LanesAlways ==
  Spec => []LanesAgree
<1>1. LanesAgree
  BY LanesSame DEF LanesAgree
<1> QED
  BY <1>1, PTL

\* A query counts all that was inserted, for every width of the table and of
\* the words, whatever table was drawn and however calls are cut into batches.
THEOREM PromiseAlways ==
  Spec => PromiseKept
<1>1. Init => Promise!Init
  BY DEF Init, Promise!Init
<1>2. TableInv /\ FilterInv /\ [Next]_vars =>
        [Promise!Add \/ Promise!Ask \/ Promise!Drop \/ Promise!Lose]_<<added, asked, hits, TRUE>>
  BY KrassovskyNext DEF StepKept, history
<1> QED
  BY <1>1, <1>2, KrassovskyAlways, PTL DEF Spec, PromiseKept, Promise!Spec

=============================================================================
