----------------------------- MODULE BinaryFuse -----------------------------
(***************************************************************************)
(* binary_fuse8_populate (src/comparisons/binaryfusefilter.h:215-360): a   *)
(* filter for a fixed array of keys.  Each round takes a new seed, scatters*)
(* the hashes of the keys over reverseOrder, counts them into the cells of *)
(* the array, peels off keys that have a cell to themselves, and, once all *)
(* are off, gives each its own cell in the reverse order.                  *)
(*                                                                         *)
(* A seed is what it makes of the keys: any injective function to Hashes   *)
(* (murmur64 is a bijection).  The xor of the hashes counted in a cell is  *)
(* the set of the keys with an odd number of them.  No key hashes to 0,    *)
(* which stands for a free slot: a case of one in 2^64 in the code.        *)
(***************************************************************************)
EXTENDS FuseGeometry, SequencesExt

CONSTANTS
  Hashes,            \* the values of a hash
  Inputs,            \* the arrays of keys a caller may pass
  Lengths,           \* what calculate_segment_length may give
  Capacities,        \* what size times the size factor may give
  XOR_MAX_ITERATIONS,
  CountModulus,      \* a cell counts its keys in six bits: 64 in C
  NoKey,             \* a zero in reverseOrder
  Sentinel           \* the one at its end

ASSUME PopulateAssumption ==
  /\ Hashes \subseteq 0 .. Pow2[HashBits] - 1
  /\ \A ks \in Inputs : ks \in Seq(ToSet(ks)) /\ NoKey \notin ToSet(ks)
  /\ \A length \in Lengths : \E e \in 0 .. length : length = Pow2[e]
  /\ Capacities \subseteq Nat
  /\ CountModulus \in Nat \ {0}
  /\ Sentinel # NoKey

VARIABLES
  pc,           \* "idle", "seed", "scatter", "spin", "count", "peel", "assign", "failed", "built"
  filter,       \* the fields of binary_fuse8_t
  Fingerprints,
  given,        \* the caller's keys, as they were
  keys,         \* the caller's array
  size, loop, i, duplicates, error,
  hash,         \* key -> its hash under the seed
  startPos,
  reverseOrder, \* 0 .. -> the key of a hash, NoKey, or Sentinel
  reverseH,     \* its length is stacksize
  t2,           \* cell -> its count, its slot bits (t2count & 3) and t2hash
  alone         \* the first Qsize entries of the queue

caller   == <<filter, given, keys>>
scatters == <<startPos, reverseOrder>>
counts   == <<t2, duplicates, error>>
vars == <<pc, caller, Fingerprints, size, loop, i, hash, scatters, counts, reverseH, alone>>

Slot == 0 .. 2
Cells == 0 .. filter.ArrayLength - 1
Nothing == [count |-> 0, slot |-> {}, hash |-> {}]

Cell(k, s) == hash_cell(s, hash[k], filter)

\* The bits of a slot number, so that their xor is SymDiff.
SlotBits(s) == {s} \ {0}

\* The least power of two, at least 2, that is not below the segment count.
block ==
  CHOOSE b \in {Pow2[e] : e \in 1 .. CountBits} :
    b >= filter.SegmentCount /\ (b = 2 \/ b \div 2 < filter.SegmentCount)

\* The cast binds before the shift: the product wraps at 32 bits.
StartsOf(n) == [b \in 0 .. block - 1 |-> Wrap(b * n) \div block]

\* Mutation: the bits of a key's slot stay when the key leaves the cell.
SlotAfter_kept(bits, s, d) == IF d = 1 THEN SymDiff(bits, SlotBits(s)) ELSE bits

SlotAfter(bits, s, d) == SymDiff(bits, SlotBits(s))

\* Adds key k to the cells of its slots S (d = 1), or takes it off them (d = -1).
Toggle(t, k, S, d) ==
  [c \in DOMAIN t |->
     IF \A s \in S : Cell(k, s) # c THEN t[c]
     ELSE LET s == CHOOSE s \in S : Cell(k, s) = c
          IN  [count |-> (t[c].count + d) % CountModulus,
               slot  |-> SlotAfter(t[c].slot, s, d),
               hash  |-> SymDiff(t[c].hash, {k})]]

Init ==
  /\ pc = "idle"
  /\ given \in Inputs
  /\ \E length \in Lengths, capacity \in Capacities, n \in {0, Len(given)} :
       /\ IsCapacity(n, capacity)
       /\ filter = allocate(n, length, capacity)
  /\ Fingerprints = [c \in Cells |-> 0]
  /\ keys = given
  /\ size = Len(given)
  /\ loop = 0 /\ i = 0 /\ duplicates = 0 /\ error = FALSE
  /\ hash = <<>> /\ startPos = <<>> /\ reverseH = <<>> /\ alone = <<>>
  /\ reverseOrder = [j \in 0 .. size |-> NoKey]
  /\ t2 = [c \in Cells |-> Nothing]

(***************************************************************************)
(* Round n is to be on the first m of the keys ks, the tables being as the *)
(* clearing before it leaves them.                                         *)
(***************************************************************************)
BeginRound(n, m, ks, order) ==
  /\ pc' = IF n + 1 > XOR_MAX_ITERATIONS THEN "failed" ELSE "seed"
  /\ loop' = n /\ size' = m /\ i' = 0 /\ duplicates' = 0 /\ error' = FALSE
  /\ keys' = ks
  /\ reverseOrder' = order
  /\ t2' = [c \in Cells |-> Nothing]
  /\ hash' = <<>> /\ startPos' = <<>> /\ reverseH' = <<>>
  /\ UNCHANGED <<filter, given, Fingerprints, alone>>

\* A size that is not the filter's, or an allocation that fails.
Refuse ==
  /\ pc = "idle"
  /\ pc' = "failed"
  /\ UNCHANGED <<caller, Fingerprints, size, loop, i, hash, scatters, counts, reverseH, alone>>

Start ==
  /\ pc = "idle"
  /\ size = filter.Size
  /\ BeginRound(0, size, keys, [reverseOrder EXCEPT ![size] = Sentinel])

Reseed ==
  /\ pc = "seed"
  /\ pc' = IF size = 0 THEN "count" ELSE "scatter"
  /\ hash' \in Injection(ToSet(keys), Hashes)
  /\ startPos' = StartsOf(size)
  /\ UNCHANGED <<caller, Fingerprints, size, loop, i, reverseOrder, counts, reverseH, alone>>

\* Mutation: the segments are not tried in a circle.
Segment_straight(b) == IF b < block THEN b ELSE block - 1

Segment(b) == b % block

(***************************************************************************)
(* A key goes to the first segment, from its own on, whose next slot is    *)
(* free; when no segment has one the loop never ends.                      *)
(***************************************************************************)
Scatter ==
  /\ pc = "scatter"
  /\ LET own   == hash[keys[i + 1]] \div (Pow2[HashBits] \div block)
         tries == {d \in 0 .. block - 1 : reverseOrder[startPos[Segment(own + d)]] = NoKey}
         b     == Segment(own + Min(tries))
     IN  IF tries = {}
         THEN pc' = "spin" /\ UNCHANGED <<i, scatters>>
         ELSE /\ reverseOrder' = [reverseOrder EXCEPT ![startPos[b]] = keys[i + 1]]
              /\ startPos' = [startPos EXCEPT ![b] = @ + 1]
              /\ i' = (i + 1) % size
              /\ pc' = IF i + 1 = size THEN "count" ELSE pc
  /\ UNCHANGED <<caller, Fingerprints, size, loop, hash, counts, reverseH, alone>>

\* The key makes two in a cell whose hashes cancel out.
IsTwin(t, k) == \E s \in Slot : t[Cell(k, s)].hash = {} /\ t[Cell(k, s)].count = 2

\* Mutation: a count that has wrapped goes unnoticed.
Wrapped_unseen(t, k) == FALSE

\* t2count < 4.
Wrapped(t, k) == \E s \in Slot : t[Cell(k, s)].count = 0

Count ==
  /\ pc = "count"
  /\ i < size
  /\ LET k     == reverseOrder[i]
         added == Toggle(t2, k, Slot, 1)
     IN  /\ t2' = IF IsTwin(added, k) THEN Toggle(added, k, Slot, -1) ELSE added
         /\ duplicates' = duplicates + (IF IsTwin(added, k) THEN 1 ELSE 0)
         /\ error' = (error \/ Wrapped(t2', k))
  /\ i' = i + 1
  /\ UNCHANGED <<pc, caller, Fingerprints, size, loop, hash, scatters, reverseH, alone>>

\* Mutation: all of reverseOrder, its end included.
Cleared_whole(n) == [j \in DOMAIN reverseOrder |-> NoKey]

Cleared(n) == [j \in DOMAIN reverseOrder |-> IF j < n THEN NoKey ELSE reverseOrder[j]]

CountFailed ==
  /\ pc = "count"
  /\ i = size
  /\ error
  /\ BeginRound(loop + 1, size, keys, Cleared(size))

\* The members of a set of numbers in ascending order.
Ascending(S) ==
  [n \in 1 .. Cardinality(S) |->
     CHOOSE c \in S : Cardinality({d \in S : d < c}) = n - 1]

\* The scan of the array for cells with one key.
Counted ==
  /\ pc = "count"
  /\ i = size
  /\ ~error
  /\ pc' = "peel"
  /\ alone' = Ascending({c \in Cells : t2[c].count = 1})
  /\ UNCHANGED <<caller, Fingerprints, size, loop, i, hash, scatters, counts, reverseH>>

\* Mutation: a cell is queued whatever number of keys it is left with.
PushIf_any(q, c) == Append(q, c)

\* A cell is queued when the key that leaves it leaves one key behind.
PushIf(q, c) == IF t2[c].count = 2 THEN Append(q, c) ELSE q

Peel ==
  /\ pc = "peel"
  /\ alone # <<>>
  /\ LET index == Last(alone)
     IN  IF t2[index].count # 1
         THEN alone' = Front(alone) /\ UNCHANGED <<reverseOrder, reverseH, t2>>
         ELSE \E k \in t2[index].hash, found \in Slot :
                /\ t2[index].slot = SlotBits(found)
                /\ alone' = PushIf(PushIf(Front(alone), Cell(k, (found + 1) % 3)),
                                   Cell(k, (found + 2) % 3))
                /\ t2' = Toggle(t2, k, Slot \ {found}, -1)
                /\ reverseOrder' = [reverseOrder EXCEPT ![Len(reverseH)] = k]
                /\ reverseH' = Append(reverseH, found)
  /\ UNCHANGED <<pc, caller, Fingerprints, size, loop, i, hash, startPos, duplicates, error>>

AllPeeled == Len(reverseH) + duplicates = size

Peeled ==
  /\ pc = "peel"
  /\ alone = <<>>
  /\ AllPeeled
  /\ pc' = "assign"
  /\ size' = Len(reverseH)
  /\ i' = Len(reverseH)
  /\ UNCHANGED <<caller, Fingerprints, loop, hash, scatters, counts, reverseH, alone>>

\* Mutation: the keys like their predecessor.
Kept_twins(s) == {j \in DOMAIN s : j = 1 \/ s[j] = s[j - 1]}

Kept(s) == {j \in DOMAIN s : j = 1 \/ s[j] # s[j - 1]}

\* The sorted array s after its kept keys have moved to the front.
remove_dup(s) ==
  LET kept == Ascending(Kept(s))
  IN  [j \in DOMAIN s |-> IF j <= Len(kept) THEN s[kept[j]] ELSE s[j]]

(***************************************************************************)
(* Some keys would not peel.  The comparator cuts a 64-bit difference to   *)
(* an int, which is no order: qsort leaves the first size keys in any      *)
(* order.  What is cleared is what the new size says.                      *)
(***************************************************************************)
Retry ==
  /\ pc = "peel"
  /\ alone = <<>>
  /\ ~AllPeeled
  /\ IF duplicates = 0
     THEN BeginRound(loop + 1, size, keys, Cleared(size))
     ELSE \E p \in Bijection(1 .. size, 1 .. size) :
            LET sorted == [j \in 1 .. size |-> keys[p[j]]]
                n      == Cardinality(Kept(sorted))
            IN  BeginRound(loop + 1, n,
                  remove_dup(sorted) \o SubSeq(keys, size + 1, Len(keys)), Cleared(n))

\* Mutation: from the bottom of the stack to its top.
NextOf_up(n) == size - n

NextOf(n) == n - 1

Assign ==
  /\ pc = "assign"
  /\ i > 0
  /\ LET k     == reverseOrder[NextOf(i)]
         found == reverseH[NextOf(i) + 1]
         other(d) == Fingerprints[Cell(k, (found + d) % 3)]
     IN  Fingerprints' = [Fingerprints EXCEPT
           ![Cell(k, found)] = Xor(fingerprint(hash[k]), Xor(other(1), other(2)))]
  /\ i' = i - 1
  /\ UNCHANGED <<pc, caller, size, loop, hash, scatters, counts, reverseH, alone>>

Succeed ==
  /\ pc = "assign"
  /\ i = 0
  /\ pc' = "built"
  /\ UNCHANGED <<caller, Fingerprints, size, loop, i, hash, scatters, counts, reverseH, alone>>

Next ==
  \/ Refuse \/ Start \/ Reseed
  \/ Scatter
  \/ Count \/ CountFailed \/ Counted
  \/ Peel \/ Peeled \/ Retry
  \/ Assign \/ Succeed

Spec == Init /\ [][Next]_vars

\* A call runs on: there is one thread and nothing to wait for.
FairSpec == Spec /\ WF_vars(Next)

binary_fuse8_contain(k) ==
  LET c == hash_batch(hash[k], filter)
  IN  fingerprint(hash[k])
        = Xor(Fingerprints[c[1]], Xor(Fingerprints[c[2]], Fingerprints[c[3]]))

-----------------------------------------------------------------------------
\* Types, and where the indexes can be.
TypeOK ==
  /\ pc \in {"idle", "seed", "scatter", "spin", "count", "peel", "assign", "failed", "built"}
  /\ Fingerprints \in [Cells -> 0 .. Pow2[FingerprintBits] - 1]
  /\ keys \in Seq(ToSet(given)) /\ Len(keys) = Len(given)
  /\ size \in 0 .. Len(given)
  /\ i \in 0 .. size
  /\ duplicates \in 0 .. Len(given)
  /\ \A b \in DOMAIN startPos : startPos[b] \in 0 .. Len(given)
  /\ DOMAIN reverseOrder = 0 .. Len(given)
  /\ reverseH \in Seq(Slot) /\ Len(reverseH) <= Len(given)
  /\ t2 \in [Cells -> [count : 0 .. CountModulus - 1, slot : SUBSET {1, 2},
                       hash : SUBSET ToSet(given)]]
  /\ alone \in Seq(Cells)

(***************************************************************************)
(* A populate that returns true leaves a filter that reports every key the *)
(* caller gave, however often the key was given and whatever rounds failed *)
(* before (binary_fuse8_contain, :133-142).                                *)
(***************************************************************************)
KeysReported == pc = "built" => \A k \in ToSet(given) : binary_fuse8_contain(k)

(***************************************************************************)
(* No key is on the stack twice, and no key above another has the other's  *)
(* own cell among its three, so that the assignment in reverse order never *)
(* changes a cell a key already relies on (:300-330, :344-356).            *)
(***************************************************************************)
StackSound ==
  pc \in {"peel", "assign"} =>
    \A a, b \in 1 .. Len(reverseH) : a < b =>
      /\ reverseOrder[a - 1] # reverseOrder[b - 1]
      /\ \A s \in Slot :
           Cell(reverseOrder[b - 1], s) # Cell(reverseOrder[a - 1], reverseH[a])

(***************************************************************************)
(* A round begins with free slots for all its keys and with something that *)
(* is no free slot behind them, also when removing duplicates has made it  *)
(* shorter than the round before and the one at the end is elsewhere       *)
(* (:240, :288, :338).                                                     *)
(***************************************************************************)
RoundClean ==
  pc \in {"seed", "scatter"} =>
    /\ reverseOrder[size] # NoKey
    /\ Cardinality({j \in 0 .. size - 1 : reverseOrder[j] = NoKey}) = size - i

(***************************************************************************)
(* Every write to alone is inside its capacity elements, the one of the    *)
(* second cell included, which is made before it is known to count (:316). *)
(***************************************************************************)
QueueInArray ==
  pc = "peel" /\ alone # <<>> /\ t2[Last(alone)].count = 1 =>
    \A k \in t2[Last(alone)].hash, s \in Slot :
      Len(PushIf(Front(alone), Cell(k, s))) < filter.ArrayLength

(***************************************************************************)
(* The caller's array loses copies of keys and never a key, and the part   *)
(* of it a round works on has them all (:27-37, :336): the caller builds   *)
(* the next filter from the same array.                                    *)
(***************************************************************************)
KeysPreserved ==
  /\ ToSet(keys) = ToSet(given)
  /\ pc \in {"seed", "scatter", "count", "peel"} =>
       ToSet(SubSeq(keys, 1, size)) = ToSet(given)

(***************************************************************************)
(* The three cells of a hash are in the array and different, and they are  *)
(* the same whether populate or contain computes them, whichever multiply  *)
(* the build has (:88-131).                                                *)
(***************************************************************************)
SameCells ==
  pc = "idle" => \A h \in 0 .. Pow2[HashBits] - 1 :
    LET c == hash_batch(h, filter)
    IN  /\ c = <<hash_cell(0, h, filter), hash_cell(1, h, filter), hash_cell(2, h, filter)>>
        /\ IsInjective(c) /\ ToSet(c) \subseteq Cells
        /\ mulhi(h, filter.SegmentCountLength) = mulhi_portable(h, filter.SegmentCountLength)

\* Every call returns: a key always finds a slot, peeling stops, rounds are
\* limited (:241-246, :256).
PopulateEnds == <>(pc \in {"failed", "built"})
=============================================================================
