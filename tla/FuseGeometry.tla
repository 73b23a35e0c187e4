---------------------------- MODULE FuseGeometry ----------------------------
(***************************************************************************)
(* The arithmetic of src/comparisons/binaryfusefilter.h: how large an      *)
(* array binary_fuse8_allocate makes, and which three cells of it a hash   *)
(* has.  No state; BinaryFuse builds on it.                                *)
(*                                                                         *)
(* The C code has HashBits = 64, FieldBits = 18, CountBits = 32,           *)
(* FingerprintBits = 8.                                                    *)
(***************************************************************************)
EXTENDS Words

CONSTANTS
  HashBits,         \* width of a hash
  FieldBits,        \* width of a field of the hash that picks a cell of a segment
  CountBits,        \* width of uint32_t, of sizes and of array indexes
  FingerprintBits

ASSUME FuseWidthAssumption ==
  /\ {HashBits, FieldBits, CountBits, FingerprintBits} \subseteq Nat \ {0}
  /\ HashBits % 2 = 0
  /\ 2 * FieldBits <= HashBits
  /\ CountBits <= HashBits
  /\ FieldBits + 2 <= CountBits   \* three segments can be indexed

Wrap(n) == n % Pow2[CountBits]

\* Mutation: the segment length not limited to what a field can address.
Limited_never(length) == length

Limited(length) == IF length > Pow2[FieldBits] THEN Pow2[FieldBits] ELSE length

(***************************************************************************)
(* binary_fuse8_allocate, its calloc apart.  length stands for what the    *)
(* logarithms of binary_fuse_calculate_segment_length give, any power of   *)
(* two, and capacity for size times binary_fuse_calculate_size_factor.     *)
(***************************************************************************)
allocate(size, length, capacity) ==
  LET segment == Limited(length)
      init    == Wrap(Wrap(capacity + segment - 1) \div segment - 2)
      cells   == Wrap((init + 2) * segment)
      needed  == Wrap(cells + segment - 1) \div segment
      count   == IF needed <= 2 THEN 1 ELSE needed - 2
  IN  [Size |-> size, SegmentLength |-> segment, SegmentCount |-> count,
       SegmentCountLength |-> Wrap(count * segment),
       ArrayLength |-> Wrap((count + 2) * segment)]

\* The size factor is at least 9/8; a filter of at most one key has capacity 0.
IsCapacity(size, capacity) ==
  IF size <= 1 THEN capacity = 0 ELSE 8 * capacity >= 9 * size - 4

mulhi(a, b) == (a * b) \div Pow2[HashBits]

\* The form of mulhi for compilers without a 128-bit integer.
mulhi_portable(a, b) ==
  LET H      == Pow2[HashBits \div 2]
      p11    == (a \div H) * (b \div H)
      p01    == (a % H) * (b \div H)
      p10    == (a \div H) * (b % H)
      p00    == (a % H) * (b % H)
      middle == p10 + (p00 \div H) + (p01 % H)
  IN  p11 + (middle \div H) + (p01 \div H)

\* The cell of slot 0, 1 or 2 of a hash, as binary_fuse8_populate computes it.
hash_cell(index, hash, f) ==
  LET hh    == hash % Pow2[2 * FieldBits]
      field == (hh \div Pow2[2 * FieldBits - FieldBits * index]) % f.SegmentLength
  IN  Xor(mulhi(hash, f.SegmentCountLength) + index * f.SegmentLength, field)

\* The field of the second cell.
Field(hash, f) == (hash \div Pow2[FieldBits]) % f.SegmentLength

\* The three cells as binary_fuse8_contain computes them.
hash_batch(hash, f) ==
  LET h0 == mulhi(hash, f.SegmentCountLength)
  IN  <<h0,
        Xor(h0 + f.SegmentLength, Field(hash, f)),
        Xor(h0 + 2 * f.SegmentLength, hash % f.SegmentLength)>>

fingerprint(hash) ==
  Xor(hash, hash \div Pow2[HashBits \div 2]) % Pow2[FingerprintBits]

=============================================================================
