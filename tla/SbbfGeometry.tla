---------------------------- MODULE SbbfGeometry ----------------------------
(***************************************************************************)
(* The arithmetic of quickbloom's split block Bloom filter                 *)
(* (src/quickbloom.c): how a size in bits becomes a number of blocks, how  *)
(* the two halves of a hash become a block index and one bit in each lane  *)
(* of that block.  No state; QuickBloom and QbLifecycle build on it.       *)
(*                                                                         *)
(* The widths are parameters so that TLC can take them small and the       *)
(* proofs can leave them open.  The C code has                             *)
(*   HalfBits = 32, LaneLog = 5, LaneCount = 8, SizeBits = 64,             *)
(*   MaxBlocksLog = 31.                                                    *)
(***************************************************************************)
EXTENDS Integers, PowersOfTwo

CONSTANTS
  HalfBits,      \* width of each half of a hash, and of uint32_t
  LaneLog,       \* log2 of the bits of a lane
  LaneCount,     \* lanes of a block: a mask has one bit in each
  Salt,          \* [Lanes -> odd multiplier], in the order of the lanes
  SizeBits,      \* width of size_t
  MaxBlocksLog   \* log2 of QB_MAX_NBLOCKS

Lanes == 0 .. LaneCount - 1

ASSUME WidthAssumption ==
  /\ HalfBits \in Nat
  /\ LaneLog \in 0 .. HalfBits
  /\ LaneCount \in Nat \ {0}
  /\ SizeBits \in Nat
  /\ HalfBits < SizeBits
  /\ MaxBlocksLog \in 0 .. HalfBits - 1

ASSUME SaltAssumption ==
  Salt \in [Lanes -> 0 .. Pow2[HalfBits] - 1]

(***************************************************************************)
(* Values.  A lane is the set of the positions of its one bits.            *)
(***************************************************************************)
Hash == 0 .. Pow2[2 * HalfBits] - 1
Size == 0 .. Pow2[SizeBits] - 1
Bit == 0 .. Pow2[LaneLog] - 1
Word == SUBSET Bit

BlockBits == LaneCount * Pow2[LaneLog]
QB_MAX_NBLOCKS == Pow2[MaxBlocksLog]

UpperHalf(h) == h \div Pow2[HalfBits]
LowerHalf(h) == h % Pow2[HalfBits]

(***************************************************************************)
(* Sizes.  The addition in qb_new wraps at the width of size_t.            *)
(* Here and in the modules that follow, a mutation is a wrong form of the  *)
(* definition after it that no specification uses; README.md says which    *)
(* property each one breaks.                                               *)
(***************************************************************************)
BlocksFor(nbits) ==
  LET nblocks == ((nbits + (BlockBits - 1)) % Pow2[SizeBits]) \div BlockBits
  IN  IF nblocks = 0 THEN 1 ELSE nblocks

\* The least k with n <= 2^k: log2_pow2's loop, and qb_new's rounding loop.
log2_pow2(n) ==
  CHOOSE k \in 0 .. SizeBits : n <= Pow2[k] /\ \A j \in 0 .. k - 1 : Pow2[j] < n

\* Mutation: qb_new's rounding loop left out.
RoundedBlocks_never(nbits) == BlocksFor(nbits)

RoundedBlocks(nbits) == Pow2[log2_pow2(BlocksFor(nbits))]

\* The uint32_t idx_shift of a filter; the subtraction wraps.
IdxShift(nblocks) == (HalfBits - log2_pow2(nblocks)) % Pow2[HalfBits]

(***************************************************************************)
(* Where a hash goes.                                                      *)
(***************************************************************************)
\* Mutation: the index from the half that makes the mask.
block_for_low(idx_shift, h) == LowerHalf(h) \div Pow2[idx_shift]

block_for(idx_shift, h) == UpperHalf(h) \div Pow2[idx_shift]

\* Mutation: the product shifted by one place too few.
mask_for_wide(h) ==
  [l \in Lanes |->
    {((LowerHalf(h) * Salt[l]) % Pow2[HalfBits]) \div Pow2[HalfBits - LaneLog - 1]}]

mask_for(h) ==
  [l \in Lanes |->
    {((LowerHalf(h) * Salt[l]) % Pow2[HalfBits]) \div Pow2[HalfBits - LaneLog]}]

\* _mm256_testc_si256: every bit of the mask is set in the block.
Covers(block, mask) == \A l \in Lanes : mask[l] \subseteq block[l]

(***************************************************************************)
(* The reference the comments of block_for name: the Parquet index, a      *)
(* multiply and a shift that needs no power of two.                        *)
(***************************************************************************)
Fastrange(nblocks, h) == (UpperHalf(h) * nblocks) \div Pow2[HalfBits]

\* The block b of a filter of nblocks blocks that holds exactly the hashes S.
BlockImage(nblocks, S, b) ==
  [l \in Lanes |-> UNION {mask_for(h)[l] : h \in {x \in S : Fastrange(nblocks, x) = b}}]

\* What such a filter answers for h: the answer of every SBBF implementation.
Reports(nblocks, S, h) ==
  Covers(BlockImage(nblocks, S, Fastrange(nblocks, h)), mask_for(h))

=============================================================================
