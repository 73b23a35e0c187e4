--------------------------- MODULE MCQbLifecycle ---------------------------
(***************************************************************************)
(* Small instances of QbLifecycle: hashes of two 3-bit halves, blocks of   *)
(* two lanes of two bits and two "bytes", a size_t of six bits and at most *)
(* four blocks.                                                            *)
(***************************************************************************)
EXTENDS QbLifecycle, TLC

MCSalt == 0 :> 3 @@ 1 :> 5

\* Block 0 (12) and block 1 (25) of four blocks; both in block 0 of two.
MCInserted == {12, 25}

\* Fresh storage is never clear.
MCJunk == {[l \in Lanes |-> Bit]}

\* No bit, a block and a bit, two blocks and a bit, which are rounded up to the
\* four of the cap, the cap, one bit more than the cap, and the first size whose
\* addition wraps.
MCNewSizes == {0, 5, 9, 16, 17, 61}

\* Nothing, half a block, one, three, four and eight blocks.
MCForeignSizes == {0, 1, 2, 6, 8, 16}

\* A buffer of sixteen blocks, for a build whose QB_DESERIALIZE_MAX_BYTES
\* lets it in.
MCLargeForeign == {32}

\* Handles are interchangeable, and so are addresses.
Symmetry == Permutations(Handles) \cup Permutations(Addresses)
=============================================================================
