---------------------------- MODULE MCBinaryFuse ----------------------------
(***************************************************************************)
(* Small instances of BinaryFuse: hashes of six bits, segments of at most *)
(* two cells, counters that wrap at three keys, arrays of up to four keys. *)
(***************************************************************************)
EXTENDS BinaryFuse

CONSTANTS k1, k2, k3, k4

\* None to four keys, and copies next to each other and apart.
MCInputs ==
  {<<>>, <<k1>>, <<k1, k2>>, <<k1, k1>>, <<k1, k1, k2>>, <<k1, k2, k1, k2>>,
   <<k1, k2, k3>>, <<k1, k2, k3, k4>>}

\* Ten hashes: every pair of lower bits under two pairs of upper bits, the
\* other two pairs once, and the bit between so that fingerprints differ.
MCHashes ==
  {4} \cup {16 * p[1] + 8 * ((p[1] + p[2]) % 2) + p[2] :
             p \in ({0, 2} \X (0 .. 3) \ {<<0, 0>>}) \cup {<<1, 0>>, <<3, 3>>}}
=============================================================================
