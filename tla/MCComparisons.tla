--------------------------- MODULE MCComparisons ---------------------------
(***************************************************************************)
(* Small instances of Comparisons: hashes and sizes of six bits, words of  *)
(* eight bits, blocks of two lanes of two bits, two keys of 16 bytes and a *)
(* shorter one.                                                            *)
(***************************************************************************)
EXTENDS Comparisons, TLC

CONSTANTS k1, k2, k3

MCSalt == 0 :> 3 @@ 1 :> 5

MCbloom_hash == k1 :> 37 @@ k2 :> 10 @@ k3 :> 13
MCxxh64 == k1 :> 10 @@ k2 :> 55 @@ k3 :> 7

MCKeyBatches == {<<k1, k2>>, <<k3, k3>>}
MCHashBatches == {<<>>, <<63, 37, 63>>, <<0, 7>>}
=============================================================================
