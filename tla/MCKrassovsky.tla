---------------------------- MODULE MCKrassovsky ----------------------------
(***************************************************************************)
(* Small instances of Krassovsky: words of eight bits, bytes of two, four  *)
(* masks of seven bits, two blocks, batches of two.                        *)
(***************************************************************************)
EXTENDS Krassovsky

CONSTANTS k1, k2, k3

MCbloom_hash == k1 :> 33 @@ k2 :> 30 @@ k3 :> 1
MCKeyBatches == {<<k1, k2>>, <<k3>>}
MCHashBatches == {<<33, 2, 30>>, <<30, 33>>}
=============================================================================
