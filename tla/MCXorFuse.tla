----------------------------- MODULE MCXorFuse -----------------------------
(***************************************************************************)
(* Small instances of XorFuse: four hashes, two of them the ones that      *)
(* build stages by itself, three keys of which two have the same hash.     *)
(***************************************************************************)
EXTENDS XorFuse

CONSTANTS k1, k2, k3

MChash == k1 :> 2 @@ k2 :> 3 @@ k3 :> 2
MCKeyBatches == {<<>>, <<k1>>, <<k1, k2, k3>>}
MCHashBatches == {<<>>, <<1, 3>>, <<2, 2>>}
=============================================================================
