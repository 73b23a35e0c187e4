---------------------------- MODULE MCQuickBloom ----------------------------
(***************************************************************************)
(* Small instances of QuickBloom for TLC: hashes of two 3-bit halves,      *)
(* blocks of two lanes of two bits, an unrolled width of two.              *)
(***************************************************************************)
EXTENDS QuickBloom, TLC

CONSTANTS a, b, c, s   \* keys: a, b and c of 16 bytes, s shorter

MCSalt == 0 :> 3 @@ 1 :> 5

\* a and b share block 0 and no bit; c and s share block 1 and one bit.
\* What hash16 makes of the short key is the hash of another block.
MCHash16 == a :> 0 @@ b :> 4 @@ c :> 33 @@ s :> 1
MCFastHash == a :> 37 @@ b :> 35 @@ c :> 2 @@ s :> 36

Call(fn, klen, items) == [fn |-> fn, klen |-> klen, items |-> items]

\* Whole rounds, a tail and none; the hash 1 is never inserted but reported
\* once a and b are.
MCCalls == {
  Call("qb_insert", 8, <<s>>),
  Call("qb_insert_bulk", 16, <<a, b, c>>),
  Call("qb_insert_bulk", 8, <<s, s>>),
  Call("qb_insert_prehash", 0, <<4>>),
  Call("qb_insert_prehash_bulk", 0, <<0, 4>>),
  Call("qb_contains", 16, <<a>>),
  Call("qb_contains_bulk", 16, <<b, a, c>>),
  Call("qb_contains_bulk", 8, <<s, s>>),
  Call("qb_contains_prehash", 0, <<1>>),
  Call("qb_contains_prehash_bulk", 0, <<1, 36>>),
  Call("qb_contains_prehash_bulk", 0, <<>>)}

\* Fewer calls for the run with liveness: a torn bulk insert with a tail, a
\* short key, and queries of every shape.
MCFewCalls == {
  Call("qb_insert", 8, <<s>>),
  Call("qb_insert_bulk", 16, <<a, b, c>>),
  Call("qb_contains_bulk", 16, <<b, a, c>>),
  Call("qb_contains", 8, <<s>>),
  Call("qb_contains_prehash_bulk", 0, <<>>)}

Symmetry == Permutations(Threads)
=============================================================================
