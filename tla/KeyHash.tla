------------------------------ MODULE KeyHash ------------------------------
(***************************************************************************)
(* How keys become hashes: bloom_hash of src/quickbloom.c, the one of the  *)
(* filters in src/comparisons, and XXH64 of bloom_impala.c.  A caller      *)
(* hashes one key after another.                                           *)
(*                                                                         *)
(* In C a hash has HashBits = 64 bits and a byte ByteBits = 8, so that a   *)
(* word of the key is 8 bytes and the short cut is for keys of 16.         *)
(***************************************************************************)
EXTENDS FastHash, SequencesExt

CONSTANTS
  HashBits, ByteBits,
  Keys,                \* the keys that are hashed: sequences of bytes
  M, Final,            \* the odd multipliers of fasthash64_var, and
  Shift, FinalShift,   \* its shifts: 23 and 47
  SeedA, SeedB,        \* the constants hash16 mixes in
  Prime,               \* XXH_PRIME64_1 .. 5
  Rotate,              \* the rotations of xxh64, by where they are
  Avalanche            \* its three final shifts

VARIABLES
  key,     \* the key hashed last
  quick,   \* its bloom_hash in quickbloom.c
  shim,    \* its bloom_hash in bloom_xorfuse.c and bloom_krassovsky.c
  xxh      \* its xxh64

vars == <<key, quick, shim, xxh>>

WordBytes == HashBits \div ByteBits

Mul(x, y) == Times(HashBits, x, y)
Add(x, y) == (x + y) % Pow2[HashBits]
Rotl(x, where) == RotateLeft(HashBits, x, Rotate[where])

\* The integers of count times width bytes from the byte after start.
Fields(k, start, width, count) ==
  [j \in 1 .. count |->
     load(ByteBits, SubSeq(k, start + (width * (j - 1)) + 1, start + (width * j)))]

\* The low word of a double-width product xored with the high one.
Fold(a, b) == Xor((a * b) % Pow2[HashBits], (a * b) \div Pow2[HashBits])

\* Mutation: the constants are left out.
hash16_bare(k) == LET ab == Fields(k, 0, WordBytes, 2) IN Fold(ab[1], ab[2])

hash16(k) ==
  LET ab == Fields(k, 0, WordBytes, 2)
  IN  Fold(Xor(ab[1], SeedA), Xor(ab[2], SeedB))

\* hash16 as bloom_xorfuse.c, bloom_krassovsky.c and bloom_classic.c have it.
shim_hash16(k) == LET ab == Fields(k, 0, WordBytes, 2) IN Fold(ab[1], ab[2])

\* Mutation: a case of the switch does not fall through to the next.
TailBytes_one(k) ==
  LET n == Len(k) % WordBytes
  IN  [j \in 1 .. n |-> IF j < n THEN 0 ELSE k[Len(k)]]

\* The bytes the cases of the switch read.
TailBytes(k) == SubSeq(k, Len(k) - (Len(k) % WordBytes) + 1, Len(k))

\* What the hash absorbs: the words, and the bytes behind them as one more.
Absorbs(k) ==
  Fields(k, 0, WordBytes, Len(k) \div WordBytes)
    \o (IF TailBytes(k) = <<>> THEN <<>> ELSE <<load(ByteBits, TailBytes(k))>>)

fasthash64_var(k) ==
  LET start == Mul(Len(k) % Pow2[HashBits], M)
  IN  finish(HashBits, Shift, Final, FinalShift,
             Absorbed(HashBits, M, Shift, start, Absorbs(k)))

bloom_hash(k) == IF Len(k) = 2 * WordBytes THEN hash16(k) ELSE fasthash64_var(k)

shim_bloom_hash(k) == IF Len(k) = 2 * WordBytes THEN shim_hash16(k) ELSE fasthash64_var(k)

xxh_round(acc, x) == Mul(Rotl(Add(acc, Mul(x, Prime[2])), "round"), Prime[1])

xxh_merge_round(acc, v) == Add(Mul(Xor(acc, xxh_round(0, v)), Prime[1]), Prime[4])

\* The four accumulators over the stripes of four words, and their merge.
xxh_stripes(k) ==
  LET stripe(v, words) == [j \in 1 .. 4 |-> xxh_round(v[j], words[j])]
      start == <<Add(Prime[1], Prime[2]), Prime[2], 0, Pow2[HashBits] - Prime[1]>>
      v == FoldLeft(stripe, start,
             [s \in 1 .. Len(k) \div (4 * WordBytes) |->
                Fields(k, 4 * WordBytes * (s - 1), WordBytes, 4)])
      sum == Add(Add(Rotl(v[1], "v1"), Rotl(v[2], "v2")),
                 Add(Rotl(v[3], "v3"), Rotl(v[4], "v4")))
  IN  FoldLeft(xxh_merge_round, sum, v)

\* Mutation: the bytes after the last whole or half word are left out.
xxh_bytes_none(k) == <<>>

\* The bytes that are hashed one by one.
xxh_bytes(k) == SubSeq(k, Len(k) - (Len(k) % (WordBytes \div 2)) + 1, Len(k))

\* xxh64 with seed 0: stripes, words, a half word, bytes.
xxh64(k) ==
  LET n == Len(k)
      word(h, x) == Add(Mul(Rotl(Xor(h, xxh_round(0, x)), "word"), Prime[1]), Prime[4])
      half(h, x) == Add(Mul(Rotl(Xor(h, Mul(x, Prime[1])), "half"), Prime[2]), Prime[3])
      byte(h, x) == Mul(Rotl(Xor(h, Mul(x, Prime[5])), "byte"), Prime[1])
      striped == n - (n % (4 * WordBytes))
      worded  == n - (n % WordBytes)
      h0 == Add(IF n >= 4 * WordBytes THEN xxh_stripes(k) ELSE Prime[5], n % Pow2[HashBits])
      h1 == FoldLeft(word, h0, Fields(k, striped, WordBytes, (n - striped) \div WordBytes))
      h2 == FoldLeft(half, h1,
              Fields(k, worded, WordBytes \div 2, (n - worded) \div (WordBytes \div 2)))
      h3 == FoldLeft(byte, h2, xxh_bytes(k))
  IN  XorShift(Mul(XorShift(Mul(XorShift(h3, Avalanche[1]), Prime[2]), Avalanche[2]), Prime[3]),
               Avalanche[3])

Hash(k) ==
  /\ key' = k
  /\ quick' = bloom_hash(k) /\ shim' = shim_bloom_hash(k) /\ xxh' = xxh64(k)

Init ==
  /\ key = <<>>
  /\ quick = bloom_hash(key) /\ shim = shim_bloom_hash(key) /\ xxh = xxh64(key)

Next == \E k \in Keys : Hash(k)

Spec == Init /\ [][Next]_vars

-----------------------------------------------------------------------------
\* The parts of two keys of one length, w bytes at a time, that differ.
Differing(k, l, w) ==
  {j \in 0 .. (Len(k) - 1) \div w :
     \E n \in w * j + 1 .. w * (j + 1) : n <= Len(k) /\ k[n] # l[n]}

(***************************************************************************)
(* Two keys of one length, not the 16 bytes of the short cut, that differ  *)
(* in a single word, be it the incomplete one at the end, have different   *)
(* hashes: every byte is read and none of the steps loses what it says     *)
(* (quickbloom.c:55-80).  Keys that only differ in a byte that is not read *)
(* would be each other's false positives.                                  *)
(***************************************************************************)
WordsTell ==
  [][Len(key) = Len(key') /\ Len(key) # 2 * WordBytes
       /\ Cardinality(Differing(key, key', WordBytes)) = 1 => quick' # quick]_vars

(***************************************************************************)
(* The same of xxh64 for a single byte behind the stripes, which mix four  *)
(* words into each other and promise no such thing (bloom_impala.c:80-107).*)
(***************************************************************************)
BytesTell ==
  [][Len(key) = Len(key') /\ Cardinality(Differing(key, key', 1)) = 1
       /\ Min(Differing(key, key', 1)) >= Len(key) - (Len(key) % (4 * WordBytes))
     => xxh' # xxh]_vars

(***************************************************************************)
(* A key of 16 bytes with a zero half, "e.g. a 64-bit ID padded into a     *)
(* 16-byte buffer", does not share its hash with all keys that have the    *)
(* same zero half: some of them have another (quickbloom.c:44-48).         *)
(***************************************************************************)
ZeroHalfSpreads ==
  Len(key) = 2 * WordBytes =>
    \A start \in {0, WordBytes} :
      (\A n \in start + 1 .. start + WordBytes : key[n] = 0) =>
        \E l \in Keys :
          /\ Len(l) = Len(key)
          /\ \A n \in start + 1 .. start + WordBytes : l[n] = 0
          /\ hash16(l) # quick

(***************************************************************************)
(* The comment of bloom_xorfuse.c:35: "Same 16-byte fast hash quickbloom   *)
(* uses".                                                                  *)
(***************************************************************************)
SameHash == shim = quick
=============================================================================
