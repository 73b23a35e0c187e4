------------------------------ MODULE FastHash ------------------------------
(***************************************************************************)
(* The steps of fasthash64_var (src/quickbloom.c), which the filters of    *)
(* src/comparisons have too: a word is loaded, mixed and absorbed, and the *)
(* last hash is finished.  No state; KeyHash puts the steps together.      *)
(*                                                                         *)
(* A hash has w bits (64 in C) and a byte r (8); m and f are the odd       *)
(* multipliers, s and t the shifts.                                        *)
(***************************************************************************)
EXTENDS Words, Sequences

\* Bytes read as a little-endian integer.
load(r, bytes) ==
  LET value[n \in 0 .. Len(bytes)] ==
        IF n = 0 THEN 0 ELSE value[n - 1] + Pow2[r * (n - 1)] * bytes[n]
  IN  value[Len(bytes)]

mix(w, m, s, x) == Times(w, XorShift(Times(w, x, m), s), m)

absorb(w, m, s, h, x) == Times(w, Xor(h, mix(w, m, s, x)), m)

\* The hash after a loop over words.
Absorbed(w, m, s, start, words) ==
  LET after[n \in 0 .. Len(words)] ==
        IF n = 0 THEN start ELSE absorb(w, m, s, after[n - 1], words[n])
  IN  after[Len(words)]

finish(w, s, f, t, h) == XorShift(Times(w, XorShift(h, s), f), t)
=============================================================================
