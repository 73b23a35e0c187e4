------------------------------- MODULE Words -------------------------------
(***************************************************************************)
(* The bitwise operators of C on unsigned integers of a given width.  They *)
(* stand for no code of their own: the modules that hash build on them.    *)
(***************************************************************************)
EXTENDS Integers, PowersOfTwo

XorOfPair[p \in Nat \X Nat] ==
  IF p = <<0, 0>> THEN 0
  ELSE 2 * XorOfPair[<<p[1] \div 2, p[2] \div 2>>] + ((p[1] + p[2]) % 2)

\* x ^ y
Xor(x, y) == XorOfPair[<<x, y>>]

\* x ^= x >> shift
XorShift(x, shift) == Xor(x, x \div Pow2[shift])

\* x * y in an unsigned integer of w bits.
Times(w, x, y) == (x * y) % Pow2[w]

\* x rotated to the left by r < w places.
RotateLeft(w, x, r) == ((x * Pow2[r]) % Pow2[w]) + (x \div Pow2[w - r])
=============================================================================
