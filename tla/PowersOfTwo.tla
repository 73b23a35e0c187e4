---------------------------- MODULE PowersOfTwo ----------------------------
(***************************************************************************)
(* 2^n as a recursive function.  The C code writes powers of two as shifts *)
(* of a one ((size_t)1 << k) and the width of a machine word as the number *)
(* of values it holds.                                                     *)
(***************************************************************************)
EXTENDS Naturals

Pow2[n \in Nat] == IF n = 0 THEN 1 ELSE 2 * Pow2[n - 1]

=============================================================================
