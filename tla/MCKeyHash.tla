----------------------------- MODULE MCKeyHash -----------------------------
(***************************************************************************)
(* Small instances of KeyHash: hashes of four bits and bytes of one, so    *)
(* that a word has four bytes and the short cut is for keys of eight.      *)
(***************************************************************************)
EXTENDS KeyHash

\* All keys of up to six bytes, and longer ones of which some bytes are 0:
\* of the length of the short cut, of two words and three bytes, and of a
\* stripe, a word and three bytes.
MCKeys ==
  UNION {[1 .. n -> 0 .. 1] : n \in 0 .. 6}
    \cup {k \in [1 .. 8 -> 0 .. 1] : \A n \in 2 .. 3 \cup 6 .. 7 : k[n] = 0}
    \cup {k \in [1 .. 11 -> 0 .. 1] : \A n \in 2 .. 8 : k[n] = 0}
    \cup {k \in [1 .. 23 -> 0 .. 1] : \A n \in 2 .. 21 : k[n] = 0}

MCPrime == <<11, 7, 5, 13, 3>>
MCRotate ==
  [round |-> 2, word |-> 1, half |-> 3, byte |-> 1, v1 |-> 1, v2 |-> 2, v3 |-> 3, v4 |-> 1]
MCAvalanche == <<2, 1, 2>>
=============================================================================
