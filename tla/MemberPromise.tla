--------------------------- MODULE MemberPromise ---------------------------
(***************************************************************************)
(* What every filter of src/comparisons behind the bloom_* functions is    *)
(* for, seen by one caller: hashes are added, and a query is told how many *)
(* of its hashes the filter reports, which is never fewer than those added.*)
(* intact is false where the implementation cannot keep this, because      *)
(* memory or luck failed it.                                               *)
(***************************************************************************)
EXTENDS Naturals, FiniteSets, Sequences

CONSTANT Batches   \* the sequences of hashes a call may pass

VARIABLES
  added,
  asked,   \* the last query, empty when something was added after it
  hits,    \* its answer
  intact

Present(s, S) == Cardinality({j \in DOMAIN s : s[j] \in S})

Init == added = {} /\ asked = <<>> /\ hits = 0 /\ intact = TRUE

Add ==
  /\ \E s \in Batches : added' = added \cup {s[j] : j \in DOMAIN s}
  /\ asked' = <<>> /\ hits' = 0
  /\ intact' \in BOOLEAN

Ask ==
  /\ asked' \in Batches
  /\ hits' \in 0 .. Len(asked')
  /\ intact' \in BOOLEAN
  /\ intact' => hits' >= Present(asked', added)
  /\ UNCHANGED added

\* The filter is freed.
Drop ==
  /\ added' = {} /\ asked' = <<>> /\ hits' = 0
  /\ intact' \in BOOLEAN

Lose == intact' = FALSE /\ UNCHANGED <<added, asked, hits>>

Spec == Init /\ [][Add \/ Ask \/ Drop \/ Lose]_<<added, asked, hits, intact>>
=============================================================================
