--------------------------- MODULE FilterPromise ---------------------------
(***************************************************************************)
(* What a filter that several threads share promises its callers           *)
(* (src/quickbloom.h:14-21), without blocks, lanes or memory.              *)
(*                                                                         *)
(* begun holds the hashes of the inserts that started, done of those that  *)
(* returned.  A query that finds nobody writing gets the one answer every  *)
(* implementation of the filter gives; one that overlaps a write may see   *)
(* part of it, but it never misses what had returned before the query      *)
(* began.                                                                  *)
(***************************************************************************)
EXTENDS Naturals, Sequences

CONSTANTS
  Threads,
  Queries,        \* the sequences of hashes a call may ask for
  Inserts,        \* the sequences of hashes a call may insert
  Reported(_, _)  \* Reported(S, h): a filter holding exactly S reports h

VARIABLES
  begun,
  done,
  stage,   \* thread -> "idle", "asked" or "answered"
  query,   \* thread -> the hashes it asks for
  must,    \* thread -> the hashes inserted when its query began
  answer   \* thread -> the answer to each of them

Elements(s) == {s[i] : i \in DOMAIN s}

Allowed(t, r) ==
  \A i \in DOMAIN query[t] :
    /\ Reported(must[t], query[t][i]) => r[i]
    /\ r[i] => Reported(begun, query[t][i])

Init ==
  /\ begun = {}
  /\ done = {}
  /\ stage = [t \in Threads |-> "idle"]
  /\ query = [t \in Threads |-> <<>>]
  /\ must = [t \in Threads |-> {}]
  /\ answer = [t \in Threads |-> <<>>]

BeginInsert ==
  /\ \E s \in Inserts : begun' = begun \cup Elements(s)
  /\ UNCHANGED <<done, stage, query, must, answer>>

EndInsert ==
  /\ \E s \in Inserts :
       /\ Elements(s) \subseteq begun
       /\ done' = done \cup Elements(s)
  /\ UNCHANGED <<begun, stage, query, must, answer>>

\* A query for nothing has its answer at once.
BeginQuery(t) ==
  /\ stage[t] = "idle"
  /\ \E s \in Queries :
       /\ query' = [query EXCEPT ![t] = s]
       /\ stage' = [stage EXCEPT ![t] = IF s = <<>> THEN "answered" ELSE "asked"]
  /\ must' = [must EXCEPT ![t] = done]
  /\ UNCHANGED <<begun, done, answer>>

Answer(t) ==
  /\ stage[t] = "asked"
  /\ stage' = [stage EXCEPT ![t] = "answered"]
  /\ \E r \in [DOMAIN query[t] -> BOOLEAN] :
       Allowed(t, r) /\ answer' = [answer EXCEPT ![t] = r]
  /\ UNCHANGED <<begun, done, query, must>>

EndQuery(t) ==
  /\ stage[t] = "answered"
  /\ stage' = [stage EXCEPT ![t] = "idle"]
  /\ query' = [query EXCEPT ![t] = <<>>]
  /\ must' = [must EXCEPT ![t] = {}]
  /\ answer' = [answer EXCEPT ![t] = <<>>]
  /\ UNCHANGED <<begun, done>>

Next ==
  \/ BeginInsert
  \/ EndInsert
  \/ \E t \in Threads : BeginQuery(t) \/ Answer(t) \/ EndQuery(t)

vars == <<begun, done, stage, query, must, answer>>

Spec == Init /\ [][Next]_vars

=============================================================================
