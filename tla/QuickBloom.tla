----------------------------- MODULE QuickBloom -----------------------------
(***************************************************************************)
(* One filter shared by threads that call the insert and contains entry    *)
(* points of src/quickbloom.c, one memory access per step.                 *)
(*                                                                         *)
(* A block is read and written by 32-byte vector accesses, for which the   *)
(* machine promises no atomicity as a whole: here each lane is an access   *)
(* of its own, and the lanes go in any order.  A store waits in the        *)
(* thread's store buffer, where the thread's own loads find it, and drains *)
(* later; lanes drain in any order, which includes the order of x86.       *)
(*                                                                         *)
(* Writers hold a lock of the caller's (src/quickbloom.h:17-19 asks for    *)
(* it), whose release drains the buffer; readers hold nothing.  begun,     *)
(* done and must are history: they record what the callers were promised   *)
(* and no step depends on them.                                            *)
(***************************************************************************)
EXTENDS SbbfGeometry, Sequences

CONSTANTS
  Threads,
  NoThread,         \* the lock when no thread holds it
  NBits,            \* the argument of the qb_new that made the filter
  hash16,           \* key -> Hash: the path of 16-byte keys
  fasthash64_var,   \* key -> Hash: the path of every other length
  Unroll,           \* iterations of the unrolled loops: 4
  Calls             \* the calls the threads make

Inserting == {"qb_insert", "qb_insert_bulk", "qb_insert_prehash", "qb_insert_prehash_bulk"}
Asking    == {"qb_contains", "qb_contains_bulk", "qb_contains_prehash", "qb_contains_prehash_bulk"}
Keyed     == {"qb_insert", "qb_insert_bulk", "qb_contains", "qb_contains_bulk"}
Bulk      == {"qb_insert_bulk", "qb_contains_bulk",
              "qb_insert_prehash_bulk", "qb_contains_prehash_bulk"}
Keys      == DOMAIN hash16

ASSUME ThreadAssumption == NoThread \notin Threads

ASSUME FilterAssumption ==
  NBits \in Size /\ BlocksFor(NBits) <= QB_MAX_NBLOCKS

ASSUME HashAssumption ==
  hash16 \in [Keys -> Hash] /\ fasthash64_var \in [Keys -> Hash]

\* A call is its function, its array of keys or of hashes, and the length
\* of the keys.  A single call has one element.
ASSUME CallAssumption ==
  /\ Unroll \in Nat \ {0}
  /\ \A c \in Calls :
       /\ c.fn \in Inserting \cup Asking
       /\ c.klen \in Nat
       /\ c.items \in Seq(IF c.fn \in Keyed THEN Keys ELSE Hash)
       /\ c.fn \notin Bulk => Len(c.items) = 1

NBlocks == RoundedBlocks(NBits)
Blocks == 0 .. NBlocks - 1
idx_shift == IdxShift(NBlocks)

(***************************************************************************)
(* What a call works on.                                                   *)
(***************************************************************************)
bloom_hash(key, len) == IF len = 16 THEN hash16[key] ELSE fasthash64_var[key]

\* Mutation: one item too many in a round.
InUnrolledOver(c, i) ==
  /\ c.fn \in Bulk
  /\ c.fn \in Keyed => c.klen = 16
  /\ i + Unroll <= Len(c.items) + 1

\* Mutation: the 16-byte hash for keys of every length.
InUnrolledAnyLength(c, i) ==
  /\ c.fn \in Bulk
  /\ i + Unroll <= Len(c.items)

\* The unrolled loop runs while a whole round of it is left, and for keys
\* only when they are 16 bytes long; the tail loop takes one at a time.
InUnrolled(c, i) ==
  /\ c.fn \in Bulk
  /\ c.fn \in Keyed => c.klen = 16
  /\ i + Unroll <= Len(c.items)

Width(c, i) == IF InUnrolled(c, i) THEN Unroll ELSE 1

\* The hash of item i + p in the iteration that starts at i.
HashAt(c, i, p) ==
  LET item == c.items[i + p + 1] IN
  IF c.fn \notin Keyed THEN item
  ELSE IF InUnrolled(c, i) THEN hash16[item]
  ELSE bloom_hash(item, c.klen)

\* The hashes a call is about, as its caller knows them: those of the
\* single-key entry points.
HashesOf(c) ==
  [n \in DOMAIN c.items |->
     IF c.fn \in Keyed THEN bloom_hash(c.items[n], c.klen) ELSE c.items[n]]

HashSetOf(c) == {HashesOf(c)[n] : n \in DOMAIN c.items}

-----------------------------------------------------------------------------
VARIABLES
  mem,     \* the bits of the filter: block -> lane -> word
  pending, \* thread -> block -> lane -> the store buffered for it, if any
  lock,    \* the thread that holds the callers' lock
  pc,      \* thread -> "idle", "load", "store", "test" or "ret"
  call,    \* thread -> the call it is in
  i,       \* thread -> the loop index
  p,       \* thread -> the position in the iteration whose block is accessed
  lanes,   \* thread -> the lanes of that block still to access
  reg,     \* thread -> position -> the block as loaded
  tested,  \* thread -> the outcomes of testc so far; hits counts the TRUE ones
  begun,   \* hashes of the inserts that have started
  done,    \* hashes of the inserts that have returned
  must     \* thread -> done as it was when the thread's query started

vars == <<mem, pending, lock, pc, call, i, p, lanes, reg, tested, begun, done, must>>

Clear == [l \in Lanes |-> {}]
NoStores == [b \in Blocks |-> Clear]
NoRegs == [q \in 0 .. Unroll - 1 |-> Clear]
NoCall == [fn |-> "none", klen |-> 0, items |-> <<>>]

Current(t) == HashAt(call[t], i[t], p[t])
Address(t) == block_for(idx_shift, Current(t))
Writing(t) == call[t].fn \in Inserting

\* What thread t reads at lane l of block b.
View(t, b, l) ==
  IF pending[t][b][l] = {} THEN mem[b][l] ELSE UNION pending[t][b][l]

Init ==
  /\ mem = [b \in Blocks |-> Clear]
  /\ pending = [t \in Threads |-> NoStores]
  /\ lock = NoThread
  /\ pc = [t \in Threads |-> "idle"]
  /\ call = [t \in Threads |-> NoCall]
  /\ i = [t \in Threads |-> 0]
  /\ p = [t \in Threads |-> 0]
  /\ lanes = [t \in Threads |-> {}]
  /\ reg = [t \in Threads |-> NoRegs]
  /\ tested = [t \in Threads |-> <<>>]
  /\ begun = {}
  /\ done = {}
  /\ must = [t \in Threads |-> {}]

\* Thread t goes on to accesses of kind k.
GoTo(t, k) ==
  /\ pc' = [pc EXCEPT ![t] = k]
  /\ lanes' = [lanes EXCEPT ![t] = IF k \in {"load", "store"} THEN Lanes ELSE {}]

\* The loop condition at index n of call c.
LoopTo(t, c, n) == GoTo(t, IF n < Len(c.items) THEN "load" ELSE "ret")

\* Mutation: the unrolled insert loads all its blocks before it stores any.
AfterBatched(k, writing, pos, width) ==
  IF pos + 1 < width THEN [kind |-> k, pos |-> pos + 1]
  ELSE [kind |-> IF k = "store" THEN "next" ELSE IF writing THEN "store" ELSE "test",
        pos |-> 0]

\* What follows the access of kind k to block number pos of an iteration: an
\* insert loads and stores one block after the other, a query loads them all
\* and then tests.
After(k, writing, pos, width) ==
  IF k = "load" /\ writing THEN [kind |-> "store", pos |-> pos]
  ELSE IF pos + 1 < width THEN [kind |-> "load", pos |-> pos + 1]
  ELSE [kind |-> IF writing THEN "next" ELSE "test", pos |-> 0]

\* Mutation: an insert that does not wait for the lock.
BeginInsertUnlocked(t, c) ==
  /\ pc[t] = "idle"
  /\ c.fn \in Inserting
  /\ lock' = t
  /\ call' = [call EXCEPT ![t] = c]
  /\ begun' = begun \cup HashSetOf(c)
  /\ LoopTo(t, c, 0)
  /\ UNCHANGED <<mem, pending, i, p, reg, tested, done, must>>

BeginInsert(t, c) ==
  /\ pc[t] = "idle"
  /\ c.fn \in Inserting
  /\ lock = NoThread
  /\ lock' = t
  /\ call' = [call EXCEPT ![t] = c]
  /\ begun' = begun \cup HashSetOf(c)
  /\ LoopTo(t, c, 0)
  /\ UNCHANGED <<mem, pending, i, p, reg, tested, done, must>>

BeginContains(t, c) ==
  /\ pc[t] = "idle"
  /\ c.fn \in Asking
  /\ call' = [call EXCEPT ![t] = c]
  /\ must' = [must EXCEPT ![t] = done]
  /\ LoopTo(t, c, 0)
  /\ UNCHANGED <<mem, pending, lock, i, p, reg, tested, begun, done>>

\* Mutation: a reader that waits for the writer.
LoadLaneLocked(t, l) ==
  LET after == After("load", Writing(t), p[t], Width(call[t], i[t])) IN
  /\ pc[t] = "load"
  /\ lock \in {NoThread, t}
  /\ l \in lanes[t]
  /\ reg' = [reg EXCEPT ![t][p[t]][l] = View(t, Address(t), l)]
  /\ IF lanes[t] = {l}
     THEN GoTo(t, after.kind) /\ p' = [p EXCEPT ![t] = after.pos]
     ELSE lanes' = [lanes EXCEPT ![t] = @ \ {l}] /\ UNCHANGED <<pc, p>>
  /\ UNCHANGED <<mem, pending, lock, call, i, tested, begun, done, must>>

LoadLane(t, l) ==
  LET after == After("load", Writing(t), p[t], Width(call[t], i[t])) IN
  /\ pc[t] = "load"
  /\ l \in lanes[t]
  /\ reg' = [reg EXCEPT ![t][p[t]][l] = View(t, Address(t), l)]
  /\ IF lanes[t] = {l}
     THEN GoTo(t, after.kind) /\ p' = [p EXCEPT ![t] = after.pos]
     ELSE lanes' = [lanes EXCEPT ![t] = @ \ {l}] /\ UNCHANGED <<pc, p>>
  /\ UNCHANGED <<mem, pending, lock, call, i, tested, begun, done, must>>

\* The iteration that starts at i[t] is over.
NextIteration(t) ==
  LET n == i[t] + Width(call[t], i[t]) IN
  /\ i' = [i EXCEPT ![t] = n]
  /\ reg' = [reg EXCEPT ![t] = NoRegs]
  /\ LoopTo(t, call[t], n)

StoreLane(t, l) ==
  LET after == After("store", TRUE, p[t], Width(call[t], i[t])) IN
  /\ pc[t] = "store"
  /\ l \in lanes[t]
  /\ pending' = [pending EXCEPT ![t][Address(t)][l] =
                   {reg[t][p[t]][l] \cup mask_for(Current(t))[l]}]
  /\ IF lanes[t] = {l}
     THEN /\ p' = [p EXCEPT ![t] = after.pos]
          /\ IF after.kind = "next"
             THEN NextIteration(t)
             ELSE GoTo(t, after.kind) /\ UNCHANGED <<i, reg>>
     ELSE lanes' = [lanes EXCEPT ![t] = @ \ {l}] /\ UNCHANGED <<pc, i, p, reg>>
  /\ UNCHANGED <<mem, lock, call, tested, begun, done, must>>

\* Mutation: the operands of testc swapped.
TestSwapped(t) ==
  /\ pc[t] = "test"
  /\ tested' = [tested EXCEPT ![t] = @ \o
       [n \in 1 .. Width(call[t], i[t]) |->
          Covers(mask_for(HashAt(call[t], i[t], n - 1)), reg[t][n - 1])]]
  /\ NextIteration(t)
  /\ UNCHANGED <<mem, pending, lock, call, p, begun, done, must>>

\* The tests of one iteration touch registers only: one step.
Test(t) ==
  /\ pc[t] = "test"
  /\ tested' = [tested EXCEPT ![t] = @ \o
       [n \in 1 .. Width(call[t], i[t]) |->
          Covers(reg[t][n - 1], mask_for(HashAt(call[t], i[t], n - 1)))]]
  /\ NextIteration(t)
  /\ UNCHANGED <<mem, pending, lock, call, p, begun, done, must>>

Return(t) ==
  /\ pc[t] = "ret"
  /\ IF Writing(t)
     THEN /\ pending[t] = NoStores
          /\ lock' = NoThread
          /\ done' = done \cup HashSetOf(call[t])
     ELSE UNCHANGED <<lock, done>>
  /\ call' = [call EXCEPT ![t] = NoCall]
  /\ i' = [i EXCEPT ![t] = 0]
  /\ tested' = [tested EXCEPT ![t] = <<>>]
  /\ must' = [must EXCEPT ![t] = {}]
  /\ GoTo(t, "idle")
  /\ UNCHANGED <<mem, pending, p, reg, begun>>

Drain(t, b, l) ==
  /\ pending[t][b][l] # {}
  /\ mem' = [mem EXCEPT ![b][l] = UNION pending[t][b][l]]
  /\ pending' = [pending EXCEPT ![t][b][l] = {}]
  /\ UNCHANGED <<lock, pc, call, i, p, lanes, reg, tested, begun, done, must>>

Step(t) ==
  \/ \E l \in Lanes : LoadLane(t, l) \/ StoreLane(t, l)
  \/ Test(t)
  \/ Return(t)

Begin(t) == \E c \in Calls : BeginInsert(t, c) \/ BeginContains(t, c)

Next ==
  \E t \in Threads :
    \/ Begin(t)
    \/ Step(t)
    \/ \E b \in Blocks, l \in Lanes : Drain(t, b, l)

Spec == Init /\ [][Next]_vars

\* A thread inside a contains call is scheduled again and again; nothing is
\* assumed of the writers, which may stop anywhere, the lock in their hands.
ReaderStep(t) == call[t].fn \in Asking /\ Step(t)
FairSpec == Spec /\ \A t \in Threads : WF_vars(ReaderStep(t))

-----------------------------------------------------------------------------
\* The variables keep their types.
TypeOK ==
  /\ mem \in [Blocks -> [Lanes -> Word]]
  /\ pending \in [Threads -> [Blocks -> [Lanes -> SUBSET Word]]]
  /\ lock \in Threads \cup {NoThread}
  /\ pc \in [Threads -> {"idle", "load", "store", "test", "ret"}]
  /\ call \in [Threads -> Calls \cup {NoCall}]
  /\ i \in [Threads -> Nat]
  /\ p \in [Threads -> 0 .. Unroll - 1]
  /\ lanes \in [Threads -> SUBSET Lanes]
  /\ reg \in [Threads -> [0 .. Unroll - 1 -> [Lanes -> Word]]]
  /\ tested \in [Threads -> Seq(BOOLEAN)]
  /\ begun \subseteq Hash
  /\ done \subseteq Hash
  /\ must \in [Threads -> SUBSET Hash]

\* No access leaves the caller's array of keys or hashes, whatever its length
\* is modulo the unrolled width, and none leaves the filter's blocks.
AccessesInBounds ==
  \A t \in Threads :
    pc[t] \in {"load", "store"} =>
      /\ i[t] + p[t] < Len(call[t].items)
      /\ Address(t) \in Blocks

Answered(t) == pc[t] = "ret" /\ call[t].fn \in Asking

\* src/quickbloom.h:20-21: a call that starts after an insert returned counts
\* that key, however its lane reads interleave with the stores of another
\* insert; and the key may have been inserted through any entry point.  More:
\* it counts whatever the returned inserts together make the filter report.
NoFalseNegative ==
  \A t \in Threads : Answered(t) =>
    \A n \in DOMAIN call[t].items :
      Reports(NBlocks, must[t], HashesOf(call[t])[n]) => tested[t][n]

\* A positive is one the inserts begun so far account for: partial state is
\* never made of bits that no insert was asked to set.
PositivesJustified ==
  \A t \in Threads : Answered(t) =>
    /\ DOMAIN tested[t] = DOMAIN call[t].items
    /\ \A n \in DOMAIN call[t].items :
         tested[t][n] => Reports(NBlocks, begun, HashesOf(call[t])[n])

\* src/quickbloom.h:10-12: when nobody writes, the memory is bit for bit the
\* filter of the inserted hashes that the Parquet rule defines, aliased
\* blocks of one unrolled iteration included.
QuiescentImage ==
  lock = NoThread => \A b \in Blocks : mem[b] = BlockImage(NBlocks, done, b)

\* No store takes back a bit another insert set: what a stale register of
\* the load-or-store pair would do.
BitsOnlyGrow ==
  [][\A b \in Blocks, l \in Lanes : mem[b][l] \subseteq mem'[b][l]]_vars

\* A query ends whatever the writers do, even one that stopped for good in
\* the middle of an insert.
ReadersReturn ==
  \A t \in Threads : call[t].fn \in Asking ~> pc[t] = "idle"

\* The filter keeps the promise of FilterPromise.
Promise == INSTANCE FilterPromise WITH
  Inserts <- {HashesOf(c) : c \in {x \in Calls : x.fn \in Inserting}},
  Queries <- {HashesOf(c) : c \in {x \in Calls : x.fn \in Asking}},
  Reported <- LAMBDA S, h : Reports(NBlocks, S, h),
  stage <- [t \in Threads |->
              IF call[t].fn \notin Asking THEN "idle"
              ELSE IF pc[t] = "ret" THEN "answered" ELSE "asked"],
  query <- [t \in Threads |->
              IF call[t].fn \in Asking THEN HashesOf(call[t]) ELSE <<>>],
  answer <- [t \in Threads |-> IF Answered(t) THEN tested[t] ELSE <<>>]

PromiseKept == Promise!Spec
=============================================================================
