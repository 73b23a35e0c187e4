------------------------- MODULE QuickBloomProofs -------------------------
(*************************************************************************)
(* Invariants of QuickBloom, for every number of threads, every          *)
(* geometry, every unrolled width and every set of calls.  Control says  *)
(* where a thread can be, MemoryInv why the holder of the lock never     *)
(* works from a stale register, ReadInv why a query never misses an      *)
(* insert, BegunInv and the bounds after it why no bit comes from        *)
(* nowhere; each is inductive, with one lemma for each action.           *)
(*************************************************************************)
EXTENDS QuickBloom, SbbfGeometryProofs, SequenceTheorems

Slot(h) == block_for(idx_shift, h)

\* The filter of a running system: the block of a hash is the Parquet block.
LEMMA FilterFacts ==
  /\ NBlocks \in Nat
  /\ \A h \in Hash : /\ Slot(h) \in Blocks
                     /\ Slot(h) = Fastrange(NBlocks, h)
                     /\ mask_for(h) \in [Lanes -> Word]
<1> USE WidthAssumption
<1>1. PICK k \in 0 .. MaxBlocksLog : NBlocks = Pow2[k]
  BY NewFilter, FilterAssumption DEF NBlocks
<1>2. k \in 0 .. HalfBits /\ k \in Nat
  OBVIOUS
<1>3. NBlocks \in Nat
  BY <1>1, <1>2, Pow2Type
<1>4. ASSUME NEW h \in Hash
      PROVE  /\ Slot(h) \in Blocks
             /\ Slot(h) = Fastrange(NBlocks, h)
  <2>1. {block_for(IdxShift(NBlocks), x) : x \in Hash} = 0 .. NBlocks - 1
    BY <1>1, <1>2, IndexOntoBlocks
  <2> QED
    BY <1>1, <1>2, <2>1, FastrangeIsShift DEF Slot, idx_shift, Blocks
<1> QED
  BY <1>3, <1>4, MaskType

\* What the callers' contract gives of a call: an array of hashes of its length.
LEMMA CallFacts ==
  ASSUME NEW c \in Calls
  PROVE  /\ Len(c.items) \in Nat
         /\ DOMAIN c.items = 1 .. Len(c.items)
         /\ c.fn \in Inserting \/ c.fn \in Asking
         /\ c # NoCall
         /\ \A n \in 1 .. Len(c.items) : HashesOf(c)[n] \in Hash
         /\ HashSetOf(c) \subseteq Hash
<1>1. c.fn \in Inserting \cup Asking /\ c.items \in Seq(IF c.fn \in Keyed THEN Keys ELSE Hash)
  BY CallAssumption
<1>2. Len(c.items) \in Nat /\ DOMAIN c.items = 1 .. Len(c.items)
  BY <1>1
<1>3. c # NoCall
  BY <1>1 DEF NoCall, Inserting, Asking
<1>4. ASSUME NEW n \in 1 .. Len(c.items)
      PROVE  HashesOf(c)[n] \in Hash
  <2>1. c.items[n] \in IF c.fn \in Keyed THEN Keys ELSE Hash
    BY <1>1, <1>2
  <2>2. \A k \in Keys : hash16[k] \in Hash /\ fasthash64_var[k] \in Hash
    BY HashAssumption
  <2> QED
    BY <1>2, <2>1, <2>2 DEF HashesOf, bloom_hash
<1> QED
  BY <1>1, <1>2, <1>3, <1>4 DEF HashSetOf

\* An iteration of either loop of a bulk function stays inside the array.
LEMMA WidthFacts ==
  ASSUME NEW c \in Calls, NEW n \in Nat, n < Len(c.items)
  PROVE  /\ Width(c, n) \in 1 .. Unroll
         /\ n + Width(c, n) <= Len(c.items)
BY CallAssumption, CallFacts DEF Width, InUnrolled

\* The unrolled loops and the tail loops hash an item as the single-key
\* functions do.
LEMMA HashAtFacts ==
  ASSUME NEW c \in Calls, NEW n \in Nat, NEW q \in Nat, n + q < Len(c.items)
  PROVE  /\ HashAt(c, n, q) = HashesOf(c)[n + q + 1]
         /\ HashAt(c, n, q) \in Hash
<1>1. n + q + 1 \in 1 .. Len(c.items) /\ DOMAIN c.items = 1 .. Len(c.items)
  BY CallFacts
<1>2. InUnrolled(c, n) /\ c.fn \in Keyed => c.klen = 16
  BY DEF InUnrolled
<1>3. HashAt(c, n, q) = HashesOf(c)[n + q + 1]
  BY <1>1, <1>2 DEF HashAt, HashesOf, bloom_hash
<1> QED
  BY <1>1, <1>3, CallFacts

-----------------------------------------------------------------------------
(***************************************************************************)
(* Where a thread can be: the part of the inductive invariant that keeps   *)
(* every access inside the caller's array and the filter.                  *)
(***************************************************************************)
ThreadControl(t) ==
  /\ pc[t] = "idle" => call[t] = NoCall /\ i[t] = 0 /\ tested[t] = <<>>
  /\ pc[t] # "idle" => call[t] \in Calls /\ i[t] <= Len(call[t].items)
  /\ pc[t] \in {"load", "store", "test"} => i[t] < Len(call[t].items)
  /\ pc[t] \in {"load", "store"} => p[t] < Width(call[t], i[t])
  /\ pc[t] \in {"idle", "test", "ret"} => p[t] = 0
  /\ pc[t] = "ret" => i[t] = Len(call[t].items)
  /\ pc[t] = "store" => Writing(t)
  /\ pc[t] = "test" => ~ Writing(t)

ControlInv == \A t \in Threads : ThreadControl(t)

Control == TypeOK /\ ControlInv

\* What a thread that accesses memory knows of its access.
LEMMA AccessFacts ==
  ASSUME Control, NEW t \in Threads, pc[t] \in {"load", "store"}
  PROVE  /\ call[t] \in Calls
         /\ i[t] + p[t] < Len(call[t].items)
         /\ Current(t) = HashesOf(call[t])[i[t] + p[t] + 1]
         /\ Current(t) \in Hash
         /\ Address(t) = Slot(Current(t))
         /\ Address(t) \in Blocks
         /\ mask_for(Current(t)) \in [Lanes -> Word]
         /\ Width(call[t], i[t]) \in 1 .. Unroll
         /\ i[t] + Width(call[t], i[t]) <= Len(call[t].items)
<1>1. call[t] \in Calls /\ i[t] \in Nat /\ p[t] \in Nat
      /\ i[t] < Len(call[t].items) /\ p[t] < Width(call[t], i[t])
  BY DEF Control, ControlInv, ThreadControl, TypeOK
<1>2. Width(call[t], i[t]) \in 1 .. Unroll /\ i[t] + Width(call[t], i[t]) <= Len(call[t].items)
  BY <1>1, WidthFacts
<1>3. Len(call[t].items) \in Nat /\ Unroll \in Nat
  BY <1>1, CallFacts, CallAssumption
<1>4. i[t] + p[t] < Len(call[t].items)
  BY <1>1, <1>2, <1>3
<1>5. Current(t) = HashesOf(call[t])[i[t] + p[t] + 1] /\ Current(t) \in Hash
  BY <1>1, <1>4, HashAtFacts DEF Current
<1> QED
  BY <1>1, <1>2, <1>4, <1>5, FilterFacts DEF Address, Slot

\* Where the threads start.
LEMMA ControlInit ==
  Init => Control
<1> SUFFICES ASSUME Init PROVE Control
  OBVIOUS
<1>1. 0 \in 0 .. Unroll - 1
  BY CallAssumption
<1>2. Clear \in [Lanes -> Word] /\ NoRegs \in [0 .. Unroll - 1 -> [Lanes -> Word]]
  BY DEF Clear, NoRegs, Word
<1>3. NoStores \in [Blocks -> [Lanes -> SUBSET Word]]
  BY DEF NoStores, Clear, Word
<1>4. TypeOK
  BY <1>1, <1>2, <1>3 DEF Init, TypeOK
<1>5. ControlInv
  BY DEF Init, ControlInv, ThreadControl, Writing, NoCall, Inserting
<1> QED
  BY <1>4, <1>5 DEF Control

\* Entering an entry point keeps a thread where it can be.
LEMMA ControlBegin ==
  ASSUME Control, NEW t \in Threads, NEW c \in Calls,
         BeginInsert(t, c) \/ BeginContains(t, c)
  PROVE  Control'
<1>1. /\ pc[t] = "idle" /\ i[t] = 0 /\ p[t] = 0 /\ c # NoCall
      /\ LoopTo(t, c, 0)
      /\ call' = [call EXCEPT ![t] = c]
      /\ UNCHANGED <<mem, pending, i, p, reg, tested, done>>
  <2>1. pc[t] = "idle"
    BY DEF BeginInsert, BeginContains
  <2>2. i[t] = 0 /\ p[t] = 0
    BY <2>1 DEF Control, ControlInv, ThreadControl
  <2> QED
    BY <2>1, <2>2, CallFacts DEF BeginInsert, BeginContains
<1>7. /\ pc' = [pc EXCEPT ![t] = IF 0 < Len(c.items) THEN "load" ELSE "ret"]
      /\ lanes' \in [Threads -> SUBSET Lanes]
  BY <1>1 DEF LoopTo, GoTo, Control, TypeOK
<1>2. begun' \subseteq Hash /\ must' \in [Threads -> SUBSET Hash] /\ lock' \in Threads \cup {NoThread}
  BY CallFacts DEF Control, TypeOK, BeginInsert, BeginContains
<1>3. TypeOK'
  BY <1>1, <1>2, <1>7 DEF Control, TypeOK
<1>4. Len(c.items) \in Nat
  BY CallFacts
<1>5. 0 < Len(c.items) => 0 < Width(c, 0)
  BY WidthFacts, CallAssumption
<1>6. ControlInv'
  <2> SUFFICES ASSUME NEW u \in Threads PROVE ThreadControl(u)'
    BY DEF ControlInv
  <2>1. CASE u = t
    BY <1>1, <1>4, <1>5, <1>7, <2>1 DEF Control, TypeOK, ThreadControl, Writing
  <2>2. CASE u # t
    BY <1>1, <1>7, <2>2 DEF Control, ControlInv, ThreadControl, TypeOK, Writing
  <2> QED
    BY <2>1, <2>2
<1> QED
  BY <1>3, <1>6 DEF Control

\* What a load reads is a lane.
LEMMA ViewType ==
  ASSUME TypeOK, NEW t \in Threads, NEW b \in Blocks, NEW l \in Lanes
  PROVE  View(t, b, l) \in Word
<1>1. pending[t][b][l] \subseteq Word /\ mem[b][l] \in Word
  BY DEF TypeOK
<1> QED
  BY <1>1 DEF View, Word

\* Going on to another kind of access keeps the types.
LEMMA GoToFacts ==
  ASSUME TypeOK, NEW t \in Threads, NEW k, GoTo(t, k)
  PROVE  /\ pc' = [pc EXCEPT ![t] = k]
         /\ lanes' \in [Threads -> SUBSET Lanes]
<1> DEFINE s == IF k \in {"load", "store"} THEN Lanes ELSE {}
<1>1. s \in SUBSET Lanes
  OBVIOUS
<1>2. lanes' = [lanes EXCEPT ![t] = s] /\ pc' = [pc EXCEPT ![t] = k]
  BY DEF GoTo
<1> HIDE DEF s
<1> QED
  BY <1>1, <1>2 DEF TypeOK

\* A load keeps its thread inside the array and the filter, the last one of a
\* block, which moves on to the next block or kind of access, included.
LEMMA ControlLoad ==
  ASSUME Control, NEW t \in Threads, NEW l \in Lanes, LoadLane(t, l)
  PROVE  Control'
<1> DEFINE w == Width(call[t], i[t])
           after == After("load", Writing(t), p[t], w)
           more == lanes[t] # {l}
<1>1. /\ pc[t] = "load"
      /\ reg' = [reg EXCEPT ![t][p[t]][l] = View(t, Address(t), l)]
      /\ ~ more => GoTo(t, after.kind) /\ p' = [p EXCEPT ![t] = after.pos]
      /\ more => lanes' = [lanes EXCEPT ![t] = @ \ {l}] /\ UNCHANGED <<pc, p>>
      /\ UNCHANGED <<mem, pending, lock, call, i, tested, begun, done, must>>
  BY DEF LoadLane
<1>2. /\ call[t] \in Calls /\ w \in 1 .. Unroll /\ p[t] \in 0 .. Unroll - 1
      /\ p[t] < w /\ i[t] < Len(call[t].items) /\ i[t] <= Len(call[t].items)
      /\ Address(t) \in Blocks /\ Unroll \in Nat
  BY <1>1, AccessFacts, CallAssumption DEF Control, ControlInv, ThreadControl, TypeOK
<1>3. View(t, Address(t), l) \in Word
  BY <1>2, ViewType DEF Control
<1>4. /\ after.pos \in 0 .. Unroll - 1
      /\ after.kind \in {"load", "store", "test"}
      /\ after.kind = "store" => Writing(t) /\ after.pos = p[t]
      /\ after.kind = "load" => after.pos < w
      /\ after.kind = "test" => after.pos = 0 /\ ~ Writing(t)
  <2> HIDE DEF w
  <2> QED
    BY <1>2 DEF After
<1> HIDE DEF w, after
<1>5. /\ pc' \in [Threads -> {"idle", "load", "store", "test", "ret"}]
      /\ p' \in [Threads -> 0 .. Unroll - 1]
      /\ lanes' \in [Threads -> SUBSET Lanes]
  <2>1. CASE more
    BY <1>1, <2>1 DEF Control, TypeOK
  <2>2. CASE ~ more
    <3>1. GoTo(t, after.kind) /\ p' = [p EXCEPT ![t] = after.pos]
      BY <1>1, <2>2
    <3>2. GoTo(t, after.kind) => lanes' \in [Threads -> SUBSET Lanes]
      BY GoToFacts DEF Control
    <3>3. pc' = [pc EXCEPT ![t] = after.kind]
      BY <3>1 DEF GoTo
    <3> QED
      BY <1>4, <3>1, <3>2, <3>3 DEF Control, TypeOK
  <2> QED
    BY <2>1, <2>2
<1>6. reg' \in [Threads -> [0 .. Unroll - 1 -> [Lanes -> Word]]]
  BY <1>1, <1>2, <1>3 DEF Control, TypeOK
<1>7. TypeOK'
  BY <1>1, <1>5, <1>6 DEF Control, TypeOK
<1>8. ASSUME NEW u \in Threads, u = t PROVE ThreadControl(u)'
  <2>1. CASE more
    <3>1. pc'[t] = "load" /\ p'[t] = p[t]
      BY <1>1, <2>1
    <3> QED
      BY <1>1, <1>2, <1>8, <3>1 DEF ThreadControl, Writing, w
  <2>2. CASE ~ more
    <3>1. pc'[t] = after.kind /\ p'[t] = after.pos
      BY <1>1, <2>2 DEF GoTo, Control, TypeOK
    <3> QED
      BY <1>1, <1>2, <1>4, <1>8, <3>1 DEF ThreadControl, Writing, w
  <2> QED
    BY <2>1, <2>2
<1>9. ASSUME NEW u \in Threads, u # t PROVE ThreadControl(u)'
  <2>1. pc'[u] = pc[u] /\ p'[u] = p[u]
    BY <1>1, <1>9 DEF GoTo, Control, TypeOK
  <2> QED
    BY <1>1, <2>1 DEF Control, ControlInv, ThreadControl, Writing
<1> QED
  BY <1>7, <1>8, <1>9 DEF Control, ControlInv

\* The end of an iteration, of either loop.
LEMMA IterationEnds ==
  ASSUME Control, NEW t \in Threads, pc[t] \in {"store", "test"}, NextIteration(t)
  PROVE  /\ i'[t] = i[t] + Width(call[t], i[t])
         /\ i' \in [Threads -> Nat]
         /\ pc' = [pc EXCEPT ![t] = IF i'[t] < Len(call[t].items) THEN "load" ELSE "ret"]
         /\ i'[t] <= Len(call[t].items)
         /\ i' = [i EXCEPT ![t] = i'[t]]
         /\ lanes' = [lanes EXCEPT ![t] =
                        IF i'[t] < Len(call[t].items) THEN Lanes ELSE {}]
         /\ reg' = [reg EXCEPT ![t] = NoRegs]
         /\ reg' \in [Threads -> [0 .. Unroll - 1 -> [Lanes -> Word]]]
         /\ i'[t] < Len(call[t].items) => 0 < Width(call[t], i'[t])
<1> DEFINE w == Width(call[t], i[t])
           n == i[t] + w
<1>1. call[t] \in Calls /\ i[t] \in Nat /\ i[t] < Len(call[t].items)
  BY DEF Control, ControlInv, ThreadControl, TypeOK
<1>2. w \in Nat /\ n <= Len(call[t].items)
  BY <1>1, WidthFacts, CallAssumption
<1>3. n \in Nat
  BY <1>1, <1>2
<1> HIDE DEF w
<1>4. i' = [i EXCEPT ![t] = n] /\ i'[t] = n
  BY DEF NextIteration, Control, TypeOK, w
<1>5. n < Len(call[t].items) => 0 < Width(call[t], n)
  BY <1>1, <1>3, WidthFacts, CallAssumption
<1>6. LoopTo(t, call[t], n) /\ reg' = [reg EXCEPT ![t] = NoRegs]
  BY DEF NextIteration, w
<1>7. NoRegs \in [0 .. Unroll - 1 -> [Lanes -> Word]]
  BY DEF NoRegs, Clear, Word
<1>8. i' \in [Threads -> Nat] /\ reg' \in [Threads -> [0 .. Unroll - 1 -> [Lanes -> Word]]]
  BY <1>3, <1>4, <1>6, <1>7 DEF Control, TypeOK
<1> HIDE DEF n
<1>9. /\ pc' = [pc EXCEPT ![t] = IF n < Len(call[t].items) THEN "load" ELSE "ret"]
      /\ lanes' = [lanes EXCEPT ![t] = IF n < Len(call[t].items) THEN Lanes ELSE {}]
  BY <1>6 DEF LoopTo, GoTo
<1> QED
  BY <1>2, <1>4, <1>5, <1>6, <1>8, <1>9 DEF n, w

\* So does a store, the last one of an iteration included.
LEMMA ControlStore ==
  ASSUME Control, NEW t \in Threads, NEW l \in Lanes, StoreLane(t, l)
  PROVE  Control'
<1> DEFINE w == Width(call[t], i[t])
           after == After("store", TRUE, p[t], w)
           word == reg[t][p[t]][l] \cup mask_for(Current(t))[l]
<1>1. /\ pc[t] = "store"
      /\ pending' = [pending EXCEPT ![t][Address(t)][l] = {word}]
      /\ IF lanes[t] = {l}
         THEN /\ p' = [p EXCEPT ![t] = after.pos]
              /\ IF after.kind = "next"
                 THEN NextIteration(t)
                 ELSE GoTo(t, after.kind) /\ UNCHANGED <<i, reg>>
         ELSE lanes' = [lanes EXCEPT ![t] = @ \ {l}] /\ UNCHANGED <<pc, i, p, reg>>
      /\ UNCHANGED <<mem, lock, call, tested, begun, done, must>>
  BY DEF StoreLane
<1>2. /\ call[t] \in Calls /\ w \in 1 .. Unroll /\ p[t] \in 0 .. Unroll - 1
      /\ p[t] < w /\ i[t] < Len(call[t].items) /\ i[t] <= Len(call[t].items)
      /\ Address(t) \in Blocks /\ Unroll \in Nat /\ Writing(t)
      /\ mask_for(Current(t)) \in [Lanes -> Word]
      /\ i[t] \in Nat /\ Len(call[t].items) \in Nat
  BY <1>1, AccessFacts, CallFacts, CallAssumption DEF Control, ControlInv, ThreadControl, TypeOK
<1>3. word \in Word
  <2>1. reg[t][p[t]][l] \in Word
    BY <1>2 DEF Control, TypeOK
  <2> QED
    BY <1>2, <2>1 DEF Word
<1>4. /\ after.pos \in 0 .. Unroll - 1
      /\ \/ after.kind = "load" /\ after.pos < w
         \/ after.kind = "next" /\ after.pos = 0
  <2> HIDE DEF w
  <2> QED
    BY <1>2 DEF After
<1>5. pending' \in [Threads -> [Blocks -> [Lanes -> SUBSET Word]]]
  BY <1>1, <1>2, <1>3 DEF Control, TypeOK
<1> HIDE DEF w, after, word
<1>6. CASE lanes[t] # {l}
  <2>1. TypeOK'
    <3>1. lanes' \in [Threads -> SUBSET Lanes]
      <4>1. lanes' = [lanes EXCEPT ![t] = lanes[t] \ {l}]
        BY <1>1, <1>6
      <4>2. lanes[t] \ {l} \in SUBSET Lanes
        BY DEF Control, TypeOK
      <4> QED
        BY <4>1, <4>2 DEF Control, TypeOK
    <3> QED
      BY <1>1, <1>5, <1>6, <3>1 DEF Control, TypeOK
  <2>2. ControlInv'
    BY <1>1, <1>6 DEF Control, ControlInv, ThreadControl, Writing
  <2> QED
    BY <2>1, <2>2 DEF Control
<1>7. CASE lanes[t] = {l} /\ after.kind = "load"
  <2>1. GoTo(t, "load") /\ p' = [p EXCEPT ![t] = after.pos] /\ UNCHANGED <<i, reg>>
    BY <1>1, <1>7
  <2>2. pc' = [pc EXCEPT ![t] = "load"] /\ lanes' \in [Threads -> SUBSET Lanes]
    BY <2>1, GoToFacts DEF Control
  <2>3. TypeOK'
    BY <1>1, <1>4, <1>5, <2>1, <2>2 DEF Control, TypeOK
  <2>4. ASSUME NEW u \in Threads PROVE ThreadControl(u)'
    <3>1. CASE u = t
      BY <1>1, <1>2, <1>4, <1>7, <2>1, <2>2, <3>1 DEF Control, TypeOK, ThreadControl, Writing, w
    <3>2. CASE u # t
      BY <1>1, <2>1, <2>2, <3>2 DEF Control, TypeOK, ControlInv, ThreadControl, Writing
    <3> QED
      BY <3>1, <3>2
  <2> QED
    BY <2>3, <2>4 DEF Control, ControlInv
<1>8. CASE lanes[t] = {l} /\ after.kind = "next"
  <2>1. NextIteration(t) /\ p' = [p EXCEPT ![t] = 0]
    BY <1>1, <1>4, <1>8
  <2> DEFINE n == i'[t]
  <2>2. /\ n = i[t] + w
        /\ i' = [i EXCEPT ![t] = n]
        /\ i' \in [Threads -> Nat]
        /\ reg' \in [Threads -> [0 .. Unroll - 1 -> [Lanes -> Word]]]
        /\ pc' = [pc EXCEPT ![t] = IF n < Len(call[t].items) THEN "load" ELSE "ret"]
        /\ lanes' = [lanes EXCEPT ![t] = IF n < Len(call[t].items) THEN Lanes ELSE {}]
        /\ n <= Len(call[t].items)
        /\ n < Len(call[t].items) => 0 < Width(call[t], n)
    BY <1>1, <2>1, IterationEnds DEF w
  <2> HIDE DEF n
  <2>3. lanes' \in [Threads -> SUBSET Lanes]
    BY <2>2 DEF Control, TypeOK
  <2>4. TypeOK'
    <3>1. p' \in [Threads -> 0 .. Unroll - 1]
      BY <1>2, <2>1 DEF Control, TypeOK
    <3>2. pc' \in [Threads -> {"idle", "load", "store", "test", "ret"}]
      BY <2>2 DEF Control, TypeOK
    <3> QED
      BY <1>1, <1>5, <2>2, <2>3, <3>1, <3>2 DEF Control, TypeOK
  <2>5. ASSUME NEW u \in Threads PROVE ThreadControl(u)'
    <3>1. CASE u = t
      <4>1. i'[t] = n /\ n \in Nat /\ p'[t] = 0 /\ call' = call
        BY <1>1, <2>1, <2>2 DEF Control, TypeOK, n
      <4>2. pc'[t] = IF n < Len(call[t].items) THEN "load" ELSE "ret"
        BY <2>2 DEF Control, TypeOK
      <4> QED
        BY <1>2, <2>2, <3>1, <4>1, <4>2 DEF ThreadControl, Writing
    <3>2. CASE u # t
      BY <1>1, <2>1, <2>2, <3>2 DEF Control, TypeOK, ControlInv, ThreadControl, Writing
    <3> QED
      BY <3>1, <3>2
  <2> QED
    BY <2>4, <2>5 DEF Control, ControlInv
<1> QED
  BY <1>4, <1>6, <1>7, <1>8

\* So does the end of an iteration of a contains function.
LEMMA ControlTest ==
  ASSUME Control, NEW t \in Threads, Test(t)
  PROVE  Control'
<1> DEFINE w == Width(call[t], i[t])
           n == i'[t]
<1>1. /\ pc[t] = "test"
      /\ NextIteration(t)
      /\ UNCHANGED <<mem, pending, lock, call, p, begun, done, must>>
  BY DEF Test
<1>2. call[t] \in Calls /\ p[t] = 0 /\ i[t] \in Nat /\ i[t] < Len(call[t].items)
  BY <1>1 DEF Control, ControlInv, ThreadControl, TypeOK
<1>3. /\ w \in Nat
      /\ i' = [i EXCEPT ![t] = n]
      /\ i' \in [Threads -> Nat]
      /\ reg' \in [Threads -> [0 .. Unroll - 1 -> [Lanes -> Word]]]
      /\ pc' = [pc EXCEPT ![t] = IF n < Len(call[t].items) THEN "load" ELSE "ret"]
      /\ lanes' = [lanes EXCEPT ![t] = IF n < Len(call[t].items) THEN Lanes ELSE {}]
      /\ n <= Len(call[t].items)
      /\ n < Len(call[t].items) => 0 < Width(call[t], n)
  BY <1>1, <1>2, IterationEnds, WidthFacts, CallAssumption
<1>4. tested' \in [Threads -> Seq(BOOLEAN)]
  <2> DEFINE outcome == [k \in 1 .. w |->
               Covers(reg[t][k - 1], mask_for(HashAt(call[t], i[t], k - 1)))]
  <2>1. outcome \in Seq(BOOLEAN)
    <3>1. \A k \in 1 .. w : outcome[k] \in BOOLEAN
      BY DEF Covers
    <3> QED
      BY <1>3, <3>1
  <2>2. tested' = [tested EXCEPT ![t] = tested[t] \o outcome]
    BY DEF Test
  <2>3. tested[t] \in Seq(BOOLEAN)
    BY DEF Control, TypeOK
  <2> HIDE DEF outcome
  <2>4. tested[t] \o outcome \in Seq(BOOLEAN)
    BY <2>1, <2>3
  <2> QED
    BY <2>2, <2>4 DEF Control, TypeOK
<1>5. lanes' \in [Threads -> SUBSET Lanes]
  BY <1>3 DEF Control, TypeOK
<1> HIDE DEF w, n
<1>6. TypeOK'
  BY <1>1, <1>3, <1>4, <1>5 DEF Control, TypeOK
<1>7. ASSUME NEW u \in Threads PROVE ThreadControl(u)'
  <2>1. CASE u = t
    <3>1. i'[t] = n /\ n \in Nat /\ p'[t] = 0 /\ call' = call
      BY <1>1, <1>2, <1>3 DEF n
    <3>2. pc'[t] = IF n < Len(call[t].items) THEN "load" ELSE "ret"
      BY <1>3 DEF Control, TypeOK
    <3>3. Len(call[t].items) \in Nat
      BY <1>2, CallFacts
    <3> QED
      BY <1>2, <1>3, <2>1, <3>1, <3>2, <3>3 DEF ThreadControl, Writing
  <2>2. CASE u # t
    <3>1. pc'[u] = pc[u] /\ i'[u] = i[u] /\ p'[u] = p[u] /\ call'[u] = call[u] /\ tested'[u] = tested[u]
      BY <1>1, <1>3, <2>2 DEF Control, TypeOK, Test
    <3> QED
      BY <3>1 DEF Control, ControlInv, ThreadControl, Writing
  <2> QED
    BY <2>1, <2>2
<1> QED
  BY <1>6, <1>7 DEF Control, ControlInv

\* A call that returns leaves its thread as a call finds it.
LEMMA ControlReturn ==
  ASSUME Control, NEW t \in Threads, Return(t)
  PROVE  Control'
<1>1. /\ pc[t] = "ret"
      /\ call' = [call EXCEPT ![t] = NoCall]
      /\ i' = [i EXCEPT ![t] = 0]
      /\ tested' = [tested EXCEPT ![t] = <<>>]
      /\ must' = [must EXCEPT ![t] = {}]
      /\ GoTo(t, "idle")
      /\ UNCHANGED <<mem, pending, p, reg, begun>>
  BY DEF Return
<1>2. call[t] \in Calls /\ p[t] = 0
  BY <1>1 DEF Control, ControlInv, ThreadControl
<1>3. pc' = [pc EXCEPT ![t] = "idle"] /\ lanes' \in [Threads -> SUBSET Lanes]
  BY <1>1, GoToFacts DEF Control
<1>4. lock' \in Threads \cup {NoThread} /\ done' \subseteq Hash
  BY <1>2, CallFacts DEF Return, Control, TypeOK
<1>5. TypeOK'
  <2>1. <<>> \in Seq(BOOLEAN) /\ 0 \in Nat /\ {} \in SUBSET Hash
    OBVIOUS
  <2>2. /\ tested' \in [Threads -> Seq(BOOLEAN)]
        /\ i' \in [Threads -> Nat]
        /\ must' \in [Threads -> SUBSET Hash]
    BY <1>1, <2>1 DEF Control, TypeOK
  <2>3. /\ call' \in [Threads -> Calls \cup {NoCall}]
        /\ pc' \in [Threads -> {"idle", "load", "store", "test", "ret"}]
    BY <1>1, <1>3 DEF Control, TypeOK
  <2> QED
    BY <1>1, <1>3, <1>4, <2>2, <2>3 DEF Control, TypeOK
<1>6. ASSUME NEW u \in Threads PROVE ThreadControl(u)'
  <2>1. CASE u = t
    BY <1>1, <1>2, <1>3, <2>1 DEF Control, TypeOK, ThreadControl
  <2>2. CASE u # t
    BY <1>1, <1>3, <2>2 DEF Control, TypeOK, ControlInv, ThreadControl, Writing
  <2> QED
    BY <2>1, <2>2
<1> QED
  BY <1>5, <1>6 DEF Control, ControlInv

\* A store that reaches memory moves no thread.
LEMMA ControlDrain ==
  ASSUME Control, NEW t \in Threads, NEW b \in Blocks, NEW l \in Lanes, Drain(t, b, l)
  PROVE  Control'
<1>1. /\ pending[t][b][l] # {}
      /\ mem' = [mem EXCEPT ![b][l] = UNION pending[t][b][l]]
      /\ pending' = [pending EXCEPT ![t][b][l] = {}]
      /\ UNCHANGED <<lock, pc, call, i, p, lanes, reg, tested, begun, done, must>>
  BY DEF Drain
<1>2. UNION pending[t][b][l] \in Word
  BY <1>1, ViewType DEF Control, View
<1>3. mem' \in [Blocks -> [Lanes -> Word]]
  BY <1>1, <1>2 DEF Control, TypeOK
<1>4. pending' \in [Threads -> [Blocks -> [Lanes -> SUBSET Word]]]
  BY <1>1 DEF Control, TypeOK
<1>5. TypeOK'
  BY <1>1, <1>3, <1>4 DEF Control, TypeOK
<1>6. ControlInv'
  BY <1>1 DEF Control, ControlInv, ThreadControl, Writing
<1> QED
  BY <1>5, <1>6 DEF Control

\* A step of something else keeps where threads can be.
LEMMA ControlStutter ==
  Control /\ UNCHANGED vars => Control'
BY DEF Control, TypeOK, ControlInv, ThreadControl, Writing, vars

\* No step takes a thread where it cannot be.
LEMMA ControlNext ==
  Control /\ [Next]_vars => Control'
<1> SUFFICES ASSUME Control, Next PROVE Control'
  BY ControlStutter
<1>1. ASSUME NEW t \in Threads, Begin(t) PROVE Control'
  BY <1>1, ControlBegin DEF Begin
<1>2. ASSUME NEW t \in Threads, Step(t) PROVE Control'
  BY <1>2, ControlLoad, ControlStore, ControlTest, ControlReturn DEF Step
<1>3. ASSUME NEW t \in Threads, NEW b \in Blocks, NEW l \in Lanes, Drain(t, b, l)
      PROVE  Control'
  BY <1>3, ControlDrain
<1> QED
  BY <1>1, <1>2, <1>3 DEF Next

\* A thread is always where ThreadControl says.
THEOREM ControlAlways ==
  Spec => []Control
<1>1. Init => Control
  BY ControlInit
<1>2. Control /\ [Next]_vars => Control'
  BY ControlNext
<1> QED
  BY <1>1, <1>2, PTL DEF Spec

\* Type correctness, for every instance.
THEOREM TypeCorrect ==
  Spec => []TypeOK
<1>1. Control => TypeOK
  BY DEF Control
<1> QED
  BY <1>1, ControlAlways, PTL

\* No loop of any entry point reads past the caller's array or addresses a
\* block outside the filter, for every unrolled width, array and filter size.
THEOREM NoOverrun ==
  Spec => []AccessesInBounds
<1>1. Control => AccessesInBounds
  BY AccessFacts DEF AccessesInBounds
<1> QED
  BY <1>1, ControlAlways, PTL

-----------------------------------------------------------------------------
(***************************************************************************)
(* Why no bit is lost.  Only the lock's holder has stores in its buffer,   *)
(* and what it will store extends what the memory holds; so the block in   *)
(* its registers is never stale, and everything it has stored stays in     *)
(* what it sees until that is the memory.                                  *)
(***************************************************************************)
Present(t, h) == \A l \in Lanes : mask_for(h)[l] \subseteq View(t, Slot(h), l)

LockInv ==
  \A t \in Threads :
    /\ Writing(t) <=> lock = t
    /\ lock # t => \A b \in Blocks, l \in Lanes : pending[t][b][l] = {}

GrowInv ==
  \A t \in Threads, b \in Blocks, l \in Lanes : mem[b][l] \subseteq View(t, b, l)

RegistersFresh(t) ==
  Writing(t) =>
    /\ pc[t] = "load" => \A l \in Lanes \ lanes[t] :
         reg[t][p[t]][l] = View(t, Address(t), l)
    /\ pc[t] = "store" => \A l \in Lanes :
         IF l \in lanes[t]
         THEN reg[t][p[t]][l] = View(t, Address(t), l)
         ELSE mask_for(Current(t))[l] \subseteq View(t, Address(t), l)

ItemsApplied(t) ==
  Writing(t) => \A n \in 1 .. i[t] + p[t] : Present(t, HashesOf(call[t])[n])

WriterInv == \A t \in Threads : RegistersFresh(t) /\ ItemsApplied(t)

DoneInv == \A h \in done, l \in Lanes : mask_for(h)[l] \subseteq mem[Slot(h)][l]

MemoryInv == LockInv /\ GrowInv /\ WriterInv /\ DoneInv

\* A thread outside every call is no writer.
LEMMA WritingFacts ==
  /\ \A c \in Calls : c.fn \in Asking => c.fn \notin Inserting
  /\ NoCall.fn \notin Inserting /\ NoCall.fn \notin Asking
BY DEF Inserting, Asking, NoCall

\* The items a call has been through are items of it.
LEMMA ItemsInRange ==
  ASSUME Control, NEW t \in Threads, pc[t] # "idle" \/ Writing(t)
  PROVE  /\ call[t] \in Calls
         /\ i[t] + p[t] \in Nat
         /\ i[t] + p[t] <= Len(call[t].items)
         /\ \A n \in 1 .. i[t] + p[t] : HashesOf(call[t])[n] \in Hash
<1>1. pc[t] # "idle"
  BY WritingFacts DEF Control, ControlInv, ThreadControl, Writing
<1>2. call[t] \in Calls /\ i[t] \in Nat /\ p[t] \in Nat /\ i[t] <= Len(call[t].items)
  BY <1>1 DEF Control, ControlInv, ThreadControl, TypeOK
<1>3. Len(call[t].items) \in Nat
  BY <1>2, CallFacts
<1>4. i[t] + p[t] <= Len(call[t].items)
  <2>1. CASE pc[t] \in {"load", "store"}
    BY <1>2, <1>3, <2>1, AccessFacts
  <2>2. CASE pc[t] \in {"test", "ret"}
    BY <1>2, <2>2 DEF Control, ControlInv, ThreadControl
  <2> QED
    BY <1>1, <2>1, <2>2 DEF Control, TypeOK
<1>5. \A n \in 1 .. i[t] + p[t] : n \in 1 .. Len(call[t].items)
  BY <1>2, <1>3, <1>4
<1> QED
  BY <1>2, <1>4, <1>5, CallFacts

\* A fresh filter satisfies the memory invariant.
LEMMA MemoryInit ==
  Init => MemoryInv
<1> SUFFICES ASSUME Init PROVE MemoryInv
  OBVIOUS
<1>1. \A t \in Threads : ~ Writing(t) /\ lock # t
  BY WritingFacts, ThreadAssumption DEF Init, Writing
<1>2. \A t \in Threads, b \in Blocks, l \in Lanes : pending[t][b][l] = {} /\ mem[b][l] = {}
  BY DEF Init, NoStores, Clear
<1>3. GrowInv
  BY <1>2 DEF GrowInv
<1> QED
  BY <1>1, <1>2, <1>3 DEF Init, MemoryInv, LockInv, WriterInv, RegistersFresh, ItemsApplied, DoneInv

\* The one step that changes memory, a drained store, only adds bits to it;
\* and a thread never sees less than it saw.
LEMMA DrainGrows ==
  ASSUME Control, MemoryInv,
         NEW t \in Threads, NEW b \in Blocks, NEW l \in Lanes, Drain(t, b, l)
  PROVE  /\ lock = t
         /\ \A x \in Blocks, k \in Lanes :
              /\ mem[x][k] \subseteq mem'[x][k]
              /\ mem'[x][k] \subseteq View(t, x, k)
              /\ View(t, x, k)' = View(t, x, k)
              /\ \A u \in Threads \ {t} : View(u, x, k)' = mem'[x][k]
              /\ \A u \in Threads \ {t} : View(u, x, k) = mem[x][k]
<1>1. /\ pending[t][b][l] # {}
      /\ mem' = [mem EXCEPT ![b][l] = UNION pending[t][b][l]]
      /\ pending' = [pending EXCEPT ![t][b][l] = {}]
  BY DEF Drain
<1>2. lock = t
  BY <1>1 DEF MemoryInv, LockInv
<1>3. \A u \in Threads \ {t} : \A x \in Blocks, k \in Lanes :
         pending[u][x][k] = {} /\ pending'[u][x][k] = {}
  BY <1>1, <1>2 DEF MemoryInv, LockInv, Control, TypeOK
<1>4. \A x \in Blocks, k \in Lanes :
         mem'[x][k] = IF x = b /\ k = l THEN View(t, x, k) ELSE mem[x][k]
  BY <1>1 DEF View, Control, TypeOK
<1>5. \A x \in Blocks, k \in Lanes : View(t, x, k)' = View(t, x, k)
  <2> TAKE x \in Blocks, k \in Lanes
  <2>1. pending'[t][x][k] = IF x = b /\ k = l THEN {} ELSE pending[t][x][k]
    BY <1>1 DEF Control, TypeOK
  <2> QED
    BY <1>4, <2>1 DEF View
<1>6. \A x \in Blocks, k \in Lanes :
         /\ \A u \in Threads \ {t} : View(u, x, k)' = mem'[x][k]
         /\ \A u \in Threads \ {t} : View(u, x, k) = mem[x][k]
  BY <1>3 DEF View
<1>7. \A x \in Blocks, k \in Lanes : mem[x][k] \subseteq View(t, x, k)
  BY DEF MemoryInv, GrowInv
<1> QED
  BY <1>2, <1>4, <1>5, <1>6, <1>7

\* A store adds its mask to what its own thread sees of one lane, and changes
\* what no other thread sees.
LEMMA StoreView ==
  ASSUME Control, MemoryInv, NEW t \in Threads, NEW l \in Lanes, StoreLane(t, l)
  PROVE  /\ lock = t /\ Writing(t)
         /\ \A u \in Threads, x \in Blocks, k \in Lanes :
              View(u, x, k)' = IF u = t /\ x = Address(t) /\ k = l
                               THEN View(u, x, k) \cup mask_for(Current(t))[l]
                               ELSE View(u, x, k)
<1> DEFINE word == reg[t][p[t]][l] \cup mask_for(Current(t))[l]
<1>1. /\ pc[t] = "store" /\ l \in lanes[t]
      /\ pending' = [pending EXCEPT ![t][Address(t)][l] = {word}]
      /\ mem' = mem
  BY DEF StoreLane
<1>2. Writing(t) /\ lock = t /\ Address(t) \in Blocks
  BY <1>1, AccessFacts DEF Control, ControlInv, ThreadControl, MemoryInv, LockInv
<1>3. reg[t][p[t]][l] = View(t, Address(t), l)
  BY <1>1, <1>2 DEF MemoryInv, WriterInv, RegistersFresh
<1>4. \A u \in Threads, x \in Blocks, k \in Lanes :
         pending'[u][x][k] = IF u = t /\ x = Address(t) /\ k = l THEN {word} ELSE pending[u][x][k]
  <2> HIDE DEF word
  <2> QED
    BY <1>1, <1>2 DEF Control, TypeOK
<1>5. UNION {word} = word /\ {word} # {}
  OBVIOUS
<1> HIDE DEF word
<1>6. \A u \in Threads, x \in Blocks, k \in Lanes :
         View(u, x, k)' = IF u = t /\ x = Address(t) /\ k = l THEN word ELSE View(u, x, k)
  <2> TAKE u \in Threads, x \in Blocks, k \in Lanes
  <2>1. CASE u = t /\ x = Address(t) /\ k = l
    <3>1. pending'[u][x][k] = {word}
      BY <1>4, <2>1
    <3> QED
      BY <1>5, <2>1, <3>1 DEF View
  <2>2. CASE ~ (u = t /\ x = Address(t) /\ k = l)
    <3>1. pending'[u][x][k] = pending[u][x][k] /\ mem'[x][k] = mem[x][k]
      BY <1>1, <1>4, <2>2
    <3> QED
      BY <2>2, <3>1 DEF View
  <2> QED
    BY <2>1, <2>2
<1> QED
  BY <1>2, <1>3, <1>6 DEF word

\* Steps that touch neither memory nor buffers leave every view alone.
LEMMA QuietView ==
  ASSUME UNCHANGED <<mem, pending>>
  PROVE  \A u \in Threads, x \in Blocks, k \in Lanes : View(u, x, k)' = View(u, x, k)
BY DEF View

\* What a thread that another one's step leaves alone keeps.
LEMMA OthersKeep ==
  ASSUME Control, MemoryInv, NEW u \in Threads,
         UNCHANGED <<pc[u], call[u], i[u], p[u], lanes[u], reg[u]>>,
         \A x \in Blocks, k \in Lanes : View(u, x, k)' = View(u, x, k)
  PROVE  (RegistersFresh(u) /\ ItemsApplied(u))'
<1>1. Current(u)' = Current(u) /\ Address(u)' = Address(u) /\ Writing(u)' = Writing(u)
  BY DEF Current, Address, Writing
<1>2. ASSUME Writing(u) PROVE ItemsApplied(u)'
  <2>1. ItemsApplied(u)
    BY DEF MemoryInv, WriterInv
  <2>2. \A h \in Hash : Present(u, h)' = Present(u, h)
    BY FilterFacts DEF Present, Slot
  <2>3. \A n \in 1 .. i[u] + p[u] : HashesOf(call[u])[n] \in Hash
    BY <1>2, ItemsInRange
  <2> QED
    BY <1>1, <1>2, <2>1, <2>2, <2>3 DEF ItemsApplied
<1>3. RegistersFresh(u)'
  <2>1. RegistersFresh(u)
    BY DEF MemoryInv, WriterInv
  <2>2. pc[u] \in {"load", "store"} => Address(u) \in Blocks
    BY AccessFacts
  <2> QED
    BY <1>1, <2>1, <2>2 DEF RegistersFresh
<1> QED
  BY <1>1, <1>2, <1>3 DEF ItemsApplied

\* A step that leaves memory, buffers and done alone keeps what concerns them.
LEMMA QuietMemory ==
  ASSUME Control, MemoryInv, UNCHANGED <<mem, pending, done>>
  PROVE  GrowInv' /\ DoneInv'
<1>1. GrowInv'
  BY QuietView DEF MemoryInv, GrowInv
<1>2. DoneInv'
  BY DEF MemoryInv, DoneInv, Slot
<1> QED
  BY <1>1, <1>2

\* Entering an entry point keeps the memory invariant: a writer starts with an
\* empty buffer and no item behind it.
LEMMA MemoryBegin ==
  ASSUME Control, MemoryInv, NEW t \in Threads, NEW c \in Calls,
         BeginInsert(t, c) \/ BeginContains(t, c)
  PROVE  MemoryInv'
<1>1. /\ pc[t] = "idle" /\ i[t] = 0 /\ p[t] = 0 /\ call[t] = NoCall
      /\ call' = [call EXCEPT ![t] = c]
      /\ LoopTo(t, c, 0)
      /\ UNCHANGED <<mem, pending, i, p, reg, done>>
  BY DEF BeginInsert, BeginContains, Control, ControlInv, ThreadControl
<1>2. /\ pc' = [pc EXCEPT ![t] = IF 0 < Len(c.items) THEN "load" ELSE "ret"]
      /\ lanes' = [lanes EXCEPT ![t] = IF 0 < Len(c.items) THEN Lanes ELSE {}]
  BY <1>1 DEF LoopTo, GoTo
<1>3. GrowInv' /\ DoneInv'
  BY <1>1, QuietMemory
<1>4. ~ Writing(t) /\ lock # t
  BY <1>1, WritingFacts DEF MemoryInv, LockInv, Writing
<1>5. \A u \in Threads \ {t} : Writing(u)' = Writing(u)
  BY <1>1 DEF Control, TypeOK, Writing
<1>6. Writing(t)' <=> c.fn \in Inserting
  BY <1>1 DEF Control, TypeOK, Writing
<1>7. LockInv'
  <2>1. CASE BeginInsert(t, c)
    BY <1>1, <1>5, <1>6, <2>1, ThreadAssumption DEF BeginInsert, MemoryInv, LockInv
  <2>2. CASE BeginContains(t, c)
    <3>1. lock' = lock /\ c.fn \notin Inserting
      BY <2>2, WritingFacts DEF BeginContains
    <3> QED
      BY <1>1, <1>4, <1>5, <1>6, <3>1 DEF MemoryInv, LockInv
  <2> QED
    BY <2>1, <2>2
<1>8. ASSUME NEW u \in Threads PROVE (RegistersFresh(u) /\ ItemsApplied(u))'
  <2>1. CASE u = t
    <3>1. /\ pc'[t] \in {"load", "ret"} /\ i'[t] + p'[t] = 0
          /\ pc'[t] = "load" => lanes'[t] = Lanes
      BY <1>1, <1>2 DEF Control, TypeOK
    <3> QED
      BY <2>1, <3>1 DEF RegistersFresh, ItemsApplied
  <2>2. CASE u # t
    BY <1>1, <1>2, <2>2, OthersKeep, QuietView DEF Control, TypeOK
  <2> QED
    BY <2>1, <2>2
<1> QED
  BY <1>3, <1>7, <1>8 DEF MemoryInv, WriterInv

\* A load keeps the memory invariant: its register is what the thread sees.
LEMMA MemoryLoad ==
  ASSUME Control, MemoryInv, NEW t \in Threads, NEW l \in Lanes, LoadLane(t, l)
  PROVE  MemoryInv'
<1> DEFINE after == After("load", Writing(t), p[t], Width(call[t], i[t]))
           more == lanes[t] # {l}
           q == p[t]
<1>1. /\ pc[t] = "load" /\ l \in lanes[t]
      /\ reg' = [reg EXCEPT ![t][q][l] = View(t, Address(t), l)]
      /\ ~ more => GoTo(t, after.kind) /\ p' = [p EXCEPT ![t] = after.pos]
      /\ more => lanes' = [lanes EXCEPT ![t] = @ \ {l}] /\ UNCHANGED <<pc, p>>
      /\ UNCHANGED <<mem, pending, lock, call, i, tested, begun, done, must>>
  BY DEF LoadLane
<1>2. Address(t) \in Blocks /\ q \in 0 .. Unroll - 1
  BY <1>1, AccessFacts DEF Control, TypeOK
<1>3. \A u \in Threads : Writing(u)' = Writing(u)
  BY <1>1 DEF Writing
<1>4. GrowInv' /\ DoneInv' /\ LockInv'
  BY <1>1, <1>3, QuietMemory DEF MemoryInv, LockInv
<1> HIDE DEF after
<1>5. ASSUME Writing(t) PROVE (RegistersFresh(t) /\ ItemsApplied(t))'
  <2>1. p'[t] = q /\ i'[t] = i[t]
    <3>1. after.pos = q
      BY <1>5 DEF after, After
    <3> QED
      BY <1>1, <3>1 DEF Control, TypeOK
  <2>2. \A k \in Lanes : reg'[t][q][k] = IF k = l THEN View(t, Address(t), l) ELSE reg[t][q][k]
    <3> DEFINE v == View(t, Address(t), l)
    <3>1. reg \in [Threads -> [0 .. Unroll - 1 -> [Lanes -> Word]]]
      BY DEF Control, TypeOK
    <3>2. reg' = [reg EXCEPT ![t][q][l] = v]
      BY <1>1
    <3> HIDE DEF q, v
    <3>3. \A k \in Lanes : reg'[t][q][k] = IF k = l THEN v ELSE reg[t][q][k]
      BY <1>2, <3>1, <3>2
    <3> QED
      BY <3>3 DEF v
  <2>3. \A k \in Lanes \ lanes[t] : reg[t][q][k] = View(t, Address(t), k)
    BY <1>1, <1>5 DEF MemoryInv, WriterInv, RegistersFresh
  <2>4. Address(t)' = Address(t)
    BY <1>1, <2>1 DEF Address, Current
  <2>5. \A k \in Lanes : View(t, Address(t), k)' = View(t, Address(t), k)
    BY <1>1, <1>2, <2>4, QuietView
  <2>6. \A k \in Lanes \ (lanes[t] \ {l}) : reg'[t][q][k] = View(t, Address(t), k)'
    BY <2>2, <2>3, <2>5
  <2>7. RegistersFresh(t)'
    <3>1. CASE more
      <4>1. pc'[t] = "load" /\ lanes'[t] = lanes[t] \ {l}
        BY <1>1, <3>1 DEF Control, TypeOK
      <4> QED
        BY <2>1, <2>6, <4>1 DEF RegistersFresh
    <3>2. CASE ~ more
      <4>1. pc'[t] = "store" /\ lanes'[t] = Lanes
        <5>1. after.kind = "store"
          BY <1>5 DEF after, After
        <5> QED
          BY <1>1, <3>2, <5>1 DEF Control, TypeOK, GoTo
      <4>2. \A k \in Lanes : reg'[t][q][k] = View(t, Address(t), k)'
        BY <2>6, <3>2
      <4> QED
        BY <2>1, <4>1, <4>2 DEF RegistersFresh
    <3> QED
      BY <3>1, <3>2
  <2>8. ItemsApplied(t)'
    <3>1. \A n \in 1 .. i[t] + q : HashesOf(call[t])[n] \in Hash /\ Present(t, HashesOf(call[t])[n])
      BY <1>5, ItemsInRange DEF MemoryInv, WriterInv, ItemsApplied
    <3>2. \A h \in Hash : Present(t, h) => Present(t, h)'
      BY <1>1, FilterFacts, QuietView DEF Present, Slot
    <3> QED
      BY <1>1, <2>1, <3>1, <3>2 DEF ItemsApplied
  <2> QED
    BY <2>7, <2>8
<1>6. ASSUME NEW u \in Threads PROVE (RegistersFresh(u) /\ ItemsApplied(u))'
  <2>1. CASE u = t
    BY <1>3, <1>5, <2>1 DEF RegistersFresh, ItemsApplied
  <2>2. CASE u # t
    <3>1. UNCHANGED <<pc[u], call[u], i[u], p[u], lanes[u], reg[u]>>
      BY <1>1, <2>2 DEF GoTo, Control, TypeOK
    <3> QED
      BY <1>1, <3>1, OthersKeep, QuietView
  <2> QED
    BY <2>1, <2>2
<1> QED
  BY <1>4, <1>6 DEF MemoryInv, WriterInv

\* A store keeps the memory invariant: the item whose last lane is stored is
\* present in what the thread sees, whatever block the next one falls on.
LEMMA MemoryStore ==
  ASSUME Control, MemoryInv, NEW t \in Threads, NEW l \in Lanes, StoreLane(t, l)
  PROVE  MemoryInv'
<1> DEFINE w == Width(call[t], i[t])
           after == After("store", TRUE, p[t], w)
<1>1. /\ pc[t] = "store" /\ l \in lanes[t]
      /\ IF lanes[t] = {l}
         THEN /\ p' = [p EXCEPT ![t] = after.pos]
              /\ IF after.kind = "next"
                 THEN NextIteration(t)
                 ELSE GoTo(t, after.kind) /\ UNCHANGED <<i, reg>>
         ELSE lanes' = [lanes EXCEPT ![t] = @ \ {l}] /\ UNCHANGED <<pc, i, p, reg>>
      /\ UNCHANGED <<mem, lock, call, tested, begun, done, must>>
  BY DEF StoreLane
<1>0. PICK h \in Hash : h = Current(t)
  BY <1>1, AccessFacts
<1>2. /\ lock = t /\ Writing(t)
      /\ \A u \in Threads, x \in Blocks, k \in Lanes :
           View(u, x, k)' = IF u = t /\ x = Address(t) /\ k = l
                            THEN View(u, x, k) \cup mask_for(h)[l]
                            ELSE View(u, x, k)
  BY StoreView, <1>0
<1>3. /\ h \in Hash /\ h = HashesOf(call[t])[i[t] + p[t] + 1]
      /\ Address(t) = Slot(h) /\ Address(t) \in Blocks
      /\ w \in 1 .. Unroll /\ p[t] \in Nat /\ i[t] \in Nat /\ p[t] < w
  BY <1>0, <1>1, AccessFacts DEF Control, ControlInv, ThreadControl, TypeOK
<1>4. \A u \in Threads : Writing(u)' = Writing(u)
  BY <1>1 DEF Writing
<1>5. GrowInv'
  BY <1>1, <1>2 DEF MemoryInv, GrowInv
<1>6. LockInv'
  <2>1. pending' = [pending EXCEPT ![t][Address(t)][l] = {reg[t][p[t]][l] \cup mask_for(h)[l]}]
    BY <1>0 DEF StoreLane
  <2>2. \A u \in Threads \ {t} : pending'[u] = pending[u]
    BY <2>1 DEF Control, TypeOK
  <2> QED
    BY <1>1, <1>2, <1>4, <2>2 DEF MemoryInv, LockInv
<1>7. DoneInv'
  BY <1>1 DEF MemoryInv, DoneInv, Slot
<1>8. \A g \in Hash : Present(t, g) => Present(t, g)'
  <2> SUFFICES ASSUME NEW g \in Hash, Present(t, g), NEW k \in Lanes
               PROVE  mask_for(g)[k] \subseteq View(t, Slot(g), k)'
    BY DEF Present, Slot
  <2>1. Slot(g) \in Blocks /\ mask_for(g)[k] \subseteq View(t, Slot(g), k)
    BY FilterFacts DEF Present
  <2>2. View(t, Slot(g), k) \subseteq View(t, Slot(g), k)'
    BY <1>2, <2>1
  <2> QED
    BY <2>1, <2>2
<1>9. \A n \in 1 .. i[t] + p[t] : Present(t, HashesOf(call[t])[n])'
  <2>1. \A n \in 1 .. i[t] + p[t] : HashesOf(call[t])[n] \in Hash /\ Present(t, HashesOf(call[t])[n])
    BY <1>2, ItemsInRange DEF MemoryInv, WriterInv, ItemsApplied
  <2> QED
    BY <1>1, <1>8, <2>1
<1>10. \A k \in Lanes : k \notin lanes[t] \ {l} => mask_for(h)[k] \subseteq View(t, Slot(h), k)'
  <2> TAKE k \in Lanes
  <2>1. k \notin lanes[t] => mask_for(h)[k] \subseteq View(t, Slot(h), k)
    BY <1>0, <1>1, <1>2, <1>3 DEF MemoryInv, WriterInv, RegistersFresh
  <2>2. View(t, Slot(h), k)' = IF k = l THEN View(t, Slot(h), k) \cup mask_for(h)[l]
                               ELSE View(t, Slot(h), k)
    BY <1>2, <1>3 DEF Slot
  <2> QED
    BY <2>1, <2>2
<1>11. ASSUME lanes[t] # {l} PROVE (RegistersFresh(t) /\ ItemsApplied(t))'
  <2>1. pc' = pc /\ p' = p /\ i' = i /\ reg' = reg /\ lanes'[t] = lanes[t] \ {l}
    BY <1>1, <1>11 DEF Control, TypeOK
  <2>2. Current(t)' = h /\ Address(t)' = Address(t)
    BY <1>0, <1>1, <2>1 DEF Current, Address
  <2>3. \A k \in lanes[t] \ {l} : k \in Lanes => reg'[t][p[t]][k] = View(t, Address(t), k)'
    <3>1. \A k \in lanes[t] \ {l} : k \in Lanes => reg[t][p[t]][k] = View(t, Address(t), k)
      BY <1>1, <1>2 DEF MemoryInv, WriterInv, RegistersFresh
    <3>2. \A k \in Lanes \ {l} : View(t, Address(t), k)' = View(t, Slot(h), k)
      BY <1>2, <1>3, <2>2
    <3> QED
      BY <1>3, <2>1, <3>1, <3>2
  <2>4. RegistersFresh(t)'
    <3>1. Slot(h)' = Slot(h)
      BY DEF Slot
    <3> QED
      BY <1>1, <1>3, <1>10, <2>1, <2>2, <2>3 DEF RegistersFresh
  <2>5. ItemsApplied(t)'
    BY <1>1, <1>9, <2>1 DEF ItemsApplied
  <2> QED
    BY <2>4, <2>5
<1>12. ASSUME lanes[t] = {l} PROVE (RegistersFresh(t) /\ ItemsApplied(t))'
  <2>1. \A n \in 1 .. i[t] + p[t] + 1 : Present(t, HashesOf(call[t])[n])'
    <3>1. Present(t, h)'
      BY <1>10, <1>12 DEF Present, Slot
    <3>2. \A n \in 1 .. i[t] + p[t] + 1 : n \in 1 .. i[t] + p[t] \/ n = i[t] + p[t] + 1
      BY <1>3
    <3> QED
      BY <1>1, <1>3, <1>9, <3>1, <3>2
  <2>2. /\ i'[t] + p'[t] = i[t] + p[t] + 1
        /\ pc'[t] \in {"load", "ret"}
        /\ pc'[t] = "load" => lanes'[t] = Lanes
    <3>1. CASE p[t] + 1 < w
      <4>1. after.kind = "load" /\ after.pos = p[t] + 1
        BY <3>1 DEF After
      <4> HIDE DEF after
      <4>2. GoTo(t, "load") /\ p' = [p EXCEPT ![t] = p[t] + 1] /\ i' = i
        BY <1>1, <1>12, <4>1
      <4>3. p'[t] = p[t] + 1 /\ pc'[t] = "load" /\ lanes'[t] = Lanes
        BY <4>2 DEF GoTo, Control, TypeOK
      <4> QED
        BY <1>3, <4>2, <4>3
    <3>2. CASE ~ (p[t] + 1 < w)
      <4>1. after.kind = "next" /\ after.pos = 0
        BY <3>2 DEF After
      <4> HIDE DEF after
      <4>2. NextIteration(t) /\ p'[t] = 0
        BY <1>1, <1>12, <4>1 DEF Control, TypeOK
      <4>3. p[t] + 1 = w
        BY <1>3, <3>2
      <4>4. /\ i'[t] = i[t] + w
            /\ pc' = [pc EXCEPT ![t] = IF i'[t] < Len(call[t].items) THEN "load" ELSE "ret"]
            /\ lanes' = [lanes EXCEPT ![t] = IF i'[t] < Len(call[t].items) THEN Lanes ELSE {}]
        BY <1>1, <4>2, IterationEnds
      <4>5. pc'[t] \in {"load", "ret"} /\ (pc'[t] = "load" => lanes'[t] = Lanes)
        BY <4>4 DEF Control, TypeOK
      <4> HIDE DEF w
      <4> QED
        BY <1>3, <4>2, <4>3, <4>4, <4>5
    <3> QED
      BY <3>1, <3>2
  <2> HIDE DEF w
  <2>3. RegistersFresh(t)'
    BY <2>2 DEF RegistersFresh
  <2>4. ItemsApplied(t)'
    BY <1>1, <2>1, <2>2 DEF ItemsApplied
  <2> QED
    BY <2>3, <2>4
<1>13. ASSUME NEW u \in Threads, u # t PROVE (RegistersFresh(u) /\ ItemsApplied(u))'
  <2>1. ~ Writing(u)
    BY <1>2, <1>13 DEF MemoryInv, LockInv
  <2> QED
    BY <1>4, <2>1 DEF RegistersFresh, ItemsApplied
<1> QED
  BY <1>5, <1>6, <1>7, <1>11, <1>12, <1>13 DEF MemoryInv, WriterInv

\* The tests of a contains function keep the memory invariant.
LEMMA MemoryTest ==
  ASSUME Control, MemoryInv, NEW t \in Threads, Test(t)
  PROVE  MemoryInv'
<1>1. /\ pc[t] = "test"
      /\ NextIteration(t)
      /\ UNCHANGED <<mem, pending, lock, call, p, begun, done, must>>
  BY DEF Test
<1>2. \A u \in Threads : Writing(u)' = Writing(u)
  BY <1>1 DEF Writing
<1>3. GrowInv' /\ DoneInv' /\ LockInv'
  BY <1>1, <1>2, QuietMemory DEF MemoryInv, LockInv
<1>4. ~ Writing(t)
  BY <1>1 DEF Control, ControlInv, ThreadControl
<1>5. ASSUME NEW u \in Threads PROVE (RegistersFresh(u) /\ ItemsApplied(u))'
  <2>1. CASE u = t
    BY <1>2, <1>4, <2>1 DEF RegistersFresh, ItemsApplied
  <2>2. CASE u # t
    <3>1. UNCHANGED <<pc[u], call[u], i[u], p[u], lanes[u], reg[u]>>
      BY <1>1, <2>2 DEF NextIteration, LoopTo, GoTo, Control, TypeOK
    <3> QED
      BY <1>1, <3>1, OthersKeep, QuietView
  <2> QED
    BY <2>1, <2>2
<1> QED
  BY <1>3, <1>5 DEF MemoryInv, WriterInv

\* A call that returns keeps the memory invariant: its items are in memory by
\* then, the buffer being drained.
LEMMA MemoryReturn ==
  ASSUME Control, MemoryInv, NEW t \in Threads, Return(t)
  PROVE  MemoryInv'
<1>1. /\ pc[t] = "ret"
      /\ call' = [call EXCEPT ![t] = NoCall]
      /\ i' = [i EXCEPT ![t] = 0]
      /\ GoTo(t, "idle")
      /\ UNCHANGED <<mem, pending, p, reg, begun>>
  BY DEF Return
<1>2. call[t] \in Calls /\ p[t] = 0 /\ i[t] = Len(call[t].items)
  BY <1>1 DEF Control, ControlInv, ThreadControl
<1>3. GrowInv'
  BY <1>1, QuietView DEF MemoryInv, GrowInv
<1>4. ~ Writing(t)'
  BY <1>1, WritingFacts DEF Writing, Control, TypeOK
<1>5. \A u \in Threads \ {t} : Writing(u)' = Writing(u)
  BY <1>1 DEF Writing, Control, TypeOK
<1>6. LockInv'
  <2>1. CASE Writing(t)
    <3>1. lock = t /\ lock' = NoThread /\ pending[t] = NoStores
      BY <2>1 DEF Return, MemoryInv, LockInv
    <3>2. \A u \in Threads \ {t} : lock # u /\ ~ Writing(u)
      BY <3>1 DEF MemoryInv, LockInv
    <3>3. \A u \in Threads : lock' # u
      BY <3>1, ThreadAssumption
    <3>4. \A b \in Blocks, k \in Lanes : pending[t][b][k] = {}
      BY <3>1 DEF NoStores, Clear
    <3> QED
      BY <1>1, <1>4, <1>5, <3>2, <3>3, <3>4 DEF MemoryInv, LockInv
  <2>2. CASE ~ Writing(t)
    <3>1. lock' = lock
      BY <2>2 DEF Return
    <3> QED
      BY <1>1, <1>4, <1>5, <2>2, <3>1 DEF MemoryInv, LockInv
  <2> QED
    BY <2>1, <2>2
<1>7. DoneInv'
  <2>1. CASE Writing(t)
    <3>1. done' = done \cup HashSetOf(call[t]) /\ pending[t] = NoStores
      BY <2>1 DEF Return
    <3>2. \A b \in Blocks, k \in Lanes : View(t, b, k) = mem[b][k]
      BY <3>1 DEF View, NoStores, Clear
    <3>3. \A n \in 1 .. Len(call[t].items) :
            HashesOf(call[t])[n] \in Hash /\ Present(t, HashesOf(call[t])[n])
      BY <1>2, <2>1, CallFacts DEF MemoryInv, WriterInv, ItemsApplied
    <3>4. \A h \in HashSetOf(call[t]) : h \in Hash /\ Present(t, h)
      BY <1>2, <3>3, CallFacts DEF HashSetOf
    <3>5. \A h \in HashSetOf(call[t]) : \A k \in Lanes : mask_for(h)[k] \subseteq mem[Slot(h)][k]
      BY <3>2, <3>4, FilterFacts DEF Present
    <3> QED
      BY <1>1, <3>1, <3>5 DEF MemoryInv, DoneInv, Slot
  <2>2. CASE ~ Writing(t)
    BY <1>1, <2>2 DEF Return, MemoryInv, DoneInv, Slot
  <2> QED
    BY <2>1, <2>2
<1>8. ASSUME NEW u \in Threads PROVE (RegistersFresh(u) /\ ItemsApplied(u))'
  <2>1. CASE u = t
    BY <1>4, <2>1 DEF RegistersFresh, ItemsApplied
  <2>2. CASE u # t
    <3>1. UNCHANGED <<pc[u], call[u], i[u], p[u], lanes[u], reg[u]>>
      BY <1>1, <2>2 DEF GoTo, Control, TypeOK
    <3> QED
      BY <1>1, <3>1, OthersKeep, QuietView
  <2> QED
    BY <2>1, <2>2
<1> QED
  BY <1>3, <1>6, <1>7, <1>8 DEF MemoryInv, WriterInv

\* A store that reaches memory keeps the memory invariant.
LEMMA MemoryDrain ==
  ASSUME Control, MemoryInv,
         NEW t \in Threads, NEW b \in Blocks, NEW l \in Lanes, Drain(t, b, l)
  PROVE  MemoryInv'
<1>1. /\ pending' = [pending EXCEPT ![t][b][l] = {}]
      /\ UNCHANGED <<lock, pc, call, i, p, lanes, reg, tested, begun, done, must>>
  BY DEF Drain
<1>2. /\ lock = t
      /\ \A x \in Blocks, k \in Lanes :
           /\ mem[x][k] \subseteq mem'[x][k]
           /\ mem'[x][k] \subseteq View(t, x, k)
           /\ View(t, x, k)' = View(t, x, k)
           /\ \A u \in Threads \ {t} : View(u, x, k)' = mem'[x][k]
  BY DrainGrows
<1>3. GrowInv'
  <2> SUFFICES ASSUME NEW u \in Threads, NEW x \in Blocks, NEW k \in Lanes
               PROVE  mem'[x][k] \subseteq View(u, x, k)'
    BY DEF GrowInv
  <2> QED
    BY <1>2
<1>4. \A u \in Threads : Writing(u)' = Writing(u)
  BY <1>1 DEF Writing
<1>5. LockInv'
  <2>1. \A u \in Threads \ {t} : pending'[u] = pending[u]
    BY <1>1 DEF Control, TypeOK
  <2> QED
    BY <1>1, <1>2, <1>4, <2>1 DEF MemoryInv, LockInv
<1>6. DoneInv'
  <2> SUFFICES ASSUME NEW h \in done, NEW k \in Lanes
               PROVE  mask_for(h)[k] \subseteq mem'[Slot(h)][k]
    BY <1>1 DEF DoneInv, Slot
  <2>1. h \in Hash /\ Slot(h) \in Blocks
    BY FilterFacts DEF Control, TypeOK
  <2>2. mask_for(h)[k] \subseteq mem[Slot(h)][k]
    BY DEF MemoryInv, DoneInv
  <2> QED
    BY <1>2, <2>1, <2>2
<1>7. ASSUME NEW u \in Threads PROVE (RegistersFresh(u) /\ ItemsApplied(u))'
  <2>1. CASE u = t
    BY <1>1, <1>2, <2>1, OthersKeep
  <2>2. CASE u # t
    <3>1. ~ Writing(u)
      BY <1>2, <2>2 DEF MemoryInv, LockInv
    <3> QED
      BY <1>4, <3>1 DEF RegistersFresh, ItemsApplied
  <2> QED
    BY <2>1, <2>2
<1> QED
  BY <1>3, <1>5, <1>6, <1>7 DEF MemoryInv, WriterInv

\* A step of something else keeps the memory invariant.
LEMMA MemoryStutter ==
  ASSUME Control, MemoryInv, UNCHANGED vars
  PROVE  MemoryInv'
<1>1. GrowInv' /\ DoneInv'
  BY QuietMemory DEF vars
<1>2. LockInv'
  BY DEF MemoryInv, LockInv, Writing, vars
<1>3. \A u \in Threads : (RegistersFresh(u) /\ ItemsApplied(u))'
  BY OthersKeep, QuietView DEF vars
<1> QED
  BY <1>1, <1>2, <1>3 DEF MemoryInv, WriterInv

\* The memory invariant is inductive.
LEMMA MemoryNext ==
  Control /\ MemoryInv /\ [Next]_vars => MemoryInv'
<1> SUFFICES ASSUME Control, MemoryInv, Next PROVE MemoryInv'
  BY MemoryStutter
<1>1. ASSUME NEW t \in Threads, Begin(t) PROVE MemoryInv'
  BY <1>1, MemoryBegin DEF Begin
<1>2. ASSUME NEW t \in Threads, Step(t) PROVE MemoryInv'
  BY <1>2, MemoryLoad, MemoryStore, MemoryTest, MemoryReturn DEF Step
<1>3. ASSUME NEW t \in Threads, NEW b \in Blocks, NEW l \in Lanes, Drain(t, b, l)
      PROVE  MemoryInv'
  BY <1>3, MemoryDrain
<1> QED
  BY <1>1, <1>2, <1>3 DEF Next

\* The memory invariant always holds: one writer, whose registers are fresh and
\* whose past items are present; and memory covers all inserts that returned.
THEOREM MemoryAlways ==
  Spec => [](Control /\ MemoryInv)
<1>1. Init => Control /\ MemoryInv
  BY ControlInit, MemoryInit
<1>2. Control /\ MemoryInv /\ [Next]_vars => (Control /\ MemoryInv)'
  BY ControlNext, MemoryNext
<1> QED
  BY <1>1, <1>2, PTL DEF Spec

\* No step of the system clears a bit of memory: the load-or-store of the
\* insert functions never works from a stale register.
LEMMA MemoryGrows ==
  Control /\ MemoryInv /\ [Next]_vars =>
    \A b \in Blocks, l \in Lanes : mem[b][l] \subseteq mem'[b][l]
<1> SUFFICES ASSUME Control, MemoryInv, [Next]_vars
             PROVE  \A b \in Blocks, l \in Lanes : mem[b][l] \subseteq mem'[b][l]
  OBVIOUS
<1>1. ASSUME NEW t \in Threads, NEW b \in Blocks, NEW l \in Lanes, Drain(t, b, l)
      PROVE  \A x \in Blocks, k \in Lanes : mem[x][k] \subseteq mem'[x][k]
  BY <1>1, DrainGrows
<1>2. ASSUME NEW t \in Threads, Begin(t) \/ Step(t) PROVE mem' = mem
  BY <1>2 DEF Begin, Step, BeginInsert, BeginContains, LoadLane, StoreLane, Test, Return
<1>3. CASE UNCHANGED vars
  BY <1>3 DEF vars
<1> QED
  BY <1>1, <1>2, <1>3 DEF Next

\* No drained store ever clears a bit another insert set, for every number of
\* threads, lanes, blocks and unrolled width: aliased blocks in one round and
\* readers' and writers' interleavings included.
THEOREM BitsNeverLost ==
  Spec => BitsOnlyGrow
<1>1. Control /\ MemoryInv /\ [Next]_vars =>
        [\A b \in Blocks, l \in Lanes : mem[b][l] \subseteq mem'[b][l]]_vars
  BY MemoryGrows
<1> QED
  BY <1>1, MemoryAlways, PTL DEF Spec, BitsOnlyGrow

---------------------------------------------------------------------------
(*************************************************************************)
(* Why a query never misses an insert that had returned when the query   *)
(* began, for every instance of QuickBloom.  ReadInv follows a query     *)
(* from its registers to its answers; it rests on MemoryInv, which says  *)
(* that what the returned inserts set stays in memory.                   *)
(*************************************************************************)
\* The query of thread t has loaded lane l of block number q of its iteration.
Loaded(t, q, l) ==
  \/ pc[t] = "test"
  \/ pc[t] = "load" /\ (q < p[t] \/ (q = p[t] /\ l \notin lanes[t]))

RegistersCover(t) ==
  ~ Writing(t) /\ pc[t] \in {"load", "test"} =>
    \A q \in 0 .. Width(call[t], i[t]) - 1, l \in Lanes, h \in must[t] :
      Loaded(t, q, l) /\ Slot(h) = Slot(HashAt(call[t], i[t], q)) =>
        mask_for(h)[l] \subseteq reg[t][q][l]

AnswersComplete(t) ==
  ~ Writing(t) =>
    /\ Len(tested[t]) = i[t]
    /\ \A n \in 1 .. i[t] : Reports(NBlocks, must[t], HashesOf(call[t])[n]) => tested[t][n]

ReadThread(t) == must[t] \subseteq done /\ RegistersCover(t) /\ AnswersComplete(t)

ReadInv == \A t \in Threads : ReadThread(t)

\* A block that holds the masks of all the inserts that fall on it passes the
\* test of contains_one whenever the reference filter reports the hash.
LEMMA ReportsCovered ==
  ASSUME NEW S \in SUBSET Hash, NEW x \in Hash, NEW block,
         \A h \in S, l \in Lanes : Slot(h) = Slot(x) => mask_for(h)[l] \subseteq block[l],
         Reports(NBlocks, S, x)
  PROVE  Covers(block, mask_for(x))
<1> SUFFICES ASSUME NEW l \in Lanes
             PROVE  mask_for(x)[l] \subseteq block[l]
  BY DEF Covers
<1>1. mask_for(x)[l] \subseteq
        UNION {mask_for(h)[l] : h \in {y \in S : Fastrange(NBlocks, y) = Fastrange(NBlocks, x)}}
  BY DEF Reports, Covers, BlockImage
<1>2. \A h \in S : Fastrange(NBlocks, h) = Slot(h)
  BY FilterFacts
<1>3. Fastrange(NBlocks, x) = Slot(x)
  BY FilterFacts
<1>4. \A h \in {y \in S : Fastrange(NBlocks, y) = Fastrange(NBlocks, x)} :
         mask_for(h)[l] \subseteq block[l]
  BY <1>2, <1>3
<1> QED
  BY <1>1, <1>4

\* A step that leaves a thread and its query alone keeps what is known of it.
LEMMA ReadKeep ==
  ASSUME NEW u \in Threads, ReadThread(u), done \subseteq done',
         UNCHANGED <<pc[u], call[u], i[u], p[u], lanes[u], reg[u], tested[u], must[u]>>
  PROVE  ReadThread(u)'
<1>1. Writing(u)' = Writing(u) /\ \A q, l : Loaded(u, q, l)' = Loaded(u, q, l)
  BY DEF Writing, Loaded
<1>2. RegistersCover(u)'
  BY <1>1 DEF ReadThread, RegistersCover, Slot
<1>3. AnswersComplete(u)'
  BY <1>1 DEF ReadThread, AnswersComplete
<1> QED
  BY <1>2, <1>3 DEF ReadThread

\* Nobody asks in a fresh filter.
LEMMA ReadInit ==
  Init => ReadInv
<1> SUFFICES ASSUME Init, NEW t \in Threads PROVE ReadThread(t)
  BY DEF ReadInv
<1>1. RegistersCover(t)
  BY DEF Init, RegistersCover
<1> QED
  BY <1>1 DEF Init, ReadThread, AnswersComplete

\* A query starts with nothing loaded and nothing answered.
LEMMA ReadBegin ==
  ASSUME Control, ReadInv, NEW t \in Threads, NEW c \in Calls,
         BeginInsert(t, c) \/ BeginContains(t, c)
  PROVE  ReadInv'
<1>1. /\ pc[t] = "idle" /\ i[t] = 0 /\ p[t] = 0 /\ tested[t] = <<>>
      /\ call' = [call EXCEPT ![t] = c]
      /\ LoopTo(t, c, 0)
      /\ UNCHANGED <<i, p, reg, tested, done>>
  BY DEF BeginInsert, BeginContains, Control, ControlInv, ThreadControl
<1>2. /\ pc' = [pc EXCEPT ![t] = IF 0 < Len(c.items) THEN "load" ELSE "ret"]
      /\ lanes' = [lanes EXCEPT ![t] = IF 0 < Len(c.items) THEN Lanes ELSE {}]
  BY <1>1 DEF LoopTo, GoTo
<1>3. must' = must \/ must' = [must EXCEPT ![t] = done]
  BY DEF BeginInsert, BeginContains
<1>4. ReadThread(t)'
  <2>1. /\ p'[t] = 0 /\ pc'[t] \in {"load", "ret"}
        /\ pc'[t] = "load" => lanes'[t] = Lanes
    BY <1>1, <1>2 DEF Control, TypeOK
  <2>2. RegistersCover(t)'
    BY <2>1 DEF RegistersCover, Loaded
  <2>3. AnswersComplete(t)'
    <3>1. i'[t] = 0 /\ Len(tested'[t]) = 0
      BY <1>1
    <3> QED
      BY <3>1 DEF AnswersComplete
  <2>4. must'[t] \subseteq done'
    BY <1>1, <1>3 DEF ReadInv, ReadThread, Control, TypeOK
  <2> QED
    BY <2>2, <2>3, <2>4 DEF ReadThread
<1>5. ASSUME NEW u \in Threads, u # t PROVE ReadThread(u)'
  <2>1. UNCHANGED <<pc[u], call[u], i[u], p[u], lanes[u], reg[u], tested[u], must[u]>>
    BY <1>1, <1>2, <1>3, <1>5 DEF Control, TypeOK
  <2> QED
    BY <1>1, <2>1, ReadKeep DEF ReadInv
<1> QED
  BY <1>4, <1>5 DEF ReadInv

\* A query's load finds in memory all that the returned inserts set.
LEMMA ReadLoad ==
  ASSUME Control, MemoryInv, ReadInv, NEW t \in Threads, NEW l \in Lanes, LoadLane(t, l)
  PROVE  ReadInv'
<1> DEFINE w == Width(call[t], i[t])
           after == After("load", Writing(t), p[t], w)
           more == lanes[t] # {l}
<1>1. /\ pc[t] = "load" /\ l \in lanes[t]
      /\ reg' = [reg EXCEPT ![t][p[t]][l] = View(t, Address(t), l)]
      /\ ~ more => GoTo(t, after.kind) /\ p' = [p EXCEPT ![t] = after.pos]
      /\ more => lanes' = [lanes EXCEPT ![t] = @ \ {l}] /\ UNCHANGED <<pc, p>>
      /\ UNCHANGED <<mem, pending, lock, call, i, tested, begun, done, must>>
  BY DEF LoadLane
<1>2. /\ w \in 1 .. Unroll /\ p[t] \in 0 .. Unroll - 1 /\ p[t] < w /\ Unroll \in Nat
      /\ Address(t) = Slot(Current(t)) /\ Address(t) \in Blocks
  BY <1>1, AccessFacts, CallAssumption DEF Control, ControlInv, ThreadControl, TypeOK
<1>3. Writing(t)' = Writing(t)
  BY <1>1 DEF Writing
<1>4. AnswersComplete(t)' /\ must'[t] \subseteq done'
  BY <1>1, <1>3 DEF ReadInv, ReadThread, AnswersComplete
<1>5. ASSUME ~ Writing(t) PROVE RegistersCover(t)'
  <2>1. \A h \in must[t] : Slot(h) = Slot(Current(t)) =>
           mask_for(h)[l] \subseteq View(t, Address(t), l)
    <3> SUFFICES ASSUME NEW h \in must[t], Slot(h) = Slot(Current(t))
                 PROVE  mask_for(h)[l] \subseteq View(t, Address(t), l)
      OBVIOUS
    <3>1. h \in done
      BY DEF ReadInv, ReadThread
    <3>2. mask_for(h)[l] \subseteq mem[Address(t)][l]
      BY <1>2, <3>1 DEF MemoryInv, DoneInv
    <3>3. mem[Address(t)][l] \subseteq View(t, Address(t), l)
      BY <1>2 DEF MemoryInv, GrowInv
    <3> QED
      BY <3>2, <3>3
  <2>2. \A q \in 0 .. w - 1, k \in Lanes :
           reg'[t][q][k] = IF q = p[t] /\ k = l THEN View(t, Address(t), l) ELSE reg[t][q][k]
    <3> DEFINE v == View(t, Address(t), l)
               s == p[t]
    <3>1. reg \in [Threads -> [0 .. Unroll - 1 -> [Lanes -> Word]]]
      BY DEF Control, TypeOK
    <3>2. reg' = [reg EXCEPT ![t][s][l] = v] /\ s \in 0 .. Unroll - 1
      BY <1>1, <1>2
    <3>3. \A q \in 0 .. w - 1 : q \in 0 .. Unroll - 1
      BY <1>2
    <3> HIDE DEF s, v, w
    <3>4. \A q \in 0 .. Unroll - 1, k \in Lanes :
             reg'[t][q][k] = IF q = s /\ k = l THEN v ELSE reg[t][q][k]
      BY <3>1, <3>2
    <3> QED
      BY <3>3, <3>4 DEF v, s
  <2>3. \A q \in 0 .. w - 1, k \in Lanes :
           Loaded(t, q, k)' => Loaded(t, q, k) \/ (q = p[t] /\ k = l)
    <3>1. CASE more
      <4>1. pc' = pc /\ p' = p /\ lanes'[t] = lanes[t] \ {l}
        BY <1>1, <3>1 DEF Control, TypeOK
      <4> QED
        BY <4>1 DEF Loaded
    <3>2. CASE ~ more
      <4>1. \A q \in 0 .. w - 1, k \in Lanes : q < p[t] \/ (q = p[t] /\ k # l) => Loaded(t, q, k)
        BY <1>1, <3>2 DEF Loaded
      <4>2. CASE p[t] + 1 < w
        <5>1. after.kind = "load" /\ after.pos = p[t] + 1
          BY <1>5, <4>2 DEF After
        <5> HIDE DEF after
        <5>2. p'[t] = p[t] + 1 /\ pc'[t] = "load" /\ lanes'[t] = Lanes
          BY <1>1, <3>2, <5>1 DEF GoTo, Control, TypeOK
        <5>3. \A q \in 0 .. w - 1, k \in Lanes : Loaded(t, q, k)' => q < p[t] + 1
          BY <5>2 DEF Loaded
        <5> HIDE DEF w
        <5>4. \A q \in 0 .. w - 1 : q < p[t] + 1 => q < p[t] \/ q = p[t]
          BY <1>2
        <5> QED
          BY <4>1, <5>3, <5>4
      <4>3. CASE ~ (p[t] + 1 < w)
        <5> HIDE DEF w
        <5>1. \A q \in 0 .. w - 1 : q < p[t] \/ q = p[t]
          BY <1>2, <4>3
        <5> QED
          BY <4>1, <5>1
      <4> QED
        BY <4>2, <4>3
    <3> QED
      BY <3>1, <3>2
  <2>4. \A q \in 0 .. w - 1, k \in Lanes, h \in must[t] :
           Loaded(t, q, k) /\ Slot(h) = Slot(HashAt(call[t], i[t], q)) =>
             mask_for(h)[k] \subseteq reg[t][q][k]
    BY <1>1, <1>5 DEF ReadInv, ReadThread, RegistersCover
  <2>5. Current(t) = HashAt(call[t], i[t], p[t])
    BY DEF Current
  <2>6. \A q \in 0 .. w - 1, k \in Lanes, h \in must[t] :
           Loaded(t, q, k)' /\ Slot(h) = Slot(HashAt(call[t], i[t], q)) =>
             mask_for(h)[k] \subseteq reg'[t][q][k]
    <3> HIDE DEF w
    <3> QED
      BY <2>1, <2>2, <2>3, <2>4, <2>5
  <2> QED
    BY <1>1, <2>6 DEF RegistersCover, Slot
<1>6. ASSUME Writing(t) PROVE RegistersCover(t)'
  BY <1>3, <1>6 DEF RegistersCover
<1>7. ASSUME NEW u \in Threads, u # t PROVE ReadThread(u)'
  <2>1. UNCHANGED <<pc[u], call[u], i[u], p[u], lanes[u], reg[u], tested[u], must[u]>>
    BY <1>1, <1>7 DEF GoTo, Control, TypeOK
  <2> QED
    BY <1>1, <2>1, ReadKeep DEF ReadInv
<1> QED
  BY <1>4, <1>5, <1>6, <1>7 DEF ReadInv, ReadThread

\* A store is a writer's: it concerns no query.
LEMMA ReadStore ==
  ASSUME Control, ReadInv, NEW t \in Threads, NEW l \in Lanes, StoreLane(t, l)
  PROVE  ReadInv'
<1>1. /\ pc[t] = "store"
      /\ UNCHANGED <<call, tested, done, must>>
  BY DEF StoreLane
<1>2. Writing(t)'
  BY <1>1 DEF Control, ControlInv, ThreadControl, Writing
<1>3. ReadThread(t)'
  BY <1>1, <1>2 DEF ReadInv, ReadThread, RegistersCover, AnswersComplete
<1>4. ASSUME NEW u \in Threads, u # t PROVE ReadThread(u)'
  <2>1. UNCHANGED <<pc[u], i[u], p[u], lanes[u], reg[u]>>
    BY <1>4 DEF StoreLane, NextIteration, LoopTo, GoTo, Control, TypeOK
  <2> QED
    BY <1>1, <2>1, ReadKeep DEF ReadInv
<1> QED
  BY <1>3, <1>4 DEF ReadInv

\* The answers of an iteration follow those of the iterations before it.
LEMMA TestAppends ==
  ASSUME Control, ReadInv, NEW t \in Threads, Test(t)
  PROVE  LET w == Width(call[t], i[t])
             r == [n \in 1 .. w |->
                     Covers(reg[t][n - 1], mask_for(HashAt(call[t], i[t], n - 1)))]
         IN  /\ Len(tested'[t]) = i[t] + w
             /\ \A n \in 1 .. i[t] + w :
                  tested'[t][n] = IF n <= i[t] THEN tested[t][n] ELSE r[n - i[t]]
<1> DEFINE w == Width(call[t], i[t])
           r == [n \in 1 .. w |->
                   Covers(reg[t][n - 1], mask_for(HashAt(call[t], i[t], n - 1)))]
<1>1. Len(tested[t]) = i[t] /\ w \in Nat
  <2>1. /\ ~ Writing(t) /\ i[t] \in Nat /\ i[t] < Len(call[t].items)
        /\ call[t] \in Calls
    BY DEF Test, Control, ControlInv, ThreadControl, TypeOK
  <2> QED
    BY <2>1, WidthFacts, CallAssumption DEF ReadInv, ReadThread, AnswersComplete
<1>2. tested[t] \in Seq(BOOLEAN) /\ tested'[t] = tested[t] \o r
  BY DEF Test, Control, TypeOK
<1>3. r \in Seq(BOOLEAN) /\ Len(r) = w
  <2>1. \A n \in 1 .. w : r[n] \in BOOLEAN
    BY DEF Covers
  <2> HIDE DEF w
  <2> QED
    BY <1>1, <2>1
<1> HIDE DEF r, w
<1>4. /\ Len(tested[t] \o r) = Len(tested[t]) + Len(r)
      /\ \A n \in 1 .. Len(tested[t]) + Len(r) :
           (tested[t] \o r)[n] = IF n <= Len(tested[t]) THEN tested[t][n] ELSE r[n - Len(tested[t])]
  BY <1>2, <1>3, ConcatProperties
<1>5. /\ Len(tested'[t]) = i[t] + w
      /\ \A n \in 1 .. i[t] + w :
           tested'[t][n] = IF n <= i[t] THEN tested[t][n] ELSE r[n - i[t]]
  BY <1>1, <1>2, <1>3, <1>4
<1> QED
  BY <1>5 DEF r, w

\* The tests of an iteration answer for each of its hashes; the next one
\* starts with nothing loaded.
LEMMA ReadTest ==
  ASSUME Control, MemoryInv, ReadInv, NEW t \in Threads, Test(t)
  PROVE  ReadInv'
<1> DEFINE w == Width(call[t], i[t])
           r == [n \in 1 .. w |->
                   Covers(reg[t][n - 1], mask_for(HashAt(call[t], i[t], n - 1)))]
<1>1. /\ pc[t] = "test"
      /\ tested' = [tested EXCEPT ![t] = @ \o r]
      /\ NextIteration(t)
      /\ UNCHANGED <<mem, pending, lock, call, p, begun, done, must>>
  BY DEF Test
<1>2. /\ ~ Writing(t) /\ p[t] = 0 /\ i[t] \in Nat /\ i[t] < Len(call[t].items)
      /\ call[t] \in Calls
  BY <1>1 DEF Control, ControlInv, ThreadControl, TypeOK
<1>3. w \in Nat /\ i[t] + w <= Len(call[t].items) /\ Len(call[t].items) \in Nat
  BY <1>2, WidthFacts, CallFacts, CallAssumption
<1>4. /\ i'[t] = i[t] + w
      /\ pc'[t] \in {"load", "ret"}
      /\ pc'[t] = "load" => lanes'[t] = Lanes
  BY <1>1, IterationEnds DEF Control, TypeOK
<1>5. RegistersCover(t)'
  <2>1. p'[t] = 0
    BY <1>1, <1>2
  <2> QED
    BY <1>4, <2>1 DEF RegistersCover, Loaded
<1>6. must[t] \in SUBSET Hash
  BY DEF Control, TypeOK
<1>7. \A n \in 1 .. w : Reports(NBlocks, must[t], HashesOf(call[t])[i[t] + n]) => r[n]
  <2> SUFFICES ASSUME NEW n \in 1 .. w, Reports(NBlocks, must[t], HashesOf(call[t])[i[t] + n])
               PROVE  r[n]
    OBVIOUS
  <2> DEFINE x == HashAt(call[t], i[t], n - 1)
  <2>1. n - 1 \in 0 .. w - 1 /\ n - 1 \in Nat /\ i[t] + (n - 1) < Len(call[t].items)
        /\ i[t] + (n - 1) + 1 = i[t] + n
    <3> HIDE DEF w
    <3> QED
      BY <1>2, <1>3
  <2>2. x = HashesOf(call[t])[i[t] + n] /\ x \in Hash
    BY <1>2, <2>1, HashAtFacts
  <2>3. \A h \in must[t], l \in Lanes : Slot(h) = Slot(x) => mask_for(h)[l] \subseteq reg[t][n - 1][l]
    BY <1>1, <1>2, <2>1 DEF ReadInv, ReadThread, RegistersCover, Loaded
  <2> HIDE DEF x
  <2>4. Covers(reg[t][n - 1], mask_for(x))
    BY <1>6, <2>2, <2>3, ReportsCovered
  <2> QED
    BY <2>4 DEF x
<1>8. AnswersComplete(t)'
  <2>1. Len(tested[t]) = i[t] /\ \A n \in 1 .. i[t] :
          Reports(NBlocks, must[t], HashesOf(call[t])[n]) => tested[t][n]
    BY <1>2 DEF ReadInv, ReadThread, AnswersComplete
  <2>2. /\ Len(tested'[t]) = i[t] + w
        /\ \A n \in 1 .. i[t] + w :
             tested'[t][n] = IF n <= i[t] THEN tested[t][n] ELSE r[n - i[t]]
    BY TestAppends
  <2> HIDE DEF r, w
  <2>3. ASSUME NEW n \in 1 .. i[t] + w, Reports(NBlocks, must[t], HashesOf(call[t])[n])
        PROVE  tested'[t][n]
    <3>1. CASE n <= i[t]
      BY <2>1, <2>2, <2>3, <3>1, <1>2
    <3>2. CASE ~ (n <= i[t])
      <4>1. PICK m \in 1 .. w : n = i[t] + m
        <5>1. n - i[t] \in 1 .. w /\ n = i[t] + (n - i[t])
          BY <1>2, <1>3, <3>2
        <5> QED
          BY <5>1
      <4>2. r[m]
        BY <1>7, <2>3, <4>1
      <4>3. n - i[t] = m
        BY <1>2, <1>3, <4>1
      <4> QED
        BY <2>2, <3>2, <4>2, <4>3
    <3> QED
      BY <3>1, <3>2
  <2>4. i'[t] = i[t] + w /\ call' = call /\ must' = must
    BY <1>1, <1>4
  <2> QED
    BY <2>2, <2>3, <2>4 DEF AnswersComplete
<1>9. ReadThread(t)'
  BY <1>1, <1>5, <1>8 DEF ReadInv, ReadThread
<1>10. ASSUME NEW u \in Threads, u # t PROVE ReadThread(u)'
  <2>1. UNCHANGED <<pc[u], call[u], i[u], p[u], lanes[u], reg[u], tested[u], must[u]>>
    BY <1>1, <1>10 DEF NextIteration, LoopTo, GoTo, Control, TypeOK
  <2> QED
    BY <1>1, <2>1, ReadKeep DEF ReadInv
<1> QED
  BY <1>9, <1>10 DEF ReadInv

\* A thread that returned asks nothing.
LEMMA ReadReturn ==
  ASSUME Control, ReadInv, NEW t \in Threads, Return(t)
  PROVE  ReadInv'
<1>1. /\ done \subseteq done'
      /\ call' = [call EXCEPT ![t] = NoCall]
      /\ i' = [i EXCEPT ![t] = 0]
      /\ tested' = [tested EXCEPT ![t] = <<>>]
      /\ must' = [must EXCEPT ![t] = {}]
      /\ GoTo(t, "idle")
      /\ UNCHANGED <<p, reg>>
  BY DEF Return
<1>2. ReadThread(t)'
  <2>1. pc'[t] = "idle" /\ i'[t] = 0 /\ tested'[t] = <<>> /\ must'[t] = {}
    BY <1>1 DEF GoTo, Control, TypeOK
  <2>2. RegistersCover(t)'
    BY <2>1 DEF RegistersCover
  <2> QED
    BY <2>1, <2>2 DEF ReadThread, AnswersComplete
<1>3. ASSUME NEW u \in Threads, u # t PROVE ReadThread(u)'
  <2>1. UNCHANGED <<pc[u], call[u], i[u], p[u], lanes[u], reg[u], tested[u], must[u]>>
    BY <1>1, <1>3 DEF GoTo, Control, TypeOK
  <2> QED
    BY <1>1, <2>1, ReadKeep DEF ReadInv
<1> QED
  BY <1>2, <1>3 DEF ReadInv

\* A drained store, or a step of something else, changes nothing a query
\* keeps.
LEMMA ReadQuiet ==
  ASSUME ReadInv,
         \/ UNCHANGED vars
         \/ \E t \in Threads, b \in Blocks, l \in Lanes : Drain(t, b, l)
  PROVE  ReadInv'
<1>1. UNCHANGED <<pc, call, i, p, lanes, reg, tested, must, done>>
  BY DEF vars, Drain
<1> QED
  BY <1>1, ReadKeep DEF ReadInv

\* What is known of the queries is inductive.
LEMMA ReadNext ==
  Control /\ MemoryInv /\ ReadInv /\ [Next]_vars => ReadInv'
<1> SUFFICES ASSUME Control, MemoryInv, ReadInv, Next PROVE ReadInv'
  BY ReadQuiet
<1>1. ASSUME NEW t \in Threads, Begin(t) PROVE ReadInv'
  BY <1>1, ReadBegin DEF Begin
<1>2. ASSUME NEW t \in Threads, Step(t) PROVE ReadInv'
  BY <1>2, ReadLoad, ReadStore, ReadTest, ReadReturn DEF Step
<1>3. ASSUME NEW t \in Threads, NEW b \in Blocks, NEW l \in Lanes, Drain(t, b, l)
      PROVE  ReadInv'
  BY <1>3, ReadQuiet
<1> QED
  BY <1>1, <1>2, <1>3 DEF Next

\* What is known of the queries always holds, with what MemoryInv says.
THEOREM ReadAlways ==
  Spec => [](Control /\ MemoryInv /\ ReadInv)
<1>1. Init => Control /\ MemoryInv /\ ReadInv
  BY ControlInit, MemoryInit, ReadInit
<1>2. Control /\ MemoryInv /\ ReadInv /\ [Next]_vars => (Control /\ MemoryInv /\ ReadInv)'
  BY ControlNext, MemoryNext, ReadNext
<1> QED
  BY <1>1, <1>2, PTL DEF Spec

\* src/quickbloom.h:20-21, for every number of readers and writers: a query
\* reports every hash that the inserts which returned before it began make a
\* filter report, whatever insert is under way while it reads.
THEOREM NeverMissed ==
  Spec => []NoFalseNegative
<1>1. Control /\ ReadInv => NoFalseNegative
  <2> SUFFICES ASSUME Control, ReadInv, NEW t \in Threads, Answered(t),
                      NEW n \in DOMAIN call[t].items,
                      Reports(NBlocks, must[t], HashesOf(call[t])[n])
               PROVE  tested[t][n]
    BY DEF NoFalseNegative
  <2>1. call[t] \in Calls /\ i[t] = Len(call[t].items)
    BY DEF Answered, Control, ControlInv, ThreadControl
  <2>2. n \in 1 .. i[t]
    BY <2>1, CallFacts
  <2>3. ~ Writing(t)
    BY <2>1, WritingFacts DEF Answered, Writing
  <2> QED
    BY <2>2, <2>3 DEF ReadInv, ReadThread, AnswersComplete
<1> QED
  BY <1>1, ReadAlways, PTL

---------------------------------------------------------------------------
(*************************************************************************)
(* Why no bit of a QuickBloom filter comes from nowhere, for every       *)
(* instance: memory, store buffers and registers stay within the image   *)
(* of the inserts begun so far.  So a positive is accounted for; and     *)
(* with MemoryInv, which bounds memory from below, a filter that nobody  *)
(* writes is the image of its inserts, bit for bit.  The bounds from     *)
(* below and from above together are what FilterPromise allows: the last *)
(* part maps every step to one of its steps or to a stutter.             *)
(*************************************************************************)
Image(S, b, l) == BlockImage(NBlocks, S, b)[l]

\* The inserts begun are those that returned and those under way.
BegunInv ==
  /\ done \subseteq begun
  /\ \A t \in Threads : Writing(t) => HashSetOf(call[t]) \subseteq begun
  /\ \A h \in begun : h \in done \/ \E t \in Threads : Writing(t) /\ h \in HashSetOf(call[t])

MemoryBound ==
  \A b \in Blocks, l \in Lanes :
    /\ mem[b][l] \subseteq Image(begun, b, l)
    /\ \A t \in Threads : UNION pending[t][b][l] \subseteq Image(begun, b, l)

RegistersBound(t) ==
  /\ pc[t] \in {"idle", "ret"} =>
       \A q \in 0 .. Unroll - 1, l \in Lanes : reg[t][q][l] = {}
  /\ pc[t] \in {"load", "store", "test"} =>
       \A q \in 0 .. Width(call[t], i[t]) - 1, l \in Lanes :
         reg[t][q][l] \subseteq Image(begun, Slot(HashAt(call[t], i[t], q)), l)

AnswersSound(t) ==
  ~ Writing(t) =>
    \A n \in 1 .. i[t] : tested[t][n] => Reports(NBlocks, begun, HashesOf(call[t])[n])

BoundThread(t) == RegistersBound(t) /\ AnswersSound(t)

ImageInv == BegunInv /\ MemoryBound /\ \A t \in Threads : BoundThread(t)

\* More inserts make a larger image, and a filter that reports more.
LEMMA ImageGrows ==
  ASSUME NEW S, NEW T, S \subseteq T
  PROVE  /\ \A b, l : l \in Lanes => Image(S, b, l) \subseteq Image(T, b, l)
         /\ \A x : Reports(NBlocks, S, x) => Reports(NBlocks, T, x)
<1>1. ASSUME NEW b, NEW l \in Lanes
      PROVE  BlockImage(NBlocks, S, b)[l] \subseteq BlockImage(NBlocks, T, b)[l]
  BY DEF BlockImage
<1>2. ASSUME NEW x, Reports(NBlocks, S, x)
      PROVE  Reports(NBlocks, T, x)
  BY <1>1, <1>2 DEF Reports, Covers
<1> QED
  BY <1>1, <1>2 DEF Image

\* The mask of an inserted hash is part of the image of its block.
LEMMA ImageHolds ==
  ASSUME NEW S \in SUBSET Hash, NEW h \in S, NEW l \in Lanes
  PROVE  mask_for(h)[l] \subseteq Image(S, Slot(h), l)
BY FilterFacts DEF Image, BlockImage

\* Every bit of an image comes from an inserted hash.
LEMMA ImageFrom ==
  ASSUME NEW S \in SUBSET Hash, NEW b \in Blocks, NEW l \in Lanes, NEW W,
         \A h \in S : Slot(h) = b => mask_for(h)[l] \subseteq W
  PROVE  Image(S, b, l) \subseteq W
<1>1. \A h \in {y \in S : Fastrange(NBlocks, y) = b} : Slot(h) = b /\ h \in S
  BY FilterFacts
<1> QED
  BY <1>1 DEF Image, BlockImage

\* A test that passes on part of an image is an answer the image gives.
LEMMA CoveredReports ==
  ASSUME NEW S, NEW x \in Hash, NEW block,
         \A l \in Lanes : block[l] \subseteq Image(S, Slot(x), l),
         Covers(block, mask_for(x))
  PROVE  Reports(NBlocks, S, x)
BY FilterFacts DEF Reports, Covers, Image

\* A step that leaves a thread alone keeps the bounds on it.
LEMMA BoundKeep ==
  ASSUME NEW u \in Threads, BoundThread(u), begun \subseteq begun',
         UNCHANGED <<pc[u], call[u], i[u], reg[u], tested[u]>>
  PROVE  BoundThread(u)'
<1>1. Writing(u)' = Writing(u)
  BY DEF Writing
<1>2. /\ \A b, l : l \in Lanes => Image(begun, b, l) \subseteq Image(begun', b, l)
      /\ \A x : Reports(NBlocks, begun, x) => Reports(NBlocks, begun', x)
  BY ImageGrows
<1>3. RegistersBound(u)'
  <2>1. RegistersBound(u)
    BY DEF BoundThread
  <2> QED
    BY <1>2, <2>1 DEF RegistersBound, Slot, Image
<1>4. AnswersSound(u)'
  BY <1>1, <1>2 DEF BoundThread, AnswersSound
<1> QED
  BY <1>3, <1>4 DEF BoundThread

\* A step that leaves memory and buffers alone keeps the bounds on them.
LEMMA MemoryBoundKeep ==
  ASSUME MemoryBound, begun \subseteq begun', UNCHANGED <<mem, pending>>
  PROVE  MemoryBound'
<1>1. \A b, l : l \in Lanes => Image(begun, b, l) \subseteq Image(begun', b, l)
  BY ImageGrows
<1> QED
  BY <1>1 DEF MemoryBound, Image

\* A step within a call starts and ends no insert.
LEMMA BegunKeep ==
  ASSUME BegunInv, UNCHANGED <<begun, done, call>>
  PROVE  BegunInv'
BY DEF BegunInv, Writing

\* What a thread sees of the filter is within the image.
LEMMA ViewBound ==
  ASSUME MemoryBound, NEW t \in Threads, NEW b \in Blocks, NEW l \in Lanes
  PROVE  View(t, b, l) \subseteq Image(begun, b, l)
BY DEF MemoryBound, View

\* A fresh filter is the image of no insert.
LEMMA ImageInit ==
  Init => ImageInv
<1> SUFFICES ASSUME Init PROVE ImageInv
  OBVIOUS
<1>1. BegunInv
  BY WritingFacts DEF Init, BegunInv, Writing
<1>2. MemoryBound
  BY DEF Init, MemoryBound, NoStores, Clear
<1>3. \A t \in Threads : RegistersBound(t)
  BY DEF Init, RegistersBound, NoRegs, Clear
<1>4. \A t \in Threads : AnswersSound(t)
  BY DEF Init, AnswersSound
<1> QED
  BY <1>1, <1>2, <1>3, <1>4 DEF ImageInv, BoundThread

\* An insert that begins accounts for the bits it will set.
LEMMA ImageBegin ==
  ASSUME Control, ImageInv, NEW t \in Threads, NEW c \in Calls,
         BeginInsert(t, c) \/ BeginContains(t, c)
  PROVE  ImageInv'
<1>1. /\ pc[t] = "idle" /\ i[t] = 0 /\ call[t] = NoCall
      /\ call' = [call EXCEPT ![t] = c]
      /\ pc' = [pc EXCEPT ![t] = IF 0 < Len(c.items) THEN "load" ELSE "ret"]
      /\ UNCHANGED <<mem, pending, i, reg, tested, done>>
  BY DEF BeginInsert, BeginContains, LoopTo, GoTo, Control, ControlInv, ThreadControl
<1>2. begun \subseteq begun'
  BY DEF BeginInsert, BeginContains
<1>3. MemoryBound'
  BY <1>1, <1>2, MemoryBoundKeep DEF ImageInv
<1>4. BegunInv'
  <2>1. ~ Writing(t)
    BY <1>1, WritingFacts DEF Writing
  <2>2. \A u \in Threads \ {t} : Writing(u)' = Writing(u) /\ call'[u] = call[u]
    BY <1>1 DEF Writing, Control, TypeOK
  <2>3. call'[t] = c
    BY <1>1 DEF Control, TypeOK
  <2>4. CASE BeginInsert(t, c)
    <3>1. begun' = begun \cup HashSetOf(c) /\ Writing(t)'
      BY <2>3, <2>4 DEF BeginInsert, Writing
    <3> QED
      BY <1>1, <2>1, <2>2, <2>3, <3>1 DEF ImageInv, BegunInv
  <2>5. CASE BeginContains(t, c)
    <3>1. begun' = begun /\ ~ Writing(t)'
      BY <2>3, <2>5, WritingFacts DEF BeginContains, Writing
    <3> QED
      BY <1>1, <2>1, <2>2, <3>1 DEF ImageInv, BegunInv
  <2> QED
    BY <2>4, <2>5
<1>5. BoundThread(t)'
  <2>1. pc'[t] \in {"load", "ret"} /\ i'[t] = 0 /\ call'[t] = c
    BY <1>1 DEF Control, TypeOK
  <2>2. \A q \in 0 .. Unroll - 1, l \in Lanes : reg'[t][q][l] = {}
    BY <1>1 DEF ImageInv, BoundThread, RegistersBound
  <2>3. pc'[t] = "load" => Width(c, 0) \in 1 .. Unroll
    <3>1. pc'[t] = "load" => 0 < Len(c.items)
      BY <1>1 DEF Control, TypeOK
    <3> QED
      BY <3>1, WidthFacts
  <2>4. pc'[t] = "load" => \A q \in 0 .. Width(c, 0) - 1 : q \in 0 .. Unroll - 1
    BY <2>3, CallAssumption
  <2>5. RegistersBound(t)'
    BY <2>1, <2>2, <2>4 DEF RegistersBound
  <2>6. AnswersSound(t)'
    BY <2>1 DEF AnswersSound
  <2> QED
    BY <2>5, <2>6 DEF BoundThread
<1>6. ASSUME NEW u \in Threads, u # t PROVE BoundThread(u)'
  <2>1. UNCHANGED <<pc[u], call[u], i[u], reg[u], tested[u]>>
    BY <1>1, <1>6 DEF Control, TypeOK
  <2> QED
    BY <1>2, <2>1, BoundKeep DEF ImageInv
<1> QED
  BY <1>3, <1>4, <1>5, <1>6 DEF ImageInv

\* A load brings only bits of the image into a register.
LEMMA ImageLoad ==
  ASSUME Control, ImageInv, NEW t \in Threads, NEW l \in Lanes, LoadLane(t, l)
  PROVE  ImageInv'
<1> DEFINE w == Width(call[t], i[t])
           after == After("load", Writing(t), p[t], w)
           more == lanes[t] # {l}
<1>1. /\ pc[t] = "load"
      /\ reg' = [reg EXCEPT ![t][p[t]][l] = View(t, Address(t), l)]
      /\ ~ more => GoTo(t, after.kind)
      /\ more => UNCHANGED pc
      /\ UNCHANGED <<mem, pending, call, i, tested, begun, done>>
  BY DEF LoadLane
<1>2. /\ w \in 1 .. Unroll /\ p[t] \in 0 .. Unroll - 1 /\ Unroll \in Nat
      /\ Address(t) = Slot(Current(t)) /\ Address(t) \in Blocks
  BY <1>1, AccessFacts, CallAssumption DEF Control, TypeOK
<1>3. BegunInv' /\ MemoryBound'
  BY <1>1, BegunKeep, MemoryBoundKeep DEF ImageInv
<1>4. AnswersSound(t)'
  BY <1>1 DEF ImageInv, BoundThread, AnswersSound, Writing
<1>5. pc'[t] \in {"load", "store", "test"}
  <2>1. after.kind \in {"load", "store", "test"}
    <3> HIDE DEF w
    <3> QED
      BY DEF After
  <2> HIDE DEF after
  <2> QED
    BY <1>1, <2>1 DEF GoTo, Control, TypeOK
<1>6. RegistersBound(t)'
  <2> DEFINE v == View(t, Address(t), l)
             s == p[t]
  <2>1. v \subseteq Image(begun, Slot(HashAt(call[t], i[t], s)), l)
    BY <1>2, ViewBound DEF ImageInv, Current
  <2>2. reg \in [Threads -> [0 .. Unroll - 1 -> [Lanes -> Word]]]
    BY DEF Control, TypeOK
  <2>3. reg' = [reg EXCEPT ![t][s][l] = v] /\ s \in 0 .. Unroll - 1
    BY <1>1, <1>2
  <2>4. \A q \in 0 .. w - 1 : q \in 0 .. Unroll - 1
    BY <1>2
  <2>5. \A q \in 0 .. w - 1, k \in Lanes :
           reg[t][q][k] \subseteq Image(begun, Slot(HashAt(call[t], i[t], q)), k)
    BY <1>1 DEF ImageInv, BoundThread, RegistersBound
  <2> HIDE DEF s, v, w
  <2>6. \A q \in 0 .. Unroll - 1, k \in Lanes :
           reg'[t][q][k] = IF q = s /\ k = l THEN v ELSE reg[t][q][k]
    BY <2>2, <2>3
  <2>7. \A q \in 0 .. w - 1, k \in Lanes :
           reg'[t][q][k] \subseteq Image(begun, Slot(HashAt(call[t], i[t], q)), k)
    BY <2>1, <2>4, <2>5, <2>6
  <2> QED
    BY <1>1, <1>5, <2>7 DEF RegistersBound, Slot, Image, w
<1>7. ASSUME NEW u \in Threads, u # t PROVE BoundThread(u)'
  <2>1. UNCHANGED <<pc[u], call[u], i[u], reg[u], tested[u]>>
    BY <1>1, <1>7 DEF GoTo, Control, TypeOK
  <2> QED
    BY <1>1, <2>1, BoundKeep DEF ImageInv
<1> QED
  BY <1>3, <1>4, <1>6, <1>7 DEF ImageInv, BoundThread

\* Registers are clear between iterations.
LEMMA BoundNextIteration ==
  ASSUME Control, NEW t \in Threads, pc[t] \in {"store", "test"}, NextIteration(t),
         UNCHANGED call
  PROVE  RegistersBound(t)'
<1>1. reg'[t] = NoRegs
  BY IterationEnds DEF Control, TypeOK
<1>2. \A q \in 0 .. Unroll - 1, l \in Lanes : reg'[t][q][l] = {}
  BY <1>1 DEF NoRegs, Clear
<1>3. pc'[t] = IF i'[t] < Len(call[t].items) THEN "load" ELSE "ret"
  BY IterationEnds DEF Control, TypeOK
<1>4. call[t] \in Calls /\ i'[t] \in Nat
  BY IterationEnds DEF Control, ControlInv, ThreadControl
<1>5. pc'[t] = "load" => Width(call[t], i'[t]) \in 1 .. Unroll
  BY <1>3, <1>4, WidthFacts
<1>6. pc'[t] = "load" => \A q \in 0 .. Width(call[t], i'[t]) - 1 : q \in 0 .. Unroll - 1
  BY <1>5, CallAssumption
<1> QED
  BY <1>2, <1>3, <1>6 DEF RegistersBound

\* A store buffers only bits of the image: those loaded, and those of the
\* insert under way.
LEMMA ImageStore ==
  ASSUME Control, ImageInv, NEW t \in Threads, NEW l \in Lanes, StoreLane(t, l)
  PROVE  ImageInv'
<1> DEFINE w == Width(call[t], i[t])
           after == After("store", TRUE, p[t], w)
           word == reg[t][p[t]][l] \cup mask_for(Current(t))[l]
<1>1. /\ pc[t] = "store"
      /\ pending' = [pending EXCEPT ![t][Address(t)][l] = {word}]
      /\ \/ GoTo(t, after.kind) /\ after.kind = "load" /\ UNCHANGED <<i, reg>>
         \/ NextIteration(t)
         \/ UNCHANGED <<pc, i, reg>>
      /\ UNCHANGED <<mem, call, tested, begun, done>>
  BY DEF StoreLane, After
<1>2. /\ w \in 1 .. Unroll /\ p[t] \in 0 .. w - 1
      /\ Address(t) = Slot(Current(t)) /\ Address(t) \in Blocks
      /\ Current(t) = HashAt(call[t], i[t], p[t])
      /\ Current(t) = HashesOf(call[t])[i[t] + p[t] + 1]
      /\ i[t] + p[t] + 1 \in DOMAIN call[t].items
      /\ call[t] \in Calls /\ Writing(t)
  <2>1. i[t] \in Nat /\ p[t] \in Nat /\ p[t] < w /\ Writing(t)
    BY <1>1 DEF Control, ControlInv, ThreadControl, TypeOK
  <2>2. call[t] \in Calls /\ i[t] + p[t] < Len(call[t].items)
    BY <1>1, AccessFacts
  <2>3. i[t] + p[t] + 1 \in DOMAIN call[t].items
    BY <2>1, <2>2, CallFacts
  <2>4. w \in 1 .. Unroll /\ Unroll \in Nat
    BY <1>1, AccessFacts, CallAssumption
  <2>5. p[t] \in 0 .. w - 1
    <3> HIDE DEF w
    <3> QED
      BY <2>1, <2>4
  <2> QED
    BY <1>1, <2>1, <2>2, <2>3, <2>4, <2>5, AccessFacts DEF Current
<1>3. BegunInv'
  BY <1>1, BegunKeep DEF ImageInv
<1>4. word \subseteq Image(begun, Address(t), l)
  <2>1. Current(t) \in begun /\ begun \in SUBSET Hash
    BY <1>2 DEF ImageInv, BegunInv, HashSetOf, Control, TypeOK
  <2>2. mask_for(Current(t))[l] \subseteq Image(begun, Address(t), l)
    BY <1>2, <2>1, ImageHolds
  <2>3. \A q \in 0 .. w - 1, k \in Lanes :
           reg[t][q][k] \subseteq Image(begun, Slot(HashAt(call[t], i[t], q)), k)
    BY <1>1 DEF ImageInv, BoundThread, RegistersBound
  <2>4. reg[t][p[t]][l] \subseteq Image(begun, Address(t), l)
    <3> HIDE DEF w
    <3> QED
      BY <1>2, <2>3
  <2> QED
    BY <2>2, <2>4
<1>5. MemoryBound'
  <2>1. UNION {word} = word
    OBVIOUS
  <2> HIDE DEF word
  <2>2. \A u \in Threads, x \in Blocks, k \in Lanes :
           pending'[u][x][k] = IF u = t /\ x = Address(t) /\ k = l THEN {word}
                               ELSE pending[u][x][k]
    BY <1>1, <1>2 DEF Control, TypeOK
  <2>3. \A u \in Threads, x \in Blocks, k \in Lanes :
           UNION pending'[u][x][k] \subseteq Image(begun, x, k)
    <3> TAKE u \in Threads, x \in Blocks, k \in Lanes
    <3>1. CASE u = t /\ x = Address(t) /\ k = l
      BY <1>4, <2>1, <2>2, <3>1
    <3>2. CASE ~ (u = t /\ x = Address(t) /\ k = l)
      BY <2>2, <3>2 DEF ImageInv, MemoryBound
    <3> QED
      BY <3>1, <3>2
  <2> QED
    BY <1>1, <2>3 DEF ImageInv, MemoryBound, Image
<1>6. BoundThread(t)'
  <2>1. AnswersSound(t)'
    BY <1>1, <1>2 DEF AnswersSound, Writing
  <2>2. CASE NextIteration(t)
    BY <1>1, <2>1, <2>2, BoundNextIteration DEF BoundThread
  <2>3. CASE ~ NextIteration(t)
    <3>1. pc'[t] \in {"load", "store"} /\ i' = i /\ reg' = reg
      BY <1>1, <2>3 DEF GoTo, Control, TypeOK
    <3>2. \A q \in 0 .. w - 1, k \in Lanes :
             reg[t][q][k] \subseteq Image(begun, Slot(HashAt(call[t], i[t], q)), k)
      BY <1>1 DEF ImageInv, BoundThread, RegistersBound
    <3>3. RegistersBound(t)'
      BY <1>1, <3>1, <3>2 DEF RegistersBound, Slot, Image
    <3> QED
      BY <2>1, <3>3 DEF BoundThread
  <2> QED
    BY <2>2, <2>3
<1>7. ASSUME NEW u \in Threads, u # t PROVE BoundThread(u)'
  <2>1. UNCHANGED <<pc[u], call[u], i[u], reg[u], tested[u]>>
    BY <1>1, <1>7 DEF NextIteration, LoopTo, GoTo, Control, TypeOK
  <2> QED
    BY <1>1, <2>1, BoundKeep DEF ImageInv
<1> QED
  BY <1>3, <1>5, <1>6, <1>7 DEF ImageInv

\* A test that passes is accounted for by the image.
LEMMA ImageTest ==
  ASSUME Control, ReadInv, ImageInv, NEW t \in Threads, Test(t)
  PROVE  ImageInv'
<1> DEFINE w == Width(call[t], i[t])
           r == [n \in 1 .. w |->
                   Covers(reg[t][n - 1], mask_for(HashAt(call[t], i[t], n - 1)))]
<1>1. /\ pc[t] = "test"
      /\ tested' = [tested EXCEPT ![t] = @ \o r]
      /\ NextIteration(t)
      /\ UNCHANGED <<mem, pending, call, begun, done>>
  BY DEF Test
<1>2. /\ ~ Writing(t) /\ i[t] \in Nat /\ call[t] \in Calls
      /\ w \in Nat /\ i[t] + w <= Len(call[t].items) /\ Len(call[t].items) \in Nat
  <2>1. ~ Writing(t) /\ i[t] \in Nat /\ call[t] \in Calls /\ i[t] < Len(call[t].items)
    BY <1>1 DEF Control, ControlInv, ThreadControl, TypeOK
  <2> QED
    BY <2>1, WidthFacts, CallFacts, CallAssumption
<1>3. BegunInv' /\ MemoryBound'
  BY <1>1, BegunKeep, MemoryBoundKeep DEF ImageInv
<1>4. RegistersBound(t)'
  BY <1>1, BoundNextIteration
<1>5. \A n \in 1 .. w : r[n] => Reports(NBlocks, begun, HashesOf(call[t])[i[t] + n])
  <2> SUFFICES ASSUME NEW n \in 1 .. w, r[n]
               PROVE  Reports(NBlocks, begun, HashesOf(call[t])[i[t] + n])
    OBVIOUS
  <2> DEFINE x == HashAt(call[t], i[t], n - 1)
  <2>1. n - 1 \in 0 .. w - 1 /\ n - 1 \in Nat /\ i[t] + (n - 1) < Len(call[t].items)
        /\ i[t] + (n - 1) + 1 = i[t] + n
    <3> HIDE DEF w
    <3> QED
      BY <1>2
  <2>2. x = HashesOf(call[t])[i[t] + n] /\ x \in Hash
    BY <1>2, <2>1, HashAtFacts
  <2>3. \A l \in Lanes : reg[t][n - 1][l] \subseteq Image(begun, Slot(x), l)
    BY <1>1, <2>1 DEF ImageInv, BoundThread, RegistersBound
  <2>4. Covers(reg[t][n - 1], mask_for(x))
    OBVIOUS
  <2> HIDE DEF x
  <2> QED
    BY <2>2, <2>3, <2>4, CoveredReports
<1>6. AnswersSound(t)'
  <2>1. Len(tested[t]) = i[t]
    BY <1>2 DEF ReadInv, ReadThread, AnswersComplete
  <2>2. \A n \in 1 .. i[t] : tested[t][n] => Reports(NBlocks, begun, HashesOf(call[t])[n])
    BY <1>2 DEF ImageInv, BoundThread, AnswersSound
  <2>3. \A n \in 1 .. i[t] + w :
           tested'[t][n] = IF n <= i[t] THEN tested[t][n] ELSE r[n - i[t]]
    BY <1>1, TestAppends
  <2>4. ASSUME NEW n \in 1 .. i[t] + w, tested'[t][n]
        PROVE  Reports(NBlocks, begun, HashesOf(call[t])[n])
    <3> HIDE DEF r, w
    <3>1. CASE n <= i[t]
      BY <1>2, <2>2, <2>3, <2>4, <3>1
    <3>2. CASE ~ (n <= i[t])
      <4>1. n - i[t] \in 1 .. w /\ n = i[t] + (n - i[t])
        BY <1>2, <3>2
      <4>2. r[n - i[t]]
        BY <2>3, <2>4, <3>2
      <4> QED
        BY <1>5, <4>1, <4>2
    <3> QED
      BY <3>1, <3>2
  <2>5. i'[t] = i[t] + w
    BY <1>1, IterationEnds
  <2> QED
    BY <1>1, <2>4, <2>5 DEF AnswersSound
<1>7. ASSUME NEW u \in Threads, u # t PROVE BoundThread(u)'
  <2>1. UNCHANGED <<pc[u], call[u], i[u], reg[u], tested[u]>>
    BY <1>1, <1>7 DEF NextIteration, LoopTo, GoTo, Control, TypeOK
  <2> QED
    BY <1>1, <2>1, BoundKeep DEF ImageInv
<1> QED
  BY <1>3, <1>4, <1>6, <1>7 DEF ImageInv, BoundThread

\* An insert that returns is accounted for as done.
LEMMA ImageReturn ==
  ASSUME Control, ImageInv, NEW t \in Threads, Return(t)
  PROVE  ImageInv'
<1>1. /\ pc[t] = "ret"
      /\ call' = [call EXCEPT ![t] = NoCall]
      /\ i' = [i EXCEPT ![t] = 0]
      /\ tested' = [tested EXCEPT ![t] = <<>>]
      /\ pc' = [pc EXCEPT ![t] = "idle"]
      /\ UNCHANGED <<mem, pending, reg, begun>>
  BY DEF Return, GoTo
<1>2. MemoryBound'
  BY <1>1, MemoryBoundKeep DEF ImageInv
<1>3. BegunInv'
  <2>1. ~ Writing(t)'
    BY <1>1, WritingFacts DEF Writing, Control, TypeOK
  <2>2. \A u \in Threads \ {t} : Writing(u)' = Writing(u) /\ call'[u] = call[u]
    BY <1>1 DEF Writing, Control, TypeOK
  <2>3. done' = IF Writing(t) THEN done \cup HashSetOf(call[t]) ELSE done
    BY DEF Return
  <2> QED
    BY <1>1, <2>1, <2>2, <2>3 DEF ImageInv, BegunInv
<1>4. BoundThread(t)'
  <2>1. pc'[t] = "idle" /\ i'[t] = 0
    BY <1>1 DEF Control, TypeOK
  <2>2. \A q \in 0 .. Unroll - 1, l \in Lanes : reg'[t][q][l] = {}
    BY <1>1 DEF ImageInv, BoundThread, RegistersBound
  <2> QED
    BY <2>1, <2>2 DEF BoundThread, RegistersBound, AnswersSound
<1>5. ASSUME NEW u \in Threads, u # t PROVE BoundThread(u)'
  <2>1. UNCHANGED <<pc[u], call[u], i[u], reg[u], tested[u]>>
    BY <1>1, <1>5 DEF Control, TypeOK
  <2> QED
    BY <1>1, <2>1, BoundKeep DEF ImageInv
<1> QED
  BY <1>2, <1>3, <1>4, <1>5 DEF ImageInv

\* A store that reaches memory brings bits of the image there.
LEMMA ImageDrain ==
  ASSUME Control, ImageInv,
         NEW t \in Threads, NEW b \in Blocks, NEW l \in Lanes, Drain(t, b, l)
  PROVE  ImageInv'
<1>1. /\ mem' = [mem EXCEPT ![b][l] = UNION pending[t][b][l]]
      /\ pending' = [pending EXCEPT ![t][b][l] = {}]
      /\ UNCHANGED <<pc, call, i, reg, tested, begun, done>>
  BY DEF Drain
<1>2. MemoryBound'
  <2> DEFINE v == UNION pending[t][b][l]
  <2>1. v \subseteq Image(begun, b, l)
    BY DEF ImageInv, MemoryBound
  <2>2. mem' = [mem EXCEPT ![b][l] = v]
    BY <1>1
  <2> HIDE DEF v
  <2>3. \A x \in Blocks, k \in Lanes :
           mem'[x][k] = IF x = b /\ k = l THEN v ELSE mem[x][k]
    BY <2>2 DEF Control, TypeOK
  <2>4. \A u \in Threads, x \in Blocks, k \in Lanes :
           pending'[u][x][k] = {} \/ pending'[u][x][k] = pending[u][x][k]
    BY <1>1 DEF Control, TypeOK
  <2>5. UNION {} = {}
    OBVIOUS
  <2>6. \A x \in Blocks, k \in Lanes : mem'[x][k] \subseteq Image(begun, x, k)
    BY <2>1, <2>3 DEF ImageInv, MemoryBound
  <2>7. \A u \in Threads, x \in Blocks, k \in Lanes :
           UNION pending'[u][x][k] \subseteq Image(begun, x, k)
    BY <2>4, <2>5 DEF ImageInv, MemoryBound
  <2> QED
    BY <1>1, <2>6, <2>7 DEF MemoryBound, Image
<1>3. BegunInv'
  BY <1>1, BegunKeep DEF ImageInv
<1>4. \A u \in Threads : BoundThread(u)'
  BY <1>1, BoundKeep DEF ImageInv
<1> QED
  BY <1>2, <1>3, <1>4 DEF ImageInv

\* A step of something else keeps the bounds.
LEMMA ImageStutter ==
  ASSUME ImageInv, UNCHANGED vars
  PROVE  ImageInv'
<1>1. BegunInv' /\ MemoryBound'
  BY BegunKeep, MemoryBoundKeep DEF ImageInv, vars
<1>2. \A u \in Threads : BoundThread(u)'
  BY BoundKeep DEF ImageInv, vars
<1> QED
  BY <1>1, <1>2 DEF ImageInv

\* The bounds are inductive.
LEMMA ImageNext ==
  Control /\ ReadInv /\ ImageInv /\ [Next]_vars => ImageInv'
<1> SUFFICES ASSUME Control, ReadInv, ImageInv, Next PROVE ImageInv'
  BY ImageStutter
<1>1. ASSUME NEW t \in Threads, Begin(t) PROVE ImageInv'
  BY <1>1, ImageBegin DEF Begin
<1>2. ASSUME NEW t \in Threads, Step(t) PROVE ImageInv'
  BY <1>2, ImageLoad, ImageStore, ImageTest, ImageReturn DEF Step
<1>3. ASSUME NEW t \in Threads, NEW b \in Blocks, NEW l \in Lanes, Drain(t, b, l)
      PROVE  ImageInv'
  BY <1>3, ImageDrain
<1> QED
  BY <1>1, <1>2, <1>3 DEF Next

\* The bounds always hold, with what ReadInv and MemoryInv say.
THEOREM ImageAlways ==
  Spec => [](Control /\ MemoryInv /\ ReadInv /\ ImageInv)
<1>1. Init => ImageInv
  BY ImageInit
<1>2. Control /\ ReadInv /\ ImageInv /\ [Next]_vars => ImageInv'
  BY ImageNext
<1> QED
  BY <1>1, <1>2, ReadAlways, PTL DEF Spec

\* A positive is accounted for by the inserts begun when it is given, whatever
\* part of an insert the query saw, for every instance.
THEOREM PositivesAccounted ==
  Spec => []PositivesJustified
<1>1. Control /\ ReadInv /\ ImageInv => PositivesJustified
  <2> SUFFICES ASSUME Control, ReadInv, ImageInv, NEW t \in Threads, Answered(t)
               PROVE  /\ DOMAIN tested[t] = DOMAIN call[t].items
                      /\ \A n \in DOMAIN call[t].items :
                           tested[t][n] => Reports(NBlocks, begun, HashesOf(call[t])[n])
    BY DEF PositivesJustified
  <2>1. call[t] \in Calls /\ i[t] = Len(call[t].items)
    BY DEF Answered, Control, ControlInv, ThreadControl
  <2>2. ~ Writing(t)
    BY <2>1, WritingFacts DEF Answered, Writing
  <2>3. DOMAIN call[t].items = 1 .. i[t]
    BY <2>1, CallFacts
  <2>4. tested[t] \in Seq(BOOLEAN) /\ Len(tested[t]) = i[t]
    BY <2>2 DEF ReadInv, ReadThread, AnswersComplete, Control, TypeOK
  <2>5. DOMAIN tested[t] = 1 .. i[t]
    BY <2>4
  <2> QED
    BY <2>2, <2>3, <2>5 DEF ImageInv, BoundThread, AnswersSound
<1> QED
  BY <1>1, ImageAlways, PTL

\* src/quickbloom.h:10-12, for every instance: when nobody writes, the memory
\* is the image of the inserts that returned, no bit more and none less.
THEOREM ImageWhenQuiet ==
  Spec => []QuiescentImage
<1>1. Control /\ MemoryInv /\ ImageInv => QuiescentImage
  <2> SUFFICES ASSUME Control, MemoryInv, ImageInv, lock = NoThread, NEW b \in Blocks
               PROVE  mem[b] = BlockImage(NBlocks, done, b)
    BY DEF QuiescentImage
  <2>1. begun = done
    <3>1. \A t \in Threads : ~ Writing(t)
      BY ThreadAssumption DEF MemoryInv, LockInv
    <3> QED
      BY <3>1 DEF ImageInv, BegunInv
  <2>2. ASSUME NEW l \in Lanes PROVE mem[b][l] = Image(done, b, l)
    <3>1. mem[b][l] \subseteq Image(done, b, l)
      BY <2>1 DEF ImageInv, MemoryBound
    <3>2. \A h \in done : Slot(h) = b => mask_for(h)[l] \subseteq mem[b][l]
      BY DEF MemoryInv, DoneInv
    <3>3. Image(done, b, l) \subseteq mem[b][l]
      BY <3>2, ImageFrom DEF Control, TypeOK
    <3> QED
      BY <3>1, <3>3
  <2>3. mem[b] \in [Lanes -> Word]
    BY DEF Control, TypeOK
  <2>4. BlockImage(NBlocks, done, b) = [l \in Lanes |-> Image(done, b, l)]
    BY DEF BlockImage, Image
  <2> QED
    BY <2>2, <2>3, <2>4
<1> QED
  BY <1>1, ImageAlways, PTL

-----------------------------------------------------------------------------
(***************************************************************************)
(* The filter implements FilterPromise: what the promise sees of a thread, *)
(* and each action as a step of the promise or as none.                    *)
(***************************************************************************)
StageOf(t) ==
  IF call[t].fn \notin Asking THEN "idle" ELSE IF pc[t] = "ret" THEN "answered" ELSE "asked"
QueryOf(t) == IF call[t].fn \in Asking THEN HashesOf(call[t]) ELSE <<>>
AnswerOf(t) == IF Answered(t) THEN tested[t] ELSE <<>>

\* A step the promise does not see.
LEMMA PromiseStutter ==
  ASSUME UNCHANGED <<begun, done, must>>,
         \A u \in Threads : UNCHANGED <<StageOf(u), QueryOf(u), AnswerOf(u)>>
  PROVE  UNCHANGED Promise!vars
BY DEF Promise!vars, StageOf, QueryOf, AnswerOf

\* A step of another thread changes nothing of what is seen of this one.
LEMMA SeenKeep ==
  ASSUME NEW u, UNCHANGED <<pc[u], call[u], tested[u]>>
  PROVE  UNCHANGED <<StageOf(u), QueryOf(u), AnswerOf(u)>>
BY DEF StageOf, QueryOf, AnswerOf, Answered

\* Nor does a step of a thread that inserts, before and after.
LEMMA SeenWriting ==
  ASSUME NEW u, call[u].fn \notin Asking, call'[u].fn \notin Asking
  PROVE  UNCHANGED <<StageOf(u), QueryOf(u), AnswerOf(u)>>
BY DEF StageOf, QueryOf, AnswerOf, Answered

\* Nor does one of a thread that asks and has not been through its items.
LEMMA SeenAsking ==
  ASSUME NEW u, UNCHANGED call[u], pc[u] # "ret", pc'[u] # "ret"
  PROVE  UNCHANGED <<StageOf(u), QueryOf(u), AnswerOf(u)>>
BY DEF StageOf, QueryOf, AnswerOf, Answered

\* No query is under way at first.
LEMMA PromiseInit ==
  Init => Promise!Init
BY DEF Init, Promise!Init, NoCall, Asking, Answered

\* The hashes of a call are those of the abstract insert.
LEMMA HashElements ==
  ASSUME NEW c
  PROVE  Promise!Elements(HashesOf(c)) = HashSetOf(c) /\ DOMAIN HashesOf(c) = DOMAIN c.items
BY DEF Promise!Elements, HashesOf, HashSetOf

LEMMA PromiseBeginInsert ==
  ASSUME Control, NEW t \in Threads, NEW c \in Calls, BeginInsert(t, c)
  PROVE  Promise!BeginInsert
<1>1. /\ pc[t] = "idle" /\ c.fn \in Inserting
      /\ call' = [call EXCEPT ![t] = c]
      /\ begun' = begun \cup HashSetOf(c)
      /\ UNCHANGED <<tested, done, must>>
      /\ LoopTo(t, c, 0)
  BY DEF BeginInsert
<1>2. call[t] = NoCall /\ call'[t] = c
  BY <1>1 DEF Control, ControlInv, ThreadControl, TypeOK
<1>3. call[t].fn \notin Asking /\ call'[t].fn \notin Asking
  BY <1>1, <1>2 DEF NoCall, Asking, Inserting
<1>4. \A u \in Threads \ {t} : pc'[u] = pc[u] /\ call'[u] = call[u]
  BY <1>1 DEF LoopTo, GoTo, Control, TypeOK
<1>5. ASSUME NEW u \in Threads
      PROVE  UNCHANGED <<StageOf(u), QueryOf(u), AnswerOf(u)>>
  <2>1. CASE u = t
    BY <1>3, <2>1, SeenWriting
  <2>2. CASE u # t
    BY <1>1, <1>4, <2>2, SeenKeep
  <2> QED
    BY <2>1, <2>2
<1>6. \E s \in {HashesOf(d) : d \in {x \in Calls : x.fn \in Inserting}} :
        begun' = begun \cup Promise!Elements(s)
  BY <1>1, HashElements
<1> QED
  BY <1>1, <1>5, <1>6 DEF Promise!BeginInsert, StageOf, QueryOf, AnswerOf

LEMMA PromiseBeginContains ==
  ASSUME Control, NEW t \in Threads, NEW c \in Calls, BeginContains(t, c)
  PROVE  Promise!BeginQuery(t)
<1>1. /\ pc[t] = "idle" /\ c.fn \in Asking
      /\ call' = [call EXCEPT ![t] = c]
      /\ must' = [must EXCEPT ![t] = done]
      /\ UNCHANGED <<tested, begun, done>>
      /\ pc' = [pc EXCEPT ![t] = IF 0 < Len(c.items) THEN "load" ELSE "ret"]
  BY DEF BeginContains, LoopTo, GoTo
<1>2. /\ call[t] = NoCall /\ tested[t] = <<>>
      /\ call'[t] = c /\ pc'[t] = IF 0 < Len(c.items) THEN "load" ELSE "ret"
  BY <1>1 DEF Control, ControlInv, ThreadControl, TypeOK
<1>3. ASSUME NEW u \in Threads, u # t
      PROVE  UNCHANGED <<StageOf(u), QueryOf(u), AnswerOf(u)>>
  <2>1. pc'[u] = pc[u] /\ call'[u] = call[u]
    BY <1>1, <1>3 DEF Control, TypeOK
  <2> QED
    BY <1>1, <2>1, SeenKeep
<1>4. HashesOf(c) = <<>> <=> ~ (0 < Len(c.items))
  <2>1. Len(c.items) \in Nat /\ DOMAIN HashesOf(c) = 1 .. Len(c.items)
    BY CallFacts, HashElements
  <2>2. HashesOf(c) \in Seq(Hash) /\ Len(HashesOf(c)) = Len(c.items)
    BY <2>1, CallFacts DEF HashesOf
  <2> QED
    BY <2>1, <2>2
<1>5. /\ StageOf(t) = "idle"
      /\ StageOf(t)' = IF HashesOf(c) = <<>> THEN "answered" ELSE "asked"
      /\ QueryOf(t)' = HashesOf(c)
      /\ AnswerOf(t)' = AnswerOf(t)
  BY <1>1, <1>2, <1>4 DEF StageOf, QueryOf, AnswerOf, Answered, NoCall, Asking
<1>6. HashesOf(c) \in {HashesOf(d) : d \in {x \in Calls : x.fn \in Asking}}
  BY <1>1
<1> QED
  BY <1>1, <1>3, <1>5, <1>6 DEF Promise!BeginQuery, StageOf, QueryOf, AnswerOf

\* Only a query remembers what it must report.
MustInv == \A t \in Threads : call[t].fn \notin Asking => must[t] = {}

LEMMA MustNext ==
  Control /\ MustInv /\ [Next]_vars => MustInv'
<1> SUFFICES ASSUME Control, MustInv, [Next]_vars, NEW u \in Threads,
                    call'[u].fn \notin Asking
             PROVE  must'[u] = {}
  BY DEF MustInv
<1>1. ASSUME UNCHANGED <<call[u], must[u]>> PROVE must'[u] = {}
  BY <1>1 DEF MustInv
<1>2. ASSUME NEW t \in Threads, NEW c \in Calls, BeginInsert(t, c)
      PROVE  must'[u] = {}
  <2>1. pc[t] = "idle" /\ must' = must /\ call' = [call EXCEPT ![t] = c]
    BY <1>2 DEF BeginInsert
  <2>2. call[t].fn \notin Asking
    BY <2>1 DEF Control, ControlInv, ThreadControl, NoCall, Asking
  <2> QED
    BY <2>1, <2>2 DEF MustInv, Control, TypeOK
<1>3. ASSUME NEW t \in Threads, NEW c \in Calls, BeginContains(t, c)
      PROVE  must'[u] = {}
  BY <1>3 DEF BeginContains, MustInv, Control, TypeOK
<1>4. ASSUME NEW t \in Threads, Return(t) PROVE must'[u] = {}
  BY <1>4 DEF Return, MustInv, Control, TypeOK
<1>5. ASSUME NEW t \in Threads, NEW l \in Lanes, LoadLane(t, l) \/ StoreLane(t, l) \/ Test(t)
      PROVE  must'[u] = {}
  BY <1>1, <1>5 DEF LoadLane, StoreLane, Test
<1>6. ASSUME NEW t \in Threads, NEW b \in Blocks, NEW l \in Lanes, Drain(t, b, l)
      PROVE  must'[u] = {}
  BY <1>1, <1>6 DEF Drain
<1>7. CASE UNCHANGED vars
  BY <1>1, <1>7 DEF vars
<1>8. ASSUME NEW t \in Threads, Test(t) PROVE must'[u] = {}
  BY <1>1, <1>8 DEF Test
<1> QED
  BY <1>2, <1>3, <1>4, <1>5, <1>6, <1>7, <1>8 DEF Next, Step, Begin

\* The loads of a query and everything an insert does within its call are no
\* steps of the promise.
LEMMA PromiseLoad ==
  ASSUME Control, NEW t \in Threads, NEW l \in Lanes, LoadLane(t, l)
  PROVE  UNCHANGED Promise!vars
<1> DEFINE after == After("load", Writing(t), p[t], Width(call[t], i[t]))
<1>1. /\ pc[t] = "load"
      /\ GoTo(t, after.kind) \/ UNCHANGED pc
      /\ UNCHANGED <<call, tested, begun, done, must>>
  BY DEF LoadLane
<1>2. after.kind # "ret"
  BY DEF After
<1> HIDE DEF after
<1>3. pc' = pc \/ pc' = [pc EXCEPT ![t] = after.kind]
  BY <1>1 DEF GoTo
<1>4. pc'[t] # "ret" /\ \A u \in Threads \ {t} : pc'[u] = pc[u]
  BY <1>1, <1>2, <1>3 DEF Control, TypeOK
<1>5. ASSUME NEW u \in Threads
      PROVE  UNCHANGED <<StageOf(u), QueryOf(u), AnswerOf(u)>>
  <2>1. CASE u = t
    BY <1>1, <1>4, <2>1, SeenAsking
  <2>2. CASE u # t
    BY <1>1, <1>4, <2>2, SeenKeep
  <2> QED
    BY <2>1, <2>2
<1> QED
  BY <1>1, <1>5, PromiseStutter

LEMMA PromiseStore ==
  ASSUME Control, NEW t \in Threads, NEW l \in Lanes, StoreLane(t, l)
  PROVE  UNCHANGED Promise!vars
<1>1. pc[t] = "store" /\ UNCHANGED <<call, tested, begun, done, must>>
  BY DEF StoreLane
<1>2. call[t].fn \notin Asking
  BY <1>1 DEF Control, ControlInv, ThreadControl, Writing, Inserting, Asking
<1>3. \A u \in Threads \ {t} : pc'[u] = pc[u]
  <2> DEFINE after == After("store", TRUE, p[t], Width(call[t], i[t]))
  <2>1. CASE lanes[t] = {l} /\ after.kind = "next"
    <3>1. NextIteration(t)
      BY <2>1 DEF StoreLane
    <3> QED
      BY <1>1, <3>1, IterationEnds DEF Control, TypeOK
  <2>2. CASE lanes[t] = {l} /\ after.kind # "next"
    <3>1. GoTo(t, after.kind)
      BY <2>2 DEF StoreLane
    <3> HIDE DEF after
    <3> QED
      BY <3>1 DEF GoTo, Control, TypeOK
  <2>3. CASE lanes[t] # {l}
    BY <2>3 DEF StoreLane
  <2> QED
    BY <2>1, <2>2, <2>3
<1>4. ASSUME NEW u \in Threads
      PROVE  UNCHANGED <<StageOf(u), QueryOf(u), AnswerOf(u)>>
  <2>1. CASE u = t
    BY <1>1, <1>2, <2>1, SeenWriting
  <2>2. CASE u # t
    BY <1>1, <1>3, <2>2, SeenKeep
  <2> QED
    BY <2>1, <2>2
<1> QED
  BY <1>1, <1>4, PromiseStutter

\* The last tests of a query are its answer, and NoFalseNegative and
\* PositivesJustified say that the promise allows it.
LEMMA PromiseTest ==
  ASSUME Control, Control', NoFalseNegative', PositivesJustified',
         NEW t \in Threads, Test(t)
  PROVE  Promise!Answer(t) \/ UNCHANGED Promise!vars
<1>1. /\ pc[t] = "test" /\ NextIteration(t)
      /\ UNCHANGED <<call, begun, done, must>>
      /\ \A u \in Threads \ {t} : tested'[u] = tested[u]
  BY DEF Test, Control, TypeOK
<1>2. call[t] \in Calls /\ call[t].fn \in Asking
  BY <1>1, CallFacts DEF Control, ControlInv, ThreadControl, Writing
<1>3. \A u \in Threads \ {t} : pc'[u] = pc[u]
  <2>1. \E k : pc' = [pc EXCEPT ![t] = k]
    BY <1>1, IterationEnds
  <2> QED
    BY <2>1 DEF Control, TypeOK
<1>4. \A u \in Threads \ {t} : UNCHANGED <<StageOf(u), QueryOf(u), AnswerOf(u)>>
  BY <1>1, <1>3, SeenKeep
<1>5. CASE pc'[t] # "ret"
  <2>1. UNCHANGED <<StageOf(t), QueryOf(t), AnswerOf(t)>>
    BY <1>1, <1>5, SeenAsking
  <2> QED
    BY <1>1, <1>4, <2>1, PromiseStutter
<1>6. CASE pc'[t] = "ret"
  <2>1. Answered(t)'
    BY <1>1, <1>2, <1>6 DEF Answered
  <2>2. /\ DOMAIN tested'[t] = DOMAIN call[t].items
        /\ \A n \in DOMAIN call[t].items :
             /\ tested'[t][n] => Reports(NBlocks, begun, HashesOf(call[t])[n])
             /\ Reports(NBlocks, must[t], HashesOf(call[t])[n]) => tested'[t][n]
    BY <1>1, <2>1 DEF NoFalseNegative, PositivesJustified
  <2>3. DOMAIN HashesOf(call[t]) = DOMAIN call[t].items
    BY HashElements
  <2>4. tested'[t] \in [DOMAIN HashesOf(call[t]) -> BOOLEAN]
    <3>1. tested'[t] \in Seq(BOOLEAN)
      BY DEF Control, TypeOK
    <3> QED
      BY <2>2, <2>3, <3>1
  <2>5. /\ StageOf(t) = "asked" /\ StageOf(t)' = "answered"
        /\ QueryOf(t) = HashesOf(call[t]) /\ QueryOf(t)' = QueryOf(t)
        /\ AnswerOf(t)' = tested'[t]
    BY <1>1, <1>2, <1>6, <2>1 DEF StageOf, QueryOf, AnswerOf
  <2>6. Promise!Allowed(t, tested'[t])
    BY <2>2, <2>3, <2>5 DEF Promise!Allowed, QueryOf
  <2> QED
    BY <1>1, <1>4, <2>4, <2>5, <2>6 DEF Promise!Answer, StageOf, QueryOf, AnswerOf
<1> QED
  BY <1>5, <1>6

\* A return ends an insert that was begun, or a query that is answered.
LEMMA PromiseReturn ==
  ASSUME Control, ImageInv, MustInv, NEW t \in Threads, Return(t)
  PROVE  Promise!EndInsert \/ Promise!EndQuery(t)
<1>1. /\ pc[t] = "ret"
      /\ call' = [call EXCEPT ![t] = NoCall]
      /\ tested' = [tested EXCEPT ![t] = <<>>]
      /\ must' = [must EXCEPT ![t] = {}]
      /\ pc' = [pc EXCEPT ![t] = "idle"]
      /\ begun' = begun
  BY DEF Return, GoTo
<1>2. /\ call'[t] = NoCall /\ pc'[t] = "idle"
      /\ \A u \in Threads \ {t} : /\ call'[u] = call[u] /\ pc'[u] = pc[u]
                                  /\ tested'[u] = tested[u]
  BY <1>1 DEF Control, TypeOK
<1>3. \A u \in Threads \ {t} : UNCHANGED <<StageOf(u), QueryOf(u), AnswerOf(u)>>
  BY <1>2, SeenKeep
<1>4. call[t] \in Calls
  BY <1>1 DEF Control, ControlInv, ThreadControl
<1>5. CASE Writing(t)
  <2>1. done' = done \cup HashSetOf(call[t]) /\ HashSetOf(call[t]) \subseteq begun
    BY <1>5 DEF Return, ImageInv, BegunInv
  <2>2. call[t].fn \notin Asking /\ call'[t].fn \notin Asking
    BY <1>2, <1>5 DEF Writing, NoCall, Asking, Inserting
  <2>3. must' = must
    BY <1>1, <2>2 DEF MustInv, Control, TypeOK
  <2>4. UNCHANGED <<StageOf(t), QueryOf(t), AnswerOf(t)>>
    BY <2>2, SeenWriting
  <2>5. HashesOf(call[t]) \in {HashesOf(d) : d \in {x \in Calls : x.fn \in Inserting}}
    BY <1>4, <1>5 DEF Writing
  <2>6. Promise!Elements(HashesOf(call[t])) = HashSetOf(call[t])
    BY HashElements
  <2> QED
    BY <1>1, <1>3, <2>1, <2>3, <2>4, <2>5, <2>6
       DEF Promise!EndInsert, StageOf, QueryOf, AnswerOf
<1>6. CASE ~ Writing(t)
  <2>1. call[t].fn \in Asking /\ done' = done
    BY <1>4, <1>6, CallFacts DEF Return, Writing
  <2>2. /\ StageOf(t) = "answered" /\ StageOf(t)' = "idle"
        /\ QueryOf(t)' = <<>> /\ AnswerOf(t)' = <<>>
    BY <1>1, <1>2, <2>1 DEF StageOf, QueryOf, AnswerOf, Answered, NoCall, Asking
  <2> QED
    BY <1>1, <1>3, <2>1, <2>2 DEF Promise!EndQuery, StageOf, QueryOf, AnswerOf
<1> QED
  BY <1>5, <1>6

LEMMA PromiseDrain ==
  ASSUME NEW t \in Threads, NEW b \in Blocks, NEW l \in Lanes, Drain(t, b, l)
  PROVE  UNCHANGED Promise!vars
BY PromiseStutter, SeenKeep DEF Drain

LEMMA PromiseNext ==
  Control /\ Control' /\ ImageInv /\ MustInv /\ NoFalseNegative' /\ PositivesJustified'
    /\ [Next]_vars => [Promise!Next]_(Promise!vars)
<1> SUFFICES ASSUME Control, Control', ImageInv, MustInv, NoFalseNegative',
                    PositivesJustified', [Next]_vars
             PROVE  Promise!Next \/ UNCHANGED Promise!vars
  OBVIOUS
<1>1. ASSUME NEW t \in Threads, NEW c \in Calls, BeginInsert(t, c)
      PROVE  Promise!Next
  BY <1>1, PromiseBeginInsert DEF Promise!Next
<1>2. ASSUME NEW t \in Threads, NEW c \in Calls, BeginContains(t, c)
      PROVE  Promise!Next
  BY <1>2, PromiseBeginContains DEF Promise!Next
<1>3. ASSUME NEW t \in Threads, NEW l \in Lanes, LoadLane(t, l) \/ StoreLane(t, l)
      PROVE  UNCHANGED Promise!vars
  BY <1>3, PromiseLoad, PromiseStore
<1>4. ASSUME NEW t \in Threads, Test(t)
      PROVE  Promise!Next \/ UNCHANGED Promise!vars
  BY <1>4, PromiseTest DEF Promise!Next
<1>5. ASSUME NEW t \in Threads, Return(t) PROVE Promise!Next
  BY <1>5, PromiseReturn DEF Promise!Next
<1>6. ASSUME NEW t \in Threads, NEW b \in Blocks, NEW l \in Lanes, Drain(t, b, l)
      PROVE  UNCHANGED Promise!vars
  BY <1>6, PromiseDrain
<1>7. CASE UNCHANGED vars
  BY <1>7, PromiseStutter, SeenKeep DEF vars
<1> QED
  BY <1>1, <1>2, <1>3, <1>4, <1>5, <1>6, <1>7 DEF Next, Step, Begin

\* src/quickbloom.h:14-21, for every number of threads: the filter in memory,
\* torn accesses and store buffers included, does nothing that FilterPromise
\* does not allow.
THEOREM PromiseAlways ==
  Spec => PromiseKept
<1>1. Init => Promise!Init
  BY PromiseInit
<1>2. Init => MustInv
  BY DEF Init, MustInv
<1>3. Control /\ MustInv /\ [Next]_vars => MustInv'
  BY MustNext
<1>4. Control /\ Control' /\ ImageInv /\ MustInv /\ NoFalseNegative' /\ PositivesJustified'
        /\ [Next]_vars => [Promise!Next]_(Promise!vars)
  BY PromiseNext
<1> QED
  BY <1>1, <1>2, <1>3, <1>4, ImageAlways, NeverMissed, PositivesAccounted, PTL
     DEF Spec, PromiseKept, Promise!Spec
===========================================================================
