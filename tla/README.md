# quickbloom in TLA+

quickbloom (`src/quickbloom.c`, `src/quickbloom.h`) is a split block Bloom
filter in C: an array of 256-bit blocks, a hash whose upper half picks a block
and whose lower half picks one bit in each of the block's eight lanes, AVX2
loads and stores of whole blocks, bulk functions unrolled four times. This
directory holds TLA+ modules for it, the TLC runs that check them and TLAPS
proofs about them.

Beside it, in `src/comparisons`, the repository keeps filters of other designs
behind a common `bloom_*` interface; they are modelled too. The two questions
that matter most are answered first:

* what do readers see while an insert is under way, given that a block is eight
  words of memory, written from a register that was loaded earlier, through a
  store buffer;
* does every filter that can be constructed, from a size or from bytes, index
  its own storage exactly as the Parquet rule says.

Then: does each of the other designs, whose construction is less direct (a
random table of overlapping masks, a peeling of keys that may have to start
again, a filter rebuilt behind the caller's back), report all it was given.

## 1. Inventory

| component | state | operations | talks to |
|---|---|---|---|
| geometry (`quickbloom.c:90-131`) | none | `mask_for`, `block_for`, `log2_pow2`, the cap | used by everything below |
| entry points (`:168-307`) | the bits of the filter | `qb_insert`, `qb_contains`, their `_bulk`, `_prehash` and `_prehash_bulk` forms | several threads share one filter through memory only |
| lifecycle (`:133-166`, `:309-363`) | the `bloom_t` header, the storage, the allocator | `qb_new`, `qb_free`, `qb_serialized_size`, `qb_serialize`, `qb_deserialize` | the allocator, the client's buffers, other Parquet writers |
| key hashing (`:39-85`, the copies in `comparisons`, `bloom_impala.c:28-108`) | none | `hash16`, `fasthash64_var`, `bloom_hash`, `xxh64` | the keyed entry points |
| sizing (`qb_util.c`) | none | `qb_estimate_bits` | its result goes to `qb_new` |
| Impala SBBF (`comparisons/bloom_impala.c`) | bits, number of blocks of any value | the `bloom_*` ABI | the differential tests compare answers with it |
| classic filter (`comparisons/bloom_classic.c`) | bits | the `bloom_*` ABI, double hashing | harness |
| Krassovsky filter (`comparisons/bloom_krassovsky.c`) | a global mask table, 64-bit blocks | the `bloom_*` ABI, batches of 8 | harness |
| binary fuse filter (`comparisons/binaryfusefilter.h`) | the array of fingerprints; while it is built, tables over its cells, a queue, a stack | `allocate`, `populate`, `contain`, `free` | its shim |
| its shim (`comparisons/bloom_xorfuse.c`) | staged keys, the built filter, a flag | the `bloom_*` ABI: staged insert, build on the first query, rebuild | the fuse filter, the allocator, harness |
| Rust shims, harness, tests, fuzzers | - | clients | - |

What is hard in each, and what makes it correct:

* **Entry points.** `quickbloom.h:14-21`: reads are free of locks; writers must
  be serialized by the caller; "Reads concurrent with writes may see partial
  state but never a false negative once the write completes". Behind this are
  torn 32-byte accesses, stores that have not left the store buffer, the
  load-or-store of a block that another key of the same unrolled round falls on
  (the repository's `README.md:215` records 16 false negatives of a variant
  that batched the stores), and tail loops at every length modulo the unrolled
  width. Correct means: nothing inserted is missed, no bit is lost, no bit comes
  from nowhere, no access outside the arrays, and a reader always returns.
* **Lifecycle.** Wrapping sizes, rounding after the check of the cap, two
  allocations of which the second may fail, memory with old bits in it, byte
  strings from elsewhere. Correct means: no leak and no sharing, an index that
  covers exactly the storage, contents that are exactly the inserted hashes,
  NULL for the documented causes only.
* **Geometry.** A shift must equal the multiply-and-shift of the Parquet rule
  at every size, the shift by the full half (one block) included.
* **Key hashing.** The unrolled loops call `hash16` themselves, the tail loops
  and the single-key functions go through `bloom_hash`; a key must get the same
  hash on every path.
  In the fall-through switch and in the three loops of `xxh64` every byte must
  count, at every length. A key with a zero half must not lose the other half
  in the multiplication (`quickbloom.c:44-48`).
* **Fuse filter.** `binary_fuse8_populate` takes keys that may be copies of each
  other, counts them in six bits that can wrap, finds copies by hashes that
  cancel out, peels, and if that fails removes copies with a comparator that is
  no order, keeps tables cleared to a size that may just have shrunk, and tries
  again. Correct means: what succeeded reports every key, what failed leaves
  nothing behind, the caller's keys are still there, no index leaves its array,
  and the call returns.
* **Shim.** An insert after a query frees the filter; a query builds it; the
  bulk functions do both; realloc, allocate and populate may fail and none of
  the results is looked at. Correct means: nothing inserted is missed by a
  filter that was populated, no array of fingerprints leaks or is freed twice.
* **Classic and Impala filter.** Wrapping sums of positions and of sizes, a loop
  that finds a power of two and may not end. Correct means: as many bits as the
  design says, the size asked for, exact answers.
* **Krassovsky filter.** Masks are windows on one string of bits, read at any
  bit offset and rotated, by scalar code and by vector code that differ where
  the rotation is none. Correct means: every mask within its bounds, both codes
  the same, nothing missed across them.
* **Sizing.** `qb_estimate_bits` is floating point between two guards.

All hazards, with their lines and the properties about them, are in
`PROJECT.json`.

## 2. Modules

```
PowersOfTwo            Pow2
  WordsProofs          powers of two, exclusive or; what the steps of a hash keep
  SbbfGeometry         sizes, block index, mask, the Parquet reference
    SbbfGeometryProofs
    QuickBloom         threads x entry points x memory     --implements-->  FilterPromise
      QuickBloomProofs       why no bit is lost, no query misses, no bit comes from
                             nowhere; FilterPromise is kept
      MCQuickBloom           MCQuickBloom.cfg, MCQuickBloomPromise.cfg
    QbLifecycle        handles, allocator, buffers
      QbLifecycleProofs      ownership, capacity, index, contents
      MCQbLifecycle          MCQbLifecycle.cfg, MCQbCapacity.cfg, MCQbOverride.cfg
    ImpalaBloom        the SBBF for any number of blocks
      Comparisons            ImpalaBloom and ClassicBloom given the same calls
        ComparisonsProofs    the invariant of both; bits, image, answers, sizes, the promise
        MCComparisons        MCComparisons.cfg
  ClassicBloom         double hashing                      --implements-->  MemberPromise
  Words                xor, wrapping product, rotation
    FastHash           the steps of fasthash64_var (WordsProofs is about these, too)
      KeyHash          keys to hashes
        MCKeyHash            MCKeyHash.cfg, MCKeyHashShim.cfg
    FuseGeometry       sizes and cells of a binary fuse filter
      BinaryFuse             binary_fuse8_populate, step by step
        BinaryFuseProofs     cells in the array and apart, the multiply; the invariant
                             of the loops; what a filter reports
        MCBinaryFuse         MCBinaryFuse.cfg
  Krassovsky           mask table, scalar and vector code  --implements-->  MemberPromise
    KrassovskyProofs         every mask a window; the vector code; the promise
    MCKrassovsky             MCKrassovsky.cfg
  XorFuse              the shim over the fuse filter       --implements-->  MemberPromise
    XorFuseProofs            the buffer, the arrays; the promise
    MCXorFuse                MCXorFuse.cfg, MCXorFuseBuilt.cfg
```

**SbbfGeometry** has no state. Every width of the C code is a parameter: half a
hash (`HalfBits`, 32 in C), the bits of a lane (2^`LaneLog`, 32), the lanes
(`LaneCount`, 8), `size_t` (`SizeBits`, 64), the cap (2^`MaxBlocksLog`, 2^31).
Additions and subtractions wrap where the C types do. A lane is the set of the
positions of its one bits, so `or` is union and `testc` is set inclusion.
`Fastrange`, `BlockImage` and `Reports` are the reference: what any SBBF that
follows the Parquet rule stores for a set of hashes, and what it answers.

**QuickBloom** has threads inside the eight entry points. Its state and the code:

| variable | code |
|---|---|
| `mem` | `b->bits` |
| `pending[t]` | the store buffer of the processor that runs `t`; at most one store a lane, the later one merged over the earlier |
| `lock` | the synchronization the header asks callers of `qb_insert*` for |
| `pc`, `call` | the function a thread is in, its arguments, and the kind of access it does next |
| `i`, `p` | the loop variable, and which of the blocks `p0..p3` is accessed |
| `lanes` | what of a 32-byte access is still to do |
| `reg` | `cur`, `c_`, `c0..c3` |
| `tested` | the results of `testc`; `hits` counts the true ones |
| `begun`, `done`, `must` | history: inserts begun, inserts returned, inserts returned when the query began |

One action is one access to one lane (`LoadLane`, `StoreLane`), one round of
tests (`Test`), a call (`BeginInsert`, `BeginContains`), a return (`Return`), or
a buffered store reaching memory (`Drain`). `After` is the order of the
accesses: an insert loads and stores a block before it goes to the next
(`APPLY`), a query loads all blocks of a round and then tests. `InUnrolled`
chooses the loop; `HashAt` takes `hash16` in the unrolled loop and `bloom_hash`
in the tail, as the code does. Stores wait in a buffer where their own thread's
loads see them. The lanes of an access go in any order and drain in any order:
the C code promises no atomicity wider than a lane, and the orders of x86 are
among those of the model. The lock's release waits for the buffer, as an
unlock does. The model says nothing finer than a lane: an aligned 32-bit word
is not torn on the targets the header names.

**FilterPromise** is the abstract filter: inserts begin and end, queries begin
and are answered, and an answer is any that contains what the inserts ended
before the query report and is contained in what the inserts begun report. A
query that overlaps no insert has one possible answer. `PromiseKept` in
QuickBloom is its specification under a refinement mapping.

**QbLifecycle** has a client with several filter handles and buffers. A
constructor is four steps (checks, `malloc`, `posix_memalign`, fill and fields),
either allocation may fail, new memory holds anything in `Junk`, and
constructors of several handles interleave. `ReceiveBytes` is a buffer from
elsewhere: any length, and where the length is a filter's, what some SBBF
writer made of some hashes. Inserting is one step here; QuickBloom has it in
detail.

Left out of the two: `qb_free(NULL)` (a stuttering step), the NULL checks that
`assert` in debug builds, and `qb_deserialize(NULL, n)`, which returns NULL
before it looks at `n`. `malloc`'s bookkeeping is the set `allocated` and
`headers`; the content of a header is undefined until `Fill` and nothing reads
it before, so `NoFilter` stands for it.

**MemberPromise** is what every `bloom_*` filter promises one caller: hashes are
added, a query is told how many of its hashes are reported, never fewer than
were added; a filter may be dropped; an implementation may lose the promise
where memory or luck failed it, and says so in `intact`. ClassicBloom,
Krassovsky and XorFuse implement it. ImpalaBloom promises more, the exact image
and the exact answers, and is checked for that instead.

**FuseGeometry** has the arithmetic of `binaryfusefilter.h`, with the products at
the width of the C types: the sizes `binary_fuse8_allocate` computes, the three
cells of a hash as `populate` and as `contain` compute them, `mulhi` in both its
forms. The logarithms behind the length of a segment and the size factor are
floating point: any power of two, and any capacity of at least 9/8 of the keys,
stand for what they give.

**BinaryFuse** is `binary_fuse8_populate`, one action per step of its loops:

| variable | code |
|---|---|
| `filter`, `Fingerprints` | the fields of `binary_fuse8_t` |
| `given`, `keys` | the caller's array, before and now |
| `size`, `loop`, `i`, `duplicates`, `error` | the locals of these names |
| `hash` | what the seed of the round makes of the keys |
| `startPos`, `reverseOrder`, `reverseH` | the arrays of these names; the length of `reverseH` is `stacksize` |
| `t2` | `t2count` and `t2hash`, a cell at a time |
| `alone` | the queue, `Qsize` entries of it |

`Start` and `Refuse` are the head of the function, `Reseed` the new seed of a
round, `Scatter` the loop that sorts hashes by segment (it goes to "spin" where
the C loop would not end), `Count` a key counted and a copy taken back,
`CountFailed` the round given up because a counter wrapped, `Counted` the scan
that fills the queue, `Peel` a key put on the stack, `Retry` the sort, the
removal of copies and the clearing, `Assign` a fingerprint. A seed is any
injective map of the keys to hashes: murmur64 is a bijection, and the model
takes no map to be unlikely. The xor of the hashes in a cell is the set of keys
counted there an odd number of times, which is what it is as long as different
sets of hashes have different xors. No key hashes to 0, the mark of a free slot
(one seed in 2^64 for a key). The comparator of the sort cuts a 64-bit
difference to an int, which is no order: the sort leaves the keys in any order.

**XorFuse** is the shim. A built filter is the set of hashes it reports: any set
with all the staged ones when populate succeeds, any set at all when it fails
and leaves the array zero. That is what BinaryFuse shows of populate
(`KeysReported`), and `KeysPreserved` lets the buffer be a set and a length.
Each of calloc, malloc, realloc, allocate and populate may fail at any call; a
null pointer the code goes on to use ends in `Crashed`.

**ClassicBloom**, **ImpalaBloom** and **Krassovsky** have all the `bloom_*`
functions of their files, by key and by hash, single and bulk. What they leave
out is the failure of malloc, which the code does not look at. The classic
filter derives its two hashes in three places: for 16-byte keys, for other keys
and for hashes (`bloom_classic.c:33-35`, `:69-72`, `:156-161`). `hash16_pair`,
`bloom_hash_pair` and `prehash_split` are these three, each written out, and
every call goes through the one its code does. In Krassovsky
the first `bloom_new` draws the mask table bit by bit (`Pattern`, `Slide`,
`Slid`), the random generator giving any number, so that a run goes through
every table there can be; a call then says which of its hashes go through the
vector code. Words are sets of positions. The Impala filter's product wraps
for more than 2^32 blocks; the model has the wrap, its properties say nothing
beyond it, as the Parquet rule does not.

**Comparisons** makes one filter of each kind of a size and gives both every
call, the way the differential tests of the harness do with each candidate in
turn.

**FastHash** has the steps of `fasthash64_var` with the widths, multipliers and
shifts as parameters: how bytes are loaded, how a word is mixed and absorbed,
how the last hash is finished. **KeyHash** puts them together (`Absorbs`: the
words of a key and then, as the switch does, the bytes behind them as one more)
and hashes one key after another by `bloom_hash` of `quickbloom.c`, by that of
the comparison filters and by `xxh64`, whose rotations are parameters as
well. `hash16` mixes two constants in where the copies do not.

## 3. Runs

| run | cfg | distinct states | shows |
|---|---|---|---|
| shared_filter | MCQuickBloom.cfg | 1,033,451 | the safety properties of shared use |
| promise | MCQuickBloomPromise.cfg | 148,830 | the refinement, and that readers return |
| lifecycle | MCQbLifecycle.cfg | 54,686 | ownership, index, contents, causes of NULL, capacity |
| capacity_wrap | MCQbCapacity.cfg | violated | `CapacityHonoured`, section 6 |
| deserialize_override | MCQbOverride.cfg | violated | `ShiftInRange`, section 6 |
| fuse_populate | MCBinaryFuse.cfg | 350,406 | populate: every key reported, rounds that fail leave nothing, the call returns |
| xorfuse | MCXorFuse.cfg | 18,676 | the shim implements MemberPromise and leaks nothing |
| xorfuse_built | MCXorFuseBuilt.cfg | violated | `BuiltMeansPopulated`, section 6 |
| comparisons | MCComparisons.cfg | 10,564 | bits, sizes and answers of the classic and the Impala filter |
| krassovsky | MCKrassovsky.cfg | 53,635 | every mask table, scalar and vector code |
| key_hash | MCKeyHash.cfg | 167 | every byte of a key counts |
| shim_hash | MCKeyHashShim.cfg | violated | `SameHash`, section 6 |

Properties of the passing runs, and the bug in the code that each has been seen
to catch (the definitions marked "Mutation" in the modules; the project file
names the pairs):

| property | says | broken by |
|---|---|---|
| `AccessesInBounds` | no loop passes the caller's array or the filter | one item too many in a round |
| `NoFalseNegative` | a query counts all that had returned before it began, through whatever entry point it was inserted | `hash16` for keys of every length in the unrolled loop |
| `PositivesJustified` | a positive is accounted for by inserts begun | operands of `testc` swapped |
| `QuiescentImage` | unlocked, memory is the Parquet image of the inserts, bit for bit | the block index from the half that makes the mask |
| `BitsOnlyGrow` | no step clears a bit | stores of a round batched after its loads (`README.md:215`) |
| `PromiseKept` | FilterPromise | an insert that does not wait for the lock |
| `ReadersReturn` | a query ends whatever the writers do | a reader that waits for the writer |
| `AllocationsOwned` | every allocation has one owner, failed constructors included | `posix_memalign` failing without `free(b)` |
| `IndexCoversStorage` | the index is the Parquet index and reaches all the storage, nothing else | any number of blocks accepted by `qb_deserialize` |
| `ImageExact` | contents are exactly the inserted hashes, through serialization | no `memset` |
| `RefusedForCause` | NULL only for memory, cap or malformed bytes | the cap itself refused |
| `CapacityTight` | the least power of two of blocks that has the bits asked for, and none beyond the cap | the rounding loop left out |
| `TypeOK` (QuickBloom, QbLifecycle) | types | a mask bit outside its lane |
| `KeysReported` | a populate that succeeds reports every key given | assignment from the bottom of the stack up |
| `StackSound` | no key is on the stack twice, none above another uses its cell | a wrapped counter unseen |
| `RoundClean` | a round begins with a free slot for each of its keys and an end mark behind them | the clearing takes the mark with it |
| `QueueInArray` | the queue never leaves its array, its speculative write included | cells queued whatever they hold |
| `KeysPreserved` | the caller's array loses copies and never a key | the copies kept, not the keys |
| `SameCells` | populate and contain compute the same three different cells, with either `mulhi` | a segment longer than a field addresses |
| `PopulateEnds` | populate returns | segments not tried in a circle |
| `TypeOK` (BinaryFuse) | types and the ranges of all indexes | slot bits left in a cell |
| `TypeOK` (XorFuse) | staged keys are inside the buffer | a buffer that grows once |
| `ArraysOwned` | one array of fingerprints at most, the one that is read | the flag cleared, the filter kept |
| `PromiseKept` (XorFuse) | nothing inserted is missed unless this very filter failed to populate | an insert that leaves a built filter |
| `DistinctBits` | a hash, and a key hashed either way, has K bits of its own | an even second hash |
| `ClassicPromise` | MemberPromise, for the classic filter, whichever of its three derivations of the second hash a call goes through | the shift left out where a short key's second hash is derived |
| `ImageExact` (Impala) | the Parquet image, for any number of blocks | index from the half that makes the mask |
| `AnswersExact` | a query counts exactly what is covered | an insert that stops at a bit already set |
| `SizedRight` | as many bits as asked for, and no loop without end but at the top of `size_t` | rounding down |
| `MaskBits` | every mask has its number of bits, read at any offset, rotated | the upper bound of the window unseen |
| `LanesAgree` | vector and scalar masks are the same | the wrapped part of a rotation lost |
| `PromiseKept` (Krassovsky) | MemberPromise, across scalar and vector code | a last batch forgotten |
| `WordsTell` | keys that differ in one word have different hashes | a case that does not fall through |
| `BytesTell` | the same of `xxh64` for a byte behind the stripes | the last bytes left out |
| `ZeroHalfSpreads` | keys with a zero half do not all collide | the constants left out |

### Bounds

* Threads: two. A writer and a reader, two readers, or two callers that want to
  write. The proofs need no bound.
* Geometry: halves of 3 bits, lanes of 2 bits, 2 lanes, 2 blocks (4 at most in
  the lifecycle run). There are hashes that share a block and no bit, a block
  and a bit, and no block; a hash nobody inserts that becomes a false positive;
  one block, where the shift is the whole half. Two lanes are enough to tear an
  access and two blocks to alias and not to alias.
* Unrolled width: 2, with arrays of 0 to 3 items: no round, a round, a round and
  a tail, the tail alone.
* Calls: eleven, each entry point among them, with 16-byte and shorter keys. A
  thread makes any number of calls: the hashes are finitely many, so is the
  state space. The promise run takes five of them.
* `size_t`: 6 bits in the lifecycle run, with blocks of 4 bits and a cap of 16.
  The sizes are 0; a block and a bit (two blocks, no rounding); two blocks and a
  bit (three blocks, which the loop rounds up to four, the cap itself); the cap;
  one bit above the cap; and the first size whose addition wraps.
* Byte strings: empty, half a block, 1, 3, 4 and 8 blocks, against a limit of 4.
* Two handles, two addresses, one buffer: storage freed by one is reused by the
  other, and a buffer outlives the filter it came from.

* Fuse filter: hashes of 6 bits, of which ten serve as hashes of keys, fields of
  one bit, arrays of at most 6 cells, fingerprints of one bit, sizes of 3 bits
  so that the product behind `startPos` wraps, counters that wrap at 3 keys,
  arrays of up to four keys with copies next to each other and apart, two
  rounds. Keys share cells, have copies found by the counters, do not peel, and
  peel only in the second round, with all the keys or after copies were removed.
* Shim: four hashes, three keys of which two collide, a buffer that starts at 0
  or 2 and grows, at most 6 staged keys (`MaxStaged`). Two builds and a rebuild
  fit in that.
* Classic and Impala: hashes and sizes of 6 bits, words of 8, 4 bits per key,
  blocks of two lanes of two bits, eleven sizes with both ends of each rounding
  and of the wrap. Of three keys two have 16 bytes and one is shorter; arrays
  hold either sort, and one key of each has a hash that calls by hash use as
  well, chosen so that a derivation without the shift gives another pair.
* Krassovsky: words of 8 bits, bytes of 2, four masks of 7 bits with 2 or 3 set
  (7 is 8 bits less what an offset in a byte can take, as 57 is of 64), one and
  two blocks and more, and a size too large, batches of 2. All hashes of 6 bits
  are tried in the two invariants.
* Key hashing: hashes of 4 bits, bytes of 1, all keys of up to six bytes and some
  of 8, 11 and 23: no word, words and a rest of each length, the short cut, a
  stripe. The constants are small odd numbers in the place of the C ones.

`CHECK_DEADLOCK FALSE` is in the runs whose system stops: populate returns, and
a shim that dereferenced a null pointer or a `bloom_new` that does not end has
no next step.

Symmetry under permutation of threads, handles and addresses is used in the
safety runs of QuickBloom and QbLifecycle only; the runs with liveness have none.

### Fairness

`FairSpec` has weak fairness for each thread's steps while it is inside a
contains function, and nothing else. Those functions have no lock, no wait and no retry:
a reader can always take its next step, and a scheduler that runs it at all
gives it one. Writers get no fairness: they may stop for good inside an insert,
lock held and stores buffered, and `ReadersReturn` holds all the same. Drains
get none either: a load never waits for one.

BinaryFuse's `FairSpec` has weak fairness of the whole of `Next`: populate runs
on one thread that has nothing to wait for, and a thread that can take a step
takes it. The state "spin" has no step, so that a loop without end would be
found as a call that does not return.

## 4. Theorems

All proofs are checked by tlapm without any step left out, for every value of
the constants that satisfies the named assumptions, which TLC evaluates in the
runs. What they ask and why the code grants it:

| assumption | module | asks | because |
|---|---|---|---|
| `WidthAssumption`, `SaltAssumption` | SbbfGeometry | widths ordered as in C, multipliers that fit a half | 32-bit halves, 2^5 bits in a lane, a cap of 2^31 |
| `FilterAssumption` | QuickBloom | a number of blocks that `qb_new` makes | the filter comes from `qb_new` |
| `HashAssumption`, `CallAssumption`, `ThreadAssumption` | QuickBloom | arrays are as long as the caller says, a single call has one key | the interface |
| `LifecycleAssumption` | QbLifecycle | sizes are of `size_t`; the largest filter is, too | 2^31 blocks of 32 bytes are 2^36 of 2^64 |
| `HashAssumption`, `SizeAssumption` | XorFuse | keys have hashes; a first growth is not to nothing | `bloom_xorfuse.c:89`: 1024 |
| `FuseWidthAssumption` | FuseGeometry | a hash has two halves and two fields of slot bits; a count fits a hash, and has two bits more than a field | 64, 2 x 18 and 32 bits: with segments of 2^18 three can be indexed |
| `PopulateAssumption` | BinaryFuse | hashes fit their width; segment lengths are powers of two, capacities and the modulus of a count numbers; the two marks in `reverseOrder` differ and the first is no key | `1 << ...` (:147), 64 (:268); 0 and 1 (:221, :240) |
| `WidthAssumption` | Krassovsky | a mask read at any offset in a byte fits a word | 57 + 8 <= 64 + 1 |
| `CallAssumption` | Krassovsky | arrays of hashes and of keys | the interface |
| `ClassicAssumption` | Comparisons | a word has a power of two of bits, and no fewer than a hash gets; `size_t` is no wider than a hash | words of 2^6 bits, `K_HASHES` of 8 (`bloom_classic.c:20`); both are 64 bits wide |
| `CallAssumption` | Comparisons | sizes are of `size_t`; arrays of hashes and of keys, keys have hashes | the interface |
| `ValueAssumption` | XorFuse, Krassovsky, Comparisons | the model values for "no filter", "crashed" and "spinning" are no filters | they stand for states of the code that are none |

Two theorems have a hypothesis of their own, `LimitWithinHash`: a half hash
addresses as many blocks as the deserialization limit admits. The default, 1 GiB,
is 2^25 blocks. It cannot be left out: run deserialize_override raises the limit
past it and the index leaves the storage (section 6).

| theorem | of | statement |
|---|---|---|
| `FastrangeIsShift` | SbbfGeometryProofs | on 2^k blocks the shift is the Parquet index |
| `IndexOntoBlocks` | SbbfGeometryProofs | the indexes of all hashes are exactly the blocks |
| `TypeCorrect` | QuickBloomProofs | `Spec => []TypeOK` |
| `NoOverrun` | QuickBloomProofs | `Spec => []AccessesInBounds` |
| `MemoryAlways` | QuickBloomProofs | `Spec => [](Control /\ MemoryInv)` |
| `BitsNeverLost` | QuickBloomProofs | `Spec => BitsOnlyGrow` |
| `NeverMissed` | QuickBloomProofs | `Spec => []NoFalseNegative` |
| `PositivesAccounted` | QuickBloomProofs | `Spec => []PositivesJustified` |
| `ImageWhenQuiet` | QuickBloomProofs | `Spec => []QuiescentImage` |
| `PromiseAlways` | QuickBloomProofs | `Spec => PromiseKept`: the memory implements FilterPromise |
| `TypeCorrect` | QbLifecycleProofs | `Spec => []TypeOK` |
| `NothingLeaks` | QbLifecycleProofs | `Spec => []AllocationsOwned` |
| `RefusalsJustified` | QbLifecycleProofs | `Spec => []RefusedForCause` |
| `CapacityKept` | QbLifecycleProofs | `Spec => []CapacityTight` |
| `IndexAlways` | QbLifecycleProofs | `LimitWithinHash` gives `Spec => []IndexCoversStorage` |
| `ContentsAlways` | QbLifecycleProofs | `LimitWithinHash` gives `Spec => []ImageExact` |
| `TypeCorrect` | XorFuseProofs | `Spec => []TypeOK` |
| `ArraysAccounted` | XorFuseProofs | `Spec => []ArraysOwned` |
| `PromiseAlways` | XorFuseProofs | `Spec => PromiseKept`: the shim implements MemberPromise |
| `MulhiPortable` | BinaryFuseProofs | the product by parts is the upper half of the product |
| `FuseAlways` | BinaryFuseProofs | `Spec => []FuseInv` |
| `FuseTypes` | BinaryFuseProofs | `Spec => []TypeOK` |
| `FuseKeysReported` | BinaryFuseProofs | `Spec => []KeysReported` |
| `FuseStackSound` | BinaryFuseProofs | `Spec => []StackSound` |
| `FuseRoundClean` | BinaryFuseProofs | `Spec => []RoundClean` |
| `FuseQueueInArray` | BinaryFuseProofs | `Spec => []QueueInArray` |
| `FuseKeysPreserved` | BinaryFuseProofs | `Spec => []KeysPreserved` |
| `FuseSameCells` | BinaryFuseProofs | `Spec => []SameCells` |
| `FuseNeverSpins` | BinaryFuseProofs | `Spec => [](pc # "spin")`: a free slot is always found |
| `MasksBounded` | KrassovskyProofs | `Spec => []MaskBits` |
| `LanesAlways` | KrassovskyProofs | `Spec => []LanesAgree` |
| `PromiseAlways` | KrassovskyProofs | `Spec => PromiseKept`: the filter implements MemberPromise |
| `ComparisonsAlways` | ComparisonsProofs | `Spec => []IInv` |
| `PositionsDistinct` | ComparisonsProofs | `Spec => []DistinctBits` |
| `PromiseAlways` | ComparisonsProofs | `Spec => ClassicPromise`: the classic filter implements MemberPromise |
| `ImageAlways` | ComparisonsProofs | `Spec => []ImageExact` |
| `AnswersAlways` | ComparisonsProofs | `Spec => []AnswersExact` |
| `SizesRight` | ComparisonsProofs | `Spec => []SizedRight` |
| `WordTells` | WordsProofs | keys whose words differ in one place have different hashes, for odd multipliers and shifts of one place at least |
| `LoadTells` | WordsProofs | a load fits its bits, and tells every byte |

### The shared filter

None of the properties is inductive; five invariants are, each relative to those
before it.

1. `Control`: the types, and for each value of `pc` what `i` and `p` can be. It
   gives `AccessesInBounds`, and that the item a thread works on is an item of
   its call (`AccessFacts`).
2. `MemoryInv`: the one writer is the holder of the lock and the only thread
   with stores in its buffer (`LockInv`); a thread never sees less than memory
   holds (`GrowInv`); the block in the writer's registers is what the writer
   would load now, and what it has stored contains the mask (`RegistersFresh`);
   all items it is through with are visible to it (`ItemsApplied`); memory holds
   the masks of all inserts that returned (`DoneInv`). Why it is needed: a store
   writes back what a register holds, so that no bit is lost only because that
   register is fresh; and an insert that returns is in memory only because its
   items were in the writer's view and the buffer is empty. Aliased blocks in a
   round need no case of their own: the second load sees the first store.
3. `ReadInv`: every lane a query has loaded contains the masks of the inserts it
   must count, each answer so far is complete, and what it must count is done.
4. `ImageInv`: memory, buffers and registers are within the image of the inserts
   begun; the inserts begun are those done and those of the writer. With
   `DoneInv` this squeezes the memory of an unlocked filter to the image.
5. `MustInv`: who asks nothing must count nothing. It completes the refinement
   mapping. Then a call, a return and the last test of a query are steps of
   FilterPromise and every access and every drain is a stutter; that the last
   test may give the answer it gives is `ReadInv` from below and `ImageInv` from
   above (`PromiseTest`).

### The life of a filter

`LifecycleInv` is the types, `AllocationsOwned`, `RefusedForCause` and four
parts that make them inductive. `CallInv` ties the locals of a constructor to
the phase it is in: a number of blocks that is a power of two and within what
its checks let through. `SourceInv` says the bytes a `qb_deserialize` copies are
those of the buffer it was called with. `StorageInv` gives a filter's storage
exactly the blocks its shift says. `BufferInv` gives a filled buffer the length
that its number of blocks has in bytes. A failed allocation is owned by nobody
because the phase before it says what was owned so far.

`ContentsInv` is on top: a filter that is live holds the image of its hashes and
so does a buffer that came out of one. `Fill` establishes it (the `memset`, or
the copy of all bytes), an insert moves from the image of a set to that of a
larger one (`ImageInsert`), everything else leaves it alone.

### Building a fuse filter

`FuseInv` has a part for each loop of `binary_fuse8_populate`, each handing over
what the next one starts from.

1. `Shape`: types, and that the sizes are some that `allocate` computes
   (`Geometric`, kept by `AllocateGeometric` for every size, wrapped ones
   included). It gives `SameCells` by `CellsApart`, `BatchIsCells` and
   `MulhiPortable`.
2. `KeysInv`: the array, and the part of it a round works on, has every key.
   Whatever order qsort leaves, the first of every run of equals is kept
   (`RemoveDupKeeps`).
3. `SeedInv`, `ScatterInv`: there is a free slot for each key left, and the first
   free slot of every run of free ones is where some segment continues. So the
   search in a circle ends (`SegmentReached`, `FuseNeverSpins`), and it never
   takes the slot behind the last, which is not free.
4. `CountInv`: unless a count has wrapped there is a set of positions, one of
   each key seen at least, so that every cell says of those what it should
   (`CellIs`): how many keys use it, and the slots and the keys with an odd
   number of them. Twins are the reason why the set is not all positions: a copy
   that cancels its twin out in a cell of two is taken back (`TwinCounted`); a
   copy that meets another key there stays counted, and does no harm.
5. `PeelInv`: what is left in the cells are the positions not yet peeled, in all
   cells but those the stack has used up (`Spent`), which no key left uses. A cell
   with a count of one tells its key and its slot (`LoneKey`). The queue lists
   different cells, not spent, with a count of at most one; a cell that is pushed
   has a count of two before, so that it is not in the queue, and the queue is
   shorter than the array (`QueueInArray`).
6. `AssignInv`: the keys above have their cells and are reported. The key below
   is given a cell no key above uses (`StackInv`), and the exclusive or of its
   three cells is then its fingerprint (`XorOfThree`). When the stack is through,
   all keys are reported: this is `BuiltInv`.

What the theorems take from the model and not from the code is what section 2
says of hashes: a seed gives different keys different hashes, none is 0, and the
exclusive or of the hashes in a cell tells which keys are there an odd number of
times.

The proof asked for two changes of form in the model: `Xor` is a function of
pairs, of which the prover can be shown that it exists (`XorExists`), and an
ascending list is defined by ranks (`Ascending`), as the library's is by a sort.

### The shim and the Krassovsky filter

`StagingInv`: a filter there is has its one array; a populated filter reports
what is staged; what was added is staged. An insert after a query first discards
the filter, and this is what keeps the second part: no other step stages into a
filter that is built. The steps of MemberPromise are read off call by call
(`StepKept`). The proof required one correction of the model: a crash used to
reset the history variables, a step that the promise does not have; the code
crashes without returning, so the history now stays.

`TableInv` is an invariant of the loop of `mask_table_init`: `cur` counts the
bits of the last complete window of `BITS_PER_MASK` positions, every window
before it is within the bounds, and so is this one. `Slide` may set the next bit
only if the window stays within them, and `WindowMoves` says what a window gains
and loses when it moves by one. A mask read at an offset of a byte and cut is a
window (`EntryIsWindow`, which needs that offset and mask fit a word), and
rotation keeps its size. `FilterInv`: a block contains the masks of what was
added to it. The vector code makes the same masks (`LanesSame`), so that how a
call is cut into batches does not matter.

### The compared filters

`IInv` is `ClassicInv`, `ImpalaInv` and `SizedRight`.

`ClassicInv`: the array has 2^e words and `bit_mask` is one less than its bits
(or bloom_new has not returned), and every position of every hash added is set.
The size is the least power of two that is enough: that is what the loop of
`bloom_new` finds, and why there is none above the top bit of `size_t`. Why the
K positions of a hash differ is number theory: the second hash is odd
(`SecondHash`), so that the distance of two positions, an odd number times less
than 2^m, is no multiple of 2^m (`OddFactor`, `StepsApart`); the sum wraps at
2^64, a multiple of the number of bits, and cutting it there first changes
nothing (`CutTwice`). That K is no more than the bits of one word is needed: the
smallest filter is a word.

A key may be inserted by its bytes and asked for by its hash. `OnePair` is that
the three derivations give a hash the same two; by it an insert of keys adds what
an insert of their hashes would, and a query of keys counts what a query of
their hashes would (`KeysAreHashes`).

`ImpalaInv`: the blocks are the image of what was added, and each query counted
what that image reports. A block index is in the array for every number of
blocks up to 2^32 (`IndexInArray`), the bulk loop stores the image of all its
hashes (`InsertLoop`, by induction on the items), and a test of a block of the
image asks what the reference asks (`ImpalaReports`). `ImageExact` and
`AnswersExact` say nothing above 2^32 blocks, where the product of the index
wraps.

Two sizes too large are part of `SizedRight` as what happens: the sum of the
Impala filter wraps to a single block, the loop of the classic one has no end.

### The hash

WordsProofs proves what is needed of `Pow2`, defined by recursion on the
naturals, and of exclusive or. Induction is done over a set of naturals closed
under successor (`InductionOverSet`, from `LeastNatural`); that a
loop over an array, written as a recursive function, exists and takes the values
its equations say is `LoopExists`, used for the loops of FastHash and of
ImpalaBloom.

`WordTells` is that no step of `fasthash64_var` maps two values to one. A product
with an odd number does not, modulo 2^w (`TimesTells`, from `OddFactor`).
`h ^= h >> s` does not for s >= 1 (`XorShiftTells`: the half of the result is
the result for the half, which by induction tells all bits but the last; the last
is told by the bit s places above it). A word is absorbed by an exclusive or
and a product (`AbsorbTells`). So a difference in one word is in the hash after
it, whatever the words before; equal words after it keep the hashes different
(`AbsorbLoop`); the finish does, too. `LoadTells` is the same of the bytes of a
word or of the tail.

### Only model-checked

* `ReadersReturn` and `PopulateEnds`: liveness is out of the prover's reach.
* `WordsTell` of KeyHash. `WordTells` and `LoadTells` are the steps of it that are
  hard; what TLC adds is that `Fields` and `TailBytes` cut a key into words and a
  tail without leaving out a byte.
* `BytesTell`: the loops of `xxh64` are folds, and the library's theorems about
  folds take an operator as a parameter, which no installed prover can
  instantiate.
* `ZeroHalfSpreads`: that some other key has another hash depends on the values of
  the two constants of `hash16` and on which keys are hashed, so that it is a
  statement about instances.

## 5. Not modelled

See the components of `PROJECT.json` for each. In short:

* `qb_estimate_bits`: floating point, apart from two guards and a product;
* the Rust shims, each of which forwards to a crate that is not in the
  repository;
* the benchmarks, timing and reporting of the harness, the fuzzers and the
  tests: clients. Only the order of their calls is in Comparisons. The SipHash
  of `tools/bench_hash.c` is timed there and used nowhere;
* the two logarithms of the fuse filter's sizes, for which any result of the
  right kind stands; how likely it is that a seed lets keys peel, and the rate
  of false positives of any filter;
* running out of memory in the classic, Impala and Krassovsky filters, whose
  code does not look; first calls of the Krassovsky `bloom_new` from two threads
  at once, which the interface does not offer;
* alignment, prefetching and timing.

Unsynchronized writers are
outside the contract of `quickbloom.h:17-19`: the model has the lock, and the
mutant without it loses bits.

## 6. Disagreements with the documentation

* **`qb_new` near the top of `size_t`** (`quickbloom.c:137`, run capacity_wrap).
  `nbits + 255` wraps for the last 255 sizes. The number of blocks becomes 0,
  then 1, and the caller gets a filter of 256 bits, where the comment at
  `:133-134` promises NULL for what exceeds the cap. Every smaller size above
  the cap does get NULL.
* **`qb_deserialize` with a raised limit** (`:344`, `:360`, run
  deserialize_override). `:319-321` offers the override of
  `QB_DESERIALIZE_MAX_BYTES`; the cap on the number of blocks, which `:127-131`
  says keeps the shift count in [1, 32], is checked by `qb_new` alone. From 2^32
  blocks on the shift count is out of range. The default limit keeps it in.

* **`built` of the fuse shim** (`bloom_xorfuse.c:104`, run xorfuse_built). The
  comment at `:84` says "1 once binary_fuse8_populate has succeeded"; `build`
  sets it whatever `binary_fuse8_allocate` and `binary_fuse8_populate` returned.
  After a populate that gave up, queries read an array of zeros and miss keys
  until the next insert throws it away.
* **`hash16` of the comparison filters** (`bloom_xorfuse.c:37`, run shim_hash). The
  comment before it says "Same 16-byte fast hash quickbloom uses", and
  `bloom_classic.c:5` says the same of its copy. `quickbloom.c:49-50` mixes two
  constants in first; the copies do not, and give all keys with a zero half the
  hash 0.

## 7. Plan

Done: the modules of section 2, in the order in which they are listed.

Theorems left: a statement of `WordsTell` for every key, by `WordTells` and
`LoadTells` and a lemma that two keys with the same `Absorbs` are the same key.

Next models: `qb_estimate_bits` as the order of its guards, if a use for it is
found; unsynchronized initialisation of the Krassovsky table, should its callers
get threads.
