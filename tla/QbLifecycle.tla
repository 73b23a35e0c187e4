---------------------------- MODULE QbLifecycle ----------------------------
(***************************************************************************)
(* The life of filters: qb_new, qb_free, qb_serialize and qb_deserialize   *)
(* of src/quickbloom.c over an allocator that may refuse and that hands    *)
(* out memory with anything in it.  A constructor is a sequence of steps,  *)
(* and the constructors of different handles interleave.  The insertions   *)
(* of module QuickBloom are one step here.                                 *)
(*                                                                         *)
(* A client keeps its filters in Handles and the bytes it writes or        *)
(* receives in Buffers; it uses a handle only once its constructor has     *)
(* returned a filter, and leaves a buffer alone while a qb_deserialize     *)
(* reads it.                                                               *)
(***************************************************************************)
EXTENDS SbbfGeometry

CONSTANTS
  Handles,
  Buffers,
  Addresses,         \* where posix_memalign can place storage
  NoAddress,
  NoBuffer,
  NewSizes,          \* the arguments of qb_new
  ForeignSizes,      \* lengths of byte strings the client gets from elsewhere
  Inserted,          \* the hashes that get inserted, here or elsewhere
  Junk,              \* what a block of fresh memory may hold
  BlockBytes,        \* SBBF_BLOCK_BYTES
  QB_DESERIALIZE_MAX_BYTES

ASSUME LifecycleAssumption ==
  /\ NoAddress \notin Addresses
  /\ NoBuffer \notin Buffers
  /\ NewSizes \subseteq Size
  /\ ForeignSizes \subseteq Size
  /\ Inserted \subseteq Hash
  /\ Junk \subseteq [Lanes -> Word]
  /\ BlockBytes \in Nat \ {0}
  /\ QB_DESERIALIZE_MAX_BYTES \in Size
  /\ QB_MAX_NBLOCKS * BlockBytes \in Size

VARIABLES
  allocated,  \* the addresses whose storage is allocated
  memory,     \* address -> the blocks stored there, none when it is free
  headers,    \* the handles whose bloom_t is allocated
  filter,     \* handle -> the fields of its bloom_t
  pc,         \* handle -> "null", "header", "storage", "fill" or "live"
  ctor,       \* handle -> the constructor call that is running or was last
  failed,     \* handle -> an allocation of that call failed
  buffer,     \* buffer -> the bytes in it
  inserted,   \* handle -> the hashes its bits stand for
  origin      \* buffer -> the hashes its bits stand for

vars == <<allocated, memory, headers, filter, pc, ctor, failed, buffer,
          inserted, origin>>

Zero == [l \in Lanes |-> {}]
NoFilter == [nblocks_mask |-> 0, idx_shift |-> 0, bits |-> NoAddress]
Empty == [nbytes |-> 0, blocks |-> <<>>]
NoCall == [fn |-> "none", size |-> 0, source |-> NoBuffer, nblocks |-> 0]

NBlocksOf(h) == filter[h].nblocks_mask + 1
StorageOf(h) == memory[filter[h].bits]

Init ==
  /\ allocated = {}
  /\ memory = [x \in Addresses |-> <<>>]
  /\ headers = {}
  /\ filter = [h \in Handles |-> NoFilter]
  /\ pc = [h \in Handles |-> "null"]
  /\ ctor = [h \in Handles |-> NoCall]
  /\ failed = [h \in Handles |-> FALSE]
  /\ buffer = [w \in Buffers |-> Empty]
  /\ inserted = [h \in Handles |-> {}]
  /\ origin = [w \in Buffers |-> {}]

(***************************************************************************)
(* The constructors.  Their checks are the first step; a call they refuse  *)
(* returns NULL there.                                                     *)
(***************************************************************************)
Construct(h, c, refused) ==
  /\ pc[h] = "null"
  /\ ctor' = [ctor EXCEPT ![h] = c]
  /\ failed' = [failed EXCEPT ![h] = FALSE]
  /\ pc' = [pc EXCEPT ![h] = IF refused THEN "null" ELSE "header"]
  /\ UNCHANGED <<allocated, memory, headers, filter, buffer, inserted, origin>>

\* Mutation: the cap itself refused.
qb_new_below_cap(h, nbits) ==
  LET refused == BlocksFor(nbits) >= QB_MAX_NBLOCKS IN
  Construct(h, [fn |-> "qb_new", size |-> nbits, source |-> NoBuffer,
                nblocks |-> IF refused THEN 0 ELSE RoundedBlocks(nbits)], refused)

qb_new(h, nbits) ==
  LET refused == BlocksFor(nbits) > QB_MAX_NBLOCKS IN
  Construct(h, [fn |-> "qb_new", size |-> nbits, source |-> NoBuffer,
                nblocks |-> IF refused THEN 0 ELSE RoundedBlocks(nbits)], refused)

\* (n & (n - 1)) == 0, which zero satisfies too.
IsPowerOfTwo(n) == n = 0 \/ \E k \in 0 .. SizeBits : n = Pow2[k]

\* Mutation: any number of blocks accepted.
MalformedAnyCount(nbytes) ==
  \/ nbytes = 0
  \/ nbytes > QB_DESERIALIZE_MAX_BYTES
  \/ nbytes % BlockBytes # 0

Malformed(nbytes) ==
  \/ nbytes = 0
  \/ nbytes > QB_DESERIALIZE_MAX_BYTES
  \/ nbytes % BlockBytes # 0
  \/ ~ IsPowerOfTwo(nbytes \div BlockBytes)

qb_deserialize(h, w) ==
  LET nbytes == buffer[w].nbytes IN
  Construct(h, [fn |-> "qb_deserialize", size |-> nbytes, source |-> w,
                nblocks |-> nbytes \div BlockBytes], Malformed(nbytes))

AllocHeader(h) ==
  /\ pc[h] = "header"
  /\ \/ /\ headers' = headers \cup {h}
        /\ pc' = [pc EXCEPT ![h] = "storage"]
        /\ UNCHANGED failed
     \/ /\ pc' = [pc EXCEPT ![h] = "null"]
        /\ failed' = [failed EXCEPT ![h] = TRUE]
        /\ UNCHANGED headers
  /\ UNCHANGED <<allocated, memory, filter, ctor, buffer, inserted, origin>>

\* Mutation: a failure of posix_memalign that keeps the header.
AllocStorageLeaky(h) ==
  /\ pc[h] = "storage"
  /\ \/ \E x \in Addresses \ allocated, junk \in Junk :
          /\ allocated' = allocated \cup {x}
          /\ memory' = [memory EXCEPT ![x] =
                          [b \in 0 .. ctor[h].nblocks - 1 |-> junk]]
          /\ filter' = [filter EXCEPT ![h].bits = x]
          /\ pc' = [pc EXCEPT ![h] = "fill"]
          /\ UNCHANGED <<headers, failed>>
     \/ /\ pc' = [pc EXCEPT ![h] = "null"]
        /\ failed' = [failed EXCEPT ![h] = TRUE]
        /\ UNCHANGED <<allocated, memory, filter, headers>>
  /\ UNCHANGED <<ctor, buffer, inserted, origin>>

\* A failure of posix_memalign gives the header back.
AllocStorage(h) ==
  /\ pc[h] = "storage"
  /\ \/ \E x \in Addresses \ allocated, junk \in Junk :
          /\ allocated' = allocated \cup {x}
          /\ memory' = [memory EXCEPT ![x] =
                          [b \in 0 .. ctor[h].nblocks - 1 |-> junk]]
          /\ filter' = [filter EXCEPT ![h].bits = x]
          /\ pc' = [pc EXCEPT ![h] = "fill"]
          /\ UNCHANGED <<headers, failed>>
     \/ /\ headers' = headers \ {h}
        /\ pc' = [pc EXCEPT ![h] = "null"]
        /\ failed' = [failed EXCEPT ![h] = TRUE]
        /\ UNCHANGED <<allocated, memory, filter>>
  /\ UNCHANGED <<ctor, buffer, inserted, origin>>

\* Mutation: no memset.
FillUncleared(h) ==
  LET n == ctor[h].nblocks
      w == ctor[h].source
      copied == ctor[h].fn = "qb_deserialize"
  IN
  /\ pc[h] = "fill"
  /\ memory' = IF copied THEN [memory EXCEPT ![filter[h].bits] = buffer[w].blocks]
               ELSE memory
  /\ filter' = [filter EXCEPT ![h].nblocks_mask = n - 1,
                              ![h].idx_shift = IdxShift(n)]
  /\ inserted' = [inserted EXCEPT ![h] = IF copied THEN origin[w] ELSE {}]
  /\ pc' = [pc EXCEPT ![h] = "live"]
  /\ UNCHANGED <<allocated, headers, ctor, failed, buffer, origin>>

\* memset or memcpy, then the fields, and the filter is returned.
Fill(h) ==
  LET n == ctor[h].nblocks
      w == ctor[h].source
      copied == ctor[h].fn = "qb_deserialize"
  IN
  /\ pc[h] = "fill"
  /\ memory' = [memory EXCEPT ![filter[h].bits] =
                  IF copied THEN buffer[w].blocks ELSE [b \in 0 .. n - 1 |-> Zero]]
  /\ filter' = [filter EXCEPT ![h].nblocks_mask = n - 1,
                              ![h].idx_shift = IdxShift(n)]
  /\ inserted' = [inserted EXCEPT ![h] = IF copied THEN origin[w] ELSE {}]
  /\ pc' = [pc EXCEPT ![h] = "live"]
  /\ UNCHANGED <<allocated, headers, ctor, failed, buffer, origin>>

qb_free(h) ==
  /\ pc[h] = "live"
  /\ allocated' = allocated \ {filter[h].bits}
  /\ memory' = [memory EXCEPT ![filter[h].bits] = <<>>]
  /\ headers' = headers \ {h}
  /\ filter' = [filter EXCEPT ![h] = NoFilter]
  /\ pc' = [pc EXCEPT ![h] = "null"]
  /\ ctor' = [ctor EXCEPT ![h] = NoCall]
  /\ inserted' = [inserted EXCEPT ![h] = {}]
  /\ UNCHANGED <<failed, buffer, origin>>

(***************************************************************************)
(* The client's use of a filter and of its buffers.                        *)
(***************************************************************************)
qb_insert_prehash(h, x) ==
  LET blk == block_for(filter[h].idx_shift, x)
      m == mask_for(x)
  IN
  /\ pc[h] = "live"
  /\ memory' = [memory EXCEPT ![filter[h].bits][blk] =
                  [l \in Lanes |-> @[l] \cup m[l]]]
  /\ inserted' = [inserted EXCEPT ![h] = @ \cup {x}]
  /\ UNCHANGED <<allocated, headers, filter, pc, ctor, failed, buffer, origin>>

BeingRead(w) ==
  \E h \in Handles :
    /\ pc[h] \in {"header", "storage", "fill"}
    /\ ctor[h].fn = "qb_deserialize"
    /\ ctor[h].source = w

qb_serialized_size(h) == (filter[h].nblocks_mask + 1) * BlockBytes

qb_serialize(h, w) ==
  /\ pc[h] = "live"
  /\ ~ BeingRead(w)
  /\ buffer' = [buffer EXCEPT ![w] =
                  [nbytes |-> qb_serialized_size(h),
                   blocks |-> [b \in 0 .. NBlocksOf(h) - 1 |-> StorageOf(h)[b]]]]
  /\ origin' = [origin EXCEPT ![w] = inserted[h]]
  /\ UNCHANGED <<allocated, memory, headers, filter, pc, ctor, failed, inserted>>

\* Bytes from a file or from another program.  They have any length; where
\* that is the length of a filter they are the filter some SBBF writer made of
\* the hashes S.
ReceiveBytes(w, nbytes, S) ==
  LET n == nbytes \div BlockBytes IN
  /\ ~ BeingRead(w)
  /\ buffer' = [buffer EXCEPT ![w] =
                  [nbytes |-> nbytes,
                   blocks |-> [b \in 0 .. n - 1 |-> BlockImage(n, S, b)]]]
  /\ origin' = [origin EXCEPT ![w] = S]
  /\ UNCHANGED <<allocated, memory, headers, filter, pc, ctor, failed, inserted>>

Next ==
  \/ \E h \in Handles :
       \/ \E nbits \in NewSizes : qb_new(h, nbits)
       \/ AllocHeader(h)
       \/ AllocStorage(h)
       \/ Fill(h)
       \/ qb_free(h)
       \/ \E x \in Inserted : qb_insert_prehash(h, x)
       \/ \E w \in Buffers : qb_deserialize(h, w) \/ qb_serialize(h, w)
  \/ \E w \in Buffers, nbytes \in ForeignSizes, S \in SUBSET Inserted :
       ReceiveBytes(w, nbytes, S)

Spec == Init /\ [][Next]_vars

-----------------------------------------------------------------------------
Live(h) == pc[h] = "live"
HasStorage(h) == pc[h] \in {"fill", "live"}

\* The variables keep their types.
TypeOK ==
  /\ allocated \subseteq Addresses
  /\ headers \subseteq Handles
  /\ pc \in [Handles -> {"null", "header", "storage", "fill", "live"}]
  /\ \A h \in Handles :
       /\ filter[h].nblocks_mask \in Size
       /\ filter[h].idx_shift \in 0 .. Pow2[HalfBits] - 1
       /\ filter[h].bits \in Addresses \cup {NoAddress}
       /\ ctor[h].fn \in {"none", "qb_new", "qb_deserialize"}
       /\ ctor[h].source \in Buffers \cup {NoBuffer}
       /\ ctor[h].size \in Size
       /\ inserted[h] \subseteq Hash
  /\ \A x \in allocated : \A b \in DOMAIN memory[x] : memory[x][b] \in [Lanes -> Word]
  /\ \A w \in Buffers : buffer[w].nbytes \in Size /\ origin[w] \subseteq Hash

\* Every allocation has one owner: a constructor that fails half way gives
\* back what it had got, qb_free gives back both pieces, and no two filters
\* share storage.
AllocationsOwned ==
  /\ headers = {h \in Handles : pc[h] \in {"storage", "fill", "live"}}
  /\ allocated = {filter[h].bits : h \in {x \in Handles : HasStorage(x)}}
  /\ \A g, h \in Handles :
       HasStorage(g) /\ HasStorage(h) /\ filter[g].bits = filter[h].bits => g = h

\* Whatever the size asked for or the bytes read, the index of every hash is
\* the Parquet index, inside the storage, and no block is out of reach of all
\* hashes (src/quickbloom.c:107-112, 125-130).
IndexCoversStorage ==
  \A h \in Handles : Live(h) =>
    /\ DOMAIN StorageOf(h) = 0 .. NBlocksOf(h) - 1
    /\ \A x \in Hash : block_for(filter[h].idx_shift, x) = Fastrange(NBlocksOf(h), x)
    /\ {block_for(filter[h].idx_shift, x) : x \in Hash} = DOMAIN StorageOf(h)

\* A filter holds the image of the hashes inserted into it, in this process or
\* before it was serialized, and not a bit more: nothing of what its memory
\* held before, nothing from a buffer or another filter changed afterwards.
ImageExact ==
  \A h \in Handles : Live(h) =>
    \A b \in 0 .. NBlocksOf(h) - 1 :
      StorageOf(h)[b] = BlockImage(NBlocksOf(h), inserted[h], b)

\* A constructor returns NULL only for lack of memory, for a size beyond the
\* cap (src/quickbloom.c:133-134), or for bytes that are not a filter of at
\* most QB_DESERIALIZE_MAX_BYTES (src/quickbloom.h:87-91).
RefusedForCause ==
  \A h \in Handles : pc[h] = "null" /\ ~ failed[h] =>
    /\ ctor[h].fn = "qb_new" => ctor[h].size > QB_MAX_NBLOCKS * BlockBits
    /\ ctor[h].fn = "qb_deserialize" =>
         \A k \in 0 .. SizeBits :
           Pow2[k] * BlockBytes <= QB_DESERIALIZE_MAX_BYTES =>
             ctor[h].size # Pow2[k] * BlockBytes

\* src/quickbloom.h:66-67: qb_new rounds the size up to the next power of two
\* of blocks, no further, and not beyond the cap, which it compares before it
\* rounds (src/quickbloom.c:137-144); sizes within a block of the top of size_t,
\* where its addition wraps, are left out (see CapacityHonoured).
CapacityTight ==
  \A h \in Handles :
    Live(h) /\ ctor[h].fn = "qb_new" /\ ctor[h].size <= Pow2[SizeBits] - BlockBits =>
      \E k \in 0 .. MaxBlocksLog :
        /\ NBlocksOf(h) = Pow2[k]
        /\ ctor[h].size <= Pow2[k] * BlockBits
        /\ k > 0 => ctor[h].size > Pow2[k - 1] * BlockBits

\* src/quickbloom.c:133-134: "qb_new returns NULL on allocation failure or if
\* nbits is so large that the resulting filter would exceed QB_MAX_NBLOCKS";
\* so a filter it does return has the bits that were asked for.
CapacityHonoured ==
  \A h \in Handles :
    Live(h) /\ ctor[h].fn = "qb_new" => ctor[h].size <= NBlocksOf(h) * BlockBits

\* src/quickbloom.c:127-131: the cap on the blocks keeps "block_for's
\* right-shift count in [1, 32]".
ShiftInRange ==
  \A h \in Handles : Live(h) => filter[h].idx_shift \in 1 .. HalfBits
=============================================================================
