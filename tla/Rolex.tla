-------------------------------- MODULE Rolex --------------------------------
(***************************************************************************)
(* The engine's training and its upper index (src/rolex/rolex.hpp,         *)
(* src/rolex/model_allocator.hpp): Rolex::train cuts the sorted training   *)
(* keys into PLR segments, append_model builds one submodel per segment    *)
(* (taking its leaves from the leaf arena), writes the submodel's blob     *)
(* into the model region and its pivot key and offset into the upper       *)
(* index; model_for_key routes a key to a submodel.                        *)
(*                                                                         *)
(*   i, pos, kbegin  the loop index, the position in the open segment and  *)
(*                   k_iter as an offset into TrainKeys                    *)
(*   model_keys      the engine's pivot vector                             *)
(*   models          per submodel: first key index, size, blob offset      *)
(*   used            the leaf arena's used counter                         *)
(*   cur_alloc_sz, upper_alloc_num   the ModelAllocator's counters         *)
(*   mem             the upper region of the model arena, one value per    *)
(*                   8-byte cell, by byte offset                           *)
(*   phase           "train", "done", or "crashed" (an ASSERT fired)       *)
(*   blobs           the submodel blobs: offset -> the capacity it holds   *)
(*   replica         the index as Rolex::deserialize (a restarted memory   *)
(*                   node) and a compute node's LearnedCache read it back  *)
(*                                                                         *)
(* The leaves' contents and the submodels' slopes are left out: SubModel   *)
(* models them.  Keys are u64 (sizeof(K) = 8), as the server uses.         *)
(***************************************************************************)
EXTENDS RolexUtil, Integers, Sequences, FiniteSets

CONSTANTS
  TrainKeys,     \* the sorted training keys
  N,             \* leaf capacity
  SynMax,        \* kSynonymMax
  LeafCapacity,  \* the leaf arena's preallocated leaves
  UpperBytes,    \* kUpperModel
  TotalBytes,    \* the model region's total_sz
  Probes         \* keys routed after training

ASSUME Len(TrainKeys) > 0 /\ \A q \in 1 .. Len(TrainKeys) - 1 : TrainKeys[q] < TrainKeys[q + 1]
ASSUME UpperBytes % 16 = 0 /\ TotalBytes > UpperBytes

VARIABLES i, pos, kbegin, model_keys, models, used, cur_alloc_sz, upper_alloc_num, mem, phase,
          blobs, replica

rvars == <<i, pos, kbegin, model_keys, models, used, cur_alloc_sz, upper_alloc_num, mem, phase,
           blobs, replica>>

SizeofK == 8
Cells   == {8 * c : c \in 0 .. UpperBytes \div 8 - 1}

\* The ModelAllocator constructor's bound on upper entries.
max_upper_num ==
  LET a == (UpperBytes \div 2 - 8) \div SizeofK
      b == (UpperBytes \div 2) \div 8
  IN IF a < b THEN a ELSE b

\* The cells of upper entry idx: its key and its submodel offset.
get_upper_noheader(idx) == [key |-> SizeofK * idx, off |-> UpperBytes \div 2 + 8 * idx]
get_upper(idx) == [key |-> 8 + SizeofK * idx, off |-> UpperBytes \div 2 + 8 * idx]

\* OptimalPLR::add_point with the corridor Epsilon - 1: a segment of one or
\* two points always fits a line; whether a longer one does depends on the
\* keys' geometry, which is left open.  np is the number of points the
\* segment already holds.
PLRAccepts(np) == IF np <= 1 THEN {TRUE} ELSE BOOLEAN

\* The leaves the SubModel constructor fetches for size keys.
LeavesFor(size) == (size + N - 1) \div N

\* The bytes alloc_submodel is asked for: the i32 length, then slope,
\* intercept, capacity, the i32 table size and the leaf table (an i32 entry
\* count, a u64 per slot and kSynonymMax u64 synonym entries).
BlobBytes(size) == 4 + 8 + 8 + 8 + 4 + 4 + 8 * LeavesFor(size) + 8 * SynMax

\* fetch_new_leaf's ASSERT(num < allocated_num()), for the leaves the
\* SubModel constructor takes one after the other.
LeafArenaFitsAlways(size) == TRUE
LeafArenaFits(size) == used + LeavesFor(size) <= LeafCapacity

\* alloc_upper's guard: it ASSERTs only once upper_alloc_num exceeds
\* max_upper_num, so entry max_upper_num itself is handed out.
alloc_upper_ok == upper_alloc_num <= max_upper_num

\* append_model for the segment [kbegin, kbegin + size).  The SubModel
\* constructor's fetch_new_leaf, alloc_submodel and alloc_upper each ASSERT
\* when their region is used up.  The last segment also writes the total.
AppendModel(size, last) ==
  LET a     == upper_alloc_num
      off   == cur_alloc_sz
      key   == TrainKeys[kbegin + size]
      cells == get_upper(a)
  IN \/ /\ \/ ~LeafArenaFits(size)
           \/ cur_alloc_sz + BlobBytes(size) > TotalBytes
           \/ ~alloc_upper_ok
        /\ phase' = "crashed"
        /\ UNCHANGED <<model_keys, models, used, cur_alloc_sz, upper_alloc_num, mem, blobs>>
     \/ /\ LeafArenaFits(size)
        /\ cur_alloc_sz + BlobBytes(size) <= TotalBytes
        /\ alloc_upper_ok
        /\ model_keys' = Append(model_keys, key)
        /\ models' = Append(models, [begin |-> kbegin, size |-> size, off |-> off])
        /\ used' = used + LeavesFor(size)
        /\ cur_alloc_sz' = off + BlobBytes(size)
        /\ upper_alloc_num' = a + 1
        /\ mem' = IF last
                  THEN [mem EXCEPT ![cells.key] = key, ![cells.off] = off, ![0] = a + 1]
                  ELSE [mem EXCEPT ![cells.key] = key, ![cells.off] = off]
        /\ blobs' = [o \in DOMAIN blobs \cup {off} |-> IF o = off THEN size ELSE blobs[o]]
        /\ phase' = IF last THEN "done" ELSE "train"

Readers == {"memnode", "cache"}
NoIndex == [keys |-> <<>>, offs |-> <<>>, caps |-> <<>>]

\* The ModelAllocator constructor (the total cell zeroed) and train's entry.
Init ==
  /\ i = 1 /\ pos = 0 /\ kbegin = 0
  /\ model_keys = <<>> /\ models = <<>>
  /\ used = 0
  /\ cur_alloc_sz = UpperBytes /\ upper_alloc_num = 0
  /\ mem = [c \in Cells |-> 0]
  /\ phase = "train"
  /\ blobs = [o \in {} |-> 0]
  /\ replica = [r \in Readers |-> NoIndex]

\* One round of the loop: the next key joins the open segment, or closes
\* it (append_model with pos points) and opens the next one.
TrainStep ==
  /\ phase = "train" /\ i < Len(TrainKeys)
  /\ i' = i + 1
  /\ \E ok \in PLRAccepts(pos + 1) :
       \/ /\ ok
          /\ pos' = pos + 1
          /\ UNCHANGED <<kbegin, model_keys, models, used, cur_alloc_sz, upper_alloc_num, mem, phase,
                         blobs>>
       \/ /\ ~ok
          /\ AppendModel(pos + 1, FALSE)
          /\ kbegin' = kbegin + pos + 1
          /\ pos' = 0
  /\ UNCHANGED replica

\* After the loop: the open segment is flushed with ++pos keys and the
\* number of models is written into the first cell.
TrainFinish ==
  /\ phase = "train" /\ i = Len(TrainKeys)
  /\ AppendModel(pos + 1, TRUE)
  /\ UNCHANGED <<i, pos, kbegin, replica>>

\* Reading the index back: the total from the first cell, then per entry
\* the key and the offset cells, then the i32 length and the body of the
\* blob at that offset.  A blob read at an offset train never wrote yields
\* garbage (-1).
ReadUpper ==
  LET total == mem[0]
      offs  == [a \in 1 .. total |-> mem[get_upper(a - 1).off]]
  IN [keys |-> [a \in 1 .. total |-> mem[get_upper(a - 1).key]],
      offs |-> offs,
      caps |-> [a \in 1 .. total |-> IF offs[a] \in DOMAIN blobs THEN blobs[offs[a]] ELSE -1]]

\* Rolex::deserialize on a memory node restarted over the model region.
Deserialize ==
  /\ phase = "done" /\ replica["memnode"] = NoIndex
  /\ replica' = [replica EXCEPT !["memnode"] = ReadUpper]
  /\ UNCHANGED <<i, pos, kbegin, model_keys, models, used, cur_alloc_sz, upper_alloc_num, mem,
                 phase, blobs>>

\* LearnedCache::read_remote_index on a compute node: one RDMA read of the
\* total, one of the key array from byte 8, one of the offset array from
\* kUpperModel/2, then each blob.
ReadRemoteIndex ==
  /\ phase = "done" /\ replica["cache"] = NoIndex
  /\ replica' = [replica EXCEPT !["cache"] = ReadUpper]
  /\ UNCHANGED <<i, pos, kbegin, model_keys, models, used, cur_alloc_sz, upper_alloc_num, mem,
                 phase, blobs>>

Next == TrainStep \/ TrainFinish \/ Deserialize \/ ReadRemoteIndex

Spec == Init /\ [][Next]_rvars

\* model_for_key: the branchless search, clamped to the last submodel.
\* With one submodel the code calls bsr(0), which is undefined; whatever
\* index results, the clamp (an int compared as size_t) yields 0.
model_for_key_unclamped(k) ==
  IF Len(model_keys) = 1 THEN 0
  ELSE binary_search_branchless(model_keys, Len(model_keys), k)
model_for_key(k) ==
  LET idx == IF Len(model_keys) = 1 THEN 0
             ELSE binary_search_branchless(model_keys, Len(model_keys), k)
  IN IF idx < Len(models) THEN idx ELSE Len(models) - 1

\* ------------------------------------------------------------------------
\* Properties.

TypeOK ==
  /\ phase \in {"train", "done", "crashed"}
  /\ i \in 1 .. Len(TrainKeys) /\ pos \in 0 .. Len(TrainKeys) /\ kbegin \in 0 .. Len(TrainKeys)
  /\ used \in 0 .. LeafCapacity /\ upper_alloc_num \in 0 .. max_upper_num + 1
  /\ mem \in [Cells -> Nat]
  /\ replica \in [Readers -> [keys : Seq(Nat), offs : Seq(Nat), caps : Seq(Int)]]

\* Spec invariant 4 and section 4.5: once training is done, the submodels
\* partition the training keys in order, and model_for_key sends every
\* training key to the submodel that holds it and every other key to the
\* submodel whose pivot range covers it (the last one above all pivots).
\* It rests on train's pos/k_iter/++pos arithmetic, append_model's pivot
\* (keys_begin + size - 1) and the search with its clamp together.
RoutingConsistent ==
  phase = "done" =>
    LET M == Len(models)
        Holds(m, j) == models[m + 1].begin < j /\ j <= models[m + 1].begin + models[m + 1].size
    IN /\ models[1].begin = 0
       /\ models[M].begin + models[M].size = Len(TrainKeys)
       /\ \A m \in 1 .. M - 1 : models[m + 1].begin = models[m].begin + models[m].size
       /\ \A j \in 1 .. Len(TrainKeys) : Holds(model_for_key(TrainKeys[j]), j)
       /\ \A k \in Probes :
            LET m == model_for_key(k)
            IN /\ m \in 0 .. M - 1
               /\ m = 0 \/ model_keys[m] < k
               /\ m = M - 1 \/ k <= model_keys[m + 1]

\* Spec 4.5: model_for_key's branchless search returns the first pivot
\* index whose pivot is >= key (LowerBound), or n, on every pivot vector
\* train builds (lengths 2 .. 5 here, powers of two and not, so the first
\* probe's alignment to the end matters) and for every probe key: below,
\* between, equal to and above the pivots, where the code reads arr[n].
SearchIsLowerBound ==
  Len(model_keys) >= 2 =>
    \A k \in Probes \cup {TrainKeys[j] : j \in 1 .. Len(TrainKeys)} :
      binary_search_branchless(model_keys, Len(model_keys), k) = LowerBound(model_keys, k)

\* Sections 4.5 and 4.7: a restarted memory node and every compute node
\* read back the index train built: the same pivot vector, and at each
\* entry's offset the blob of that submodel.  Only then do the compute
\* nodes route a key to the submodel (and leaves) the memory node used.
\* It rests on alloc_upper, alloc_submodel, the layout of the upper region
\* and the order of the writes of train, read back much later.
ReplicasMatchEngine ==
  \A r \in Readers :
    replica[r] # NoIndex =>
      /\ replica[r].keys = model_keys
      /\ replica[r].caps = [a \in 1 .. Len(models) |-> models[a].size]
=============================================================================
