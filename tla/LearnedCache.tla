---------------------------- MODULE LearnedCache ----------------------------
(***************************************************************************)
(* A compute node's LearnedCache (src/rolex/learned_cache.hpp) beside the  *)
(* memory node's workers of LeafTableConc.  The cache holds the submodels  *)
(* it deserialized from the model region, which train wrote once, so its   *)
(* leaf table is the one of training (ctable).  Its handlers touch the     *)
(* memory node only through one-sided RDMA on the leaf region:            *)
(*                                                                         *)
(*   search  one READ per leaf of get_leaf_addr (the window's primaries),  *)
(*           hi down to lo, each searched as it arrives                    *)
(*   insert  the same READs until a leaf that insertHere accepts; not      *)
(*           full: insert_not_full in the local copy and a WRITE of the    *)
(*           whole leaf back ("fixme: use remote lock"); full: a           *)
(*           FETCH_AND_ADD of 1 on the region's first word (the arena's    *)
(*           used counter) and return false                                *)
(*   search_asyn, insert_asyn  one READ (read_leaves_asyn) into the leaf   *)
(*           buffer, then search or nothing; search_syn is an empty stub   *)
(*                                                                         *)
(* Each RDMA operation is one step; the memory node's plain accesses to    *)
(* the same words are the steps of LeafTableConc, so the two interleave at *)
(* every access.  cn[c] is the handler state of compute coroutine c;       *)
(* watch is a history: the key of its search stayed in present.           *)
(***************************************************************************)
EXTENDS LeafTableConc

CONSTANTS
  CNodes,     \* compute-node coroutines using the cache
  CacheOps,   \* the cache handlers they call
  CacheKeys   \* the keys they call them with

ASSUME CacheOps \subseteq {"search", "insert", "search_asyn", "insert_asyn"}
ASSUME CacheKeys \subseteq Keys

VARIABLES
  ctable,  \* the cache's copy of the leaf table, decoded from its blob
  cn,      \* per coroutine: pc, op, key, val, pos (slot), lo, buf, ok, watch
  lbuf     \* per coroutine: the leaf buffer of get_leaf_buf, leaves 0, 1, ...

cvars == <<vars, ctable, cn, lbuf>>

\* TableEntry {lock:1, leaf_region:7, synonym_leaf:8, leaf_num:48} as the
\* u64 LeafTable::serialize writes and deserialize reads back, lock in the
\* lowest bit.  The lock bit and the region are 0 after train_emplace_back,
\* when the engine serializes.
Encode(e) == 2^8 * e.synonym_leaf + 2^16 * e.leaf_num
Decode(w) == [leaf_num |-> w \div 2^16, synonym_leaf |-> (w \div 2^8) % 2^8]

\* The leaf numbers the handlers read: get_leaf_addr copies table[lo..hi]
\* of the cache's table (the primaries only) and remote_leaf_offsets turns
\* leaf_num into 16 + num * sizeof(leaf_t); the arena's get_leaf uses the
\* same offset, so a leaf number names the same leaf on both sides.
get_leaf_addr(lo, hi) == [q \in lo .. hi |-> ctable[q].leaf_num]

\* The RDMA FETCH_AND_ADD is not bounded by anything in the code; the
\* model stops it once the arena is used up, when the memory node's next
\* fetch_new_leaf aborts anyway.
FaaBound == LeafCapacity

CIdle == [pc |-> "idle", op |-> "none", key |-> 0, val |-> NoVal, pos |-> 0, lo |-> 0,
          buf |-> EmptyLeaf, ok |-> FALSE, watch |-> FALSE]

\* reset_for_leaf keeps the first bytes of the local region for the leaf
\* buffer, which get_leaf_buf hands out from offset 0; read_remote_index
\* has read the index into them before.
LeafBuf == [q \in 0 .. NSlots - 1 |-> EmptyLeaf]

\* The engine's serialize at train time, read back by read_remote_index.
LInit ==
  /\ CInit
  /\ ctable = [q \in DOMAIN table |-> Decode(Encode(table[q]))]
  /\ cn = [c \in CNodes |-> CIdle]
  /\ lbuf = [c \in CNodes |-> LeafBuf]

\* Coroutine c ends its handler with result ok.
CFinish(c, ok) == cn' = [cn EXCEPT ![c] = [CIdle EXCEPT !.op = cn[c].op, !.key = cn[c].key,
                                                        !.ok = ok, !.watch = cn[c].watch]]

\* The cache is called: model_for_key (one submodel here) and predict give
\* the window; the loop starts at its last leaf.
CBegin(c) ==
  /\ cn[c].pc = "idle"
  /\ \E op \in CacheOps, k \in CacheKeys, v \in Vals :
       cn' = [cn EXCEPT ![c] = [CIdle EXCEPT !.op = op, !.key = k, !.val = v,
                                             !.pos = Window(k).hi, !.lo = Window(k).lo,
                                             !.pc = IF op \in {"search", "insert"} THEN "read"
                                                    ELSE "aread",
                                             !.watch = op \in {"search", "search_asyn"}
                                                       /\ k \in present]]
  /\ UNCHANGED <<vars, ctable, lbuf>>

\* The leaf the RDMA READ at cn[c].pos returns, and the loop's step to the
\* next lower leaf of the window (or its return false after the lowest).
ReadLeaf(c) == leaves[get_leaf_addr(cn[c].lo, Window(cn[c].key).hi)[cn[c].pos]]
Back(c) == IF cn[c].pos = cn[c].lo THEN CFinish(c, FALSE)
           ELSE cn' = [cn EXCEPT ![c].pos = @ - 1]

\* search: one READ and wait_one_comp, then leaf->search on the copy; it
\* returns at the first leaf containing the key.
CSearchRead(c) ==
  /\ cn[c].pc = "read" /\ cn[c].op = "search"
  /\ IF contain(ReadLeaf(c), cn[c].key) THEN CFinish(c, TRUE) ELSE Back(c)
  /\ UNCHANGED <<vars, ctable, lbuf>>

\* insert: the same READs until a leaf insertHere accepts.  Not full: the
\* key goes into the local copy, to be written back.  Full: a FETCH_AND_ADD
\* of 1 on the region's first word and return false.
CInsertRead(c) ==
  LET l == ReadLeaf(c)
  IN /\ cn[c].pc = "read" /\ cn[c].op = "insert"
     /\ CASE ~insertHere(l, cn[c].key) ->
               Back(c) /\ UNCHANGED vars
          [] ~isfull(l) ->
               /\ cn' = [cn EXCEPT ![c].pc = "write",
                                   ![c].buf = insert_not_full(l, cn[c].key, cn[c].val)]
               /\ UNCHANGED vars
          [] OTHER ->
               /\ used < FaaBound
               /\ used' = used + 1
               /\ CFinish(c, FALSE)
               /\ UNCHANGED <<leaves, table, SynonymTable, crashed, out, csLocks, lockBit, th,
                              present>>
     /\ UNCHANGED <<ctable, lbuf>>

\* The RDMA WRITE of the whole local copy over the remote leaf.
CWrite(c) ==
  LET ln == ctable[cn[c].pos].leaf_num
  IN /\ cn[c].pc = "write"
     /\ leaves' = [leaves EXCEPT ![ln] = cn[c].buf]
     /\ present' = present \cup {cn[c].key}
     /\ CFinish(c, TRUE)
     /\ UNCHANGED <<used, table, SynonymTable, crashed, out, csLocks, lockBit, th, ctable, lbuf>>

\* read_leaves_asyn posts one RDMA READ, of leaves[0] (slot lo) into the
\* first leaf of the buffer, whatever the number of leaves.  The buffer's
\* other leaves keep what was there before: the bytes read_remote_index
\* left in the same region, which decode as a leaf whose first key is
\* above the keys modelled (EmptyLeaf).
read_leaves_asyn(c) ==
  [lbuf[c] EXCEPT ![0] = leaves[get_leaf_addr(cn[c].lo, Window(cn[c].key).hi)[cn[c].lo]]]

\* search_asyn: after the coroutine resumes it searches the buffer's
\* leaves 0 .. hi - lo in order.
CSearchAsyn(c) ==
  LET b == read_leaves_asyn(c)
  IN /\ cn[c].pc = "aread" /\ cn[c].op = "search_asyn"
     /\ lbuf' = [lbuf EXCEPT ![c] = b]
     /\ CFinish(c, \E q \in cn[c].lo .. Window(cn[c].key).hi : contain(b[q - cn[c].lo], cn[c].key))
     /\ UNCHANGED <<vars, ctable>>

\* insert_asyn: the same READ; the loop over the buffer's leaves tests
\* insertHere and does nothing with it; it returns false.
CInsertAsyn(c) ==
  /\ cn[c].pc = "aread" /\ cn[c].op = "insert_asyn"
  /\ lbuf' = [lbuf EXCEPT ![c] = read_leaves_asyn(c)]
  /\ CFinish(c, FALSE)
  /\ UNCHANGED <<vars, ctable>>

\* A memory-node step; a remove that took a key out ends the watch of the
\* cache searches for it.
MemStep(t) ==
  /\ Step(t)
  /\ UNCHANGED <<ctable, lbuf>>
  /\ cn' = [c \in CNodes |-> [cn[c] EXCEPT !.watch = @ /\ cn[c].key \in present']]

CacheStep(c) ==
  \/ CBegin(c) \/ CSearchRead(c) \/ CInsertRead(c) \/ CWrite(c) \/ CSearchAsyn(c)
  \/ CInsertAsyn(c)

LNext ==
  /\ ~crashed
  /\ \/ \E t \in Threads : MemStep(t)
     \/ \E c \in CNodes : CacheStep(c)

LSpec == LInit /\ [][LNext]_cvars

\* The memory-node workers are OS threads polling their own RPC queues: a
\* thread that can take a step is eventually scheduled.  Nothing makes the
\* SpinLocks or the lock_leaf loop fair between threads, so a waiting
\* thread gets no more than that (weak fairness, per thread).  A compute
\* coroutine waits for each completion with wait_one_comp and otherwise
\* runs on its own thread, so it too takes a step it can take.  An ASSERT
\* that fired ends every thread.
LFairSpec ==
  /\ LSpec
  /\ \A t \in Threads : WF_cvars(~crashed /\ MemStep(t))
  /\ \A c \in CNodes : WF_cvars(~crashed /\ CacheStep(c))

\* ------------------------------------------------------------------------
\* Properties.

CacheTypeOK ==
  /\ ConcTypeOK
  /\ ctable \in [DOMAIN table -> [leaf_num : LeafNums, synonym_leaf : SynIdx]]
  /\ \A c \in CNodes : cn[c].pc \in {"idle", "read", "write", "aread"}
                      /\ cn[c].pos \in DOMAIN table

\* Spec 4.7: a compute node resolves a key to its candidate leaves, reads
\* them with one-sided RDMA and searches them; a key that stays in the map
\* from the call until the answer is found, as the memory node's own search
\* would find it.
CacheSearchFindsStableKeys ==
  \A c \in CNodes :
    cn[c].pc = "idle" /\ cn[c].op = "search" /\ cn[c].watch => cn[c].ok
=============================================================================
