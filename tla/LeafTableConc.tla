---------------------------- MODULE LeafTableConc ----------------------------
(***************************************************************************)
(* The leaf table of one submodel under the memory node's RPC workers      *)
(* (src/rolex/rolex_server.hpp): every worker thread calls the engine      *)
(* directly from its callback, so handlers of different threads interleave *)
(* at every shared read and write.  Each handler of leaf_table.hpp is cut  *)
(* into the steps whose order matters:                                     *)
(*                                                                         *)
(*   search  walk+primary | chain | one step per synonym leaf (no lock)    *)
(*   insert  walk | csLocks[i]->lock() | find | [faa read | faa write |   *)
(*           faa check + alloc | link | move] |                            *)
(*           insert_not_full+unlock                                        *)
(*   update, remove  walk | lock_leaf spin | lock_leaf set | find |        *)
(*           write+unlock_leaf                                             *)
(*                                                                         *)
(* insert takes the SpinLock csLocks[i]; update and remove take the lock   *)
(* bit table[i].lock with lock_leaf, a plain read loop followed by a plain *)
(* store.  The two are different locks.  synonym_emplace_back reads and    *)
(* increments SynonymTable[0].leaf_num, shared by every slot of the table, *)
(* in two steps.  A leaf is read or written whole in one step.             *)
(*                                                                         *)
(* present is a history variable: the keys a completed insert has written  *)
(* and no completed remove has taken out.  watch[t] records that the key   *)
(* of thread t's search stayed present since the search began.             *)
(***************************************************************************)
EXTENDS SubModel

CONSTANTS Threads

VARIABLES
  csLocks,  \* csLocks[i]: the SpinLock of slot i taken by insert
  lockBit,  \* table[i].lock: the bit lock_leaf/unlock_leaf use
  th,       \* per thread: program counter and the handler's locals
  present   \* history: keys the completed operations leave in the map

vars == <<ltvars, csLocks, lockBit, th, present>>

Slots == 0 .. NSlots - 1

\* An idle thread; unused locals are reset so idle states coincide.
Idle == [pc |-> "idle", op |-> "none", key |-> 0, val |-> NoVal, slot |-> 0,
         snap |-> <<>>, p |-> 0, cur |-> 0, nl |-> -1, idx |-> 0, pos |-> 0,
         ok |-> FALSE, watch |-> FALSE]

CInit ==
  /\ Init
  /\ csLocks = [i \in Slots |-> FALSE]
  /\ lockBit = [i \in Slots |-> 0]
  /\ th = [t \in Threads |-> Idle]
  /\ present = Range(TrainKeys)

\* Thread t moves to pc with the locals in upd changed.
Go(t, upd) == th' = [th EXCEPT ![t] = [f \in DOMAIN @ |-> IF f \in DOMAIN upd THEN upd[f] ELSE @[f]]]

\* Thread t ends its handler with result ok.
Finish(t, ok) == th' = [th EXCEPT ![t] = [Idle EXCEPT !.op = th[t].op, !.key = th[t].key,
                                                       !.ok = ok, !.watch = th[t].watch]]

\* A remove that took its key out ends the watch of every search for it.
FinishRemove(t, ok) ==
  th' = [u \in Threads |->
           IF u = t THEN [Idle EXCEPT !.op = "remove", !.key = th[t].key, !.ok = ok]
           ELSE IF ok /\ th[u].key = th[t].key THEN [th[u] EXCEPT !.watch = FALSE]
           ELSE th[u]]

\* A worker takes a request: op on key k with value v.
Begin(t) ==
  /\ th[t].pc = "idle"
  /\ \E op \in Ops, k \in Keys, v \in Vals :
       Go(t, [pc |-> "walk", op |-> op, key |-> k, val |-> v, ok |-> FALSE,
              watch |-> op = "search" /\ k \in present])
  /\ UNCHANGED <<ltvars, csLocks, lockBit, present>>

\* The slot walk from hi down to lo+1 over the primaries.  search reads the
\* chosen primary too; insert checks the synonym table before the lock.
Walk(t) ==
  LET k == th[t].key
      i == Slot(k, Window(k).lo, Window(k).hi)
  IN /\ th[t].pc = "walk"
     /\ CASE th[t].op = "search" ->
               IF contain(PrimaryLeaf(i), k) THEN Finish(t, TRUE)
               ELSE Go(t, [pc |-> "chain", slot |-> i])
          [] th[t].op = "insert" ->
               IF SynonymTable[0].leaf_num = SynMax - 1 THEN Finish(t, FALSE)
               ELSE Go(t, [pc |-> "lock", slot |-> i])
          [] OTHER -> Go(t, [pc |-> "spin", slot |-> i])
     /\ UNCHANGED <<ltvars, csLocks, lockBit, present>>

\* ---------------------------------------------------------------- search
\* search_synonym: collect s_leaves, then search them tail to head.
Chain(t) ==
  /\ th[t].pc = "chain"
  /\ LET sl == s_leaves(th[t].slot)
     IN IF sl = <<>> THEN Finish(t, FALSE)
        ELSE Go(t, [pc |-> "leaf", snap |-> sl, pos |-> Len(sl)])
  /\ UNCHANGED <<ltvars, csLocks, lockBit, present>>

SearchLeaf(t) ==
  LET l == SynLeaf(th[t].snap[th[t].pos])
  IN /\ th[t].pc = "leaf"
     /\ IF contain(l, th[t].key) THEN Finish(t, TRUE)
        ELSE IF th[t].pos = 1 THEN Finish(t, FALSE)
        ELSE Go(t, [pos |-> th[t].pos - 1])
     /\ UNCHANGED <<ltvars, csLocks, lockBit, present>>

\* ----------------------------------------------------------------- locks
\* csLocks[l_idx]->lock() in insert_synonym.
LockCs(t) ==
  /\ th[t].pc = "lock"
  /\ ~csLocks[th[t].slot]
  /\ csLocks' = [csLocks EXCEPT ![th[t].slot] = TRUE]
  /\ Go(t, [pc |-> "find"])
  /\ UNCHANGED <<ltvars, lockBit, present>>

\* lock_leaf: `while(table[idx].lock != 0) pause;` then `lock = 1`.
Spin(t) ==
  /\ th[t].pc = "spin"
  /\ lockBit[th[t].slot] = 0
  /\ Go(t, [pc |-> "setlock"])
  /\ UNCHANGED <<ltvars, csLocks, lockBit, present>>

SetLock(t) ==
  /\ th[t].pc = "setlock"
  /\ lockBit' = [lockBit EXCEPT ![th[t].slot] = 1]
  /\ Go(t, [pc |-> "find"])
  /\ UNCHANGED <<ltvars, csLocks, present>>

\* ------------------------------------------------------------- find cur
\* Collect s_leaves and pick cur tail to head.  insert then decides:
\* duplicate, room in cur, exhausted synonym table, or split.
FindKeepsLockOnDuplicate(t) ==
  LET i  == th[t].slot
      k  == th[t].key
      p  == CurPos(i, k)
      ln == CurLeafNum(i, p)
      loc == [snap |-> s_leaves(i), p |-> p, cur |-> ln]
  IN /\ th[t].pc = "find"
     /\ IF th[t].op = "insert"
        THEN CASE contain(leaves[ln], k) ->
                    Finish(t, FALSE) /\ UNCHANGED csLocks
               [] ~isfull(leaves[ln]) ->
                    Go(t, loc @@ [pc |-> "ins"]) /\ UNCHANGED csLocks
               [] SynonymTable[0].leaf_num = SynMax - 1 ->
                    Finish(t, FALSE) /\ csLocks' = [csLocks EXCEPT ![i] = FALSE]
               [] OTHER ->
                    Go(t, loc @@ [pc |-> "alloc"]) /\ UNCHANGED csLocks
        ELSE Go(t, loc @@ [pc |-> "write"]) /\ UNCHANGED csLocks
     /\ UNCHANGED <<ltvars, lockBit, present>>
Find(t) ==
  LET i  == th[t].slot
      k  == th[t].key
      p  == CurPos(i, k)
      ln == CurLeafNum(i, p)
      loc == [snap |-> s_leaves(i), p |-> p, cur |-> ln]
  IN /\ th[t].pc = "find"
     /\ IF th[t].op = "insert"
        THEN CASE contain(leaves[ln], k) ->
                    Finish(t, FALSE) /\ csLocks' = [csLocks EXCEPT ![i] = FALSE]
               [] ~isfull(leaves[ln]) ->
                    Go(t, loc @@ [pc |-> "ins"]) /\ UNCHANGED csLocks
               [] SynonymTable[0].leaf_num = SynMax - 1 ->
                    Finish(t, FALSE) /\ csLocks' = [csLocks EXCEPT ![i] = FALSE]
               [] OTHER ->
                    Go(t, loc @@ [pc |-> "alloc"]) /\ UNCHANGED csLocks
        ELSE Go(t, loc @@ [pc |-> "write"]) /\ UNCHANGED csLocks
     /\ UNCHANGED <<ltvars, lockBit, present>>

\* ---------------------------------------------------------------- split
\* fetch_new_leaf's fetch_and_add, access by access: under the allocator's
\* SpinLock a plain read of the used word (FaaRead), a plain write of it
\* plus one (FaaWrite), and a re-read that ASSERTs it still holds that
\* value; then fetch_new_leaf ASSERTs num < allocated_num().  Only the
\* memory node's threads take the SpinLock; nothing else in this module
\* writes used.  After that, the first half of synonym_emplace_back: the
\* full check and the read of SynonymTable[0].leaf_num.  A full table makes
\* it return 0 unlinked.
AllocatorLocked == \E u \in Threads : th[u].pc \in {"faawrite", "faacheck"}

FaaRead(t) ==
  /\ th[t].pc = "alloc"
  /\ ~AllocatorLocked
  /\ Go(t, [pc |-> "faawrite", nl |-> used])
  /\ UNCHANGED <<ltvars, csLocks, lockBit, present>>

FaaWrite(t) ==
  /\ th[t].pc = "faawrite"
  /\ used' = th[t].nl + 1
  /\ Go(t, [pc |-> "faacheck"])
  /\ UNCHANGED <<leaves, table, SynonymTable, crashed, out, csLocks, lockBit, present>>

AllocNoArenaCheck(t) ==
  LET num == th[t].nl
  IN /\ th[t].pc = "faacheck"
     /\ IF used # num + 1
        THEN crashed' = TRUE /\ UNCHANGED th
        ELSE /\ UNCHANGED crashed
             /\ IF SynonymTable[0].leaf_num = SynMax - 1
                THEN Go(t, [pc |-> "move", idx |-> 0])
                ELSE Go(t, [pc |-> "link", idx |-> SynonymTable[0].leaf_num])
     /\ UNCHANGED <<leaves, used, table, SynonymTable, out, csLocks, lockBit, present>>
Alloc(t) ==
  LET num == th[t].nl
  IN /\ th[t].pc = "faacheck"
     /\ IF used # num + 1 \/ num >= LeafCapacity
        THEN crashed' = TRUE /\ UNCHANGED th
        ELSE /\ UNCHANGED crashed
             /\ IF SynonymTable[0].leaf_num = SynMax - 1
                THEN Go(t, [pc |-> "move", idx |-> 0])
                ELSE Go(t, [pc |-> "link", idx |-> SynonymTable[0].leaf_num])
     /\ UNCHANGED <<leaves, used, table, SynonymTable, out, csLocks, lockBit, present>>

\* The rest of synonym_emplace_back: store idx + 1 back and splice the new
\* entry after the primary (p = 0) or after s_leaves[p] of the snapshot.
Link(t) ==
  LET p == th[t].p
      e == synonym_emplace_back(p = 0, IF p = 0 THEN th[t].slot ELSE th[t].snap[p],
                                th[t].idx, th[t].nl)
  IN /\ th[t].pc = "link"
     /\ table' = e.t
     /\ SynonymTable' = e.s
     /\ Go(t, [pc |-> "move"])
     /\ UNCHANGED <<leaves, used, crashed, out, csLocks, lockBit, present>>

\* Move the upper half of cur into the new leaf and clear it in cur.
MoveClearsFirst(t) ==
  LET c == th[t].cur
  IN /\ th[t].pc = "move"
     /\ leaves' = [leaves EXCEPT ![c] = LowerHalf(@), ![th[t].nl] = UpperHalf(LowerHalf(leaves[c]))]
     /\ Go(t, [pc |-> "ins"])
     /\ UNCHANGED <<used, table, SynonymTable, crashed, out, csLocks, lockBit, present>>
Move(t) ==
  LET c == th[t].cur
  IN /\ th[t].pc = "move"
     /\ leaves' = [leaves EXCEPT ![c] = LowerHalf(@), ![th[t].nl] = UpperHalf(leaves[c])]
     /\ Go(t, [pc |-> "ins"])
     /\ UNCHANGED <<used, table, SynonymTable, crashed, out, csLocks, lockBit, present>>

\* insert_not_full into cur, or into the new leaf when it accepts the key;
\* unlock; the key is now in the map.
Ins(t) ==
  LET k  == th[t].key
      nl == th[t].nl
      tgt == IF nl >= 0 /\ IntoNew(leaves[nl], k) THEN nl ELSE th[t].cur
  IN /\ th[t].pc = "ins"
     /\ leaves' = [leaves EXCEPT ![tgt] = insert_not_full(@, k, th[t].val)]
     /\ csLocks' = [csLocks EXCEPT ![th[t].slot] = FALSE]
     /\ present' = present \cup {k}
     /\ Finish(t, TRUE)
     /\ UNCHANGED <<used, table, SynonymTable, crashed, out, lockBit>>

\* -------------------------------------------------------- update, remove
\* Leaf::update / Leaf::remove on cur; remove unlinks an emptied synonym
\* with the s_leaves it collected; then unlock_leaf.
Write(t) ==
  LET i == th[t].slot
      k == th[t].key
      c == th[t].cur
      p == th[t].p
      sl == th[t].snap
      after == remove(leaves[c], k)
  IN /\ th[t].pc = "write"
     /\ lockBit' = [lockBit EXCEPT ![i] = 0]
     /\ IF th[t].op = "update"
        THEN /\ leaves' = [leaves EXCEPT ![c] = update(@, k, th[t].val)]
             /\ Finish(t, contain(leaves[c], k))
             /\ UNCHANGED <<table, SynonymTable, present>>
        ELSE /\ leaves' = [leaves EXCEPT ![c] = after]
             /\ IF isEmpty(after) /\ p # 0
                THEN IF p = 1
                     THEN /\ table' = [table EXCEPT ![i].synonym_leaf = SynonymTable[sl[1]].synonym_leaf]
                          /\ UNCHANGED SynonymTable
                     ELSE /\ SynonymTable' = [SynonymTable EXCEPT
                                ![sl[p - 1]].synonym_leaf = SynonymTable[sl[p]].synonym_leaf]
                          /\ UNCHANGED table
                ELSE UNCHANGED <<table, SynonymTable>>
             /\ FinishRemove(t, removes(leaves[c], k))
             /\ present' = IF removes(leaves[c], k) THEN present \ {k} ELSE present
     /\ UNCHANGED <<used, crashed, out, csLocks>>

Step(t) ==
  \/ Begin(t) \/ Walk(t) \/ Chain(t) \/ SearchLeaf(t) \/ LockCs(t) \/ Spin(t)
  \/ SetLock(t) \/ Find(t) \/ FaaRead(t) \/ FaaWrite(t) \/ Alloc(t) \/ Link(t) \/ Move(t)
  \/ Ins(t) \/ Write(t)

CNext == ~crashed /\ \E t \in Threads : Step(t)

CSpec == CInit /\ [][CNext]_vars

\* ------------------------------------------------------------------------
\* Properties.

Pcs == {"idle", "walk", "chain", "leaf", "lock", "spin", "setlock", "find",
        "alloc", "faawrite", "faacheck", "link", "move", "ins", "write"}

ConcTypeOK ==
  /\ TypeOK
  /\ csLocks \in [Slots -> BOOLEAN]
  /\ lockBit \in [Slots -> {0, 1}]
  /\ \A t \in Threads : th[t].pc \in Pcs /\ th[t].slot \in Slots
                        /\ th[t].p \in 0 .. Len(th[t].snap)
                        /\ (th[t].pc \in {"link", "move", "ins"} => th[t].nl < LeafCapacity)
  /\ present \subseteq AllKeys

\* The steps of update, remove and insert between taking their slot's lock
\* and releasing it.
Mutating(t) == th[t].pc \in {"find", "alloc", "faawrite", "faacheck", "link", "move", "ins", "write"}

\* Spec section 5: every slot has one lock and it is the only one a
\* mutation takes, so no two threads mutate the same slot at once.  insert
\* takes csLocks[i] while update and remove take table[i].lock through
\* lock_leaf, whose check and set are two separate plain accesses.
MutatorsExclusive ==
  \A t, u \in Threads :
    t # u /\ Mutating(t) /\ Mutating(u) => th[t].slot # th[u].slot

\* No key is lost or brought back: the keys the slots reach are exactly the
\* keys completed inserts wrote and completed removes did not take out.  A
\* split's link, the shared SynonymTable[0] counter, the move of half of
\* cur and a concurrent remove's unlink all have to line up for this.
KeysPreserved == StoredKeys = present

\* Every lock a handler takes is released: whenever a slot's SpinLock
\* (insert) or lock bit (update, remove) is held, a state follows where no
\* lock is held, unless an ASSERT ended the process.  Each handler has
\* several exits (duplicate key, exhausted synonym table, split, update of
\* a missing key, remove that empties a synonym) and every one has to
\* unlock.  With one worker, as the run has, this is the release of each
\* lock taken.
LocksReleased ==
  LET Held == \E i \in Slots : csLocks[i] \/ lockBit[i] = 1
  IN Held ~> (~Held \/ crashed)

\* A lock-free search whose key stays in the map from the moment the worker
\* took the request until search returns finds it.  search reads the
\* chain and then the leaves one by one while a split moves keys.
ReadersSeeStableKeys ==
  \A t \in Threads :
    th[t].pc = "idle" /\ th[t].op = "search" /\ th[t].watch => th[t].ok
=============================================================================
