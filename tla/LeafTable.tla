------------------------------ MODULE LeafTable ------------------------------
(***************************************************************************)
(* The leaf table of one submodel (src/rolex/leaf_table.hpp) over the leaf *)
(* arena (src/rolex/leaf_allocator.hpp), with every handler of the table   *)
(* taken as one atomic step: the behaviour of the engine when one thread   *)
(* calls it.  LeafTableConc refines the same handlers into the steps that  *)
(* several server threads interleave.                                      *)
(*                                                                         *)
(*   leaves        the arena's leaves, indexed by leaf_num                 *)
(*   used          the arena header's used counter (used_num())            *)
(*   table         one entry per slot: [leaf_num, synonym_leaf]            *)
(*   SynonymTable  entries 1.. are chain links; entry 0's leaf_num is the  *)
(*                 next free index                                         *)
(*   crashed       an ASSERT of the code has aborted the process           *)
(*   out           the last handler's call and result (op, key, ok, val)   *)
(*                                                                         *)
(* A slot's chain is table[i].synonym_leaf -> SynonymTable[..] -> .. -> 0; *)
(* its leaves hold keys in the order primary, s_leaves[1], s_leaves[2],... *)
(* and the handlers visit them tail to head.                               *)
(***************************************************************************)
EXTENDS Leaf, Integers, Sequences, SequencesExt, FiniteSets

CONSTANTS
  SynMax,        \* kSynonymMax
  LeafCapacity   \* allocated_num(): the arena's preallocated leaves

ASSUME SynMax \in Nat /\ SynMax >= 2
ASSUME LeafCapacity \in Nat \ {0}

VARIABLES leaves, used, table, SynonymTable, crashed, out

ltvars == <<leaves, used, table, SynonymTable, crashed, out>>

LeafNums == 0 .. LeafCapacity - 1
SynIdx   == 0 .. SynMax - 1

\* The result of a handler, as the caller sees it.
Out(op, k, ok, v) == [op |-> op, key |-> k, ok |-> ok, val |-> v]

\* ------------------------------------------------------------------------
\* Chains.

\* Collect s_leaves by following synonym_leaf until 0 (the while loop of
\* every *_synonym handler).  The walk is cut after SynMax links: the code
\* would loop forever on a cycle, which ChainsWellFormed rules out.
RECURSIVE Follow(_, _)
Follow(s, fuel) ==
  IF s = 0 \/ fuel = 0 THEN <<>>
  ELSE <<s>> \o Follow(SynonymTable[s].synonym_leaf, fuel - 1)

s_leaves(i) == Follow(table[i].synonym_leaf, SynMax)

PrimaryLeaf(i) == leaves[table[i].leaf_num]
SynLeaf(s)     == leaves[SynonymTable[s].leaf_num]

\* The slot a handler works on: from hi down to lo+1 the first slot whose
\* primary leaf accepts the key (insertHere), otherwise lo.
Slot(k, lo, hi) ==
  LET i == SelectLastInSubSeq(table, lo + 1, hi,
                              LAMBDA e : insertHere(leaves[e.leaf_num], k))
  IN IF i = 0 THEN lo ELSE i

\* The leaf of slot i that covers k: the last of s_leaves (scanning tail to
\* head) whose leaf accepts k; 0 stands for the primary leaf.
CurPos(i, k) == SelectLastInSeq(s_leaves(i), LAMBDA s : insertHere(SynLeaf(s), k))

CurLeafNum(i, p) ==
  IF p = 0 THEN table[i].leaf_num ELSE SynonymTable[s_leaves(i)[p]].leaf_num

\* ------------------------------------------------------------------------
\* Handlers.

\* search + search_synonym: the primary of the slot, then every synonym
\* leaf tail to head; the first that contains the key answers.
SearchAtPrimaryOnly(i, k) ==
  IF contain(PrimaryLeaf(i), k) THEN [ok |-> TRUE, val |-> searchVal(PrimaryLeaf(i), k)]
  ELSE [ok |-> FALSE, val |-> NoVal]
SearchAt(i, k) ==
  LET sl   == s_leaves(i)
      hits == {p \in 1 .. Len(sl) : contain(SynLeaf(sl[p]), k)}
  IN IF contain(PrimaryLeaf(i), k) THEN [ok |-> TRUE, val |-> searchVal(PrimaryLeaf(i), k)]
     ELSE IF hits = {} THEN [ok |-> FALSE, val |-> NoVal]
     ELSE [ok |-> TRUE, val |-> searchVal(SynLeaf(sl[Max(hits)]), k)]

Search(k, lo, hi) ==
  LET r == SearchAt(Slot(k, lo, hi), k)
  IN /\ out' = Out("search", k, r.ok, r.val)
     /\ UNCHANGED <<leaves, used, table, SynonymTable, crashed>>

\* update + update_synonym: under the slot lock, Leaf::update on the leaf
\* that covers the key.
Update(k, v, lo, hi) ==
  LET i  == Slot(k, lo, hi)
      ln == CurLeafNum(i, CurPos(i, k))
  IN /\ leaves' = [leaves EXCEPT ![ln] = update(@, k, v)]
     /\ out' = Out("update", k, contain(leaves[ln], k), NoVal)
     /\ UNCHANGED <<used, table, SynonymTable, crashed>>

\* synonym_emplace_back once idx = SynonymTable[0].leaf_num has been read:
\* store idx + 1 back and splice the new entry right after the slot's
\* primary (in_table, l_idx a slot) or after synonym entry l_idx.
\* Returns the new (table, SynonymTable).
EmplaceNoIncrement(in_table, l_idx, idx, ln) ==
  LET te == [leaf_num |-> ln, synonym_leaf |-> IF in_table THEN table[l_idx].synonym_leaf
                                               ELSE SynonymTable[l_idx].synonym_leaf]
  IN IF in_table
     THEN [t |-> [table EXCEPT ![l_idx].synonym_leaf = idx], s |-> [SynonymTable EXCEPT ![idx] = te]]
     ELSE [t |-> table, s |-> [SynonymTable EXCEPT ![l_idx].synonym_leaf = idx, ![idx] = te]]
EmplaceDropsSuccessor(in_table, l_idx, idx, ln) ==
  LET te == [leaf_num |-> ln, synonym_leaf |-> 0]
  IN IF in_table
     THEN [t |-> [table EXCEPT ![l_idx].synonym_leaf = idx],
           s |-> [SynonymTable EXCEPT ![0].leaf_num = idx + 1, ![idx] = te]]
     ELSE [t |-> table,
           s |-> [SynonymTable EXCEPT ![0].leaf_num = idx + 1, ![l_idx].synonym_leaf = idx, ![idx] = te]]
synonym_emplace_back(in_table, l_idx, idx, ln) ==
  LET te == [leaf_num |-> ln, synonym_leaf |-> IF in_table THEN table[l_idx].synonym_leaf
                                               ELSE SynonymTable[l_idx].synonym_leaf]
  IN IF in_table
     THEN [t |-> [table EXCEPT ![l_idx].synonym_leaf = idx],
           s |-> [SynonymTable EXCEPT ![0].leaf_num = idx + 1, ![idx] = te]]
     ELSE [t |-> table,
           s |-> [SynonymTable EXCEPT ![0].leaf_num = idx + 1, ![l_idx].synonym_leaf = idx, ![idx] = te]]

\* After the move, the key goes to the new leaf when it accepts it.
IntoNewNever(nl, k) == FALSE
IntoNew(nl, k) == insertHere(nl, k)

\* The split branch of insert_synonym once fetch_new_leaf has handed out
\* leaf number used: link it after cur (position p of slot i), move the
\* upper half of cur into it, insert into whichever accepts k.
SplitInto(i, p, k, v) ==
  LET ln  == CurLeafNum(i, p)
      nl  == UpperHalf(leaves[ln])
      e   == synonym_emplace_back(p = 0, IF p = 0 THEN i ELSE s_leaves(i)[p],
                                  SynonymTable[0].leaf_num, used)
  IN /\ leaves' = IF IntoNew(nl, k)
                  THEN [leaves EXCEPT ![ln] = LowerHalf(@), ![used] = insert_not_full(nl, k, v)]
                  ELSE [leaves EXCEPT ![ln] = insert_not_full(LowerHalf(@), k, v), ![used] = nl]
     /\ used' = used + 1
     /\ table' = e.t
     /\ SynonymTable' = e.s
     /\ out' = Out("insert", k, TRUE, NoVal)
     /\ UNCHANGED crashed

\* fetch_new_leaf's ASSERT aborts the process once the arena is used up.
Split(i, p, k, v) ==
  \/ used < LeafCapacity /\ SplitInto(i, p, k, v)
  \/ /\ used >= LeafCapacity
     /\ crashed' = TRUE
     /\ used' = used + 1
     /\ out' = Out("insert", k, FALSE, NoVal)
     /\ UNCHANGED <<leaves, table, SynonymTable>>

\* insert + insert_synonym.  An exhausted synonym table fails the insert
\* before the lock and again before a split; a key already in cur fails it.
Insert(k, v, lo, hi) ==
  LET i   == Slot(k, lo, hi)
      p   == CurPos(i, k)
      ln  == CurLeafNum(i, p)
      cur == leaves[ln]
      Fail == /\ out' = Out("insert", k, FALSE, NoVal)
              /\ UNCHANGED <<leaves, used, table, SynonymTable, crashed>>
  IN \/ /\ SynonymTable[0].leaf_num = SynMax - 1
        /\ Fail
     \/ /\ SynonymTable[0].leaf_num # SynMax - 1
        /\ CASE contain(cur, k) -> Fail
             [] ~isfull(cur) ->
                  /\ leaves' = [leaves EXCEPT ![ln] = insert_not_full(cur, k, v)]
                  /\ out' = Out("insert", k, TRUE, NoVal)
                  /\ UNCHANGED <<used, table, SynonymTable, crashed>>
             [] OTHER -> Split(i, p, k, v)

\* synonym_table_remove: unlink s_leaves[p] from the chain of slot i.
UnlinkSynonym(i, p) ==
  LET sl == s_leaves(i)
  IN IF p = 1
     THEN [t |-> [table EXCEPT ![i].synonym_leaf = SynonymTable[sl[1]].synonym_leaf],
           s |-> SynonymTable]
     ELSE [t |-> table,
           s |-> [SynonymTable EXCEPT ![sl[p - 1]].synonym_leaf = SynonymTable[sl[p]].synonym_leaf]]

\* remove + remove_synonym (named RemoveKey: SequencesExt owns Remove):
\* Leaf::remove on the covering leaf; a synonym leaf left empty is unlinked (its arena slot is never reused); an empty
\* primary stays.
RemoveKey(k, lo, hi) ==
  LET i   == Slot(k, lo, hi)
      p   == CurPos(i, k)
      ln  == CurLeafNum(i, p)
      cur == remove(leaves[ln], k)
      u   == UnlinkSynonym(i, p)
  IN /\ leaves' = [leaves EXCEPT ![ln] = cur]
     /\ IF isEmpty(cur) /\ p # 0
        THEN table' = u.t /\ SynonymTable' = u.s
        ELSE UNCHANGED <<table, SynonymTable>>
     /\ out' = Out("remove", k, removes(leaves[ln], k), NoVal)
     /\ UNCHANGED <<used, crashed>>

\* range_synonym: from the last leaf of the chain that accepts k (the
\* primary when none does) to the tail of s_leaves.
range_synonym(acc, k, n, i) ==
  LET sl == s_leaves(i)
      c  == CurPos(i, k)
      cur == IF c = 0 THEN PrimaryLeaf(i) ELSE SynLeaf(sl[c])
  IN FoldLeft(LAMBDA a, s : range(SynLeaf(s), k, n, a), range(cur, k, n, acc),
              SubSeq(sl, c + 1, Len(sl)))

\* next_range: every synonym leaf of slot i, head to tail.
next_range(acc, k, n, i) ==
  FoldLeft(LAMBDA a, s : range(SynLeaf(s), k, n, a), acc, s_leaves(i))

\* LeafTable::range: the slot walk from hi down to lo (inclusive, unlike the
\* point handlers); the slot found is read from its covering leaf on, and
\* every later slot, primary then chain, up to the end of the table.  When
\* no slot accepts k the scan reads slot lo whole.  acc is what the caller's
\* vals already holds: every leaf stops once it holds n.
range_table(acc, k, n, lo, hi) ==
  LET found == {j \in lo .. hi : insertHere(PrimaryLeaf(j), k)}
      acc0  == IF found = {} THEN acc ELSE range_synonym(acc, k, n, Max(found))
      first == IF found = {} THEN lo ELSE Max(found) + 1
      later == [q \in 1 .. Cardinality(DOMAIN table) - first |-> first + q - 1]
  IN FoldLeft(LAMBDA a, j : next_range(range(PrimaryLeaf(j), k, n, a), k, n, j), acc0, later)

\* ------------------------------------------------------------------------
\* What the table stores.

\* The leaf numbers a slot reaches, in key order (primary first).
SlotLeafNums(i) == <<table[i].leaf_num>> \o [q \in 1 .. Len(s_leaves(i)) |-> SynonymTable[s_leaves(i)[q]].leaf_num]

ReachableLeafNums == UNION {Range(SlotLeafNums(i)) : i \in DOMAIN table}

\* The key/value pairs the table holds; where a key is held twice (which
\* EngineScanReturnsNextKeys rules out) the value of the lowest leaf number is taken.
StoredKeys == UNION {KeysOf(leaves[ln]) : ln \in ReachableLeafNums}
StoredKV ==
  [k \in StoredKeys |->
     LET ln == Min({m \in ReachableLeafNums : k \in KeysOf(leaves[m])})
     IN searchVal(leaves[ln], k)]
=============================================================================
