------------------------------ MODULE SubModel ------------------------------
(***************************************************************************)
(* One submodel (src/rolex/submodel.hpp): a linear model trained over its  *)
(* keys and the leaf table that holds them.  Training fills leaves left to *)
(* right (the SubModel constructor); every handler predicts a position     *)
(* window [lo, hi] with LinearRegressionModel::predict, divides it by N to *)
(* get a slot window and hands it to the leaf table.                       *)
(*                                                                         *)
(* The model's double slope is SlopeNum/SlopeDen and its intercept an      *)
(* integer, so int64_t(slope * k) is (SlopeNum * k) \div SlopeDen for the  *)
(* non-negative keys used here.                                            *)
(***************************************************************************)
EXTENDS LeafTable

CONSTANTS
  TrainKeys,   \* the submodel's sorted training keys
  TrainVal,    \* the value trained with every key
  Keys,        \* the keys clients send
  Vals,        \* the values clients send
  SlopeNum, SlopeDen, Intercept,  \* the trained segment
  Epsilon,     \* the template parameter Epsilon of SubModel
  Ops          \* the operations the workload issues

ASSUME IsSorted(TrainKeys, LAMBDA a, b : a < b) /\ Len(TrainKeys) > 0
ASSUME SlopeDen > 0 /\ Epsilon >= 1
ASSUME Ops \subseteq {"search", "update", "insert", "remove"}

\* capacity: the number of training keys.
capacity == Len(TrainKeys)
NSlots   == (capacity + N - 1) \div N

AllKeys == Keys \cup Range(TrainKeys)
AllVals == Vals \cup {TrainVal}

\* LinearRegressionModel::predict with SUB_EPS and ADD_EPS.
predict(k) ==
  LET pos == (SlopeNum * k) \div SlopeDen + Intercept
      lo  == IF pos <= Epsilon THEN 0 ELSE pos - Epsilon
      hi  == IF pos + Epsilon + 2 >= capacity THEN capacity - 1 ELSE pos + Epsilon + 2
  IN [pos |-> pos, lo |-> IF lo > hi THEN hi ELSE lo, hi |-> hi]

\* The slot of a predicted position, as every SubModel handler computes it:
\* static_cast<size_t>, lo /= N, then std::max((int)lo, 0).  The cast of a
\* negative double (a key below the segment with a negative intercept) is
\* undefined; x86-64 builds convert with cvttsd2si (two's complement) or
\* vcvttsd2usi (saturating to 2^64 - 1), and with N a power of two either
\* size_t divided by N has its low 32 bits negative as an int, so the max
\* gives 0.  A non-negative position keeps its quotient.
SlotOf(x) == IF x < 0 THEN 0 ELSE x \div N

\* The slot window of key k.
Window(k) == [lo |-> SlotOf(predict(k).lo), hi |-> SlotOf(predict(k).hi)]

\* The SubModel constructor: slot i's leaf holds training keys iN..iN+N-1.
TrainedLeaf(i) ==
  LET ks == SubSeq(TrainKeys, i * N + 1, IF i * N + N < capacity THEN i * N + N ELSE capacity)
  IN LeafOf(ks, [q \in 1 .. Len(ks) |-> TrainVal])

Init ==
  /\ leaves = [ln \in LeafNums |-> IF ln < NSlots THEN TrainedLeaf(ln) ELSE EmptyLeaf]
  /\ used = NSlots
  /\ table = [i \in 0 .. NSlots - 1 |-> [leaf_num |-> i, synonym_leaf |-> 0]]
  /\ SynonymTable = [s \in SynIdx |-> [leaf_num |-> IF s = 0 THEN 1 ELSE 0, synonym_leaf |-> 0]]
  /\ crashed = FALSE
  /\ out = Out("train", 0, TRUE, NoVal)

\* The four handlers for key k, each over the predicted window.
Handle(k) ==
  LET w == Window(k) IN
  \/ "search" \in Ops /\ Search(k, w.lo, w.hi)
  \/ "remove" \in Ops /\ RemoveKey(k, w.lo, w.hi)
  \/ \E v \in Vals :
       \/ "update" \in Ops /\ Update(k, v, w.lo, w.hi)
       \/ "insert" \in Ops /\ Insert(k, v, w.lo, w.hi)

Next == ~crashed /\ \E k \in Keys : Handle(k)

Spec == Init /\ [][Next]_ltvars

\* SubModel::range: the predicted slot window (clamped at 0) handed to the
\* table's scan.
range_submodel(acc, k, n) == range_table(acc, k, n, Window(k).lo, Window(k).hi)

\* ------------------------------------------------------------------------
\* Properties.

TypeOK ==
  /\ leaves \in [LeafNums -> [keys : [Idx -> AllKeys \cup {KInvalid}],
                              vals : [Idx -> AllVals \cup {NoVal}]]]
  /\ used \in 0 .. LeafCapacity + 1
  /\ table \in [0 .. NSlots - 1 -> [leaf_num : LeafNums, synonym_leaf : SynIdx]]
  /\ SynonymTable \in [SynIdx -> [leaf_num : Nat, synonym_leaf : SynIdx]]
  /\ crashed \in BOOLEAN

\* Spec invariants 2 and 3: every chain ends at 0 without repeating an
\* index, uses only indices handed out so far, no index sits in two chains,
\* and every leaf a slot reaches was handed out by the arena.  A split links
\* the new entry between two live ones and a remove unlinks with the chain
\* it collected; a slip in either shows here only after several of them.
ChainsWellFormed ==
  LET next == SynonymTable[0].leaf_num
      Ends(i) == LET sl == s_leaves(i)
                 IN Len(sl) = 0 \/ SynonymTable[sl[Len(sl)]].synonym_leaf = 0
  IN /\ next \in 1 .. SynMax - 1
     /\ \A i \in DOMAIN table :
          /\ Ends(i)
          /\ IsInjective(s_leaves(i))
          /\ \A q \in 1 .. Len(s_leaves(i)) : s_leaves(i)[q] \in 1 .. next - 1
          /\ \A ln \in Range(SlotLeafNums(i)) : ln < used
     /\ \A i, j \in DOMAIN table :
          i # j => Range(s_leaves(i)) \cap Range(s_leaves(j)) = {}

\* The keys of slot i in the order its leaves hold them: primary first,
\* then s_leaves head to tail.
SlotKeys(i) ==
  FoldLeft(LAMBDA acc, ln : acc \o SelectSeq([q \in 1 .. N |-> leaves[ln].keys[q - 1]],
                                             LAMBDA x : x # KInvalid),
           <<>>, SlotLeafNums(i))

Increasing(s) == IsSorted(s, LAMBDA a, b : a < b)

\* Spec invariants 1 and 6: every leaf a slot reaches is a sorted prefix and
\* the slot's leaves, primary then s_leaves head to tail, list its keys in
\* increasing order.  A split must put the upper half right after cur, and
\* every handler must pick the covering leaf tail to head; removes that
\* empty and unlink synonyms must keep the rest in place.
SlotOrder ==
  \A i \in DOMAIN table :
    /\ \A ln \in Range(SlotLeafNums(i)) : SortedPrefix(leaves[ln])
    /\ Increasing(SlotKeys(i))

\* The elements of a finite set of keys in increasing order.
Ascending(S) ==
  [q \in 1 .. Cardinality(S) |-> CHOOSE x \in S : Cardinality({y \in S : y < x}) = q - 1]

\* The engine implements the abstract ordered map: searches find exactly the
\* stored keys with their last written value, updates and removes report
\* presence, and inserts never overwrite.
KV == INSTANCE KVStore WITH Keys <- AllKeys, Vals <- AllVals,
                            kv <- StoredKV, out <- out
KVRefinement == KV!Spec
=============================================================================
