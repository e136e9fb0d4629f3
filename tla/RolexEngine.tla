----------------------------- MODULE RolexEngine -----------------------------
(***************************************************************************)
(* The engine over two submodels (src/rolex/rolex.hpp): train leaves two   *)
(* segments, each a SubModel with its own leaf table and synonym table,    *)
(* both taking leaves from the one leaf arena; every handler routes the    *)
(* key with model_for_key and runs the submodel's handler; range continues *)
(* into the next submodel while it has fewer than n values, with the same  *)
(* key, which lies below every key of that submodel.                       *)
(*                                                                         *)
(* Each submodel is an INSTANCE of SubModel over its own table variables   *)
(* and the shared leaves, used, crashed and out.                           *)
(***************************************************************************)
EXTENDS RolexUtil, Integers, Sequences, FiniteSets, TLC

CONSTANTS
  N, KInvalid, NoVal, SynMax, LeafCapacity, TrainVal, Keys, Vals, SlopeNum, SlopeDen,
  Epsilon, Ops,
  Train1, Intercept1,  \* the first segment's keys and trained intercept
  Train2, Intercept2   \* the second's; positions restart at 0 in each segment

VARIABLES leaves, used, table1, syn1, table2, syn2, crashed, out

evars == <<leaves, used, table1, syn1, table2, syn2, crashed, out>>

\* The pivot vector train builds: the last key of each segment.
model_keys == <<Train1[Len(Train1)], Train2[Len(Train2)]>>

\* Rolex::model_for_key over two pivots.
model_for_key(k) ==
  LET idx == binary_search_branchless(model_keys, 2, k)
  IN IF idx < 2 THEN idx ELSE 1

Routed(m) == {k \in Keys : model_for_key(k) = m}

S1 == INSTANCE SubModel WITH TrainKeys <- Train1, Intercept <- Intercept1, Keys <- Routed(0),
                             table <- table1, SynonymTable <- syn1
S2 == INSTANCE SubModel WITH TrainKeys <- Train2, Intercept <- Intercept2, Keys <- Routed(1),
                             table <- table2, SynonymTable <- syn2

\* LeafTable(): SynonymTable[0].leaf_num = 1, every other entry zero.
FreshSyn == [s \in S1!SynIdx |-> [leaf_num |-> IF s = 0 THEN 1 ELSE 0, synonym_leaf |-> 0]]

\* train: append_model builds submodel 0, whose constructor fetches leaves
\* 0 .. n1 - 1 and fills them, then submodel 1 with the next n2 leaves.
Init ==
  LET n1 == S1!NSlots
      n2 == S2!NSlots
  IN /\ leaves = [ln \in S1!LeafNums |-> CASE ln < n1      -> S1!TrainedLeaf(ln)
                                          [] ln < n1 + n2 -> S2!TrainedLeaf(ln - n1)
                                          [] OTHER        -> S1!EmptyLeaf]
     /\ used = n1 + n2
     /\ table1 = [i \in 0 .. n1 - 1 |-> [leaf_num |-> i, synonym_leaf |-> 0]]
     /\ table2 = [i \in 0 .. n2 - 1 |-> [leaf_num |-> n1 + i, synonym_leaf |-> 0]]
     /\ syn1 = FreshSyn /\ syn2 = FreshSyn
     /\ crashed = FALSE
     /\ out = S1!Out("train", 0, TRUE, NoVal)

\* Rolex::search, update, insert, remove: models[model_for_key(key)].op.
Serve(k) ==
  \/ model_for_key(k) = 0 /\ S1!Handle(k) /\ UNCHANGED <<table2, syn2>>
  \/ model_for_key(k) = 1 /\ S2!Handle(k) /\ UNCHANGED <<table1, syn1>>

Next == ~crashed /\ \E k \in Keys : Serve(k)

Spec == Init /\ [][Next]_evars

range_engine(k, n) ==
  LET first == IF model_for_key(k) = 0 THEN S1!range_submodel(<<>>, k, n)
               ELSE S2!range_submodel(<<>>, k, n)
  IN IF model_for_key(k) = 0 /\ Len(first) < n THEN S2!range_submodel(first, k, n) ELSE first

\* ------------------------------------------------------------------------
\* Properties.

AllKeys == Keys \cup S1!AllKeys \cup S2!AllKeys
AllVals == Vals \cup {TrainVal}
StoredKeys == S1!StoredKeys \cup S2!StoredKeys

\* Spec invariants 2 and 3 across the engine: each submodel's chains are
\* well formed and the two submodels never reach the same leaf, although
\* their splits take leaves from one arena counter in any interleaving.
EngineChainsWellFormed ==
  /\ S1!ChainsWellFormed
  /\ S2!ChainsWellFormed
  /\ S1!ReachableLeafNums \cap S2!ReachableLeafNums = {}

EngineKV == INSTANCE KVStore WITH Keys <- AllKeys, Vals <- AllVals,
                                  kv <- S1!StoredKV @@ S2!StoredKV, out <- out
EngineKVRefinement == EngineKV!Spec
=============================================================================
