------------------------------ MODULE LeafConc ------------------------------
(***************************************************************************)
(* One data leaf (src/rolex/leaf.hpp) written by a memory-node handler     *)
(* while a lock-free search reads it.  search takes no lock; insert holds  *)
(* csLocks and update/remove the lock bit, neither of which a reader       *)
(* takes, so the reader's loads interleave with the writer's stores.       *)
(*                                                                         *)
(* The writer's calls are serialised here (one handler at a time); each    *)
(* std::copy / std::copy_backward of keys or vals is a memmove of          *)
(* trivially copyable words.  Its loads precede its stores, and the order  *)
(* of the 8-byte stores depends on the memmove variant, so the model       *)
(* takes them in any order, one store per step.  The reader's loop loads   *)
(* one word per step, in the order search() does.                          *)
(***************************************************************************)
EXTENDS Leaf, FiniteSets, Sequences

CONSTANTS
  Keys,      \* keys the handlers are called with
  Vals,      \* values they write
  InitKeys,  \* the leaf's sorted keys after training
  InitVals   \* their values

VARIABLES
  leaf,  \* the leaf in memory: [keys, vals]
  w,     \* the writer's pending stores: a sequence of memmoves, each a set of stores
  r,     \* the reader: pc, the key searched, the slot i, the result
  abs,   \* auxiliary: the abstract contents a call in flight may be seen at
  seen   \* auxiliary: every abstract content the leaf had while the search ran

lvars == <<leaf, w, r, abs, seen>>

\* The map a leaf stands for: each key it holds with the value search()
\* returns for it.
Abs(l) == [k \in KeysOf(l) |-> searchVal(l, k)]

Init ==
  /\ leaf = LeafOf(InitKeys, InitVals)
  /\ w = <<>>
  /\ r = [pc |-> "idle", key |-> KInvalid, i |-> 0, found |-> FALSE, val |-> NoVal]
  /\ abs = {Abs(leaf)}
  /\ seen = {}

\* A memmove of [from, to] of array a by d slots (d = 1 right, -1 left):
\* one store per destination word, the values loaded before any store.
Move(a, from, to, d) == {[arr |-> a, idx |-> p + d, v |-> leaf[a][p]] : p \in from .. to}
Put(a, p, x) == {[arr |-> a, idx |-> p, v |-> x]}

\* A handler starts: its stores are queued, memmove by memmove, and the
\* abstract map it leaves (the pure operator of Leaf) becomes visible to a
\* search in flight.
Start(plan, after) ==
  /\ w' = SelectSeq(plan, LAMBDA s : s # {})
  /\ abs' = {Abs(leaf), Abs(after)}
  /\ seen' = IF r.pc \in {"idle", "done"} THEN seen ELSE seen \cup {Abs(after)}
  /\ UNCHANGED <<leaf, r>>

\* LeafTable::insert -> insert_not_full on a leaf that has room and not the
\* key: copy_backward of keys[i, j) and vals[i, j) one slot right, then
\* keys[i] = key, vals[i] = val.
WInsert(k, v) ==
  LET i == CHOOSE p \in Idx : leaf.keys[p] > k /\ \A q \in 0 .. p - 1 : leaf.keys[q] < k
      j == CHOOSE p \in i .. N - 1 : leaf.keys[p] = KInvalid /\ \A q \in i .. p - 1 : leaf.keys[q] # KInvalid
  IN /\ w = <<>> /\ ~isfull(leaf) /\ k \notin KeysOf(leaf)
     /\ Start(<<Move("keys", i, j - 1, 1), Move("vals", i, j - 1, 1),
                Put("keys", i, k), Put("vals", i, v)>>, insert_not_full(leaf, k, v))

\* remove: copy of keys[i+1, N) and vals[i+1, N) one slot left, then
\* keys[N-1] = invalidKey(); vals[N-1] keeps its word.
WRemove(k) ==
  LET i == FirstEq(leaf, k)
  IN /\ w = <<>> /\ i < N
     /\ Start(<<Move("keys", i + 1, N - 1, -1), Move("vals", i + 1, N - 1, -1),
                Put("keys", N - 1, KInvalid)>>, remove(leaf, k))

\* update: vals[i] = val at the first equal key.
WUpdate(k, v) ==
  /\ w = <<>> /\ contain(leaf, k)
  /\ Start(<<Put("vals", FirstEq(leaf, k), v)>>, update(leaf, k, v))

\* One 8-byte store of the current memmove; the handler returns after the last.
WStore ==
  /\ w # <<>>
  /\ \E s \in Head(w) :
       /\ leaf' = [leaf EXCEPT ![s.arr][s.idx] = s.v]
       /\ w' = IF Head(w) = {s} THEN Tail(w) ELSE <<Head(w) \ {s}>> \o Tail(w)
       /\ abs' = IF w' = <<>> THEN {Abs(leaf')} ELSE abs
  /\ UNCHANGED <<r, seen>>

\* search(key): a worker takes the request.
RBegin(k) ==
  /\ r.pc \in {"idle", "done"}
  /\ r' = [r EXCEPT !.pc = "first", !.key = k, !.i = 0, !.found = FALSE, !.val = NoVal]
  /\ seen' = abs
  /\ UNCHANGED <<leaf, w, abs>>

\* if (keys[0] > key) return false;
RFirst ==
  /\ r.pc = "first"
  /\ r' = IF leaf.keys[0] > r.key THEN [r EXCEPT !.pc = "done"] ELSE [r EXCEPT !.pc = "scan"]
  /\ UNCHANGED <<leaf, w, abs, seen>>

\* One round of the loop: keys[i] == key goes on to read vals[i]; after
\* slot N-1 the search returns false.
RScan ==
  /\ r.pc = "scan"
  /\ r' = CASE leaf.keys[r.i] = r.key -> [r EXCEPT !.pc = "val"]
            [] r.i = N - 1            -> [r EXCEPT !.pc = "done"]
            [] OTHER                  -> [r EXCEPT !.i = @ + 1]
  /\ UNCHANGED <<leaf, w, abs, seen>>

\* val = vals[i]; return true.
RVal ==
  /\ r.pc = "val"
  /\ r' = [r EXCEPT !.pc = "done", !.found = TRUE, !.val = leaf.vals[r.i]]
  /\ UNCHANGED <<leaf, w, abs, seen>>

Next ==
  \/ \E k \in Keys, v \in Vals : WInsert(k, v) \/ WUpdate(k, v)
  \/ \E k \in Keys : WRemove(k) \/ RBegin(k)
  \/ WStore \/ RFirst \/ RScan \/ RVal

Spec == Init /\ [][Next]_lvars

\* ------------------------------------------------------------------------

\* Spec section 5: readers take no locks, operations on a key are
\* linearizable, and a key present before and after a concurrent change
\* is visible.  So a search's answer (found, and the value) is the answer
\* of some content the leaf had between the call and the return, the
\* contents before and after each handler counting.  It is about the
\* memmoves of insert_not_full and remove shifting keys, then vals, under
\* a search that loads one word at a time.
SearchLinearizable ==
  r.pc = "done" =>
    \E m \in seen : IF r.found THEN r.key \in DOMAIN m /\ m[r.key] = r.val
                    ELSE r.key \notin DOMAIN m
=============================================================================
