-------------------------------- MODULE Leaf --------------------------------
(***************************************************************************)
(* The data leaf of ROLEX (src/rolex/leaf.hpp): a fixed array of N keys    *)
(* and N values.  Occupied slots hold real keys, the others hold           *)
(* invalidKey(), the largest key, so that every comparison the code makes  *)
(* against an empty slot behaves as it does in C++.                        *)
(*                                                                         *)
(* A leaf is a record [keys, vals] of two functions over 0..N-1, indexed   *)
(* as in the code.  The value stored beside an empty slot is never read    *)
(* for a real key; it is normalised to NoVal.  Every operator here is pure *)
(* (no VARIABLES): the modules that own leaves apply them.                 *)
(***************************************************************************)
EXTENDS Integers, Sequences

CONSTANTS
  N,         \* leaf capacity, the template parameter N of Leaf
  KInvalid,  \* invalidKey() = numeric_limits<K>::max(); larger than any key
  NoVal      \* the value beside an empty slot (never read for a real key)

ASSUME N \in Nat /\ N >= 2 /\ N % 2 = 0

Idx == 0 .. N - 1

\* Leaf(): every key is invalidKey().
EmptyLeaf == [keys |-> [i \in Idx |-> KInvalid], vals |-> [i \in Idx |-> NoVal]]

\* A leaf built from up to N sorted pairs, as training fills it.
LeafOf(ks, vs) ==
  [keys |-> [i \in Idx |-> IF i < Len(ks) THEN ks[i + 1] ELSE KInvalid],
   vals |-> [i \in Idx |-> IF i < Len(ks) THEN vs[i + 1] ELSE NoVal]]

isfull(l)  == l.keys[N - 1] # KInvalid
isEmpty(l) == l.keys[0] = KInvalid

\* insertHere: the leaf may hold k when k >= keys[0] (false on an empty
\* leaf, except for k = invalidKey()).
insertHere(l, k) == k >= l.keys[0]

\* The first slot holding k, or N when none does.
FirstEq(l, k) ==
  IF \E i \in Idx : l.keys[i] = k
  THEN CHOOSE i \in Idx : l.keys[i] = k /\ \A j \in 0 .. i - 1 : l.keys[j] # k
  ELSE N

\* contain / search: early false when keys[0] > key, then a scan of all N
\* slots for an equal key.
contain(l, k) == ~(l.keys[0] > k) /\ FirstEq(l, k) < N

\* The value search() writes to its out-parameter when it finds k.
searchVal(l, k) == l.vals[FirstEq(l, k)]

\* update: overwrite the value beside the first equal key.
update(l, k, v) ==
  IF contain(l, k) THEN [l EXCEPT !.vals[FirstEq(l, k)] = v] ELSE l

\* insert_not_full: i is the first slot with keys[i] >= key (a slot equal
\* to key returns 0 and changes nothing); j the first empty slot from i;
\* when there is none (j = N) nothing changes.  Otherwise [i, j) moves one
\* slot right and (key, val) is written at i.
insert_not_full(l, k, v) ==
  LET i == IF \E p \in Idx : l.keys[p] >= k
           THEN CHOOSE p \in Idx : l.keys[p] >= k /\ \A q \in 0 .. p - 1 : l.keys[q] < k
           ELSE N
      j == IF \E p \in i .. N - 1 : l.keys[p] = KInvalid
           THEN CHOOSE p \in i .. N - 1 : l.keys[p] = KInvalid
                                      /\ \A q \in i .. p - 1 : l.keys[q] # KInvalid
           ELSE N
      Shift(f, x) == [p \in Idx |-> IF p = i THEN x
                                    ELSE IF p > i /\ p <= j THEN f[p - 1]
                                    ELSE f[p]]
  IN IF i < N /\ l.keys[i] = k THEN l
     ELSE IF j >= N THEN l
     ELSE [keys |-> Shift(l.keys, k), vals |-> Shift(l.vals, v)]

\* remove: the first equal key is overwritten by shifting [i+1, N) one slot
\* left, and keys[N-1] becomes invalidKey().
remove(l, k) ==
  LET i == FirstEq(l, k)
      Left(f, last) == [p \in Idx |-> IF p < i THEN f[p]
                                      ELSE IF p = N - 1 THEN last
                                      ELSE f[p + 1]]
  IN IF i = N THEN l
     ELSE [keys |-> Left(l.keys, KInvalid), vals |-> Left(l.vals, NoVal)]

\* Whether remove(l, k) finds the key (its return value).
removes(l, k) == FirstEq(l, k) < N

\* The split of insert_synonym: the upper half [mid, N) is copied into the
\* new leaf's slots [0, mid) and cleared in the old one.
mid == N \div 2
UpperHalf(l) ==
  [keys |-> [i \in Idx |-> IF i < mid THEN l.keys[mid + i] ELSE KInvalid],
   vals |-> [i \in Idx |-> IF i < mid THEN l.vals[mid + i] ELSE NoVal]]
LowerHalf(l) ==
  [keys |-> [i \in Idx |-> IF i < mid THEN l.keys[i] ELSE KInvalid],
   vals |-> [i \in Idx |-> IF i < mid THEN l.vals[i] ELSE NoVal]]

\* range: from slot 0 up to the first empty slot, the entries with
\* keys[i] >= key are appended to acc while it holds fewer than n.  The
\* key stands for the (key, val) pair the scan returns.
range(l, k, n, acc) ==
  LET hits == SelectSeq([q \in 1 .. FirstEq(l, KInvalid) |-> l.keys[q - 1]], LAMBDA x : x >= k)
      room == n - Len(acc)
  IN acc \o SubSeq(hits, 1, IF room < Len(hits) THEN room ELSE Len(hits))

\* The keys a leaf holds.
KeysOf(l) == {l.keys[i] : i \in Idx} \ {KInvalid}

\* Leaf invariant: the occupied slots are a prefix, strictly increasing.
SortedPrefix(l) ==
  \A i \in 0 .. N - 2 :
    /\ l.keys[i] = KInvalid => l.keys[i + 1] = KInvalid
    /\ l.keys[i + 1] # KInvalid => l.keys[i] < l.keys[i + 1]
=============================================================================
