------------------------------ MODULE RolexUtil ------------------------------
(***************************************************************************)
(* The routing search of the engine (src/rolex/rolex_util.hh):             *)
(* binary_search_branchless over the sorted pivot array model_keys, and    *)
(* the reference it must agree with: the first index i with                *)
(* arr[i] >= key, or n when there is none (spec 4.5, 4.6).                 *)
(*                                                                         *)
(* Arrays are TLA+ sequences, so the code's arr[q] is arr[q + 1] here;    *)
(* positions keep the code's 0-based values.                               *)
(***************************************************************************)
EXTENDS Integers, Sequences

\* bsr(x) = 31 - __builtin_clz(x): the index of the highest set bit.
\* Undefined for x = 0, which no caller below passes.
RECURSIVE bsr(_)
bsr(x) == IF x = 1 THEN 0 ELSE 1 + bsr(x \div 2)

\* The while loop: pos moves right by step while arr[pos + step] < key,
\* step halving each round.
RECURSIVE Probe(_, _, _, _)
Probe(arr, pos, step, key) ==
  IF step > 0
  THEN Probe(arr, IF arr[pos + step + 1] < key THEN pos + step ELSE pos, step \div 2, key)
  ELSE pos

\* A plausible slip: the final test with > instead of >=.
binary_search_strict(arr, n, key) ==
  LET step == 2 ^ bsr(n - 1)
      pos0 == IF arr[-1 + n - step + 1] < key THEN -1 + n - step ELSE -1
      pos  == Probe(arr, pos0, step \div 2, key) + 1
  IN IF pos < n /\ arr[pos + 1] > key THEN pos ELSE n

\* binary_search_branchless for n >= 2.  The first probe at pos + n - step
\* aligns the remaining steps to the end of the array: pos reaches at most
\* n - 2 before pos += 1, so the last read is arr[n - 1], and a key above
\* every pivot returns n.
binary_search_branchless(arr, n, key) ==
  LET step == 2 ^ bsr(n - 1)
      pos0 == IF arr[-1 + n - step + 1] < key THEN -1 + n - step ELSE -1
      pos  == Probe(arr, pos0, step \div 2, key) + 1
  IN IF pos < n /\ arr[pos + 1] >= key THEN pos ELSE n

\* The reference: the first 0-based index whose pivot is >= key, else n.
LowerBound(arr, key) ==
  LET ge == {i \in 1 .. Len(arr) : arr[i] >= key}
  IN IF ge = {} THEN Len(arr)
     ELSE (CHOOSE i \in ge : \A j \in ge : i <= j) - 1
=============================================================================
