----------------------------- MODULE SortedSeqs -----------------------------
(***************************************************************************)
(* Sequences and the sets of their indices or elements.  What the library  *)
(* has for this (SelectSeq, SetToSortSeq) is recursive or built into TLC;  *)
(* these say the same in a form that can be proved about.                  *)
(***************************************************************************)
EXTENDS Integers, Sequences, FiniteSets

(* The elements of a finite set of numbers, smallest first. *)
Sorted(S) ==
  CHOOSE s \in [1 .. Cardinality(S) -> S] : \A i, j \in DOMAIN s : i < j => s[i] < s[j]

(* Where the elements of a set occur in a sequence, and how often. *)
IndicesOf(seq, S) == {i \in DOMAIN seq : seq[i] \in S}
Count(seq, S) == Cardinality(IndicesOf(seq, S))

(* The elements of a sequence that are in a set, in their order. *)
Filtered(seq, S) ==
  LET at == Sorted(IndicesOf(seq, S))
  IN  [k \in DOMAIN at |-> seq[at[k]]]
=============================================================================
