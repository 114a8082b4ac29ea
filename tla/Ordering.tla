------------------------------- MODULE Ordering -------------------------------
(***************************************************************************)
(* The elements of a set put into a sequence, as sorted and list.sort do.  *)
(***************************************************************************)
EXTENDS Naturals, FiniteSets

\* The k-th is the one that k - 1 others come before.
Arranged(items, before) ==
  [k \in 1 .. Cardinality(items) |->
     CHOOSE i \in items : Cardinality({j \in items : <<j, i>> \in before}) = k - 1]

\* Numbers, the smallest first.
Ascending(numbers) == Arranged(numbers, {p \in numbers \X numbers : p[1] < p[2]})
==============================================================================
