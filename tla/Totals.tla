-------------------------------- MODULE Totals --------------------------------
(***************************************************************************)
(* What the built-in sum makes of a sequence of numbers.                   *)
(***************************************************************************)
EXTENDS Naturals, Sequences

Total(numbers) ==
  LET sum[i \in 0 .. Len(numbers)] == IF i = 0 THEN 0 ELSE sum[i - 1] + numbers[i]
  IN  sum[Len(numbers)]
==============================================================================
