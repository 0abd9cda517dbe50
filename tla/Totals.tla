------------------------------- MODULE Totals -------------------------------
(***************************************************************************)
(* The sum of a sequence of integers, added up from its first element.  It *)
(* is a recursive function rather than a fold, so that it can be proved    *)
(* about.                                                                  *)
(***************************************************************************)
EXTENDS Integers, Sequences

Total(amounts) ==
    LET sum[n \in 0..Len(amounts)] == IF n = 0 THEN 0 ELSE sum[n - 1] + amounts[n]
    IN  sum[Len(amounts)]
=============================================================================
