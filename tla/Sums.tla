--------------------------------- MODULE Sums ---------------------------------
(***************************************************************************)
(* The sum of a sequence of integers, as the loop that the code writes     *)
(* with reduce.                                                            *)
(***************************************************************************)
EXTENDS Integers, Sequences

SumOf(s) ==
  LET upTo[n \in 0..Len(s)] == IF n = 0 THEN 0 ELSE upTo[n - 1] + s[n] IN upTo[Len(s)]
=============================================================================
