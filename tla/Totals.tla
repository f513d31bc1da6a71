------------------------------- MODULE Totals -------------------------------
(* The total of a sequence of numbers and the selection of some of its     *)
(* places, as recursive functions: the folds of the community modules take *)
(* an operator, which the provers cannot instantiate.                      *)
EXTENDS Naturals, Sequences

Total(s) ==
    LET sum[i \in 0 .. Len(s)] == IF i = 0 THEN 0 ELSE sum[i - 1] + s[i]
    IN  sum[Len(s)]

\* The entries of s at the places in S, in order.
Picked(s, S) ==
    LET pick[i \in 0 .. Len(s)] ==
          IF i = 0 THEN <<>>
          ELSE IF i \in S THEN Append(pick[i - 1], s[i]) ELSE pick[i - 1]
    IN  pick[Len(s)]
=============================================================================
