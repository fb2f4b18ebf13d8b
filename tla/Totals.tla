------------------------------- MODULE Totals -------------------------------
(***************************************************************************)
(* Sums of token amounts.  An amount is a number of unit tokens, so a total *)
(* is how many unit tokens there are: counting a set needs no recursion,    *)
(* and its laws (TotalTheorems) follow from those of Cardinality.           *)
(***************************************************************************)
EXTENDS Integers, FiniteSets

\* The unit tokens of one holder under the amounts f.
UnitsOf(f, x) == {x} \X (1..f[x])

\* Those of every member of S.
Units(f, S) == UNION {UnitsOf(f, x) : x \in S}

\* The sum of f[x] over the members x of S.
Total(f, S) == Cardinality(Units(f, S))

\* Amounts of either sign: what was gained less what was lost.
Gains(f, S) == [x \in S |-> IF f[x] > 0 THEN f[x] ELSE 0]
Losses(f, S) == [x \in S |-> IF f[x] < 0 THEN 0 - f[x] ELSE 0]
NetTotal(f, S) == Total(Gains(f, S), S) - Total(Losses(f, S), S)
=============================================================================
