------------------------------ MODULE Rankings ------------------------------
(***************************************************************************)
(* What the queries of the repositories do with rows: put them in order,   *)
(* and add up a size of theirs as they are read in that order.             *)
(***************************************************************************)
EXTENDS Naturals, FiniteSets

\* ORDER BY: the pairs of the relation tell which row comes before which.
InOrder(S, before) ==
  [n \in 1 .. Cardinality(S) |->
     CHOOSE i \in S : Cardinality({j \in S : <<j, i>> \in before}) = n - 1]

\* The sum of the first n sizes, for every n up to m.
RunningSum(size, m) ==
  LET sum[n \in 0 .. m] == IF n = 0 THEN 0 ELSE sum[n - 1] + size[n]
  IN  sum

=============================================================================
