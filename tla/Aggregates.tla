----------------------------- MODULE Aggregates -----------------------------
(* The SUM that queries and properties take over a set of rows.              *)
EXTENDS Integers, FiniteSets, FiniteSetsExt

\* The sum of the values f gives to the rows in S.
SumOf(f, S) == MapThenSumSet(LAMBDA x : f[x], S)
=============================================================================
