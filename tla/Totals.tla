------------------------------- MODULE Totals --------------------------------
(***************************************************************************)
(* What the numbers of a table add up to, SUM in a statement over it: x    *)
(* counts f[x] times.  Said with sets, so that it can be reasoned about.   *)
(***************************************************************************)
EXTENDS Naturals, FiniteSets

Pairs(f) == UNION {{x} \X (1..f[x]) : x \in DOMAIN f}
Total(f) == Cardinality(Pairs(f))
=============================================================================
