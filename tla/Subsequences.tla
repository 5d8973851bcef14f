---------------------------- MODULE Subsequences ----------------------------
(* What a filter keeps of a sequence, by the positions it keeps: Vec::retain   *)
(* and Iterator::filter of the Rust code, Array.prototype.filter of the pages.  *)
(* Its facts can be proved, which those of SelectSeq, a recursion over the      *)
(* sequence, cannot with the provers at hand.                                   *)
EXTENDS Naturals, Sequences, FiniteSets

\* How many of the positions in keep come no later than i
Rank(keep, i) == Cardinality({j \in keep : j <= i})

\* The k-th position in keep
Nth(keep, k) == CHOOSE i \in keep : Rank(keep, i) = k

\* The elements of s at the positions in keep, in their order
Subsequence(s, keep) == [k \in 1..Cardinality(keep) |-> s[Nth(keep, k)]]
=============================================================================
