------------------------------- MODULE Totals -------------------------------
(***************************************************************************)
(* Sums of natural numbers over a finite set, counted token by token: a    *)
(* sum is the number of pairs of an element and one of the units it has.   *)
(* What one element more or less changes then follows from what is known   *)
(* of the cardinality of finite sets.                                      *)
(***************************************************************************)
EXTENDS Integers, FiniteSets

Tokens(f, S) == UNION {{x} \X (1..f[x]) : x \in S}

\* The sum of f[x] over the x of S.
Total(f, S) == Cardinality(Tokens(f, S))
=============================================================================
