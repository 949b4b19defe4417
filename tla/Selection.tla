------------------------------- MODULE Selection -------------------------------
(***************************************************************************)
(* The elements of a sequence at some of its positions, in their order:    *)
(* what SelectSeq makes, as a definition a proof can expand.               *)
(***************************************************************************)
EXTENDS Naturals, Sequences, FiniteSets

(* how many positions of K are not behind i *)
Rank(K, i) == Cardinality(K \cap (1 .. i))

(* the j-th position of K *)
Nth(K, j) == CHOOSE i \in K : Rank(K, i) = j

Sub(s, K) == [j \in 1 .. Cardinality(K) |-> s[Nth(K, j)]]
================================================================================
