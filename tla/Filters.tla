------------------------------ MODULE Filters ------------------------------
(***************************************************************************)
(* Python's list comprehension "[x for x in s if test(x)]", without        *)
(* recursion: the entries of s whose positions are in a set K, in order.   *)
(***************************************************************************)
EXTENDS Naturals, Sequences, FiniteSets

(* How many elements of K are at or below i. *)
Rank(K, i) == Cardinality({h \in K : h <= i})

(* The j-th smallest element of a finite set K of numbers. *)
Nth(K, j) == CHOOSE i \in K : Rank(K, i) = j

(* The entries of s at the positions in K, in their order in s. *)
Keep(s, K) == [j \in 1..Cardinality(K) |-> s[Nth(K, j)]]
=============================================================================
