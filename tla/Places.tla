------------------------------- MODULE Places -------------------------------
(* The elements of a sequence at some of its places, in order: what a loop *)
(* leaves that copies those of an array that it wants.                     *)
EXTENDS Naturals, FiniteSets

Nth(places, n) == CHOOSE i \in places : Cardinality({j \in places : j < i}) = n - 1
Picked(seq, places) == [n \in 1..Cardinality(places) |-> seq[Nth(places, n)]]

(* The elements that are in a set, or are not. *)
Within(seq, S) == Picked(seq, {n \in DOMAIN seq : seq[n] \in S})
Without(seq, S) == Picked(seq, {n \in DOMAIN seq : seq[n] \notin S})

(* The elements of a set in an order, which says for each what is before it. *)
Sorted(S, below) ==
    [n \in 1..Cardinality(S) |-> CHOOSE x \in S : Cardinality(below[x]) = n - 1]
=============================================================================
