------------------------------ MODULE Picking ------------------------------
(***************************************************************************)
(* The list comprehensions of the code, [x for x in s if ...], by the      *)
(* positions they keep: the kept elements, in their order.  SelectSeq      *)
(* gives the same sequence, but by a recursion that cannot be reasoned     *)
(* about; here an element's place is the number of positions kept up to    *)
(* its own.                                                                *)
(***************************************************************************)
EXTENDS Integers, Sequences, FiniteSets

\* How many of the positions in I are at or before i, and the n-th of them.
Rank(I, i) == Cardinality({j \in I : j <= i})
Nth(I, n) == CHOOSE i \in I : Rank(I, i) = n

Picked(s, I) == [n \in 1..Cardinality(I) |-> s[Nth(I, n)]]
=============================================================================
