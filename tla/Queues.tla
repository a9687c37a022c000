------------------------------- MODULE Queues -------------------------------
(***************************************************************************)
(* What the scheduler keeps of a queue when it filters it.                 *)
(***************************************************************************)
EXTENDS Integers, Sequences, FiniteSets

(* The i-th smallest position in T.                                        *)
Nth(T, i) == CHOOSE p \in T : Cardinality({o \in T : o < p}) = i - 1

(* The elements of q at the positions T, in their order.                   *)
PickAt(q, T) == [i \in 1 .. Cardinality(T) |-> q[Nth(T, i)]]

(* The elements of q that are in S, in their order: [x for x in q if ...]. *)
Kept(q, S) == PickAt(q, {p \in DOMAIN q : q[p] \in S})
=============================================================================
