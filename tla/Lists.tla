------------------------------- MODULE Lists --------------------------------
(***************************************************************************)
(* Linked lists as sequences.                                              *)
(***************************************************************************)
EXTENDS Naturals, Sequences, Functions

(* Sequence s without its i-th element: the list after list_del.           *)
Without(s, i) == [k \in 1..(Len(s) - 1) |-> IF k < i THEN s[k] ELSE s[k + 1]]

(* The elements of s that are in S, in the order of s, when it has no      *)
(* duplicates; there is one such sequence.                                 *)
InOrder(s, S) ==
  {q \in UNION {[1..n -> S] : n \in 0..Len(s)} :
     /\ Range(q) = S
     /\ \A i, j \in DOMAIN q : i < j =>
          \E k, l \in DOMAIN s : k < l /\ q[i] = s[k] /\ q[j] = s[l]}

(* The elements of a set S with at most n elements, in any order.          *)
Orders(S, n) ==
  {q \in UNION {[1..k -> S] : k \in 0..n} : IsInjective(q) /\ Range(q) = S}
=============================================================================
