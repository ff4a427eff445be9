--------------------------- MODULE MCLinkedQueue ----------------------------
(* The model-checked instances of LinkedQueue. *)
EXTENDS LinkedQueue, TLC

\* Addresses are interchangeable: no definition compares them but for equality.
Addresses == Permutations(Node)
=============================================================================
