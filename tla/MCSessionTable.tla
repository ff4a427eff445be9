--------------------------- MODULE MCSessionTable ---------------------------
(* The model-checked instances of SessionTable. *)
EXTENDS SessionTable, TLC

\* Bound: the fourth connection comes only where nobody votes.
Scope == cast = 0 \/ Cardinality({c \in Conn : peer[c] # "absent"}) < 4

\* Connections are interchangeable.
Connections == Permutations(Conn)
=============================================================================
