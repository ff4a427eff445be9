----------------------------- MODULE MCDelivery -----------------------------
(* Instances of Delivery for TLC. *)
EXTENDS Delivery, TLC, FiniteSets

\* How many lines two users have said, and how many times a stream was padded:
\* by typing, by an answer, by a notice that someone has left.
Said == Len(due[1]) + Len(due[2])
Padded == typed[1] + Cardinality({c \in Clients : asked[c]}) + Cardinality({c \in Clients : ~open[c]})

\* Bound: three lines or paddings in all, of two users.
Scope == Said + Padded <= 3
=============================================================================
