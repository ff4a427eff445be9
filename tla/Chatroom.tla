------------------------------ MODULE Chatroom ------------------------------
(***************************************************************************)
(* What BlackChat promises its users about what is said in the main chat:  *)
(* there is one conversation, in which nobody's lines change order or come *)
(* twice, and each user sees parts of it, in its order, nothing twice.     *)
(* It does not promise that everybody sees everything, nor that nothing    *)
(* else is mixed with it.                                                  *)
(***************************************************************************)
EXTENDS Sequences, Integers

CONSTANT Users

VARIABLES
  conversation,  \* who said which of his lines; number 0 is other text
  seen           \* what each user saw, as ranges of it; from 0 is other text

roomVars == <<conversation, seen>>

Extends(t, s) == Len(s) <= Len(t) /\ SubSeq(t, 1, Len(s)) = s

InOrder(c) ==
  \A i, j \in DOMAIN c :
    i < j /\ c[i].by = c[j].by /\ c[i].num > 0 /\ c[j].num > 0 => c[i].num < c[j].num

\* Ranges of positions, each behind the one before.
Increasing(s) ==
  \A i, j \in DOMAIN s : i < j /\ s[i].lo > 0 /\ s[j].lo > 0 => s[i].hi < s[j].lo

Init == conversation = <<>> /\ seen = [u \in Users |-> <<>>]

Speak ==
  /\ Extends(conversation', conversation)
  /\ InOrder(conversation')
  /\ UNCHANGED seen

Look(u) ==
  /\ seen' = [seen EXCEPT ![u] = seen'[u]]
  /\ Extends(seen'[u], seen[u])
  /\ Increasing(seen'[u])
  /\ \A i \in DOMAIN seen'[u] : seen'[u][i].hi <= Len(conversation)
  /\ UNCHANGED conversation

Next == Speak \/ \E u \in Users : Look(u)

Spec == Init /\ [][Next]_roomVars
=============================================================================
