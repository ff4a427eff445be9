------------------------------- MODULE Mailbox ------------------------------
(***************************************************************************)
(* What the server's receiving side promises its message handler, whatever *)
(* the threads, the mutex and the semaphore do: every message a client     *)
(* thread has received is handed to the handler once, in one order, and    *)
(* none is left waiting for ever by a handler that has not stopped.        *)
(***************************************************************************)
EXTENDS Sequences

CONSTANT Msg

VARIABLES
  pending,    \* received, not yet handed over, oldest first
  delivered,  \* everything handed over so far
  stopped     \* the handler takes no message at present

mailVars == <<pending, delivered, stopped>>

Init == pending = <<>> /\ delivered = <<>> /\ stopped = FALSE

Post(m) ==
  /\ pending' = Append(pending, m)
  /\ UNCHANGED delivered
  /\ stopped' \in BOOLEAN

Deliver ==
  /\ ~stopped /\ pending # <<>>
  /\ delivered' = Append(delivered, Head(pending))
  /\ pending' = Tail(pending)
  /\ stopped' \in BOOLEAN

\* What becomes of a message handed over may hold the handler up, for a while
\* or for good.
Turn ==
  /\ stopped' \in BOOLEAN
  /\ UNCHANGED <<pending, delivered>>

Next == (\E m \in Msg : Post(m)) \/ Deliver \/ Turn

Safety == Init /\ [][Next]_mailVars
Spec == Safety /\ SF_mailVars(Deliver)
=============================================================================
