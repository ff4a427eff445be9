-------------------------------- MODULE Fifo --------------------------------
(***************************************************************************)
(* What a user of the server's message queue relies on: a first-in         *)
(* first-out queue of messages that may have a limit.  `items' is the      *)
(* queue, oldest message first, and `result' is what the last dequeue or   *)
(* peek returned.  server/bc_server_queue.c promises no more than this;    *)
(* LinkedQueue is the pointer structure that has to keep the promise.      *)
(***************************************************************************)
EXTENDS Integers, Sequences

CONSTANTS
  Data,      \* the messages that can be queued
  NULL,      \* what dequeue and peek return when the queue is empty
  Capacity   \* the limit on the number of messages, -1 for none

VARIABLES items, result

fifoVars == <<items, result>>

HasRoom == Capacity = -1 \/ Len(items) < Capacity

Init == items = <<>> /\ result = NULL

Put(d) ==
  /\ HasRoom
  /\ items' = Append(items, d)
  /\ UNCHANGED result

Take ==
  /\ items # <<>>
  /\ result' = Head(items)
  /\ items' = Tail(items)

Look ==
  /\ items # <<>>
  /\ result' = Head(items)
  /\ UNCHANGED items

\* Taking from, or looking into, an empty queue yields NULL.
Nothing ==
  /\ items = <<>>
  /\ result' = NULL
  /\ UNCHANGED items

Next == (\E d \in Data : Put(d)) \/ Take \/ Look \/ Nothing

Spec == Init /\ [][Next]_fifoVars
=============================================================================
