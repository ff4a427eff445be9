---------------------------- MODULE LinkedQueue -----------------------------
(***************************************************************************)
(* server/bc_server_queue.c: a doubly linked list of malloc'ed nodes.      *)
(* `head' is where messages enter, `tail' where they leave; a node's prev  *)
(* leads to the next younger node and its next to the next older one.      *)
(* Each call of the queue is one action: every caller in the server holds  *)
(* the mutex around it (MessagePump models the callers).                   *)
(*                                                                         *)
(* The heap is three functions over Node.  A node that malloc has not      *)
(* handed out, and every field its owner has not written since, holds      *)
(* Junk: reading Junk would be reading uninitialised memory.  Nodes are    *)
(* never freed (bc_server_queue.c:92 is commented out).                    *)
(*                                                                         *)
(* `chain' is a history variable: the queued nodes, oldest first.  No      *)
(* guard reads it.                                                         *)
(***************************************************************************)
EXTENDS Integers, Sequences, FiniteSets

CONSTANTS
  Data,      \* the messages
  Node,      \* the addresses malloc can return; finite sets bound the heap
  NULL, Junk,
  Capacity   \* init_queue's max_size; the server passes -1, no limit

ASSUME CapacityAssumption == Capacity \in Nat \cup {-1}
ASSUME NullAssumption == NULL \notin Node /\ NULL \notin Data
ASSUME JunkAssumption == Junk \notin Node \cup Data \cup {NULL}

VARIABLES
  head, tail, size,    \* SERVER_QUEUE_OBJ
  next, prev, data,    \* the fields of every NODE_OBJ
  allocated,           \* nodes malloc has handed out
  result,              \* what the last dequeue or peek returned
  chain                \* history: the queued nodes, oldest first

fields == <<next, prev, data>>
vars == <<head, tail, size, next, prev, data, allocated, result, chain>>

Free == Node \ allocated

\* init_queue: head and tail share one dummy node with all fields NULL.
Init ==
  \E dummy \in Node :
    /\ head = dummy /\ tail = dummy
    /\ size = 0
    /\ next = [n \in Node |-> IF n = dummy THEN NULL ELSE Junk]
    /\ prev = [n \in Node |-> IF n = dummy THEN NULL ELSE Junk]
    /\ data = [n \in Node |-> IF n = dummy THEN NULL ELSE Junk]
    /\ allocated = {dummy}
    /\ result = NULL
    /\ chain = <<>>

\* Fault: one message too many.
isFullLate == ~(Capacity = -1 \/ size <= Capacity)
isFull == ~(Capacity = -1 \/ size < Capacity)
isEmpty == size = 0

\* The branch of enqueue for an empty queue: whatever head and tail were
\* left pointing at is forgotten.
LinkFirst(temp) ==
  /\ head = NULL \/ isEmpty
  /\ tail' = temp
  /\ next' = [next EXCEPT ![temp] = NULL]
  /\ prev' = [prev EXCEPT ![temp] = NULL]

\* Fault: the old head is not linked back to the new node.
LinkFrontOneWay(temp) ==
  /\ ~(head = NULL \/ isEmpty)
  /\ next' = [next EXCEPT ![temp] = head]
  /\ prev' = [prev EXCEPT ![temp] = NULL]
  /\ UNCHANGED tail

\* The branch of enqueue that links the new node in front of the old head.
LinkFront(temp) ==
  /\ ~(head = NULL \/ isEmpty)
  /\ next' = [next EXCEPT ![temp] = head]
  /\ prev' = [prev EXCEPT ![temp] = NULL, ![head] = temp]
  /\ UNCHANGED tail

\* A full queue drops the message and changes nothing.
enqueue(d) ==
  /\ ~isFull
  /\ \E temp \in Free :
       /\ LinkFirst(temp) \/ LinkFront(temp)
       /\ data' = [data EXCEPT ![temp] = d]
       /\ head' = temp
       /\ size' = size + 1
       /\ allocated' = allocated \cup {temp}
       /\ chain' = Append(chain, temp)
  /\ UNCHANGED result

\* The tail moves to `to', whose next is cleared.
Retire(to) ==
  /\ tail' = to
  /\ next' = [next EXCEPT ![to] = NULL]
  /\ result' = data[tail]
  /\ size' = size - 1
  /\ chain' = Tail(chain)
  /\ UNCHANGED <<head, prev, data>>

\* dequeue of a node with a younger neighbour.
dequeueInner ==
  /\ ~isEmpty
  /\ prev[tail] # NULL
  /\ Retire(prev[tail])
  /\ UNCHANGED allocated

\* dequeue of the last node: a dummy is malloc'ed for tail, only its next is
\* written, and head keeps pointing at the node that left.
dequeueLast ==
  /\ ~isEmpty
  /\ prev[tail] = NULL
  /\ \E dummy \in Free :
       /\ Retire(dummy)
       /\ allocated' = allocated \cup {dummy}

peek ==
  /\ ~isEmpty
  /\ result' = data[tail]
  /\ UNCHANGED <<head, tail, size, fields, allocated, chain>>

\* dequeue and peek of an empty queue return NULL.
returnNull ==
  /\ isEmpty
  /\ result' = NULL
  /\ UNCHANGED <<head, tail, size, fields, allocated, chain>>

Next ==
  \/ \E d \in Data : enqueue(d)
  \/ dequeueInner
  \/ dequeueLast
  \/ peek
  \/ returnNull

Spec == Init /\ [][Next]_vars

-----------------------------------------------------------------------------
(* Properties *)

\* Every variable keeps its type: result is a message or NULL, so no
\* uninitialised data field is ever returned by dequeue or peek.
TypeOK ==
  /\ head \in Node /\ tail \in Node
  /\ size \in Nat
  /\ next \in [Node -> Node \cup {NULL, Junk}]
  /\ prev \in [Node -> Node \cup {NULL, Junk}]
  /\ data \in [Node -> Data \cup {NULL, Junk}]
  /\ allocated \subseteq Node
  /\ result \in Data \cup {NULL}
  /\ chain \in Seq(Node)

\* The queued nodes are distinct, allocated, as many as size says and within
\* the capacity; the pointers run through exactly these nodes from tail to
\* head and back, every one of them carries a message, and both ends are
\* closed.  An empty queue says nothing of head and tail: they may dangle.
Counted == size = Len(chain) /\ (Capacity = -1 \/ size <= Capacity)
Distinct == \A i, j \in 1..Len(chain) : chain[i] = chain[j] => i = j
Stored == \A i \in 1..Len(chain) : chain[i] \in allocated /\ data[chain[i]] \in Data
Threaded ==
  \A i \in 1..(Len(chain) - 1) :
    prev[chain[i]] = chain[i + 1] /\ next[chain[i + 1]] = chain[i]
Ends ==
  chain # <<>> =>
    /\ tail = chain[1] /\ next[tail] = NULL
    /\ head = chain[Len(chain)] /\ prev[head] = NULL
WellLinked == Counted /\ Distinct /\ Stored /\ Threaded /\ Ends

\* The messages of the list, from the tail on, which is the first to go.
Items == [k \in 1..Len(chain) |-> data[chain[k]]]

\* The linked structure keeps the promise of Fifo: each enqueue, dequeue and
\* peek acts on the walked-through messages as on a plain sequence.
Promise == INSTANCE Fifo WITH items <- Items
ImplementsFifo == Promise!Spec
=============================================================================
