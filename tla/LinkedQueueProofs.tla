-------------------------- MODULE LinkedQueueProofs -------------------------
(***************************************************************************)
(* For every set of messages, every heap and every capacity: the linked    *)
(* queue stays well formed, and it implements the first-in first-out       *)
(* queue of Fifo.                                                          *)
(***************************************************************************)
EXTENDS LinkedQueue, SequenceTheorems, TLAPS

Inv == TypeOK /\ WellLinked

LEMMA InitInv == Init => Inv
  BY NullAssumption, CapacityAssumption
     DEF Init, Inv, TypeOK, WellLinked, Counted, Distinct, Stored, Threaded, Ends

\* What Append does to the history, element by element.
LEMMA AppendChain ==
  ASSUME NEW temp \in Node, chain \in Seq(Node), chain' = Append(chain, temp)
  PROVE  /\ chain' \in Seq(Node)
         /\ Len(chain') = Len(chain) + 1
         /\ \A i \in 1..Len(chain) : chain'[i] = chain[i]
         /\ chain'[Len(chain) + 1] = temp
  OBVIOUS

\* What Tail does to it.
LEMMA TailChain ==
  ASSUME chain \in Seq(Node), chain # <<>>, chain' = Tail(chain)
  PROVE  /\ chain' \in Seq(Node)
         /\ Len(chain) \in Nat \ {0}
         /\ Len(chain') = Len(chain) - 1
         /\ \A i \in 1..(Len(chain) - 1) : chain'[i] = chain[i + 1]
  OBVIOUS

\* A node fresh from malloc is not queued.
LEMMA FreshNode ==
  ASSUME Inv, NEW temp \in Free
  PROVE  /\ temp \in Node
         /\ temp \notin allocated
         /\ \A i \in 1..Len(chain) : chain[i] # temp
  BY DEF Inv, Free, WellLinked, Stored

LEMMA EnqueueInv ==
  ASSUME Inv, NEW d \in Data, enqueue(d)
  PROVE  Inv'
<1>1. PICK temp \in Free :
        /\ LinkFirst(temp) \/ LinkFront(temp)
        /\ data' = [data EXCEPT ![temp] = d]
        /\ head' = temp
        /\ size' = size + 1
        /\ allocated' = allocated \cup {temp}
        /\ chain' = Append(chain, temp)
  BY DEF enqueue
<1>2. temp \in Node /\ temp \notin allocated /\ \A i \in 1..Len(chain) : chain[i] # temp
  BY FreshNode
<1>3. /\ chain \in Seq(Node) /\ chain' \in Seq(Node)
      /\ Len(chain) \in Nat
      /\ Len(chain') = Len(chain) + 1
      /\ \A i \in 1..Len(chain) : chain'[i] = chain[i]
      /\ chain'[Len(chain) + 1] = temp
  BY <1>1, <1>2, AppendChain DEF Inv, TypeOK
<1>4. size = Len(chain) /\ result' = result
  BY DEF Inv, WellLinked, Counted, enqueue
<1>5. head # NULL
  BY NullAssumption DEF Inv, TypeOK
<1>6. CASE LinkFirst(temp)
  <2>1. Len(chain) = 0
    BY <1>4, <1>5, <1>6 DEF LinkFirst, isEmpty
  <2>2. TypeOK'
    BY <1>1, <1>2, <1>3, <1>4, <1>6 DEF Inv, TypeOK, LinkFirst
  <2>3. Counted'
    BY <1>1, <1>3, <1>4, CapacityAssumption DEF Counted, enqueue, isFull
  <2>4. Distinct' /\ Threaded'
    BY <1>3, <2>1 DEF Distinct, Threaded
  <2>5. Stored'
    BY <1>1, <1>2, <1>3, <2>1 DEF Stored, Inv, TypeOK
  <2>6. Ends'
    BY <1>1, <1>2, <1>3, <1>6, <2>1 DEF Ends, LinkFirst, Inv, TypeOK
  <2> QED
    BY <2>2, <2>3, <2>4, <2>5, <2>6 DEF Inv, WellLinked
<1>7. CASE LinkFront(temp)
  <2>1. /\ Len(chain) > 0 /\ chain # <<>>
        /\ head = chain[Len(chain)] /\ tail = chain[1] /\ next[tail] = NULL
    BY <1>3, <1>4, <1>7 DEF LinkFront, isEmpty, Inv, WellLinked, Ends
  <2>2. head \in Node /\ temp # head
    BY <1>2, <1>3, <2>1
  <2>3. TypeOK'
    BY <1>1, <1>2, <1>3, <1>4, <1>7 DEF Inv, TypeOK, LinkFront
  <2>4. Counted'
    BY <1>1, <1>3, <1>4, CapacityAssumption DEF Counted, enqueue, isFull
  <2>5. Distinct'
    BY <1>2, <1>3 DEF Distinct, Inv, WellLinked
  <2>6. Stored'
    BY <1>1, <1>2, <1>3 DEF Stored, Inv, WellLinked, TypeOK
  <2>7. Threaded'
    <3> SUFFICES ASSUME NEW i \in 1..Len(chain)
                 PROVE  prev'[chain'[i]] = chain'[i + 1] /\ next'[chain'[i + 1]] = chain'[i]
      BY <1>3 DEF Threaded
    <3>1. chain'[i] = chain[i] /\ chain[i] \in Node /\ chain[i] # temp
      BY <1>2, <1>3
    <3>2. CASE i = Len(chain)
      BY <1>2, <1>3, <1>7, <2>1, <2>2, <3>1, <3>2 DEF LinkFront, Inv, TypeOK
    <3>3. CASE i # Len(chain)
      <4>1. i \in 1..(Len(chain) - 1) /\ i + 1 \in 1..Len(chain)
        BY <1>3, <3>3
      <4>2. chain'[i + 1] = chain[i + 1] /\ chain[i + 1] \in Node /\ chain[i + 1] # temp
        BY <1>2, <1>3, <4>1
      <4>3. chain[i] # head
        BY <1>3, <2>1, <3>3, <4>1 DEF Inv, WellLinked, Distinct
      <4>4. prev[chain[i]] = chain[i + 1] /\ next[chain[i + 1]] = chain[i]
        BY <4>1 DEF Inv, WellLinked, Threaded
      <4> QED
        BY <1>7, <3>1, <4>2, <4>3, <4>4, <1>2, <2>2 DEF LinkFront, Inv, TypeOK
    <3> QED
      BY <3>2, <3>3
  <2>8. Ends'
    <3>1. chain'[1] = chain[1] /\ chain[1] # temp
      BY <1>2, <1>3, <2>1
    <3> QED
      BY <1>1, <1>2, <1>3, <1>7, <2>1, <2>2, <3>1 DEF Ends, LinkFront, Inv, TypeOK
  <2> QED
    BY <2>3, <2>4, <2>5, <2>6, <2>7, <2>8 DEF Inv, WellLinked
<1> QED
  BY <1>1, <1>6, <1>7

\* Moving the tail to the younger neighbour, or to a fresh dummy when there
\* is none.
LEMMA RetireInv ==
  ASSUME Inv, ~isEmpty, NEW to \in Node, Retire(to), allocated' \in SUBSET Node,
         allocated \subseteq allocated',
         \/ prev[tail] # NULL /\ to = prev[tail]
         \/ prev[tail] = NULL /\ to \notin allocated
  PROVE  Inv'
<1>1. /\ chain \in Seq(Node) /\ Len(chain) \in Nat \ {0} /\ chain # <<>>
      /\ size = Len(chain) /\ tail = chain[1] /\ head = chain[Len(chain)]
      /\ prev[head] = NULL
  BY DEF Inv, TypeOK, WellLinked, Counted, Ends, isEmpty
<1>2. /\ chain' = Tail(chain)
      /\ chain' \in Seq(Node)
      /\ Len(chain') = Len(chain) - 1
      /\ \A i \in 1..(Len(chain) - 1) : chain'[i] = chain[i + 1]
  BY <1>1, TailChain DEF Retire
<1>3. prev[tail] = NULL <=> Len(chain) = 1
  <2>1. CASE Len(chain) = 1
    BY <1>1, <2>1
  <2>2. CASE Len(chain) # 1
    <3>1. prev[chain[1]] = chain[2] /\ chain[2] \in Node
      BY <1>1, <2>2 DEF Inv, WellLinked, Threaded
    <3> QED
      BY <1>1, <2>2, <3>1, NullAssumption
  <2> QED
    BY <2>1, <2>2
<1>4. Len(chain) > 1 => to = chain[2]
  BY <1>1, <1>3 DEF Inv, WellLinked, Threaded
<1>5. data[tail] \in Data
  BY <1>1 DEF Inv, WellLinked, Stored
<1>6. TypeOK'
  BY <1>1, <1>2, <1>5 DEF Inv, TypeOK, Retire
<1>7. Counted'
  BY <1>1, <1>2, CapacityAssumption DEF Inv, WellLinked, Counted, Retire
<1>8. Distinct'
  BY <1>1, <1>2 DEF Inv, WellLinked, Distinct
<1>9. Stored'
  BY <1>1, <1>2 DEF Inv, WellLinked, Stored, Retire
<1>10. Threaded'
  <2> SUFFICES ASSUME NEW i \in 1..(Len(chain) - 2)
               PROVE  prev'[chain'[i]] = chain'[i + 1] /\ next'[chain'[i + 1]] = chain'[i]
    BY <1>1, <1>2 DEF Threaded
  <2>1. /\ chain'[i] = chain[i + 1] /\ chain'[i + 1] = chain[i + 2]
        /\ i + 1 \in 1..(Len(chain) - 1) /\ i + 2 \in 1..Len(chain)
    BY <1>1, <1>2
  <2>2. prev[chain[i + 1]] = chain[i + 2] /\ next[chain[i + 2]] = chain[i + 1]
    BY <2>1, (i + 1) + 1 = i + 2 DEF Inv, WellLinked, Threaded
  <2>3. chain[i + 2] # to
    BY <1>1, <1>4, <2>1 DEF Inv, WellLinked, Distinct
  <2> QED
    BY <2>1, <2>2, <2>3 DEF Retire, Inv, TypeOK
<1>11. Ends'
  <2> SUFFICES ASSUME Len(chain) > 1
               PROVE  /\ tail' = chain'[1] /\ next'[tail'] = NULL
                      /\ head' = chain'[Len(chain')] /\ prev'[head'] = NULL
    BY <1>1, <1>2 DEF Ends
  <2>1. tail' = chain'[1]
    BY <1>1, <1>2, <1>4 DEF Retire
  <2>2. next'[tail'] = NULL
    BY DEF Retire, Inv, TypeOK
  <2>3. chain'[Len(chain')] = chain[Len(chain)]
    BY <1>1, <1>2
  <2> QED
    BY <1>1, <2>1, <2>2, <2>3 DEF Retire
<1> QED
  BY <1>6, <1>7, <1>8, <1>9, <1>10, <1>11 DEF Inv, WellLinked

LEMMA NextInv == Inv /\ [Next]_vars => Inv'
<1> SUFFICES ASSUME Inv, [Next]_vars PROVE Inv'
  OBVIOUS
<1>1. CASE \E d \in Data : enqueue(d)
  BY <1>1, EnqueueInv
<1>2. CASE dequeueInner
  <2>1. /\ chain \in Seq(Node) /\ chain # <<>> /\ Len(chain) \in Nat
        /\ tail = chain[1] /\ head = chain[Len(chain)] /\ prev[head] = NULL
    BY <1>2 DEF dequeueInner, isEmpty, Inv, TypeOK, WellLinked, Counted, Ends
  <2>2. Len(chain) # 0 /\ Len(chain) # 1
    BY <1>2, <2>1 DEF dequeueInner
  <2>3. 1 \in 1..(Len(chain) - 1) /\ 2 \in 1..Len(chain)
    <3>1. \A n \in Nat : n # 0 /\ n # 1 => 1 \in 1..(n - 1) /\ 2 \in 1..n
      OBVIOUS
    <3> QED
      BY <2>1, <2>2, <3>1
  <2>4. prev[tail] \in Node /\ allocated' = allocated
    BY <1>2, <2>1, <2>3 DEF dequeueInner, Inv, WellLinked, Threaded
  <2> QED
    BY <1>2, <2>4, RetireInv DEF dequeueInner, Inv, TypeOK
<1>3. CASE dequeueLast
  <2>1. PICK dummy \in Free : Retire(dummy) /\ allocated' = allocated \cup {dummy}
    BY <1>3 DEF dequeueLast
  <2>2. dummy \in Node /\ dummy \notin allocated
    BY FreshNode
  <2> QED
    BY <1>3, <2>1, <2>2, RetireInv DEF dequeueLast, Inv, TypeOK
<1>4. CASE peek
  <2>1. data[tail] \in Data
    BY <1>4 DEF peek, isEmpty, Inv, TypeOK, WellLinked, Counted, Ends, Stored
  <2> QED
    BY <1>4, <2>1 DEF peek, fields, Inv, TypeOK, WellLinked, Counted, Distinct, Stored,
                      Threaded, Ends
<1>5. CASE returnNull
  BY <1>5 DEF returnNull, fields, Inv, TypeOK, WellLinked, Counted, Distinct, Stored,
              Threaded, Ends
<1>6. CASE UNCHANGED vars
  BY <1>6 DEF vars, Inv, TypeOK, WellLinked, Counted, Distinct, Stored, Threaded, Ends
<1> QED
  BY <1>1, <1>2, <1>3, <1>4, <1>5, <1>6 DEF Next

\* The queue of bc_server_queue.c is well formed after every sequence of
\* calls, and dequeue and peek never return an uninitialised field: size
\* counts the queued nodes, the pointers join them in order and both ends
\* are closed.
THEOREM QueueWellLinked == Spec => [](TypeOK /\ WellLinked)
<1>1. Init => Inv
  BY InitInv
<1>2. Inv /\ [Next]_vars => Inv'
  BY NextInv
<1> QED
  BY <1>1, <1>2, PTL DEF Spec, Inv

-----------------------------------------------------------------------------
(* The refinement: each call acts on Items as Fifo's action on items. *)

\* The queued messages are messages, one for each queued node.
LEMMA ItemsType ==
  ASSUME Inv
  PROVE  /\ Items \in Seq(Data) /\ Len(Items) = Len(chain)
         /\ \A k \in 1..Len(chain) : Items[k] = data[chain[k]]
  BY DEF Inv, TypeOK, WellLinked, Stored, Items

\* The same in the next state.
LEMMA ItemsTypeNext ==
  ASSUME Inv'
  PROVE  /\ Items' \in Seq(Data) /\ Len(Items') = Len(chain')
         /\ \A k \in 1..Len(chain') : Items'[k] = data'[chain'[k]]
  BY DEF Inv, TypeOK, WellLinked, Stored, Items

LEMMA EnqueueIsPut ==
  ASSUME Inv, Inv', NEW d \in Data, enqueue(d)
  PROVE  Promise!Put(d)
<1>1. PICK temp \in Free :
        /\ data' = [data EXCEPT ![temp] = d]
        /\ chain' = Append(chain, temp)
  BY DEF enqueue
<1>2. temp \in Node /\ \A i \in 1..Len(chain) : chain[i] # temp
  BY FreshNode
<1>3. /\ Items \in Seq(Data) /\ Len(Items) = Len(chain)
      /\ \A k \in 1..Len(chain) : Items[k] = data[chain[k]]
  BY ItemsType
<1>4. /\ Items' \in Seq(Data) /\ Len(Items') = Len(chain')
      /\ \A k \in 1..Len(chain') : Items'[k] = data'[chain'[k]]
  BY ItemsTypeNext
<1>5. /\ Len(chain') = Len(chain) + 1 /\ Len(chain) \in Nat
      /\ \A i \in 1..Len(chain) : chain'[i] = chain[i] /\ chain[i] \in Node
      /\ chain'[Len(chain) + 1] = temp
  BY <1>1, <1>2, AppendChain DEF Inv, TypeOK
<1>6. data \in [Node -> Data \cup {NULL, Junk}]
  BY DEF Inv, TypeOK
<1>7. /\ Len(Items') = Len(Items) + 1
      /\ Items'[Len(Items) + 1] = d
      /\ \A k \in 1..Len(Items) : Items'[k] = Items[k]
  BY <1>1, <1>2, <1>3, <1>4, <1>5, <1>6
<1>8. Items' = Append(Items, d)
  BY <1>3, <1>4, <1>7
<1>9. Promise!HasRoom
  BY <1>3 DEF Promise!HasRoom, enqueue, isFull, Inv, WellLinked, Counted
<1> QED
  BY <1>8, <1>9 DEF Promise!Put, enqueue

LEMMA RetireIsTake ==
  ASSUME Inv, Inv', ~isEmpty, NEW to, Retire(to)
  PROVE  Promise!Take
<1>1. /\ Items \in Seq(Data) /\ Len(Items) = Len(chain)
      /\ \A k \in 1..Len(chain) : Items[k] = data[chain[k]]
  BY ItemsType
<1>2. /\ Items' \in Seq(Data) /\ Len(Items') = Len(chain')
      /\ \A k \in 1..Len(chain') : Items'[k] = data'[chain'[k]]
  BY ItemsTypeNext
<1>3. /\ chain \in Seq(Node) /\ chain # <<>> /\ tail = chain[1]
      /\ Len(chain) \in Nat \ {0}
  BY DEF Inv, TypeOK, WellLinked, Counted, Ends, isEmpty
<1>4. /\ Len(chain') = Len(chain) - 1
      /\ \A i \in 1..(Len(chain) - 1) : chain'[i] = chain[i + 1]
  BY <1>3, TailChain DEF Retire
<1>5. result' = Items[1] /\ data' = data
  BY <1>1, <1>3 DEF Retire
<1>6. /\ Len(Items') = Len(Items) - 1
      /\ \A k \in 1..(Len(Items) - 1) : Items'[k] = Items[k + 1]
  BY <1>1, <1>2, <1>3, <1>4, <1>5
<1>7. Items # <<>> /\ Items' = Tail(Items)
  BY <1>1, <1>2, <1>3, <1>6
<1> QED
  BY <1>1, <1>5, <1>7 DEF Promise!Take

LEMMA StepIsFifoStep == Inv /\ Inv' /\ [Next]_vars => [Promise!Next]_(Promise!fifoVars)
<1> SUFFICES ASSUME Inv, Inv', [Next]_vars
             PROVE  [Promise!Next]_(Promise!fifoVars)
  OBVIOUS
<1>1. ASSUME NEW d \in Data, enqueue(d) PROVE Promise!Next
  BY <1>1, EnqueueIsPut DEF Promise!Next
<1>2. CASE dequeueInner
  BY <1>2, RetireIsTake DEF dequeueInner, Promise!Next
<1>3. CASE dequeueLast
  BY <1>3, RetireIsTake DEF dequeueLast, Promise!Next
<1>4. CASE peek
  <2>1. /\ Items \in Seq(Data) /\ Len(Items) = Len(chain)
        /\ \A k \in 1..Len(chain) : Items[k] = data[chain[k]]
    BY ItemsType
  <2>2. Len(chain) \in Nat \ {0} /\ tail = chain[1]
    BY <1>4 DEF peek, isEmpty, Inv, TypeOK, WellLinked, Counted, Ends
  <2>3. Items # <<>> /\ result' = Head(Items)
    BY <1>4, <2>1, <2>2 DEF peek
  <2>4. Items' = Items
    BY <1>4 DEF peek, fields, Items
  <2> QED
    BY <2>3, <2>4 DEF Promise!Next, Promise!Look
<1>5. CASE returnNull
  <2>1. Items = <<>>
    BY <1>5, ItemsType DEF returnNull, isEmpty, Inv, WellLinked, Counted
  <2>2. Items' = Items
    BY <1>5 DEF returnNull, fields, Items
  <2> QED
    BY <1>5, <2>1, <2>2 DEF returnNull, Promise!Next, Promise!Nothing
<1>6. CASE UNCHANGED vars
  BY <1>6 DEF vars, Items, Promise!fifoVars
<1> QED
  BY <1>1, <1>2, <1>3, <1>4, <1>5, <1>6 DEF Next

\* Every behaviour of the linked list, seen through the messages it holds,
\* is a behaviour of the first-in first-out queue: no call of
\* bc_server_queue.c loses, repeats or reorders a message.
THEOREM QueueIsFifo == Spec => ImplementsFifo
<1>1. Init => Promise!Init
  BY DEF Init, Promise!Init, Items
<1>2. Inv /\ Inv' /\ [Next]_vars => [Promise!Next]_(Promise!fifoVars)
  BY StepIsFifoStep
<1>3. Spec => []Inv
  BY QueueWellLinked, PTL DEF Inv
<1> QED
  BY <1>1, <1>2, <1>3, PTL DEF Spec, ImplementsFifo, Promise!Spec
=============================================================================
