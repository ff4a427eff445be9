-------------------------- MODULE MessagePumpProofs -------------------------
(***************************************************************************)
(* For any number of clients, any traffic and any instant messages: the    *)
(* mutex keeps the queue's list and size together, no wakeup of the main   *)
(* thread is lost, and what the clients are sent is what was said, in one  *)
(* order and nothing twice.                                                *)
(*                                                                         *)
(* NoLostWakeup is not inductive: that a dequeue which finds size zero     *)
(* leaves no message behind needs SizeTracksList, and that in turn needs   *)
(* Exclusion.  The order of the messages is kept along Line, which only    *)
(* linking lengthens; what the clients were sent is then compared with the *)
(* messages dispatched, step by step as one client sees it (StepToClient). *)
(***************************************************************************)
EXTENDS MessagePump, FiniteSetTheorems, TLAPS

Inv == TypeOK /\ Exclusion /\ SizeTracksList /\ NoLostWakeup

LEMMA Holders ==
  /\ Free \notin Clients /\ Main \notin Clients /\ Main # Free
  /\ IsFiniteSet(Clients)
<1>1. NumClients \in Nat
  BY BoundsAssumption
<1>2. IsFiniteSet(1..NumClients)
  BY <1>1, FS_Interval
<1> QED
  BY <1>1, <1>2 DEF Free, Main, Clients

LEMMA MsgFacts ==
  /\ \A c \in Clients : Quota[c] \in Nat
  /\ \A c \in Clients : \A k \in 0..Quota[c] : <<c, k>> \in Msg
  /\ None \notin Msg
  BY Holders, BoundsAssumption DEF Msg, None, Free

\* What write does to its two variables.
LEMMA WriteType ==
  ASSUME PeerType, NEW i \in Clients, NEW m \in Msg \cup Bye, Write(i, m)
  PROVE  /\ backlog' \in [Clients -> 0..Window]
         /\ out' \in [Clients -> Seq(Msg \cup Bye)]
<1>1. CASE Reaches(i)
  <2>1. backlog[i] + 1 \in 0..Window /\ 0 \in 0..Window
    BY <1>1, BoundsAssumption DEF PeerType, Write, Blocks
  <2>2. Append(out[i], m) \in Seq(Msg \cup Bye)
    BY DEF PeerType
  <2>3. backlog' \in [Clients -> 0..Window]
    BY <1>1, <2>1 DEF PeerType, Write
  <2>4. out' \in [Clients -> Seq(Msg \cup Bye)]
    BY <1>1, <2>2 DEF PeerType, Write
  <2> QED
    BY <2>3, <2>4
<1>2. CASE ~Reaches(i)
  BY <1>2 DEF PeerType, Write
<1> QED
  BY <1>1, <1>2

\* A dequeue that sees a size other than zero finds a message.
LEMMA TakeFindsOne ==
  ASSUME TypeOK, SizeTracksList, Take
  PROVE  /\ list # <<>> /\ Head(list) \in Msg /\ Tail(list) \in Seq(Msg)
         /\ Len(Tail(list)) = Len(list) - 1
<1>1. list \in Seq(Msg) /\ size \in Nat /\ size # 0
  BY DEF TypeOK, QueueType, Take
<1>2. Undiscounted = 0 /\ Uncounted \in Nat
  BY DEF Take, MainGoto, Undiscounted, Uncounted
<1>3. list # <<>>
  BY <1>1, <1>2 DEF SizeTracksList
<1> QED
  BY <1>1, <1>3

\* The main thread discounts a message that was counted.
LEMMA ShrinkFromOne ==
  ASSUME TypeOK, Exclusion, SizeTracksList, Shrink
  PROVE  size - 1 \in Nat /\ Uncounted = 0
<1>1. list \in Seq(Msg) /\ size \in Nat
  BY DEF TypeOK, QueueType
<1>2. Undiscounted = 1 /\ mutex = Main
  BY DEF Shrink, MainGoto, Undiscounted, Release
<1>3. Uncounted = 0
  BY <1>2, Holders DEF Exclusion, Uncounted
<1> QED
  BY <1>1, <1>2, <1>3 DEF SizeTracksList

LEMMA QueueTypeStep == TypeOK /\ Exclusion /\ SizeTracksList /\ [Next]_vars => QueueType'
<1> SUFFICES ASSUME TypeOK, Exclusion, SizeTracksList, [Next]_vars PROVE QueueType'
  OBVIOUS
<1> USE Holders DEF TypeOK, QueueType, ThreadType, Goto, Acquire, Release, MainGoto, threadVars, mainVars, queueVars, peerVars
<1>1. ASSUME NEW c \in Clients, Link(c) PROVE QueueType'
  BY <1>1 DEF Link
<1>2. ASSUME NEW c \in Clients, Count(c) PROVE QueueType'
  BY <1>2 DEF Count
<1>3. ASSUME NEW c \in Clients, Post(c) PROVE QueueType'
  BY <1>3 DEF Post
<1>4. ASSUME NEW c \in Clients, ClearSlot(c) PROVE QueueType'
  BY <1>4 DEF ClearSlot
<1>5. ASSUME NEW c \in Clients, CloseSocket(c) PROVE QueueType'
  BY <1>5 DEF CloseSocket
<1>6. CASE Wait
  BY <1>6 DEF Wait
<1>7. CASE Take
  BY <1>7, TakeFindsOne DEF Take
<1>8. CASE Shrink
  BY <1>8, ShrinkFromOne DEF Shrink
<1>9. CASE UNCHANGED <<mutex, sem, list, size>>
  BY <1>9 DEF QueueType
<1> QED
  BY <1>1, <1>2, <1>3, <1>4, <1>5, <1>6, <1>7, <1>8, <1>9 DEF Next, Thread, Peer, MainThread, vars, LookAtQueue, ReadMessage, ReadError, ReadEnd, SayBye, ByeAcct, PeerSends, PeerReads, PeerLeaves, CheckEmpty, TakeNothing, Ignore, Broadcast, Crash, SendPrivate, WritePrivate, PrivateAcct, SkipSlot, PickSlot, WriteSlot, SlotAcct, BroadcastDone

LEMMA ThreadTypeStep == TypeOK /\ Exclusion /\ SizeTracksList /\ [Next]_vars => ThreadType'
<1> SUFFICES ASSUME TypeOK, Exclusion, SizeTracksList, [Next]_vars PROVE ThreadType'
  OBVIOUS
<1> USE Holders DEF TypeOK, ThreadType, ThreadPc, Goto, Acquire, Release, MainGoto, threadVars, mainVars, queueVars, peerVars
<1>1. ASSUME NEW c \in Clients, LookAtQueue(c) PROVE ThreadType'
  BY <1>1 DEF LookAtQueue
<1>2. ASSUME NEW c \in Clients, ReadMessage(c) PROVE ThreadType'
  <2>1. got[c] + 1 \in 0..Quota[c]
    BY <1>2, MsgFacts DEF ReadMessage, PeerType
  <2>2. <<c, got[c] + 1>> \in Msg /\ None \notin Msg
    BY <2>1, MsgFacts
  <2> QED
    BY <1>2, <2>2 DEF ReadMessage
<1>3. ASSUME NEW c \in Clients, ReadError(c) PROVE ThreadType'
  BY <1>3, MsgFacts DEF ReadError
<1>4. ASSUME NEW c \in Clients, ReadEnd(c) PROVE ThreadType'
  BY <1>4 DEF ReadEnd
<1>5. ASSUME NEW c \in Clients, Link(c) PROVE ThreadType'
  BY <1>5 DEF Link
<1>6. ASSUME NEW c \in Clients, Count(c) PROVE ThreadType'
  BY <1>6 DEF Count
<1>7. ASSUME NEW c \in Clients, Post(c) PROVE ThreadType'
  BY <1>7 DEF Post
<1>8. ASSUME NEW c \in Clients, SayBye(c) PROVE ThreadType'
  BY <1>8 DEF SayBye
<1>9. ASSUME NEW c \in Clients, ByeAcct(c) PROVE ThreadType'
  <2>1. 1 \in Clients
    BY BoundsAssumption DEF Clients
  <2>2. slot[c] # NumClients => slot[c] + 1 \in Clients
    <3>1. NumClients \in Nat /\ slot[c] \in 1..NumClients
      BY BoundsAssumption DEF Clients
    <3> QED
      BY <3>1 DEF Clients
  <2>3. slot' \in [Clients -> Clients]
    BY <1>9, <2>1, <2>2 DEF ByeAcct
  <2> QED
    BY <1>9, <2>3 DEF ByeAcct
<1>10. ASSUME NEW c \in Clients, ClearSlot(c) PROVE ThreadType'
  BY <1>10 DEF ClearSlot
<1>11. ASSUME NEW c \in Clients, CloseSocket(c) PROVE ThreadType'
  BY <1>11 DEF CloseSocket
<1>12. CASE UNCHANGED threadVars
  BY <1>12 DEF ThreadType
<1> QED
  BY <1>1, <1>2, <1>3, <1>4, <1>5, <1>6, <1>7, <1>8, <1>9, <1>10, <1>11, <1>12 DEF Next, Thread, Peer, MainThread, vars, PeerSends, PeerReads, PeerLeaves, CheckEmpty, Wait, Take, Shrink, TakeNothing, Ignore, Broadcast, Crash, SendPrivate, WritePrivate, PrivateAcct, SkipSlot, PickSlot, WriteSlot, SlotAcct, BroadcastDone

LEMMA HandledType == MainType /\ Handled => handled' \in Seq(Msg)
<1> SUFFICES ASSUME MainType, Handled PROVE handled' \in Seq(Msg)
  OBVIOUS
<1>1. message # None => Append(handled, message) \in Seq(Msg)
  BY DEF MainType
<1> QED
  BY <1>1 DEF MainType, Handled

LEMMA MainTypeStep == TypeOK /\ Exclusion /\ SizeTracksList /\ [Next]_vars => MainType'
<1> SUFFICES ASSUME TypeOK, Exclusion, SizeTracksList, [Next]_vars PROVE MainType'
  OBVIOUS
<1> USE Holders, BoundsAssumption DEF TypeOK, MainType, MainPc, Clients, Goto, Acquire, Release, MainGoto, threadVars, mainVars, queueVars, peerVars
<1>1. CASE CheckEmpty
  BY <1>1 DEF CheckEmpty
<1>2. CASE Wait
  BY <1>2 DEF Wait
<1>3. CASE Take
  BY <1>3, TakeFindsOne DEF Take
<1>4. CASE Shrink
  BY <1>4 DEF Shrink
<1>5. CASE TakeNothing
  BY <1>5 DEF TakeNothing
<1>6. CASE Ignore
  BY <1>6, HandledType DEF Ignore
<1>7. CASE Broadcast
  BY <1>7, HandledType DEF Broadcast
<1>8. CASE Crash \/ SendPrivate
  BY <1>8, HandledType, MsgFacts, InstantAssumption DEF Crash, SendPrivate
<1>9. CASE WritePrivate \/ PrivateAcct
  BY <1>9 DEF WritePrivate, PrivateAcct
<1>10. CASE SkipSlot
  BY <1>10 DEF SkipSlot
<1>11. CASE PickSlot
  BY <1>11 DEF PickSlot
<1>12. CASE WriteSlot
  BY <1>12 DEF WriteSlot
<1>13. CASE SlotAcct
  BY <1>13 DEF SlotAcct
<1>14. CASE BroadcastDone
  BY <1>14 DEF BroadcastDone
<1>15. CASE UNCHANGED <<mainVars, handled>>
  BY <1>15 DEF MainType
<1> QED
  BY <1>1, <1>2, <1>3, <1>4, <1>5, <1>6, <1>7, <1>8, <1>9, <1>10, <1>11, <1>12, <1>13, <1>14, <1>15 DEF Next, Thread, Peer, MainThread, vars, LookAtQueue, ReadMessage, ReadError, ReadEnd, Link, Count, Post, SayBye, ByeAcct, ClearSlot, CloseSocket, PeerSends, PeerReads, PeerLeaves

LEMMA PeerTypeStep == TypeOK /\ Exclusion /\ SizeTracksList /\ [Next]_vars => PeerType'
<1> SUFFICES ASSUME TypeOK, Exclusion, SizeTracksList, [Next]_vars PROVE PeerType'
  OBVIOUS
<1> USE Holders DEF TypeOK, PeerType, Goto, Acquire, Release, MainGoto, threadVars, mainVars, queueVars, peerVars
<1>1. ASSUME NEW c \in Clients, ReadMessage(c) PROVE PeerType'
  BY <1>1 DEF ReadMessage
<1>2. ASSUME NEW c \in Clients, ReadError(c) PROVE PeerType'
  BY <1>2 DEF ReadError
<1>3. ASSUME NEW c \in Clients, SayBye(c) PROVE PeerType'
  <2>1. slot[c] \in Clients /\ <<c, -1>> \in Msg \cup Bye
    BY DEF ThreadType, Bye
  <2>2. Write(slot[c], <<c, -1>>)
    BY <1>3 DEF SayBye
  <2> QED
    BY <1>3, <2>1, <2>2, WriteType DEF SayBye
<1>4. ASSUME NEW c \in Clients, PeerSends(c) PROVE PeerType'
  <2>1. \A d \in Clients : got[d] <= sent'[d] /\ sent'[d] <= Quota[d]
    BY <1>4, MsgFacts DEF PeerSends
  <2> QED
    BY <1>4, <2>1 DEF PeerSends
<1>5. ASSUME NEW c \in Clients, PeerReads(c) PROVE PeerType'
  <2>1. backlog[c] - 1 \in 0..Window
    BY <1>5, BoundsAssumption DEF PeerReads
  <2>2. backlog' \in [Clients -> 0..Window]
    BY <1>5, <2>1 DEF PeerReads
  <2> QED
    BY <1>5, <2>2 DEF PeerReads
<1>6. ASSUME NEW c \in Clients, PeerLeaves(c) PROVE PeerType'
  BY <1>6 DEF PeerLeaves
<1>7. CASE WritePrivate
  <2>1. message \in Msg
    BY <1>7 DEF WritePrivate, MainType
  <2>2. CASE idx \in Clients
    BY <1>7, <2>1, <2>2, WriteType DEF WritePrivate
  <2>3. CASE idx \notin Clients
    BY <1>7, <2>3 DEF WritePrivate
  <2> QED
    BY <2>2, <2>3
<1>8. CASE WriteSlot
  <2>1. idx \in Clients /\ message \in Msg
    BY <1>8 DEF WriteSlot, MainType
  <2>2. Write(idx, message)
    BY <1>8 DEF WriteSlot
  <2> QED
    BY <1>8, <2>1, <2>2, WriteType DEF WriteSlot
<1>9. CASE UNCHANGED peerVars
  BY <1>9 DEF PeerType
<1> QED
  BY <1>1, <1>2, <1>3, <1>4, <1>5, <1>6, <1>7, <1>8, <1>9 DEF Next, Thread, Peer, MainThread, vars, LookAtQueue, ReadEnd, Link, Count, Post, ByeAcct, ClearSlot, CloseSocket, CheckEmpty, Wait, Take, Shrink, TakeNothing, Ignore, Broadcast, Crash, SendPrivate, PrivateAcct, SkipSlot, PickSlot, SlotAcct, BroadcastDone

LEMMA ExclusionStep == TypeOK /\ Exclusion /\ [Next]_vars => Exclusion'
<1> SUFFICES ASSUME TypeOK, Exclusion, [Next]_vars PROVE Exclusion'
  OBVIOUS
<1> USE Holders DEF TypeOK, QueueType, ThreadType, Exclusion, Goto, MainGoto, Acquire, Release,
                    threadVars, mainVars
<1>1. ASSUME NEW c \in Clients, LookAtQueue(c) PROVE Exclusion'
  BY <1>1 DEF LookAtQueue
<1>2. ASSUME NEW c \in Clients, ReadMessage(c) PROVE Exclusion'
  BY <1>2 DEF ReadMessage
<1>3. ASSUME NEW c \in Clients, ReadError(c) PROVE Exclusion'
  BY <1>3 DEF ReadError
<1>4. ASSUME NEW c \in Clients, ReadEnd(c) PROVE Exclusion'
  BY <1>4 DEF ReadEnd
<1>5. ASSUME NEW c \in Clients, Link(c) PROVE Exclusion'
  BY <1>5 DEF Link
<1>6. ASSUME NEW c \in Clients, Count(c) PROVE Exclusion'
  BY <1>6 DEF Count
<1>7. ASSUME NEW c \in Clients, Post(c) PROVE Exclusion'
  BY <1>7 DEF Post
<1>8. ASSUME NEW c \in Clients, SayBye(c) PROVE Exclusion'
  BY <1>8 DEF SayBye
<1>9. ASSUME NEW c \in Clients, ByeAcct(c) PROVE Exclusion'
  BY <1>9 DEF ByeAcct
<1>10. ASSUME NEW c \in Clients, ClearSlot(c) PROVE Exclusion'
  BY <1>10 DEF ClearSlot
<1>11. ASSUME NEW c \in Clients, CloseSocket(c) PROVE Exclusion'
  BY <1>11 DEF CloseSocket
<1>12. CASE CheckEmpty
  BY <1>12 DEF CheckEmpty
<1>13. CASE Wait
  BY <1>13 DEF Wait
<1>14. CASE Take
  BY <1>14 DEF Take
<1>15. CASE Shrink
  BY <1>15 DEF Shrink
<1>16. CASE TakeNothing
  BY <1>16 DEF TakeNothing
<1>17. CASE Ignore
  BY <1>17 DEF Ignore
<1>18. CASE Broadcast
  BY <1>18 DEF Broadcast
<1>19. CASE Crash \/ SendPrivate
  BY <1>19 DEF Crash, SendPrivate
<1>20. CASE WritePrivate \/ PrivateAcct
  BY <1>20 DEF WritePrivate, PrivateAcct
<1>21. CASE SkipSlot
  BY <1>21 DEF SkipSlot
<1>22. CASE PickSlot
  BY <1>22 DEF PickSlot
<1>23. CASE WriteSlot
  BY <1>23 DEF WriteSlot
<1>24. CASE SlotAcct
  BY <1>24 DEF SlotAcct
<1>25. CASE BroadcastDone
  BY <1>25 DEF BroadcastDone
<1>26. CASE UNCHANGED <<mutex, pc, mpc>>
  BY <1>26
<1> QED
  BY <1>1, <1>2, <1>3, <1>4, <1>5, <1>6, <1>7, <1>8, <1>9, <1>10, <1>11, <1>12, <1>13, <1>14, <1>15, <1>16, <1>17, <1>18, <1>19, <1>20, <1>21, <1>22, <1>23, <1>24, <1>25, <1>26 DEF Next, Thread, Peer, MainThread, vars, PeerSends, PeerReads, PeerLeaves

\* The steps of a client thread outside enqueue and sem_post.
Elsewhere(c) ==
  \/ LookAtQueue(c) \/ ReadMessage(c) \/ ReadError(c) \/ ReadEnd(c)
  \/ SayBye(c) \/ ByeAcct(c) \/ ClearSlot(c) \/ CloseSocket(c)

LEMMA ElsewhereStep ==
  ASSUME TypeOK, NEW c \in Clients, Elsewhere(c)
  PROVE  /\ UNCHANGED <<list, size, sem, mpc>>
         /\ \A d \in Clients : pc'[d] = "count" <=> pc[d] = "count"
         /\ \A d \in Clients : pc'[d] = "post" <=> pc[d] = "post"
<1> USE DEF TypeOK, ThreadType, Goto, queueVars, mainVars
<1>1. CASE LookAtQueue(c)
  BY <1>1 DEF LookAtQueue
<1>2. CASE ReadMessage(c)
  BY <1>2 DEF ReadMessage
<1>3. CASE ReadError(c)
  BY <1>3 DEF ReadError
<1>4. CASE ReadEnd(c)
  BY <1>4 DEF ReadEnd
<1>5. CASE SayBye(c)
  BY <1>5 DEF SayBye
<1>6. CASE ByeAcct(c)
  BY <1>6 DEF ByeAcct
<1>7. CASE ClearSlot(c)
  BY <1>7 DEF ClearSlot
<1>8. CASE CloseSocket(c)
  BY <1>8 DEF CloseSocket
<1> QED
  BY <1>1, <1>2, <1>3, <1>4, <1>5, <1>6, <1>7, <1>8 DEF Elsewhere

\* The steps of the main thread outside dequeue and sem_wait.
MainElsewhere ==
  \/ Ignore \/ Broadcast \/ Crash \/ SendPrivate \/ WritePrivate \/ PrivateAcct
  \/ SkipSlot \/ PickSlot \/ WriteSlot \/ SlotAcct \/ BroadcastDone

LEMMA MainElsewhereStep ==
  ASSUME MainElsewhere
  PROVE  /\ UNCHANGED <<list, size, sem, pc>>
         /\ mpc' \notin {"lock", "shrink"} /\ mpc \notin {"lock", "shrink"}
<1> USE DEF MainGoto, queueVars, threadVars
<1>1. CASE Ignore
  BY <1>1 DEF Ignore
<1>2. CASE Broadcast
  BY <1>2 DEF Broadcast
<1>3. CASE Crash \/ SendPrivate
  BY <1>3 DEF Crash, SendPrivate
<1>4. CASE WritePrivate \/ PrivateAcct
  BY <1>4 DEF WritePrivate, PrivateAcct
<1>5. CASE SkipSlot
  BY <1>5 DEF SkipSlot
<1>6. CASE PickSlot
  BY <1>6 DEF PickSlot
<1>7. CASE WriteSlot
  BY <1>7 DEF WriteSlot
<1>8. CASE SlotAcct
  BY <1>8 DEF SlotAcct
<1>9. CASE BroadcastDone
  BY <1>9 DEF BroadcastDone
<1> QED
  BY <1>1, <1>2, <1>3, <1>4, <1>5, <1>6, <1>7, <1>8, <1>9 DEF MainElsewhere

LEMMA SizeTracksListStep ==
  TypeOK /\ Exclusion /\ SizeTracksList /\ [Next]_vars => SizeTracksList'
<1> SUFFICES ASSUME TypeOK, Exclusion, SizeTracksList, [Next]_vars PROVE SizeTracksList'
  OBVIOUS
<1>0. /\ list \in Seq(Msg) /\ Len(list) \in Nat /\ size \in Nat
      /\ pc \in [Clients -> ThreadPc]
      /\ size + Uncounted = Len(list) + Undiscounted
  BY DEF TypeOK, QueueType, ThreadType, SizeTracksList
<1>1. ASSUME NEW c \in Clients, Link(c) PROVE SizeTracksList'
  <2>1. Uncounted = 0 /\ Undiscounted = 0
    BY <1>1, Holders DEF Link, Acquire, Exclusion, Uncounted, Undiscounted
  <2>2. Uncounted' = 1 /\ Undiscounted' = 0
    BY <1>0, <1>1, <2>1 DEF Link, Goto, mainVars, Uncounted, Undiscounted
  <2>3. Len(list') = Len(list) + 1 /\ size' = size
    BY <1>0, <1>1 DEF Link
  <2> QED
    BY <1>0, <2>1, <2>2, <2>3 DEF SizeTracksList
<1>2. ASSUME NEW c \in Clients, Count(c) PROVE SizeTracksList'
  <2>1. Uncounted = 1 /\ Undiscounted = 0
    BY <1>2, Holders DEF Count, Goto, Exclusion, Uncounted, Undiscounted
  <2>2. Uncounted' = 0 /\ Undiscounted' = 0
    BY <1>0, <1>2, <2>1, Holders DEF Count, Goto, Release, mainVars, Exclusion, Uncounted, Undiscounted
  <2>3. list' = list /\ size' = size + 1
    BY <1>2 DEF Count
  <2> QED
    BY <1>0, <2>1, <2>2, <2>3 DEF SizeTracksList
<1>3. ASSUME NEW c \in Clients, Post(c) PROVE SizeTracksList'
  BY <1>0, <1>3 DEF Post, Goto, queueVars, mainVars, SizeTracksList, Uncounted, Undiscounted
<1>4. ASSUME NEW c \in Clients, Elsewhere(c) PROVE SizeTracksList'
  BY <1>0, <1>4, ElsewhereStep DEF SizeTracksList, Uncounted, Undiscounted
<1>5. CASE Take
  <2>1. Len(list') = Len(list) - 1 /\ size' = size
    BY <1>5, TakeFindsOne DEF Take
  <2>2. Uncounted' = Uncounted /\ Undiscounted = 0 /\ Undiscounted' = 1
    BY <1>5 DEF Take, MainGoto, threadVars, Uncounted, Undiscounted
  <2>3. Uncounted \in Nat
    BY DEF Uncounted
  <2> QED
    BY <1>0, <2>1, <2>2, <2>3 DEF SizeTracksList
<1>6. CASE Shrink
  <2>1. size' = size - 1 /\ list' = list
    BY <1>6 DEF Shrink
  <2>2. Uncounted' = Uncounted /\ Undiscounted = 1 /\ Undiscounted' = 0
    BY <1>6 DEF Shrink, MainGoto, threadVars, Uncounted, Undiscounted
  <2>3. Uncounted \in Nat
    BY DEF Uncounted
  <2> QED
    BY <1>0, <2>1, <2>2, <2>3 DEF SizeTracksList
<1>7. CASE CheckEmpty \/ Wait \/ TakeNothing
  BY <1>0, <1>7 DEF CheckEmpty, Wait, TakeNothing, MainGoto, queueVars, threadVars,
                    SizeTracksList, Uncounted, Undiscounted
<1>8. CASE MainElsewhere
  BY <1>0, <1>8, MainElsewhereStep DEF SizeTracksList, Uncounted, Undiscounted
<1>9. CASE UNCHANGED <<list, size, pc, mpc>>
  BY <1>0, <1>9 DEF SizeTracksList, Uncounted, Undiscounted
<1> QED
  BY <1>1, <1>2, <1>3, <1>4, <1>5, <1>6, <1>7, <1>8, <1>9
     DEF Next, Thread, Peer, MainThread, Elsewhere, MainElsewhere, vars, queueVars, threadVars,
         mainVars, PeerSends, PeerReads, PeerLeaves

\* The clients about to post are finitely many, and each one counts.
LEMMA PostingFacts ==
  /\ IsFiniteSet(Posting) /\ Cardinality(Posting) \in Nat
  /\ \A c : c \notin Posting => Cardinality(Posting \cup {c}) = Cardinality(Posting) + 1
  /\ \A c \in Posting : Cardinality(Posting \ {c}) = Cardinality(Posting) - 1
<1>1. IsFiniteSet(Posting)
  BY Holders, FS_Subset DEF Posting
<1> QED
  BY <1>1, FS_CardinalityType, FS_AddElement, FS_RemoveElement

LEMMA NoLostWakeupStep == Inv /\ [Next]_vars => NoLostWakeup'
<1> SUFFICES ASSUME Inv, [Next]_vars PROVE NoLostWakeup'
  OBVIOUS
<1>0. /\ list \in Seq(Msg) /\ Len(list) \in Nat /\ sem \in Nat /\ size \in Nat
      /\ pc \in [Clients -> ThreadPc]
      /\ Len(list) <= sem + Cardinality(Posting) + OnItsWay
      /\ OnItsWay \in 0..1
      /\ Cardinality(Posting) \in Nat
  BY PostingFacts DEF Inv, TypeOK, QueueType, ThreadType, NoLostWakeup, OnItsWay
<1>1. ASSUME NEW c \in Clients, Link(c) PROVE NoLostWakeup'
  <2>1. Posting' = Posting \cup {c} /\ c \notin Posting
    BY <1>0, <1>1 DEF Link, Goto, Posting
  <2>2. Cardinality(Posting') = Cardinality(Posting) + 1
    BY <2>1, PostingFacts
  <2>3. Len(list') = Len(list) + 1 /\ sem' = sem /\ OnItsWay' = OnItsWay
    BY <1>0, <1>1 DEF Link, mainVars, OnItsWay
  <2> QED
    BY <1>0, <2>2, <2>3 DEF NoLostWakeup
<1>2. ASSUME NEW c \in Clients, Count(c) PROVE NoLostWakeup'
  <2>1. Posting' = Posting
    BY <1>0, <1>2 DEF Count, Goto, Posting
  <2> QED
    BY <1>0, <1>2, <2>1 DEF Count, mainVars, NoLostWakeup, OnItsWay
<1>3. ASSUME NEW c \in Clients, Post(c) PROVE NoLostWakeup'
  <2>1. Posting' = Posting \ {c} /\ c \in Posting
    BY <1>0, <1>3 DEF Post, Goto, Posting
  <2>2. Cardinality(Posting') = Cardinality(Posting) - 1
    BY <2>1, PostingFacts
  <2>3. list' = list /\ sem' = sem + 1 /\ OnItsWay' = OnItsWay
    BY <1>3 DEF Post, queueVars, mainVars, OnItsWay
  <2> QED
    BY <1>0, <2>2, <2>3 DEF NoLostWakeup
<1>4. ASSUME NEW c \in Clients, Elsewhere(c) PROVE NoLostWakeup'
  <2>1. UNCHANGED <<list, sem, mpc>> /\ Posting' = Posting
    BY <1>4, ElsewhereStep DEF Inv, Posting
  <2> QED
    BY <1>0, <2>1 DEF NoLostWakeup, OnItsWay
<1>5. CASE CheckEmpty
  BY <1>0, <1>5 DEF CheckEmpty, MainGoto, queueVars, threadVars, NoLostWakeup, OnItsWay, Posting
<1>6. CASE Wait
  <2>1. Posting' = Posting /\ list' = list /\ sem' = sem - 1 /\ OnItsWay = 0 /\ OnItsWay' = 1
    BY <1>6 DEF Wait, MainGoto, queueVars, threadVars, Posting, OnItsWay
  <2> QED
    BY <1>0, <2>1 DEF NoLostWakeup
<1>7. CASE Take
  <2>1. Len(list') = Len(list) - 1
    BY <1>7, TakeFindsOne DEF Take, Inv
  <2>2. Posting' = Posting /\ sem' = sem /\ OnItsWay = 1 /\ OnItsWay' = 0
    BY <1>7 DEF Take, MainGoto, threadVars, Posting, OnItsWay
  <2> QED
    BY <1>0, <2>1, <2>2 DEF NoLostWakeup
<1>8. CASE TakeNothing
  <2>1. Uncounted = 0 /\ Undiscounted = 0 /\ size = 0
    BY <1>8, Holders DEF TakeNothing, MainGoto, Inv, Exclusion, Uncounted, Undiscounted
  <2>2. Len(list) = 0 /\ list' = list /\ Posting' = Posting /\ sem' = sem /\ OnItsWay' = 0
    BY <1>0, <1>8, <2>1 DEF TakeNothing, MainGoto, queueVars, threadVars, Posting, OnItsWay,
                            Inv, SizeTracksList
  <2> QED
    BY <1>0, <2>2 DEF NoLostWakeup
<1>9. CASE Shrink
  BY <1>0, <1>9 DEF Shrink, MainGoto, threadVars, NoLostWakeup, OnItsWay, Posting
<1>10. CASE MainElsewhere
  <2>1. UNCHANGED <<list, sem>> /\ Posting' = Posting /\ OnItsWay' = OnItsWay
    BY <1>10, MainElsewhereStep DEF Posting, OnItsWay
  <2> QED
    BY <1>0, <2>1 DEF NoLostWakeup
<1>11. CASE UNCHANGED <<list, sem, pc, mpc>>
  BY <1>0, <1>11 DEF NoLostWakeup, OnItsWay, Posting
<1> QED
  BY <1>1, <1>2, <1>3, <1>4, <1>5, <1>6, <1>7, <1>8, <1>9, <1>10, <1>11
     DEF Next, Thread, Peer, MainThread, Elsewhere, MainElsewhere, vars, queueVars, threadVars,
         mainVars, PeerSends, PeerReads, PeerLeaves

LEMMA InitInv == Init => Inv
<1> SUFFICES ASSUME Init PROVE Inv
  OBVIOUS
<1>1. TypeOK
  BY Holders, MsgFacts, BoundsAssumption
     DEF Init, TypeOK, QueueType, ThreadType, MainType, PeerType, ThreadPc, MainPc, Clients
<1>2. Exclusion
  BY Holders DEF Init, Exclusion
<1>3. Len(list) = 0 /\ sem = 0 /\ OnItsWay = 0 /\ Uncounted = 0 /\ Undiscounted = 0 /\ size = 0
  BY DEF Init, OnItsWay, Uncounted, Undiscounted
<1> QED
  BY <1>1, <1>2, <1>3, PostingFacts DEF Inv, SizeTracksList, NoLostWakeup

LEMMA NextInv == Inv /\ [Next]_vars => Inv'
  BY QueueTypeStep, ThreadTypeStep, MainTypeStep, PeerTypeStep, ExclusionStep,
     SizeTracksListStep, NoLostWakeupStep DEF Inv, TypeOK

\* In every run of the server's threads, with any number of clients: every
\* variable keeps its type, two threads are never inside a critical section
\* at once, size is exact whenever the mutex is free, and no queued message
\* is left without a wakeup for the main thread.
THEOREM PumpIsSafe == Spec => [](TypeOK /\ Exclusion /\ SizeTracksList /\ NoLostWakeup)
<1>1. Init => Inv
  BY InitInv
<1>2. Inv /\ [Next]_vars => Inv'
  BY NextInv
<1> QED
  BY <1>1, <1>2, PTL DEF Spec, Inv

\* Stated for the sleeping main thread: while it waits with no token in the
\* semaphore and a message is queued, some client thread is about to post.
THEOREM SleeperIsWoken ==
  Spec => [](mpc = "wait" /\ sem = 0 /\ list # <<>> =>
               \E c \in Clients : pc[c] \in {"count", "post"})
<1>1. Inv => (mpc = "wait" /\ sem = 0 /\ list # <<>> =>
                \E c \in Clients : pc[c] \in {"count", "post"})
  <2> SUFFICES ASSUME Inv, mpc = "wait", sem = 0, list # <<>> PROVE Posting # {}
    BY DEF Posting
  <2>1. Len(list) \in Nat /\ Len(list) > 0
    BY DEF Inv, TypeOK, QueueType
  <2>2. Cardinality(Posting) > 0
    BY <2>1, PostingFacts DEF Inv, NoLostWakeup, OnItsWay
  <2> QED
    BY <2>2, FS_EmptySet
<1>2. Spec => []Inv
  BY PumpIsSafe, PTL DEF Inv
<1> QED
  BY <1>1, <1>2, PTL

-----------------------------------------------------------------------------
(* The pump as a mailbox.  The steps of the mailbox are Link, which posts,  *)
(* and the first step of a dispatch, which delivers.                        *)

\* Between two dispatches the main thread holds no message.
EmptyHanded == mpc \in {"check", "wait", "lock"} => message = None

LEMMA EmptyHandedStep == EmptyHanded /\ [Next]_vars => EmptyHanded'
<1> SUFFICES ASSUME EmptyHanded, [Next]_vars PROVE EmptyHanded'
  OBVIOUS
<1>1. CASE MainThread
  BY <1>1 DEF MainThread, CheckEmpty, Wait, Take, Shrink, TakeNothing, Ignore, Broadcast,
              Crash, SendPrivate, WritePrivate, PrivateAcct, SkipSlot, PickSlot, WriteSlot, SlotAcct, BroadcastDone,
              MainGoto, EmptyHanded
<1>2. CASE UNCHANGED <<mpc, message>>
  BY <1>2 DEF EmptyHanded
<1> QED
  BY <1>1, <1>2 DEF Next, Thread, Peer, vars, mainVars, LookAtQueue, ReadMessage, ReadError,
                    ReadEnd, Link, Count, Post, SayBye, ByeAcct, ClearSlot, CloseSocket,
                    PeerSends, PeerReads, PeerLeaves

LEMMA HeldType == MainType => Held \in Seq(Msg)
  BY DEF MainType, Held

\* Main hands messages over only while nothing holds it up.
LEMMA DispatchIsNotStopped ==
  /\ mpc = "dispatch" => ~(MainBlocked \/ ~Up)
  /\ (MainBlocked \/ ~Up)' \in BOOLEAN
  BY DEF MainBlocked, Up

LEMMA LinkPosts ==
  ASSUME Inv, NEW c \in Clients, Link(c)
  PROVE  \E m \in Msg : Mail!Post(m)
<1>1. buf[c] \in Msg
  BY DEF Inv, TypeOK, ThreadType, Link, Goto
<1>2. Held' = Held /\ handled' = handled
  BY DEF Link, mainVars, Held
<1>3. Held \in Seq(Msg) /\ list \in Seq(Msg)
  BY HeldType DEF Inv, TypeOK, QueueType
<1>4. Held \o Append(list, buf[c]) = Append(Held \o list, buf[c])
  BY <1>1, <1>3
<1> QED
  BY <1>1, <1>2, <1>4, DispatchIsNotStopped DEF Link, Mail!Post

LEMMA DispatchDelivers ==
  ASSUME Inv, MainGoto("dispatch", mpc'), mpc' \notin {"shrink", "dispatch"}, Handled, list' = list
  PROVE  Mail!Deliver \/ Mail!Turn
<1>1. Held' = <<>> /\ list \in Seq(Msg)
  BY DEF Held, Inv, TypeOK, QueueType
<1>2. CASE message = None
  BY <1>1, <1>2, DispatchIsNotStopped DEF Held, Handled, Mail!Turn
<1>3. CASE message # None
  <2>1. Held = <<message>> /\ message \in Msg
    BY <1>3 DEF Held, MainGoto, Inv, TypeOK, MainType
  <2>2. /\ Held \o list # <<>>
        /\ Head(Held \o list) = message /\ Tail(Held \o list) = list
    BY <1>1, <2>1
  <2>3. Held' \o list' = list
    BY <1>1
  <2> QED
    BY <1>3, <2>2, <2>3, DispatchIsNotStopped DEF MainGoto, Handled, Mail!Deliver
<1> QED
  BY <1>2, <1>3

\* Every other step hands the oldest message over or leaves the mailbox alone.
LEMMA OtherStep ==
  Inv /\ EmptyHanded /\ [Next]_vars /\ ~(\E c \in Clients : Link(c))
    => Mail!Deliver \/ Mail!Turn
<1> SUFFICES ASSUME Inv, EmptyHanded, [Next]_vars, \A c \in Clients : ~Link(c)
             PROVE  Mail!Deliver \/ Mail!Turn
  OBVIOUS
<1>2. CASE Take
  <2>1. /\ Held = <<>> /\ list \in Seq(Msg) /\ list # <<>>
        /\ Head(list) \in Msg /\ Tail(list) \in Seq(Msg)
    BY <1>2, TakeFindsOne DEF Take, MainGoto, Held, Inv, TypeOK, QueueType
  <2>2. Held' = <<Head(list)>> /\ list' = Tail(list) /\ handled' = handled
    BY <1>2, <2>1, MsgFacts DEF Take, MainGoto, Held
  <2>3. <<Head(list)>> \o Tail(list) = list /\ <<>> \o list = list
    BY <2>1
  <2> QED
    BY <2>1, <2>2, <2>3, DispatchIsNotStopped DEF Mail!Turn
<1>3. CASE Ignore
  BY <1>3, DispatchDelivers DEF Ignore, MainGoto, queueVars
<1>4. CASE Broadcast
  BY <1>4, DispatchDelivers DEF Broadcast, MainGoto, queueVars
<1>5. CASE Crash \/ SendPrivate
  BY <1>5, DispatchDelivers DEF Crash, SendPrivate, MainGoto, queueVars
<1>6. CASE Shrink
  BY <1>6, DispatchIsNotStopped DEF Shrink, MainGoto, Held, Mail!Turn
<1>7. CASE TakeNothing
  BY <1>7, DispatchIsNotStopped DEF TakeNothing, MainGoto, queueVars, Held, EmptyHanded, Mail!Turn
<1>8. CASE \/ CheckEmpty \/ Wait \/ WritePrivate \/ PrivateAcct \/ SkipSlot \/ PickSlot \/ WriteSlot
          \/ SlotAcct \/ BroadcastDone
  <2>1. mpc' \notin {"shrink", "dispatch"} /\ mpc \notin {"shrink", "dispatch"}
        /\ UNCHANGED <<list, handled>>
    BY <1>8 DEF CheckEmpty, Wait, WritePrivate, PrivateAcct, SkipSlot, PickSlot, WriteSlot, SlotAcct,
                BroadcastDone, MainGoto, queueVars
  <2> QED
    BY <2>1, DispatchIsNotStopped DEF Held, Mail!Turn
<1>9. CASE UNCHANGED <<list, mpc, message, handled>>
  BY <1>9, DispatchIsNotStopped DEF Held, Mail!Turn
<1> QED
  BY <1>2, <1>3, <1>4, <1>5, <1>6, <1>7, <1>8, <1>9
     DEF Next, Thread, Peer, MainThread, vars, queueVars, mainVars, LookAtQueue, ReadMessage,
         ReadError, ReadEnd, Count, Post, SayBye, ByeAcct, ClearSlot, CloseSocket,
         PeerSends, PeerReads, PeerLeaves

LEMMA StepIsMailboxStep ==
  Inv /\ EmptyHanded /\ [Next]_vars => [Mail!Next]_(Mail!mailVars)
<1> SUFFICES ASSUME Inv, EmptyHanded, [Next]_vars
             PROVE  Mail!Next
  OBVIOUS
<1>1. ASSUME NEW c \in Clients, Link(c) PROVE Mail!Next
  BY <1>1, LinkPosts DEF Mail!Next
<1> QED
  BY <1>1, OtherStep DEF Mail!Next

\* Client threads, mutex, semaphore and main thread together never lose,
\* repeat or reorder a message between its enqueueing and its dispatch.
THEOREM PumpIsMailbox == Spec => Mail!Safety
<1>1. Init => Mail!Init /\ EmptyHanded
  BY DEF Init, Mail!Init, Held, EmptyHanded, MainBlocked, Up
<1>2. EmptyHanded /\ [Next]_vars => EmptyHanded'
  BY EmptyHandedStep
<1>3. Inv /\ EmptyHanded /\ [Next]_vars => [Mail!Next]_(Mail!mailVars)
  BY StepIsMailboxStep
<1>4. Spec => []Inv
  BY PumpIsSafe, PTL DEF Inv
<1> QED
  BY <1>1, <1>2, <1>3, <1>4, PTL DEF Spec, Mail!Safety

-----------------------------------------------------------------------------
(* The order of each client's messages.                                    *)

LEMMA AppendFacts ==
  ASSUME NEW S, NEW s \in Seq(S), NEW e \in S
  PROVE  /\ Append(s, e) \in Seq(S)
         /\ Len(s) \in Nat /\ Len(Append(s, e)) = Len(s) + 1
         /\ DOMAIN s = 1..Len(s) /\ DOMAIN Append(s, e) = 1..(Len(s) + 1)
         /\ Append(s, e)[Len(s) + 1] = e
         /\ \A i \in 1..Len(s) : Append(s, e)[i] = s[i]
  OBVIOUS

LEMMA Shapes ==
  /\ \A m \in Msg : m[1] \in Clients /\ m[2] \in Nat /\ m = <<m[1], m[2]>>
  /\ \A m \in Bye : m[1] \in Clients /\ m[2] = -1 /\ m = <<m[1], -1>>
  BY DEF Msg, Bye

LEMMA LineType ==
  ASSUME Inv
  PROVE  Line \in Seq(Msg) /\ handled \in Seq(Msg) /\ Held \o list \in Seq(Msg)
<1>1. handled \in Seq(Msg) /\ list \in Seq(Msg) /\ Held \in Seq(Msg)
  BY HeldType DEF Inv, TypeOK, QueueType, MainType
<1> QED
  BY <1>1 DEF Line

\* Only linking lengthens the line: dequeueing and dispatching move messages
\* along it.
LEMMA LineGrows ==
  ASSUME Inv, NEW c \in Clients, Link(c)
  PROVE  Line' = Append(Line, buf[c]) /\ buf[c] \in Msg
<1>1. buf[c] \in Msg
  BY DEF Inv, TypeOK, ThreadType, Link, Goto
<1>2. Held' = Held /\ handled' = handled /\ list' = Append(list, buf[c])
  BY DEF Link, mainVars, Held
<1>3. Held \in Seq(Msg) /\ list \in Seq(Msg) /\ handled \in Seq(Msg)
  BY HeldType DEF Inv, TypeOK, QueueType, MainType
<1>4. Held \o Append(list, buf[c]) = Append(Held \o list, buf[c]) /\ Held \o list \in Seq(Msg)
  BY <1>1, <1>3
<1>5. handled \o Append(Held \o list, buf[c]) = Append(handled \o (Held \o list), buf[c])
  BY <1>1, <1>3, <1>4
<1> QED
  BY <1>1, <1>2, <1>4, <1>5 DEF Line

LEMMA LineStays ==
  ASSUME Inv, EmptyHanded, [Next]_vars, ~(\E c \in Clients : Link(c))
  PROVE  Line' = Line
<1>1. CASE Mail!Turn
  BY <1>1 DEF Mail!Turn, Line
<1>2. CASE Mail!Deliver
  <2> DEFINE mail == Held \o list
  <2>1. handled \in Seq(Msg) /\ mail \in Seq(Msg)
    BY LineType
  <2>2. mail # <<>> /\ handled' = Append(handled, Head(mail)) /\ mail' = Tail(mail)
    BY <1>2 DEF Mail!Deliver
  <2> HIDE DEF mail
  <2>3. Append(handled, Head(mail)) \o Tail(mail) = handled \o mail
    BY <2>1, <2>2
  <2>4. Line = handled \o mail /\ Line' = handled' \o mail'
    BY DEF Line, mail
  <2> QED
    BY <2>2, <2>3, <2>4
<1> QED
  BY <1>1, <1>2, OtherStep

\* What a thread has in hand and has not linked is its newest message or a
\* blank one.
InHandIsNewest == \A c \in Clients : pc[c] = "lock" => buf[c] \in {<<c, 0>>, <<c, got[c]>>}

\* How many of client c's messages have been linked.
Linked(c) == IF pc[c] = "lock" /\ ~Blank(buf[c]) THEN got[c] - 1 ELSE got[c]

LineInOrder(c) ==
  /\ \A k \in 1..Linked(c) : \E i \in DOMAIN Line : Line[i] = <<c, k>>
  /\ \A i \in DOMAIN Line : Line[i][1] = c => Line[i][2] <= Linked(c)
  /\ \A i, j \in DOMAIN Line :
       i < j /\ Line[i][1] = c /\ Line[j][1] = c /\ ~Blank(Line[i]) /\ ~Blank(Line[j])
         => Line[i][2] < Line[j][2]
LineOK == InHandIsNewest /\ \A c \in Clients : LineInOrder(c)

\* How a step may change what the threads have in hand.
LEMMA HandStep ==
  ASSUME TypeOK, [Next]_vars
  PROVE  \/ \E c \in Clients : ReadMessage(c) \/ ReadError(c) \/ Link(c)
         \/ /\ got' = got
            /\ \A c \in Clients : /\ pc'[c] = "lock" <=> pc[c] = "lock"
                                  /\ pc[c] = "lock" => buf'[c] = buf[c]
<1> DEFINE Same == /\ got' = got
                   /\ \A c \in Clients : /\ pc'[c] = "lock" <=> pc[c] = "lock"
                                         /\ pc[c] = "lock" => buf'[c] = buf[c]
<1>1. ASSUME NEW c \in Clients,
             \/ LookAtQueue(c) \/ ReadEnd(c) \/ Count(c) \/ Post(c) \/ SayBye(c) \/ ByeAcct(c)
             \/ ClearSlot(c) \/ CloseSocket(c)
      PROVE  Same
  BY <1>1 DEF TypeOK, ThreadType, Goto, LookAtQueue, ReadEnd, Count, Post, SayBye, ByeAcct,
              ClearSlot, CloseSocket, peerVars
<1>2. ASSUME NEW c \in Clients, Peer(c) PROVE Same
  BY <1>2 DEF Peer, PeerSends, PeerReads, PeerLeaves, threadVars
<1>3. CASE MainThread
  BY <1>3 DEF MainThread, CheckEmpty, Wait, Take, Shrink, TakeNothing, Ignore, Broadcast,
              Crash, SendPrivate, WritePrivate, PrivateAcct, SkipSlot, PickSlot, WriteSlot, SlotAcct, BroadcastDone,
              threadVars, peerVars
<1>4. CASE UNCHANGED vars
  BY <1>4 DEF vars, threadVars, peerVars
<1> QED
  BY <1>1, <1>2, <1>3, <1>4 DEF Next, Thread

LEMMA LineOKStep == Inv /\ EmptyHanded /\ LineOK /\ [Next]_vars => LineOK'
<1> SUFFICES ASSUME Inv, EmptyHanded, LineOK, [Next]_vars PROVE LineOK'
  OBVIOUS
<1>0. /\ Line \in Seq(Msg) /\ got \in [Clients -> Nat] /\ pc \in [Clients -> ThreadPc]
      /\ buf \in [Clients -> Msg \cup {None}] /\ TypeOK
  BY LineType DEF Inv, TypeOK, ThreadType, PeerType
<1>1. ASSUME NEW c \in Clients, Link(c) PROVE LineOK'
  <2>1. Line' = Append(Line, buf[c]) /\ buf[c] \in Msg
    BY <1>1, LineGrows
  <2>2. /\ pc[c] = "lock" /\ got' = got /\ buf[c] \in {<<c, 0>>, <<c, got[c]>>}
        /\ \A d \in Clients : pc'[d] = "lock" <=> (pc[d] = "lock" /\ d # c)
        /\ \A d \in Clients : d # c => buf'[d] = buf[d]
    BY <1>0, <1>1 DEF Link, Goto, peerVars, LineOK, InHandIsNewest
  <2>3. InHandIsNewest'
    BY <2>2 DEF LineOK, InHandIsNewest
  <2>4. ASSUME NEW d \in Clients PROVE LineInOrder(d)'
    <3>1. LineInOrder(d) /\ Linked(d) \in Int
      BY <1>0, <2>2 DEF LineOK, Linked
    <3>2. Linked(d)' = IF d = c /\ ~Blank(buf[c]) THEN Linked(d) + 1 ELSE Linked(d)
      BY <1>0, <2>2 DEF Linked
    <3>3. /\ buf[c][1] = c /\ (~Blank(buf[c]) => buf[c] = <<c, Linked(c) + 1>>)
      BY <1>0, <2>2 DEF Linked, Blank
    <3> DEFINE m == buf[c]
               l == Linked(d)
    <3>4. /\ DOMAIN Line = 1..Len(Line) /\ DOMAIN Line' = 1..(Len(Line) + 1) /\ Len(Line) \in Nat
          /\ Line'[Len(Line) + 1] = m
          /\ \A i \in 1..Len(Line) : Line'[i] = Line[i]
      BY <1>0, <2>1, AppendFacts
    <3>5. d # c => m[1] # d
      BY <3>3
    <3>6. d = c /\ ~Blank(m) => m = <<d, l + 1>> /\ Linked(d)' = l + 1
      BY <3>2, <3>3
    <3>7. d # c \/ Blank(m) => Linked(d)' = l
      BY <3>2
    <3>8. Blank(m) => m[2] = 0
      BY DEF Blank
    <3>9. \A i \in 1..Len(Line) : Line[i][2] \in Nat
      BY <1>0, Shapes
    <3>10. l >= 0
      <4>1. got[d] \in Nat /\ (pc[d] = "lock" /\ ~Blank(buf[d]) => got[d] # 0)
        <5>1. pc[d] = "lock" => buf[d] \in {<<d, 0>>, <<d, got[d]>>}
          BY DEF LineOK, InHandIsNewest
        <5> QED
          BY <1>0, <5>1 DEF Blank
      <4> QED
        BY <4>1 DEF Linked
    <3> HIDE DEF m, l
    <3>11. l \in Int
      BY <3>1 DEF l
    <3>12. /\ \A k \in 1..l : \E i \in 1..Len(Line) : Line[i] = <<d, k>>
           /\ \A i \in 1..Len(Line) : Line[i][1] = d => Line[i][2] <= l
           /\ \A i, j \in 1..Len(Line) :
                i < j /\ Line[i][1] = d /\ Line[j][1] = d /\ ~Blank(Line[i]) /\ ~Blank(Line[j])
                  => Line[i][2] < Line[j][2]
      BY <3>1, <3>4 DEF LineInOrder, l
    <3>13. \A k \in 1..Linked(d)' : \E i \in DOMAIN Line' : Line'[i] = <<d, k>>
      <4> TAKE k \in 1..Linked(d)'
      <4>1. k \in 1..l \/ (k = l + 1 /\ m = <<d, l + 1>>)
        BY <3>6, <3>7, <3>11
      <4>2. CASE k \in 1..l
        <5>1. PICK i \in 1..Len(Line) : Line[i] = <<d, k>>
          BY <4>2, <3>12
        <5> QED
          BY <5>1, <3>4
      <4>3. CASE m = <<d, k>>
        BY <4>3, <3>4
      <4> QED
        BY <4>1, <4>2, <4>3
    <3>14. \A i \in DOMAIN Line' : Line'[i][1] = d => Line'[i][2] <= Linked(d)'
      <4> TAKE i \in DOMAIN Line'
      <4>1. CASE i \in 1..Len(Line)
        BY <4>1, <3>4, <3>6, <3>7, <3>9, <3>11, <3>12
      <4>2. CASE i = Len(Line) + 1
        BY <4>2, <3>4, <3>5, <3>6, <3>7, <3>8, <3>10, <3>11
      <4> QED
        BY <4>1, <4>2, <3>4
    <3>15. ASSUME NEW i \in DOMAIN Line', NEW j \in DOMAIN Line', i < j,
                  Line'[i][1] = d, Line'[j][1] = d, ~Blank(Line'[i]), ~Blank(Line'[j])
           PROVE  Line'[i][2] < Line'[j][2]
      <4>0. i \in 1..Len(Line) /\ Line'[i] = Line[i]
        BY <3>4, <3>15
      <4>1. CASE j \in 1..Len(Line)
        BY <4>0, <4>1, <3>4, <3>12, <3>15
      <4>2. CASE j = Len(Line) + 1
        <5>1. Line'[j] = m /\ d = c /\ ~Blank(m)
          BY <4>2, <3>4, <3>5, <3>15
        <5>2. m[2] = l + 1 /\ Line[i][2] <= l /\ Line[i][2] \in Nat
          BY <5>1, <4>0, <3>6, <3>9, <3>12, <3>15
        <5> QED
          BY <4>0, <5>1, <5>2, <3>11
      <4> QED
        BY <4>1, <4>2, <3>4, <3>15
    <3> QED
      BY <3>13, <3>14, <3>15 DEF LineInOrder
  <2> QED
    BY <2>3, <2>4 DEF LineOK
<1>2. ASSUME NEW c \in Clients, ReadMessage(c) PROVE LineOK'
  <2>1. Line' = Line
    BY <1>2 DEF ReadMessage, mainVars, queueVars, Line, Held
  <2>2. /\ pc[c] = "read" /\ got' = [got EXCEPT ![c] = @ + 1]
        /\ pc' = [pc EXCEPT ![c] = "lock"]
        /\ buf' = [buf EXCEPT ![c] = <<c, got[c] + 1>>]
    BY <1>2 DEF ReadMessage, Goto
  <2>3. InHandIsNewest'
    BY <1>0, <2>2 DEF LineOK, InHandIsNewest
  <2>4. \A d \in Clients : Linked(d)' = Linked(d)
    BY <1>0, <2>2 DEF Linked, Blank
  <2> QED
    BY <2>1, <2>3, <2>4 DEF LineOK, LineInOrder
<1>3. ASSUME NEW c \in Clients, ReadError(c) PROVE LineOK'
  <2>1. Line' = Line
    BY <1>3 DEF ReadError, mainVars, queueVars, Line, Held
  <2>2. /\ pc[c] = "read" /\ got' = got
        /\ pc' = [pc EXCEPT ![c] = "lock"]
        /\ buf' = [buf EXCEPT ![c] = <<c, 0>>]
    BY <1>3 DEF ReadError, Goto
  <2>3. InHandIsNewest'
    BY <1>0, <2>2 DEF LineOK, InHandIsNewest
  <2>4. \A d \in Clients : Linked(d)' = Linked(d)
    BY <1>0, <2>2 DEF Linked, Blank
  <2> QED
    BY <2>1, <2>3, <2>4 DEF LineOK, LineInOrder
<1>4. CASE /\ ~(\E c \in Clients : Link(c))
           /\ got' = got
           /\ \A c \in Clients : /\ pc'[c] = "lock" <=> pc[c] = "lock"
                                 /\ pc[c] = "lock" => buf'[c] = buf[c]
  <2>1. Line' = Line
    BY <1>4, LineStays
  <2>2. ASSUME NEW d \in Clients PROVE Linked(d)' = Linked(d)
    <3>1. /\ got'[d] = got[d]
          /\ (pc'[d] = "lock" /\ ~Blank(buf'[d])) <=> (pc[d] = "lock" /\ ~Blank(buf[d]))
      BY <1>4 DEF Blank
    <3> QED
      BY <3>1 DEF Linked, Blank
  <2>3. ASSUME NEW d \in Clients, pc'[d] = "lock" PROVE buf'[d] \in {<<d, 0>>, <<d, got'[d]>>}
    BY <1>4, <2>3 DEF LineOK, InHandIsNewest
  <2> QED
    BY <2>1, <2>2, <2>3 DEF LineOK, InHandIsNewest, LineInOrder
<1> QED
  BY <1>0, <1>1, <1>2, <1>3, <1>4, HandStep

\* No message stands twice in the line: only blank ones may.
LEMMA LineDistinct ==
  ASSUME Inv, LineOK, NEW i \in DOMAIN Line, NEW j \in DOMAIN Line,
         ~Blank(Line[i]), Line[i] = Line[j]
  PROVE  i = j
<1>1. Line \in Seq(Msg) /\ Line[i] \in Msg /\ i \in Nat /\ j \in Nat
  BY LineType
<1>2. Line[i][1] \in Clients /\ Line[i][2] \in Nat
  BY <1>1, Shapes
<1>3. \A k, l \in DOMAIN Line : Line[k][1] = Line[i][1] /\ Line[l][1] = Line[i][1]
        /\ ~Blank(Line[k]) /\ ~Blank(Line[l]) /\ k < l => Line[k][2] < Line[l][2]
  BY <1>2 DEF LineOK, LineInOrder
<1> QED
  BY <1>1, <1>2, <1>3

LEMMA LineOrderIsSenderOrder == Inv /\ LineOK => PerSenderOrder
<1> SUFFICES ASSUME Inv, LineOK, NEW c \in Clients
             PROVE  LET way == Line \o InHand(c)
                        Mine == {i \in DOMAIN way : way[i][1] = c /\ ~Blank(way[i])}
                    IN  /\ {way[i][2] : i \in Mine} = 1..got[c]
                        /\ \A i, j \in Mine : i < j => way[i][2] < way[j][2]
  BY DEF PerSenderOrder
<1> DEFINE way == Line \o InHand(c)
           Mine == {i \in DOMAIN way : way[i][1] = c /\ ~Blank(way[i])}
           n == Len(Line)
<1>0. /\ Line \in Seq(Msg) /\ n \in Nat /\ got[c] \in Nat /\ LineInOrder(c)
      /\ pc[c] = "lock" => buf[c] \in Msg /\ buf[c] \in {<<c, 0>>, <<c, got[c]>>}
  BY LineType DEF Inv, TypeOK, ThreadType, PeerType, LineOK, InHandIsNewest
<1>1. /\ DOMAIN Line = 1..n
      /\ \A i \in 1..n : way[i] = Line[i] /\ way[i][2] \in Nat
      /\ DOMAIN way = IF pc[c] = "lock" THEN 1..(n + 1) ELSE 1..n
      /\ pc[c] = "lock" => way[n + 1] = buf[c]
  <2>1. \A i \in 1..n : Line[i][2] \in Nat
    BY <1>0, Shapes
  <2>2. CASE pc[c] = "lock"
    <3>1. way = Append(Line, buf[c])
      BY <1>0, <2>2 DEF InHand
    <3> HIDE DEF way
    <3> QED
      BY <1>0, <2>1, <2>2, <3>1, AppendFacts
  <2>3. CASE pc[c] # "lock"
    <3>1. way = Line
      BY <1>0, <2>3 DEF InHand
    <3> HIDE DEF way
    <3> QED
      BY <1>0, <2>1, <2>3, <3>1
  <2> QED
    BY <2>2, <2>3
<1>2. /\ \A k \in 1..Linked(c) : \E i \in 1..n : Line[i] = <<c, k>>
      /\ \A i \in 1..n : Line[i][1] = c => Line[i][2] <= Linked(c)
      /\ \A i, j \in 1..n :
           i < j /\ Line[i][1] = c /\ Line[j][1] = c /\ ~Blank(Line[i]) /\ ~Blank(Line[j])
             => Line[i][2] < Line[j][2]
  BY <1>0, <1>1 DEF LineInOrder
<1> HIDE DEF way
<1>3. Linked(c) = IF pc[c] = "lock" /\ ~Blank(buf[c]) THEN got[c] - 1 ELSE got[c]
  BY DEF Linked
<1>4. ASSUME NEW i \in Mine PROVE way[i][2] \in 1..got[c]
  <2>1. CASE i \in 1..n
    BY <1>0, <1>1, <1>2, <1>3, <1>4, <2>1 DEF Blank
  <2>2. CASE i = n + 1
    BY <1>0, <1>1, <1>4, <2>2 DEF Blank
  <2> QED
    BY <1>0, <1>1, <1>4, <2>1, <2>2
<1>5. ASSUME NEW k \in 1..got[c] PROVE \E i \in Mine : way[i][2] = k
  <2>1. CASE k \in 1..Linked(c)
    <3>1. PICK i \in 1..n : Line[i] = <<c, k>>
      BY <1>2, <2>1
    <3>2. i \in DOMAIN way /\ way[i] = <<c, k>> /\ k # 0
      BY <1>0, <1>1, <3>1
    <3> QED
      BY <3>2 DEF Blank
  <2>2. CASE k \notin 1..Linked(c)
    <3>1. pc[c] = "lock" /\ ~Blank(buf[c]) /\ k = got[c]
      BY <1>0, <1>3, <2>2
    <3>2. buf[c] = <<c, k>> /\ n + 1 \in DOMAIN way /\ way[n + 1] = <<c, k>> /\ k # 0
      BY <1>0, <1>1, <3>1 DEF Blank
    <3> QED
      BY <3>2 DEF Blank
  <2> QED
    BY <2>1, <2>2
<1>6. ASSUME NEW i \in Mine, NEW j \in Mine, i < j PROVE way[i][2] < way[j][2]
  <2>1. i \in 1..n
    BY <1>0, <1>1, <1>6
  <2>2. CASE j \in 1..n
    BY <1>1, <1>2, <1>6, <2>1, <2>2
  <2>3. CASE j = n + 1 /\ pc[c] = "lock"
    <3>1. way[j] = buf[c] /\ ~Blank(buf[c]) /\ buf[c] = <<c, got[c]>>
      BY <1>0, <1>1, <1>6, <2>3 DEF Blank
    <3>2. way[i][2] <= got[c] - 1 /\ way[i][2] \in Nat
      BY <1>1, <1>2, <1>3, <1>6, <2>1, <2>3, <3>1
    <3> QED
      BY <1>0, <3>1, <3>2
  <2> QED
    BY <1>0, <1>1, <1>6, <2>2, <2>3
<1> QED
  BY <1>4, <1>5, <1>6 DEF way

-----------------------------------------------------------------------------
(* What is written to each client.                                         *)

\* The message main is broadcasting is the one it dispatched last.
OnTheAir == mpc \in {"bcast", "write", "acct"} => handled # <<>> /\ message = handled[Len(handled)] /\ Public(message)

\* The instant message main is about to write was dispatched, and goes to whom
\* its sender's uid is read as.
Answering ==
  mpc = "imWrite" => /\ message \in Instant
                     /\ \E p \in DOMAIN handled : handled[p] = message
                     /\ idx \in Clients => idx \in ReadAs(message[1])

\* A thread only leaves its loop when its peer has closed, and frees its slot
\* after that.
Leaving == {"bye", "byeAcct", "exit", "close", "gone"}
LeftIsClosed ==
  \A c \in Clients : /\ pc[c] \in Leaving => peer[c] = "closed"
                     /\ ~connected[c] => pc[c] \in {"close", "gone"}

\* The thread of b has passed client c in its sign-off loop.
SaidBye(b, c) ==
  \/ pc[b] = "bye" /\ c < slot[b]
  \/ pc[b] = "byeAcct" /\ c <= slot[b]
  \/ pc[b] \in {"exit", "close", "gone"}

\* What client c was sent are sign-off messages of threads that have passed
\* it and messages dispatched, none twice, and instant messages only as WrittenOnce has it.
Sound(c) ==
  /\ \A i \in DOMAIN out[c] :
       out[c][i] \in Bye \/ \E p \in DOMAIN handled : handled[p] = out[c][i] /\ ~Blank(handled[p])
  /\ \A i, j \in DOMAIN out[c] : out[c][i] = out[c][j] => i = j
  /\ \A i \in DOMAIN out[c] : out[c][i] \in Instant => c \in ReadAs(out[c][i][1])
  /\ \A i \in DOMAIN out[c], b \in Clients : out[c][i] = <<b, -1>> => SaidBye(b, c)

\* Client c has not had the instant message main is about to write.
NotYet(c) == mpc = "imWrite" => \A i \in DOMAIN out[c] : out[c][i] # message

Ledger ==
  /\ OnTheAir /\ Answering /\ LeftIsClosed
  /\ \A c \in Clients : Sound(c) /\ NotYet(c) /\ Follows(c)

LEMMA OnTheAirStep == Inv /\ OnTheAir /\ [Next]_vars => OnTheAir'
<1> SUFFICES ASSUME Inv, OnTheAir, [Next]_vars PROVE OnTheAir'
  OBVIOUS
<1> USE DEF OnTheAir, MainGoto, Public
<1>0. handled \in Seq(Msg) /\ message \in Msg \cup {None}
  BY DEF Inv, TypeOK, MainType
<1>1. CASE Broadcast
  <2>1. handled' = Append(handled, message) /\ message' = message /\ message \in Msg
    BY <1>0, <1>1 DEF Broadcast, Handled
  <2>2. handled' # <<>> /\ handled'[Len(handled')] = message
    BY <1>0, <2>1, AppendFacts
  <2>3. message[2] > 0 /\ message \notin Instant
    BY <1>1, <2>1, Shapes DEF Broadcast, Blank
  <2> QED
    BY <2>1, <2>2, <2>3
<1>2. CASE \/ CheckEmpty \/ Wait \/ Take \/ Shrink \/ TakeNothing
          \/ Ignore \/ Crash \/ SendPrivate \/ WritePrivate \/ PrivateAcct \/ BroadcastDone
  BY <1>2 DEF CheckEmpty, Wait, Take, Shrink, TakeNothing, Ignore, Crash, SendPrivate, WritePrivate, PrivateAcct,
              BroadcastDone
<1>3. CASE SkipSlot \/ PickSlot \/ WriteSlot \/ SlotAcct
  BY <1>3 DEF SkipSlot, PickSlot, WriteSlot, SlotAcct
<1>4. CASE UNCHANGED <<mpc, message, handled>>
  BY <1>4
<1> QED
  BY <1>1, <1>2, <1>3, <1>4
     DEF Next, Thread, Peer, MainThread, vars, mainVars, LookAtQueue, ReadMessage, ReadError,
         ReadEnd, Link, Count, Post, SayBye, ByeAcct, ClearSlot, CloseSocket, PeerSends,
         PeerReads, PeerLeaves

LEMMA AnsweringStep == Inv /\ Answering /\ [Next]_vars => Answering'
<1> SUFFICES ASSUME Inv, Answering, [Next]_vars PROVE Answering'
  OBVIOUS
<1> USE DEF Answering, MainGoto
<1>1. CASE SendPrivate
  <2>1. handled \in Seq(Msg) /\ message \in Msg
    BY <1>1, InstantAssumption DEF SendPrivate, Inv, TypeOK, MainType
  <2>2. handled' = Append(handled, message) /\ message' = message
    BY <1>1, <2>1, MsgFacts DEF SendPrivate, Handled
  <2>3. Len(handled) + 1 \in DOMAIN handled' /\ handled'[Len(handled) + 1] = message
    BY <2>1, <2>2, AppendFacts
  <2>4. NumClients + 1 \notin Clients
    BY BoundsAssumption DEF Clients
  <2>5. idx' \in Clients => idx' \in ReadAs(message[1])
    BY <1>1, <2>4 DEF SendPrivate
  <2> QED
    BY <1>1, <2>2, <2>3, <2>5 DEF SendPrivate
<1>2. CASE \/ CheckEmpty \/ Wait \/ Take \/ Shrink \/ TakeNothing
          \/ Ignore \/ Broadcast \/ Crash \/ WritePrivate \/ PrivateAcct
          \/ SkipSlot \/ PickSlot \/ WriteSlot \/ SlotAcct \/ BroadcastDone
  BY <1>2 DEF CheckEmpty, Wait, Take, Shrink, TakeNothing, Ignore, Broadcast, Crash, WritePrivate,
              PrivateAcct, SkipSlot, PickSlot, WriteSlot, SlotAcct, BroadcastDone
<1>3. CASE UNCHANGED <<mpc, message, idx, handled>>
  BY <1>3
<1> QED
  BY <1>1, <1>2, <1>3
     DEF Next, Thread, Peer, MainThread, vars, mainVars, LookAtQueue, ReadMessage, ReadError,
         ReadEnd, Link, Count, Post, SayBye, ByeAcct, ClearSlot, CloseSocket, PeerSends,
         PeerReads, PeerLeaves

LEMMA LeftIsClosedStep == Inv /\ LeftIsClosed /\ [Next]_vars => LeftIsClosed'
<1> SUFFICES ASSUME Inv, LeftIsClosed, [Next]_vars PROVE LeftIsClosed'
  OBVIOUS
<1> USE DEF Inv, TypeOK, ThreadType, PeerType, LeftIsClosed, Leaving, Goto, peerVars, threadVars
<1>1. ASSUME NEW c \in Clients, LookAtQueue(c) PROVE LeftIsClosed'
  BY <1>1 DEF LookAtQueue
<1>2. ASSUME NEW c \in Clients, ReadMessage(c) PROVE LeftIsClosed'
  BY <1>2 DEF ReadMessage
<1>3. ASSUME NEW c \in Clients, ReadError(c) PROVE LeftIsClosed'
  BY <1>3 DEF ReadError
<1>4. ASSUME NEW c \in Clients, ReadEnd(c) PROVE LeftIsClosed'
  BY <1>4 DEF ReadEnd
<1>5. ASSUME NEW c \in Clients, Link(c) \/ Count(c) \/ Post(c) PROVE LeftIsClosed'
  BY <1>5 DEF Link, Count, Post
<1>6. ASSUME NEW c \in Clients, SayBye(c) PROVE LeftIsClosed'
  BY <1>6 DEF SayBye
<1>7. ASSUME NEW c \in Clients, ByeAcct(c) PROVE LeftIsClosed'
  BY <1>7 DEF ByeAcct
<1>8. ASSUME NEW c \in Clients, ClearSlot(c) \/ CloseSocket(c) PROVE LeftIsClosed'
  BY <1>8 DEF ClearSlot, CloseSocket
<1>9. ASSUME NEW c \in Clients, PeerLeaves(c) PROVE LeftIsClosed'
  BY <1>9 DEF PeerLeaves
<1>10. CASE UNCHANGED <<pc, connected, peer>>
  BY <1>10
<1> QED
  BY <1>1, <1>2, <1>3, <1>4, <1>5, <1>6, <1>7, <1>8, <1>9, <1>10
     DEF Next, Thread, Peer, MainThread, vars, PeerSends, PeerReads, CheckEmpty, Wait, Take,
         Shrink, TakeNothing, Ignore, Broadcast, Crash, SendPrivate, WritePrivate, PrivateAcct, SkipSlot, PickSlot,
         WriteSlot, SlotAcct, BroadcastDone

\* A thread does not go back over the slots it has passed.
LEMMA SaidByeStays ==
  ASSUME TypeOK, [Next]_vars, NEW b \in Clients, NEW c \in Clients, SaidBye(b, c)
  PROVE  SaidBye(b, c)'
<1> USE DEF TypeOK, ThreadType, Goto, threadVars, SaidBye
<1>0. (\A d \in Clients : slot[d] \in Nat) /\ c \in Nat /\ c <= NumClients /\ NumClients \in Nat
  <2>1. \A d \in Clients : d \in Nat /\ d <= NumClients
    BY BoundsAssumption DEF Clients
  <2> QED
    BY <2>1, BoundsAssumption
<1>1. ASSUME NEW d \in Clients,
             LookAtQueue(d) \/ ReadMessage(d) \/ ReadError(d) \/ ReadEnd(d) \/ Link(d) \/ Count(d) \/ Post(d)
      PROVE  SaidBye(b, c)'
  BY <1>1 DEF LookAtQueue, ReadMessage, ReadError, ReadEnd, Link, Count, Post
<1>2. ASSUME NEW d \in Clients, SayBye(d) PROVE SaidBye(b, c)'
  BY <1>0, <1>2 DEF SayBye
<1>3. ASSUME NEW d \in Clients, ByeAcct(d) PROVE SaidBye(b, c)'
  BY <1>0, <1>3 DEF ByeAcct
<1>4. ASSUME NEW d \in Clients, ClearSlot(d) \/ CloseSocket(d) PROVE SaidBye(b, c)'
  BY <1>4 DEF ClearSlot, CloseSocket
<1>5. CASE UNCHANGED <<pc, slot>>
  BY <1>5
<1> QED
  BY <1>1, <1>2, <1>3, <1>4, <1>5
     DEF Next, Thread, Peer, MainThread, vars, PeerSends, PeerReads, PeerLeaves, CheckEmpty, Wait,
         Take, Shrink, TakeNothing, Ignore, Broadcast, Crash, SendPrivate, WritePrivate, PrivateAcct, SkipSlot, PickSlot,
         WriteSlot, SlotAcct, BroadcastDone

LEMMA WriteFacts ==
  ASSUME TypeOK, NEW i \in Clients, NEW m, Write(i, m), NEW c \in Clients
  PROVE  out'[c] = IF c = i /\ Reaches(i) THEN Append(out[c], m) ELSE out[c]
  BY DEF Write, TypeOK, PeerType

\* A dispatched message was not dispatched before, unless it is blank.
LEMMA HandledOnce ==
  ASSUME Inv, LineOK, NEW p \in DOMAIN handled, ~Blank(handled[p])
  PROVE  /\ \A q \in DOMAIN handled : handled[p] = handled[q] => p = q
         /\ mpc = "dispatch" /\ message # None => handled[p] # message
<1> DEFINE mail == Held \o list
<1>1. handled \in Seq(Msg) /\ mail \in Seq(Msg) /\ Line = handled \o mail
  BY LineType DEF Line
<1>2. ASSUME mpc = "dispatch", message # None PROVE mail # <<>> /\ mail[1] = message
  <2>1. Held = <<message>> /\ message \in Msg /\ list \in Seq(Msg)
    BY <1>2 DEF Held, Inv, TypeOK, MainType, QueueType
  <2> QED
    BY <2>1
<1> HIDE DEF mail
<1>3. /\ \A q \in DOMAIN handled : q \in DOMAIN Line /\ Line[q] = handled[q]
      /\ mail # <<>> => Len(handled) + 1 \in DOMAIN Line /\ Line[Len(handled) + 1] = mail[1]
      /\ \A q \in DOMAIN handled : q # Len(handled) + 1
  BY <1>1
<1> QED
  BY <1>2, <1>3, LineDistinct

\* What a step may be to client c.  Nothing is written to it, and what it is
\* owed stays owed unless its peer has gone:
Quiet(c) ==
  /\ handled' = handled /\ out'[c] = out[c]
  /\ peer'[c] = "open" => peer[c] = "open"
  /\ StillOwed(c)' => StillOwed(c)
  /\ peer'[c] = "open" => (StillOwed(c) => StillOwed(c)')
  /\ mpc' = "imWrite" => mpc = "imWrite" /\ message' = message
\* it is written the message on the air:
Hears(c) ==
  /\ handled' = handled /\ out'[c] = Append(out[c], message)
  /\ peer[c] = "open" /\ mpc = "write" /\ idx = c
  /\ StillOwed(c) /\ ~StillOwed(c)'
  /\ mpc' # "imWrite"
\* it is written an instant message:
HearsPrivate(c) ==
  /\ handled' = handled /\ out'[c] = Append(out[c], message)
  /\ mpc = "imWrite" /\ idx = c /\ mpc' # "imWrite"
  /\ peer' = peer
  /\ StillOwed(c)' <=> StillOwed(c)
\* it is written a sign-off message:
HearsBye(c) ==
  /\ handled' = handled
  /\ \E b \in Clients : out'[c] = Append(out[c], <<b, -1>>) /\ ~SaidBye(b, c) /\ SaidBye(b, c)'
  /\ peer' = peer
  /\ StillOwed(c)' <=> StillOwed(c)
  /\ mpc' = mpc /\ message' = message
\* or a message is dispatched:
Dispatched(c) ==
  /\ mpc = "dispatch" /\ message # None /\ handled' = Append(handled, message)
  /\ out'[c] = out[c]
  /\ mpc' = "imWrite" => message' = message
  /\ peer' = peer
  /\ ~StillOwed(c) /\ (StillOwed(c)' <=> Public(message))

LEMMA ThreadToClient ==
  ASSUME Inv, NEW b \in Clients, Thread(b), NEW c \in Clients
  PROVE  Quiet(c) \/ HearsBye(c)
<1> USE DEF StillOwed, mainVars, peerVars
<1>1. CASE LookAtQueue(b) \/ ReadMessage(b) \/ ReadEnd(b) \/ Link(b) \/ Count(b) \/ Post(b)
          \/ ByeAcct(b) \/ ClearSlot(b) \/ CloseSocket(b)
  BY <1>1 DEF LookAtQueue, ReadMessage, ReadEnd, Link, Count, Post, ByeAcct, ClearSlot,
              CloseSocket, Quiet
<1>2. CASE ReadError(b)
  BY <1>2 DEF ReadError, Quiet, Inv, TypeOK, PeerType
<1>3. CASE SayBye(b)
  <2>1. slot[b] \in Clients /\ Write(slot[b], <<b, -1>>)
    BY <1>3 DEF SayBye, Inv, TypeOK, ThreadType
  <2>2. CASE c = slot[b] /\ Reaches(c)
    <3>1. out'[c] = Append(out[c], <<b, -1>>)
      BY <2>1, <2>2, WriteFacts DEF Inv
    <3>2. slot[b] \in Nat
      BY <2>1, BoundsAssumption DEF Clients
    <3>3. ~SaidBye(b, c) /\ SaidBye(b, c)'
      BY <1>3, <2>2, <3>2 DEF SayBye, Goto, SaidBye, Inv, TypeOK, ThreadType
    <3> QED
      BY <1>3, <3>1, <3>3 DEF SayBye, HearsBye
  <2>3. CASE ~(c = slot[b] /\ Reaches(c))
    <3>1. out'[c] = out[c]
      BY <2>1, <2>3, WriteFacts DEF Inv
    <3> QED
      BY <1>3, <3>1 DEF SayBye, Quiet
  <2> QED
    BY <2>2, <2>3
<1> QED
  BY <1>1, <1>2, <1>3 DEF Thread

LEMMA PeerToClient ==
  ASSUME Inv, NEW b \in Clients, Peer(b), NEW c \in Clients
  PROVE  Quiet(c)
  BY DEF Peer, PeerSends, PeerReads, PeerLeaves, Quiet, StillOwed, mainVars, Inv, TypeOK, PeerType

LEMMA MainToClient ==
  ASSUME Inv, OnTheAir, LeftIsClosed, MainThread, NEW c \in Clients
  PROVE  Quiet(c) \/ Hears(c) \/ HearsPrivate(c) \/ Dispatched(c)
<1> USE DEF StillOwed, MainGoto, peerVars
<1>0. c \in Nat /\ c >= 1 /\ c <= NumClients /\ NumClients \in Nat /\ idx \in Nat
  BY BoundsAssumption DEF Clients, Inv, TypeOK, MainType
<1>1. CASE CheckEmpty \/ Wait \/ Take \/ Shrink \/ TakeNothing \/ PrivateAcct
  BY <1>1 DEF CheckEmpty, Wait, Take, Shrink, TakeNothing, PrivateAcct, Quiet
<1>2. CASE Ignore
  BY <1>2 DEF Ignore, Handled, Quiet, Dispatched, Public, Blank
<1>3. CASE Broadcast
  <2>1. message \in Msg /\ Public(message)
    BY <1>3, Shapes DEF Broadcast, Inv, TypeOK, MainType, Public, Blank
  <2> QED
    BY <1>0, <1>3, <2>1 DEF Broadcast, Handled, Dispatched
<1>4. CASE Crash \/ SendPrivate
  <2>1. message # None
    BY <1>4, InstantAssumption, MsgFacts DEF Crash, SendPrivate
  <2> QED
    BY <1>4, <2>1 DEF Crash, SendPrivate, Handled, Dispatched, Public
<1>10. CASE WritePrivate
  <2>1. CASE idx = c /\ Reaches(c)
    <3>1. out'[c] = Append(out[c], message)
      BY <1>10, <2>1, WriteFacts DEF WritePrivate, Inv
    <3> QED
      BY <1>10, <2>1, <3>1 DEF WritePrivate, HearsPrivate
  <2>2. CASE ~(idx = c /\ Reaches(c))
    <3>1. CASE idx \in Clients
      <4>1. out'[c] = out[c]
        BY <1>10, <2>2, <3>1, WriteFacts DEF WritePrivate, Inv
      <4> QED
        BY <1>10, <4>1 DEF WritePrivate, Quiet
    <3>2. CASE idx \notin Clients
      BY <1>10, <3>2 DEF WritePrivate, Quiet
    <3> QED
      BY <3>1, <3>2
  <2> QED
    BY <2>1, <2>2
<1>5. CASE SkipSlot
  <2>1. idx = c => peer[c] # "open"
    BY <1>5 DEF SkipSlot, LeftIsClosed, Leaving
  <2>2. idx # c => (idx <= c <=> idx + 1 <= c)
    BY <1>0
  <2> QED
    BY <1>0, <1>5, <2>1, <2>2 DEF SkipSlot, Quiet
<1>6. CASE PickSlot
  BY <1>6 DEF PickSlot, Quiet
<1>7. CASE WriteSlot
  <2>1. idx \in Clients /\ Write(idx, message)
    BY <1>7 DEF WriteSlot, Inv, TypeOK, MainType
  <2>2. CASE idx = c /\ Reaches(c)
    <3>1. out'[c] = Append(out[c], message)
      BY <2>1, <2>2, WriteFacts DEF Inv
    <3> QED
      BY <1>0, <1>7, <2>2, <3>1 DEF WriteSlot, Reaches, Hears
  <2>3. CASE idx = c /\ ~Reaches(c)
    <3>1. out'[c] = out[c] /\ peer[c] # "open"
      BY <2>1, <2>3, WriteFacts DEF Inv, Reaches, LeftIsClosed, Leaving
    <3> QED
      BY <1>0, <1>7, <2>3, <3>1 DEF WriteSlot, Quiet
  <2>4. CASE idx # c
    <3>1. out'[c] = out[c] /\ (idx <= c <=> idx < c)
      BY <1>0, <2>1, <2>4, WriteFacts DEF Inv
    <3> QED
      BY <1>7, <3>1 DEF WriteSlot, Quiet
  <2> QED
    BY <2>2, <2>3, <2>4
<1>8. CASE SlotAcct
  <2>1. idx < c <=> idx + 1 <= c
    BY <1>0
  <2> QED
    BY <1>8, <2>1 DEF SlotAcct, Quiet
<1>9. CASE BroadcastDone
  BY <1>0, <1>9 DEF BroadcastDone, Quiet
<1> QED
  BY <1>1, <1>2, <1>3, <1>4, <1>5, <1>6, <1>7, <1>8, <1>9, <1>10 DEF MainThread

LEMMA StepToClient ==
  ASSUME Inv, OnTheAir, LeftIsClosed, [Next]_vars, NEW c \in Clients
  PROVE  Quiet(c) \/ Hears(c) \/ HearsPrivate(c) \/ HearsBye(c) \/ Dispatched(c)
<1>1. CASE UNCHANGED vars
  BY <1>1 DEF vars, mainVars, peerVars, Quiet, StillOwed
<1> QED
  BY <1>1, ThreadToClient, PeerToClient, MainToClient DEF Next

\* The message on the air has not been written to a client it is still owed to.
LEMMA OwedIsNew ==
  ASSUME Inv, LineOK, OnTheAir, NEW c \in Clients, Follows(c), StillOwed(c)
  PROVE  /\ handled # <<>> /\ Len(handled) \in Said /\ message = handled[Len(handled)]
         /\ \A i \in DOMAIN out[c] : out[c][i] # message
<1>1. /\ handled # <<>> /\ message = handled[Len(handled)] /\ Public(message)
  BY DEF OnTheAir, StillOwed
<1>2. Len(handled) \in DOMAIN handled /\ Len(handled) \in Said
  <2>1. handled \in Seq(Msg)
    BY LineType
  <2> QED
    BY <1>1, <2>1 DEF Said
<1>3. ASSUME NEW i \in DOMAIN out[c], out[c][i] = message PROVE FALSE
  <2>1. PICK q \in Due(c) : out[c][i] = handled[q]
    BY <1>1, <1>3 DEF Follows, Heard
  <2>2. q \in DOMAIN handled /\ q # Len(handled)
    BY <2>1 DEF Due, Said
  <2>3. ~Blank(handled[Len(handled)])
    BY <1>1 DEF Public, Blank
  <2> QED
    BY <1>1, <1>2, <1>3, <2>1, <2>2, <2>3, HandledOnce
<1> QED
  BY <1>1, <1>2, <1>3

\* Client c stays soundly served when it is written a message it has not had.
LEMMA SoundGrows ==
  ASSUME Inv, [Next]_vars, NEW c \in Clients, Sound(c), NEW m \in Msg \cup Bye,
         \A p \in DOMAIN handled : p \in DOMAIN handled' /\ handled'[p] = handled[p],
         out'[c] = Append(out[c], m),
         \A i \in DOMAIN out[c] : out[c][i] # m,
         m \in Bye \/ \E p \in DOMAIN handled' : handled'[p] = m /\ ~Blank(handled'[p]),
         m \in Instant => c \in ReadAs(m[1]),
         \A b \in Clients : m = <<b, -1>> => SaidBye(b, c)'
  PROVE  Sound(c)'
<1> DEFINE o == out[c]
<1>1. o \in Seq(Msg \cup Bye)
  BY DEF Inv, TypeOK, PeerType
<1>2. /\ DOMAIN o = 1..Len(o) /\ Len(o) \in Nat /\ DOMAIN out'[c] = 1..(Len(o) + 1)
      /\ out'[c][Len(o) + 1] = m
      /\ \A i \in 1..Len(o) : out'[c][i] = o[i] /\ o[i] # m
  BY <1>1, AppendFacts
<1>3. /\ \A i \in 1..Len(o) :
           o[i] \in Bye \/ \E p \in DOMAIN handled : handled[p] = o[i] /\ ~Blank(handled[p])
      /\ \A i, j \in 1..Len(o) : o[i] = o[j] => i = j
      /\ \A i \in 1..Len(o) : o[i] \in Instant => c \in ReadAs(o[i][1])
      /\ \A i \in 1..Len(o), b \in Clients : o[i] = <<b, -1>> => SaidBye(b, c)
  BY <1>2 DEF Sound
<1>4. \A b \in Clients : SaidBye(b, c) => SaidBye(b, c)'
  BY SaidByeStays DEF Inv
<1> HIDE DEF o
<1>5. \A i \in 1..(Len(o) + 1) : i \in 1..Len(o) \/ i = Len(o) + 1
  BY <1>2
<1>6. \A i \in DOMAIN out'[c] :
        out'[c][i] \in Bye \/ \E p \in DOMAIN handled' : handled'[p] = out'[c][i] /\ ~Blank(handled'[p])
  <2> TAKE i \in DOMAIN out'[c]
  <2>1. CASE i \in 1..Len(o)
    <3>1. o[i] \in Bye \/ \E p \in DOMAIN handled : handled[p] = o[i] /\ ~Blank(handled[p])
      BY <1>3, <2>1
    <3> QED
      BY <1>2, <2>1, <3>1
  <2>2. CASE i = Len(o) + 1
    BY <1>2, <2>2
  <2> QED
    BY <1>2, <1>5, <2>1, <2>2
<1>7. \A i, j \in DOMAIN out'[c] : out'[c][i] = out'[c][j] => i = j
  BY <1>2, <1>3, <1>5
<1>8. \A i \in DOMAIN out'[c] : out'[c][i] \in Instant => c \in ReadAs(out'[c][i][1])
  BY <1>2, <1>3, <1>5
<1>9. ASSUME NEW i \in DOMAIN out'[c], NEW b \in Clients, out'[c][i] = <<b, -1>> PROVE SaidBye(b, c)'
  <2>1. CASE i \in 1..Len(o)
    <3>1. o[i] = <<b, -1>>
      BY <1>2, <1>9, <2>1
    <3> QED
      BY <1>3, <1>4, <2>1, <3>1
  <2>2. CASE i = Len(o) + 1
    BY <1>2, <1>9, <2>2
  <2> QED
    BY <1>2, <1>5, <2>1, <2>2
<1> QED
  BY <1>6, <1>7, <1>8, <1>9 DEF Sound

\* And when it is written nothing, whatever is dispatched.
LEMMA SoundStays ==
  ASSUME Inv, [Next]_vars, NEW c \in Clients, Sound(c),
         \A p \in DOMAIN handled : p \in DOMAIN handled' /\ handled'[p] = handled[p],
         out'[c] = out[c]
  PROVE  Sound(c)'
<1>1. \A b \in Clients : SaidBye(b, c) => SaidBye(b, c)'
  BY SaidByeStays DEF Inv
<1>2. \A i \in DOMAIN out'[c] :
        out'[c][i] \in Bye \/ \E p \in DOMAIN handled' : handled'[p] = out'[c][i] /\ ~Blank(handled'[p])
  BY DEF Sound
<1>3. /\ \A i, j \in DOMAIN out'[c] : out'[c][i] = out'[c][j] => i = j
      /\ \A i \in DOMAIN out'[c] : out'[c][i] \in Instant => c \in ReadAs(out'[c][i][1])
      /\ \A i \in DOMAIN out'[c], b \in Clients : out'[c][i] = <<b, -1>> => SaidBye(b, c)'
  BY <1>1 DEF Sound
<1> QED
  BY <1>2, <1>3 DEF Sound

LEMMA SoundStep ==
  ASSUME Inv, LineOK, Ledger, [Next]_vars, NEW c \in Clients
  PROVE  Sound(c)'
<1>0. Sound(c) /\ NotYet(c) /\ Follows(c) /\ OnTheAir /\ Answering /\ LeftIsClosed
  BY DEF Ledger
<1>1. CASE Quiet(c)
  BY <1>0, <1>1, SoundStays DEF Quiet
<1>2. CASE Hears(c)
  <2>1. /\ handled # <<>> /\ Len(handled) \in Said /\ message = handled[Len(handled)]
        /\ \A i \in DOMAIN out[c] : out[c][i] # message
    BY <1>0, <1>2, OwedIsNew DEF Hears
  <2>2. Public(message) /\ ~Blank(message) /\ Len(handled) \in DOMAIN handled
    BY <2>1 DEF Said, Public, Blank
  <2>3. message \in Msg
    BY <2>1, <2>2, LineType
  <2>4. \A b \in Clients : message # <<b, -1>>
    BY <2>2 DEF Public
  <2>5. message \notin Instant
    BY <2>2 DEF Public
  <2> QED
    BY <1>0, <1>2, <2>1, <2>2, <2>3, <2>4, <2>5, SoundGrows DEF Hears
<1>3. CASE HearsBye(c)
  <2>1. PICK b \in Clients : out'[c] = Append(out[c], <<b, -1>>) /\ ~SaidBye(b, c) /\ SaidBye(b, c)'
    BY <1>3 DEF HearsBye
  <2>2. \A i \in DOMAIN out[c] : out[c][i] # <<b, -1>>
    BY <1>0, <2>1 DEF Sound
  <2>3. <<b, -1>> \in Bye /\ <<b, -1>> \notin Instant
    BY InstantAssumption, Shapes DEF Bye
  <2>4. \A d \in Clients : <<b, -1>> = <<d, -1>> => SaidBye(d, c)'
    BY <2>1
  <2> QED
    BY <1>0, <1>3, <2>1, <2>2, <2>3, <2>4, SoundGrows DEF HearsBye
<1>4. CASE HearsPrivate(c)
  <2>1. message \in Instant /\ message \in Msg /\ ~Blank(message) /\ c \in ReadAs(message[1])
    BY <1>0, <1>4, InstantAssumption DEF HearsPrivate, Answering
  <2>2. \A i \in DOMAIN out[c] : out[c][i] # message
    BY <1>0, <1>4 DEF HearsPrivate, NotYet
  <2>3. \E p \in DOMAIN handled' : handled'[p] = message /\ ~Blank(handled'[p])
    BY <1>0, <1>4, <2>1 DEF HearsPrivate, Answering
  <2>4. \A b \in Clients : message # <<b, -1>>
    BY <2>1, Shapes
  <2> QED
    BY <1>0, <1>4, <2>1, <2>2, <2>3, <2>4, SoundGrows DEF HearsPrivate
<1>5. CASE Dispatched(c)
  <2>1. handled \in Seq(Msg) /\ message \in Msg
    BY <1>5, LineType DEF Dispatched, Inv, TypeOK, MainType
  <2>2. \A p \in DOMAIN handled : p \in DOMAIN handled' /\ handled'[p] = handled[p]
    BY <1>5, <2>1, AppendFacts DEF Dispatched
  <2> QED
    BY <1>0, <1>5, <2>2, SoundStays DEF Dispatched
<1> QED
  BY <1>0, <1>1, <1>2, <1>3, <1>4, <1>5, StepToClient

\* What main is about to write privately was dispatched just now.
LEMMA NotYetStep ==
  ASSUME Inv, LineOK, Ledger, [Next]_vars, NEW c \in Clients
  PROVE  NotYet(c)'
<1>0. Sound(c) /\ NotYet(c) /\ OnTheAir /\ LeftIsClosed
  BY DEF Ledger
<1>1. CASE Quiet(c)
  BY <1>0, <1>1 DEF Quiet, NotYet
<1>2. CASE Hears(c) \/ HearsPrivate(c)
  BY <1>2 DEF Hears, HearsPrivate, NotYet
<1>3. CASE HearsBye(c)
  <2> SUFFICES ASSUME mpc = "imWrite", NEW i \in DOMAIN out'[c] PROVE out'[c][i] # message
    BY <1>3 DEF HearsBye, NotYet
  <2>1. PICK b \in Clients : out'[c] = Append(out[c], <<b, -1>>)
    BY <1>3 DEF HearsBye
  <2>2. message \in Msg /\ message # <<b, -1>> /\ out[c] \in Seq(Msg \cup Bye) /\ <<b, -1>> \in Bye
    BY Shapes DEF Inv, TypeOK, MainType, PeerType, Bye
  <2>3. /\ DOMAIN out'[c] = 1..(Len(out[c]) + 1) /\ Len(out[c]) \in Nat
        /\ DOMAIN out[c] = 1..Len(out[c])
        /\ out'[c][Len(out[c]) + 1] = <<b, -1>>
        /\ \A j \in 1..Len(out[c]) : out'[c][j] = out[c][j]
    BY <2>1, <2>2, AppendFacts
  <2>4. i \in DOMAIN out[c] \/ i = Len(out[c]) + 1
    BY <2>3
  <2> QED
    BY <1>0, <2>2, <2>3, <2>4 DEF NotYet
<1>4. CASE Dispatched(c)
  <2> SUFFICES ASSUME NEW i \in DOMAIN out[c], out[c][i] = message PROVE FALSE
    BY <1>4 DEF Dispatched, NotYet
  <2>1. message \in Msg /\ message \notin Bye
    BY <1>4, Shapes DEF Dispatched, Inv, TypeOK, MainType
  <2>2. PICK p \in DOMAIN handled : handled[p] = message /\ ~Blank(handled[p])
    BY <1>0, <2>1 DEF Sound
  <2> QED
    BY <1>4, <2>2, HandledOnce DEF Dispatched
<1> QED
  BY <1>0, <1>1, <1>2, <1>3, <1>4, StepToClient

\* Nothing public is written to c and nothing new is due to it.
LEMMA FollowsStays ==
  ASSUME NEW c \in Clients, Follows(c),
         Said \subseteq Said', \A p \in Said : handled'[p] = handled[p],
         \A p \in Said' \ Said : \A i \in Heard(c) : out[c][i] # handled'[p],
         Heard(c)' = Heard(c), \A i \in Heard(c) : out'[c][i] = out[c][i],
         Due(c) \subseteq Due(c)', peer'[c] = "open" => peer[c] = "open" /\ Due(c)' = Due(c),
         Due(c) \subseteq Said,
         Said' \subseteq Nat, \A p \in Said, q \in Said' \ Said : p < q
  PROVE  Follows(c)'
<1>1. \A p \in Said : HeardOf(c, p)' <=> HeardOf(c, p)
  BY DEF HeardOf
<1>2. \A p \in Said' \ Said : ~HeardOf(c, p)'
  BY DEF HeardOf
<1>3. ASSUME NEW i \in Heard(c)' PROVE \E p \in Due(c)' : out'[c][i] = handled'[p]
  <2>1. PICK p \in Due(c) : out[c][i] = handled[p]
    BY <1>3 DEF Follows
  <2>2. p \in Due(c)' /\ handled'[p] = handled[p] /\ out'[c][i] = out[c][i]
    BY <1>3
  <2> QED
    BY <2>1, <2>2
<1>4. ASSUME NEW i \in Heard(c)', NEW j \in Heard(c)', NEW p \in Said', NEW q \in Said',
             out'[c][i] = handled'[p], out'[c][j] = handled'[q]
      PROVE  i < j <=> p < q
  <2>1. p \in Said /\ q \in Said
    BY <1>4
  <2> QED
    BY <1>4, <2>1 DEF Follows
<1>5. ASSUME NEW p \in Said', NEW q \in Said', p < q, HeardOf(c, q)' PROVE HeardOf(c, p)'
  <2>1. q \in Said /\ HeardOf(c, q)
    BY <1>1, <1>2, <1>5
  <2>2. p \in Said
    <3>1. p \in Nat /\ q \in Nat
      BY <1>5
    <3>2. ~(q < p)
      BY <1>5, <3>1
    <3> QED
      BY <1>5, <2>1, <3>2
  <2> QED
    BY <1>1, <1>5, <2>1, <2>2 DEF Follows
<1>6. peer'[c] = "open" => \A p \in Due(c)' : HeardOf(c, p)'
  BY <1>1 DEF Follows
<1> QED
  BY <1>3, <1>4, <1>5, <1>6 DEF Follows

\* The message on the air is written to c.
LEMMA FollowsGrows ==
  ASSUME Inv, LineOK, OnTheAir, NEW c \in Clients, Follows(c), Hears(c)
  PROVE  Follows(c)'
<1> DEFINE n == Len(handled)
           k == Len(out[c]) + 1
<1>1. /\ handled \in Seq(Msg) /\ handled # <<>> /\ n \in Said /\ message = handled[n]
      /\ \A i \in DOMAIN out[c] : out[c][i] # message
  BY OwedIsNew, LineType DEF Hears
<1>2. out[c] \in Seq(Msg \cup Bye) /\ message \in Msg /\ Public(message)
  BY <1>1 DEF Inv, TypeOK, PeerType, Said
<1>3. /\ n \in Nat /\ k \in Nat
      /\ DOMAIN handled = 1..n /\ DOMAIN out[c] = 1..(k - 1) /\ DOMAIN out'[c] = 1..k
      /\ out'[c][k] = message
      /\ \A i \in 1..(k - 1) : out'[c][i] = out[c][i]
  BY <1>1, <1>2, AppendFacts DEF Hears
<1>4. /\ handled' = handled /\ Said' = Said /\ Said \subseteq 1..n
      /\ Due(c) = Said \ {n} /\ Due(c)' = Said
  BY <1>3 DEF Hears, Said, Due
<1>5. \A p \in Said : handled[p] = message => p = n
  <2>1. n \in DOMAIN handled /\ ~Blank(handled[n])
    BY <1>1, <1>2 DEF Said, Public, Blank
  <2> QED
    BY <1>1, <2>1, HandledOnce DEF Said
<1>6. /\ Heard(c)' = Heard(c) \cup {k} /\ Heard(c) \subseteq 1..(k - 1)
      /\ \A i \in Heard(c) : out'[c][i] = out[c][i] /\ out[c][i] # message
  <2>1. Heard(c) \subseteq 1..(k - 1)
    BY <1>3 DEF Heard
  <2>2. \A i \in 1..k : i \in 1..(k - 1) \/ i = k
    BY <1>3
  <2>3. 1..(k - 1) \subseteq 1..k /\ k \in 1..k
    BY <1>3
  <2> HIDE DEF k
  <2> QED
    BY <1>1, <1>2, <1>3, <2>1, <2>2, <2>3 DEF Heard
<1>7. /\ \A i \in Heard(c) : \E p \in Said \ {n} : out[c][i] = handled[p]
      /\ \A i, j \in Heard(c), p, q \in Said :
           out[c][i] = handled[p] /\ out[c][j] = handled[q] => (i < j <=> p < q)
      /\ \A p, q \in Said : p < q /\ HeardOf(c, q) => HeardOf(c, p)
      /\ \A p \in Said \ {n} : HeardOf(c, p)
  BY <1>4 DEF Follows, Hears
<1> HIDE DEF n, k
<1>8. \A p \in Said : HeardOf(c, p)'
  <2> TAKE p \in Said
  <2>1. CASE p = n
    BY <1>1, <1>3, <1>4, <1>6, <2>1 DEF HeardOf
  <2>2. CASE p # n
    <3>1. PICK i \in Heard(c) : out[c][i] = handled[p]
      BY <1>7, <2>2 DEF HeardOf
    <3> QED
      BY <1>4, <1>6, <3>1 DEF HeardOf
  <2> QED
    BY <2>1, <2>2
<1>9. ASSUME NEW i \in Heard(c)' PROVE \E p \in Due(c)' : out'[c][i] = handled'[p]
  <2>1. CASE i \in Heard(c)
    BY <1>4, <1>6, <1>7, <2>1
  <2>2. CASE i = k
    BY <1>1, <1>3, <1>4, <2>2
  <2> QED
    BY <1>6, <1>9, <2>1, <2>2
<1>10. ASSUME NEW i \in Heard(c)', NEW j \in Heard(c)', NEW p \in Said', NEW q \in Said',
              out'[c][i] = handled'[p], out'[c][j] = handled'[q]
       PROVE  i < j <=> p < q
  <2>0. /\ p \in Said /\ q \in Said /\ handled' = handled /\ p \in 1..n /\ q \in 1..n
        /\ \A l \in Heard(c) : l \in Nat /\ l < k
    BY <1>3, <1>4, <1>6, <1>10
  <2>1. CASE i \in Heard(c) /\ j \in Heard(c)
    BY <1>6, <1>7, <1>10, <2>0, <2>1
  <2>2. CASE i = k /\ j = k
    <3>1. p = n /\ q = n
      BY <1>3, <1>5, <1>10, <2>0, <2>2
    <3> QED
      BY <1>3, <2>2, <3>1
  <2>3. CASE i \in Heard(c) /\ j = k
    <3>1. q = n /\ p # n
      BY <1>1, <1>3, <1>5, <1>6, <1>10, <2>0, <2>3
    <3> QED
      BY <1>3, <2>0, <2>3, <3>1
  <2>4. CASE i = k /\ j \in Heard(c)
    <3>1. p = n /\ q # n
      BY <1>1, <1>3, <1>5, <1>6, <1>10, <2>0, <2>4
    <3> QED
      BY <1>3, <2>0, <2>4, <3>1
  <2> QED
    BY <1>6, <1>10, <2>1, <2>2, <2>3, <2>4
<1>11. \A p, q \in Said' : p < q /\ HeardOf(c, q)' => HeardOf(c, p)'
  BY <1>4, <1>8
<1>12. peer'[c] = "open" => \A p \in Due(c)' : HeardOf(c, p)'
  BY <1>4, <1>8
<1> QED
  BY <1>9, <1>10, <1>11, <1>12 DEF Follows

LEMMA FollowsStep ==
  ASSUME Inv, LineOK, Ledger, [Next]_vars, NEW c \in Clients
  PROVE  Follows(c)'
<1>0. Sound(c) /\ NotYet(c) /\ Follows(c) /\ OnTheAir /\ Answering /\ LeftIsClosed
  BY DEF Ledger
<1>1. handled \in Seq(Msg) /\ out[c] \in Seq(Msg \cup Bye) /\ Due(c) \subseteq Said /\ Said \subseteq Nat
  <2>1. handled \in Seq(Msg) /\ out[c] \in Seq(Msg \cup Bye)
    BY LineType DEF Inv, TypeOK, PeerType
  <2> QED
    BY <2>1 DEF Due, Said
<1>2. CASE Quiet(c)
  <2>1. Said' = Said /\ Heard(c)' = Heard(c) /\ handled' = handled /\ out'[c] = out[c]
    BY <1>2 DEF Quiet, Said, Heard
  <2>2. Due(c) \subseteq Due(c)' /\ (peer'[c] = "open" => Due(c)' = Due(c))
    BY <1>2, <2>1 DEF Quiet, Due
  <2>3. Said' \ Said = {} /\ Said' \subseteq Nat /\ (peer'[c] = "open" => peer[c] = "open")
    BY <1>1, <1>2, <2>1 DEF Quiet
  <2> QED
    BY <1>0, <1>1, <2>1, <2>2, <2>3, FollowsStays
<1>3. CASE Hears(c)
  BY <1>0, <1>3, FollowsGrows
<1>4. CASE HearsBye(c)
  <2>1. PICK b \in Clients : out'[c] = Append(out[c], <<b, -1>>)
    BY <1>4 DEF HearsBye
  <2>2. <<b, -1>> \in Msg \cup Bye /\ ~Public(<<b, -1>>)
    BY DEF Bye, Public
  <2>3. Heard(c)' = Heard(c) /\ \A i \in Heard(c) : out'[c][i] = out[c][i]
    BY <1>1, <2>1, <2>2, AppendFacts DEF Heard
  <2>4. Said' = Said /\ handled' = handled /\ Due(c)' = Due(c)
    BY <1>4 DEF HearsBye, Said, Due
  <2>5. Said' \ Said = {} /\ Said' \subseteq Nat /\ (peer'[c] = "open" => peer[c] = "open")
    BY <1>1, <1>4, <2>4 DEF HearsBye
  <2> QED
    BY <1>0, <1>1, <2>3, <2>4, <2>5, FollowsStays
<1>6. CASE HearsPrivate(c)
  <2>1. out'[c] = Append(out[c], message) /\ message \in Msg \cup Bye /\ ~Public(message)
    BY <1>0, <1>6, InstantAssumption DEF HearsPrivate, Answering, Public
  <2>2. Heard(c)' = Heard(c) /\ \A i \in Heard(c) : out'[c][i] = out[c][i]
    BY <1>1, <2>1, AppendFacts DEF Heard
  <2>3. Said' = Said /\ handled' = handled /\ Due(c)' = Due(c)
    BY <1>6 DEF HearsPrivate, Said, Due
  <2>4. Said' \ Said = {} /\ Said' \subseteq Nat /\ (peer'[c] = "open" => peer[c] = "open")
    BY <1>1, <1>6, <2>3 DEF HearsPrivate
  <2> QED
    BY <1>0, <1>1, <2>2, <2>3, <2>4, FollowsStays
<1>5. CASE Dispatched(c)
  <2> DEFINE n == Len(handled)
  <2>1. message \in Msg /\ n \in Nat
    BY <1>1, <1>5 DEF Dispatched, Inv, TypeOK, MainType
  <2>2. /\ DOMAIN handled = 1..n /\ DOMAIN handled' = 1..(n + 1) /\ Len(handled') = n + 1
        /\ handled'[n + 1] = message
        /\ \A p \in 1..n : handled'[p] = handled[p]
    BY <1>1, <1>5, <2>1, AppendFacts DEF Dispatched
  <2>3. Said' = IF Public(message) THEN Said \cup {n + 1} ELSE Said
    <3>1. \A p \in 1..(n + 1) : p \in 1..n \/ p = n + 1
      BY <2>1
    <3>2. 1..n \subseteq 1..(n + 1) /\ n + 1 \in 1..(n + 1)
      BY <2>1
    <3> HIDE DEF n
    <3> QED
      BY <2>2, <3>1, <3>2 DEF Said
  <2>4. Said \subseteq 1..n /\ n + 1 \notin Said
    BY <2>1, <2>2 DEF Said
  <2>5. Due(c) = Said /\ Due(c)' = Said
    BY <1>5, <2>2, <2>3, <2>4 DEF Dispatched, Due
  <2>6. Heard(c)' = Heard(c) /\ \A i \in Heard(c) : out'[c][i] = out[c][i]
    BY <1>5 DEF Dispatched, Heard
  <2>7. ASSUME NEW p \in Said' \ Said, NEW i \in Heard(c) PROVE out[c][i] # handled'[p]
    <3>1. handled'[p] = message
      BY <2>2, <2>3, <2>7
    <3>2. PICK q \in Due(c) : out[c][i] = handled[q]
      BY <1>0 DEF Follows
    <3>3. q \in DOMAIN handled /\ ~Blank(handled[q])
      BY <2>5, <3>2 DEF Said, Public, Blank
    <3> QED
      BY <1>5, <3>1, <3>2, <3>3, HandledOnce DEF Dispatched
  <2>8. Said' \subseteq Nat /\ \A p \in Said, q \in Said' \ Said : p < q
    <3>1. \A p \in Said : p < n + 1
      BY <2>1, <2>4
    <3>2. n + 1 \in Nat /\ Said' \ Said \subseteq {n + 1} /\ Said' \subseteq Said \cup {n + 1}
      BY <2>1, <2>3
    <3> HIDE DEF n
    <3> QED
      BY <1>1, <3>1, <3>2
  <2>9. peer' = peer /\ Said \subseteq Said' /\ \A p \in Said : handled'[p] = handled[p]
    BY <1>5, <2>2, <2>3, <2>4 DEF Dispatched
  <2> HIDE DEF n
  <2> QED
    BY <1>0, <1>1, <2>5, <2>6, <2>7, <2>8, <2>9, FollowsStays
<1> QED
  BY <1>0, <1>2, <1>3, <1>4, <1>5, <1>6, StepToClient

Full == Inv /\ EmptyHanded /\ LineOK /\ Ledger

LEMMA InitFull == Init => Full
<1> SUFFICES ASSUME Init PROVE Full
  OBVIOUS
<1>1. Inv /\ EmptyHanded
  BY InitInv DEF Init, EmptyHanded
<1>2. Line = <<>> /\ DOMAIN Line = {}
  BY DEF Init, Line, Held
<1>3. LineOK
  BY <1>2 DEF Init, LineOK, InHandIsNewest, LineInOrder, Linked
<1>4. OnTheAir /\ Answering /\ LeftIsClosed
  BY DEF Init, OnTheAir, Answering, LeftIsClosed, Leaving
<1>5. ASSUME NEW c \in Clients PROVE Sound(c) /\ NotYet(c) /\ Follows(c)
  <2>1. DOMAIN out[c] = {} /\ DOMAIN handled = {}
    BY DEF Init
  <2> QED
    BY <2>1 DEF Sound, NotYet, Follows, Heard, Said, Due
<1> QED
  BY <1>1, <1>3, <1>4, <1>5 DEF Full, Ledger

LEMMA NextFull == Full /\ [Next]_vars => Full'
<1> SUFFICES ASSUME Full, [Next]_vars PROVE Full'
  OBVIOUS
<1>1. Inv /\ EmptyHanded /\ LineOK /\ Ledger /\ OnTheAir /\ Answering /\ LeftIsClosed
  BY DEF Full, Ledger
<1>2. Inv' /\ EmptyHanded' /\ LineOK'
  BY <1>1, NextInv, EmptyHandedStep, LineOKStep
<1>3. OnTheAir' /\ Answering' /\ LeftIsClosed'
  BY <1>1, OnTheAirStep, AnsweringStep, LeftIsClosedStep
<1>4. \A c \in Clients : Sound(c)' /\ NotYet(c)' /\ Follows(c)'
  BY <1>1, SoundStep, NotYetStep, FollowsStep
<1> QED
  BY <1>2, <1>3, <1>4 DEF Full, Ledger

LEMMA PumpLedger == Spec => []Full
  BY InitFull, NextFull, PTL DEF Spec

\* However the threads interleave and whoever comes late to the mutex: of each
\* client's messages exactly those its thread has read are on their way or
\* dispatched, once each and in the order the client sent them.
THEOREM SendersKeepOrder == Spec => []PerSenderOrder
<1>1. Full => PerSenderOrder
  BY LineOrderIsSenderOrder DEF Full
<1> QED
  BY <1>1, PumpLedger, PTL

\* Every client sees the same conversation: the public messages in the order
\* of their dispatch, all but the one on the air while the client is there,
\* and a beginning of them once its peer has left.
THEOREM OneConversationForAll == Spec => []OneConversation
<1>1. Full => OneConversation
  BY DEF Full, Ledger, OneConversation
<1> QED
  BY <1>1, PumpLedger, PTL

\* No message is written to a client twice, sign-off messages included, however
\* the threads interleave and however often main is woken for nothing; and an
\* instant message goes back to the client that wrote it, or to the one its uid
\* is read as, never to anybody else.
THEOREM NothingTwice == Spec => []WrittenOnce
<1>1. Full => WrittenOnce
  <2> SUFFICES ASSUME Full, NEW c \in Clients
               PROVE  /\ \A i, j \in 1..Len(out[c]) : out[c][i] = out[c][j] => i = j
                      /\ \A i \in 1..Len(out[c]) :
                           out[c][i] \in Instant => c \in ReadAs(out[c][i][1])
    BY DEF WrittenOnce
  <2>1. Sound(c) /\ DOMAIN out[c] = 1..Len(out[c])
    BY DEF Full, Ledger, Inv, TypeOK, PeerType
  <2> QED
    BY <2>1 DEF Sound
<1> QED
  BY <1>1, PumpLedger, PTL

\* Any two clients were sent the public messages both have in the same order.
SameOrder ==
  \A c, d \in Clients : \A i, j \in Heard(c) : \A k, l \in Heard(d) :
    out[c][i] = out[d][k] /\ out[c][j] = out[d][l] => (i < j <=> k < l)

\* Whoever listens, and whoever has left in between: no two clients disagree on
\* which of two public messages came first.
THEOREM ClientsAgree == Spec => []SameOrder
<1>1. OneConversation => SameOrder
  <2> SUFFICES ASSUME OneConversation, NEW c \in Clients, NEW d \in Clients,
                      NEW i \in Heard(c), NEW j \in Heard(c), NEW k \in Heard(d), NEW l \in Heard(d),
                      out[c][i] = out[d][k], out[c][j] = out[d][l]
               PROVE  i < j <=> k < l
    BY DEF SameOrder
  <2>1. Follows(c) /\ Follows(d) /\ Due(c) \subseteq Said
    BY DEF OneConversation, Due
  <2>2. PICK p \in Said : out[c][i] = handled[p]
    BY <2>1 DEF Follows
  <2>3. PICK q \in Said : out[c][j] = handled[q]
    BY <2>1 DEF Follows
  <2>4. i < j <=> p < q
    <3>1. \A x, y \in Heard(c), r, t \in Said :
            out[c][x] = handled[r] /\ out[c][y] = handled[t] => (x < y <=> r < t)
      BY <2>1 DEF Follows
    <3> QED
      BY <2>2, <2>3, <3>1
  <2>5. k < l <=> p < q
    <3>1. \A x, y \in Heard(d), r, t \in Said :
            out[d][x] = handled[r] /\ out[d][y] = handled[t] => (x < y <=> r < t)
      BY <2>1 DEF Follows
    <3> QED
      BY <2>2, <2>3, <3>1
  <2> QED
    BY <2>4, <2>5
<1> QED
  BY <1>1, OneConversationForAll, PTL
=============================================================================
