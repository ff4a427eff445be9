----------------------------- MODULE MessagePump ----------------------------
(***************************************************************************)
(* How a message travels through the server: the client threads            *)
(* (client_thread, server/bc_network.c) read it from their sockets and     *)
(* enqueue it under the mutex, sem_post wakes the main thread              *)
(* (handle_messages, server/main.c), which dequeues it and writes the      *)
(* answer to the clients (broadcast_all, broadcast_client).                *)
(*                                                                         *)
(* One action is what a thread does between two points where another can   *)
(* tell the difference.  A critical section that writes nothing of the     *)
(* queue or of a slot is a single step that needs the mutex free: the      *)
(* isEmpty test of the client loop, a dequeue that finds nothing and the   *)
(* bytes_to updates.  The others take the mutex with their first effect    *)
(* and release it with their last.                                         *)
(*                                                                         *)
(* The queue is its list of messages (LinkedQueue refines it) and the      *)
(* `size' the main thread reads without the mutex.  All clients are signed *)
(* on at the start; SessionTable models how they come and are ejected.     *)
(* One read returns one message.  A local variable that will not be read   *)
(* again is put back to its first value, so that states do not differ in   *)
(* dead values only.                                                       *)
(***************************************************************************)
EXTENDS Integers, Sequences, FiniteSets

CONSTANTS
  NumClients,   \* slots in use, MAX_CONNECTIONS is 10
  Quota,        \* bound: messages each peer sends, by client
  Leavers,      \* clients whose peer may leave
  Slow,         \* clients whose peer does not read at once what it is sent
  Window,       \* messages a socket holds before write blocks
  Instant       \* the messages that are instant messages

Clients == 1..NumClients
Free == 0                  \* no one holds the mutex
Main == NumClients + 1     \* the main thread as holder of the mutex

\* A message is its sender and its number there.  Number 0 stands for what
\* reaches the queue when read fails: a buffer of zeros.
Msg == UNION {{c} \X (0..Quota[c]) : c \in Clients}
Bye == Clients \X {-1}     \* "... has logged off."
None == <<0, 0>>           \* no message

Blank(m) == m[2] = 0

ASSUME BoundsAssumption ==
  /\ NumClients \in Nat \ {0}
  /\ Quota \in [Clients -> Nat]
  /\ Window \in Nat \ {0}
  /\ Leavers \subseteq Clients /\ Slow \subseteq Clients
ASSUME InstantAssumption == \A m \in Instant : m \in Msg /\ ~Blank(m)

VARIABLES
  mutex,        \* its holder, or Free
  sem,          \* messages_sem
  list, size,   \* the queue, oldest first, and its size field
  \* client threads
  pc, buf,
  emptySeen,    \* messages_empty
  connected,    \* is_connected of the client's slot
  slot,         \* the sign-off loop's index
  \* the main thread
  mpc, message,
  idx,          \* the slot main writes to: broadcast_all's index, or to_user
  \* the peers and their sockets
  peer,         \* "open", "reset" or "closed"
  sent, got,    \* messages the peer has written, and the thread has read
  backlog,      \* messages written to the client that its peer has not read
  out,          \* history: messages written to the client
  handled       \* history: messages dispatched

threadVars == <<pc, buf, emptySeen, connected, slot>>
mainVars == <<mpc, message, idx>>
queueVars == <<list, size>>
peerVars == <<peer, sent, got, backlog, out>>
vars == <<mutex, sem, queueVars, threadVars, mainVars, peerVars, handled>>

Init ==
  /\ mutex = Free /\ sem = 0 /\ list = <<>> /\ size = 0
  /\ pc = [c \in Clients |-> "top"]
  /\ buf = [c \in Clients |-> None]
  /\ emptySeen = [c \in Clients |-> TRUE]
  /\ connected = [c \in Clients |-> TRUE]
  /\ slot = [c \in Clients |-> 1]
  /\ mpc = "check" /\ message = None /\ idx = 1
  /\ peer = [c \in Clients |-> "open"]
  /\ sent = [c \in Clients |-> 0]
  /\ got = [c \in Clients |-> 0]
  /\ backlog = [c \in Clients |-> 0]
  /\ out = [c \in Clients |-> <<>>]
  /\ handled = <<>>

Goto(c, from, to) == pc[c] = from /\ pc' = [pc EXCEPT ![c] = to]
MainGoto(from, to) == mpc = from /\ mpc' = to
Acquire(p) == mutex = Free /\ mutex' = p
Release(p) == mutex = p /\ mutex' = Free

-----------------------------------------------------------------------------
(* write on the socket of client i *)

\* A peer that has left, or a socket its thread has closed, takes nothing:
\* write returns an error the server does not look at.
Reaches(i) == pc[i] # "gone" /\ peer[i] = "open"

\* write blocks while the peer's window is full.
Blocks(i) == Reaches(i) /\ backlog[i] = Window
Write(i, m) ==
  IF Reaches(i)
  THEN /\ ~Blocks(i)
       /\ backlog' = [backlog EXCEPT ![i] = IF i \in Slow THEN @ + 1 ELSE 0]
       /\ out' = [out EXCEPT ![i] = Append(@, m)]
  ELSE UNCHANGED <<backlog, out>>

-----------------------------------------------------------------------------
(* client_thread *)

\* 363-365: the client looks whether messages are queued.
LookAtQueue(c) ==
  /\ Goto(c, "top", "read")
  /\ mutex = Free
  /\ emptySeen' = [emptySeen EXCEPT ![c] = size = 0]
  /\ UNCHANGED <<mutex, sem, queueVars, buf, connected, slot, mainVars, peerVars, handled>>

\* 370, 400: read returns a message.
ReadMessage(c) ==
  /\ Goto(c, "read", "lock")
  /\ got[c] < sent[c]
  /\ got' = [got EXCEPT ![c] = @ + 1]
  /\ buf' = [buf EXCEPT ![c] = <<c, got[c] + 1>>]
  /\ emptySeen' = [emptySeen EXCEPT ![c] = TRUE]
  /\ UNCHANGED <<mutex, sem, queueVars, connected, slot, mainVars,
                 peer, sent, backlog, out, handled>>

\* read returns -1, which is taken for data: the zeroed buffer is enqueued.
\* The socket reports its error once and end of file from then on.
ReadError(c) ==
  /\ Goto(c, "read", "lock")
  /\ got[c] = sent[c] /\ peer[c] = "reset"
  /\ peer' = [peer EXCEPT ![c] = "closed"]
  /\ buf' = [buf EXCEPT ![c] = <<c, 0>>]
  /\ emptySeen' = [emptySeen EXCEPT ![c] = TRUE]
  /\ UNCHANGED <<mutex, sem, queueVars, connected, slot, mainVars,
                 sent, got, backlog, out, handled>>

\* read returns 0.  Only a thread that had found the queue non-empty, and
\* whose uid is not 1, tells the others (373-387); the rest leave in silence.
Announces(c) == ~emptySeen[c] /\ c # 1
ReadEnd(c) ==
  /\ got[c] = sent[c] /\ peer[c] = "closed"
  /\ IF Announces(c) THEN Goto(c, "read", "bye") ELSE Goto(c, "read", "exit")
  /\ emptySeen' = [emptySeen EXCEPT ![c] = TRUE]
  /\ UNCHANGED <<mutex, sem, queueVars, buf, connected, slot, mainVars, peerVars, handled>>

\* Fault: the message is linked at the end dequeue takes from.
LinkAtTail(c) ==
  /\ Goto(c, "lock", "count")
  /\ Acquire(c)
  /\ list' = <<buf[c]>> \o list
  /\ buf' = [buf EXCEPT ![c] = None]
  /\ UNCHANGED <<sem, size, emptySeen, connected, slot, mainVars, peerVars, handled>>

\* 390-392, 407-409: enqueue under the mutex, first the node, then the size.
Link(c) ==
  /\ Goto(c, "lock", "count")
  /\ Acquire(c)
  /\ list' = Append(list, buf[c])
  /\ buf' = [buf EXCEPT ![c] = None]
  /\ UNCHANGED <<sem, size, emptySeen, connected, slot, mainVars, peerVars, handled>>

\* Fault: the thread goes on without unlocking.
CountKeepingLock(c) ==
  /\ Goto(c, "count", "post")
  /\ size' = size + 1
  /\ UNCHANGED <<mutex, sem, list, buf, emptySeen, connected, slot, mainVars, peerVars, handled>>

Count(c) ==
  /\ Goto(c, "count", "post")
  /\ size' = size + 1
  /\ Release(c)
  /\ UNCHANGED <<sem, list, buf, emptySeen, connected, slot, mainVars, peerVars, handled>>

\* Fault: the main thread is only woken for the first message of a batch.
PostIfFirst(c) ==
  /\ Goto(c, "post", "top")
  /\ sem' = IF size = 1 THEN sem + 1 ELSE sem
  /\ UNCHANGED <<mutex, queueVars, buf, emptySeen, connected, slot, mainVars, peerVars, handled>>

Post(c) ==
  /\ Goto(c, "post", "top")
  /\ sem' = sem + 1
  /\ UNCHANGED <<mutex, queueVars, buf, emptySeen, connected, slot, mainVars, peerVars, handled>>

\* 379-383: the sign-off message goes to every slot, connected or not.
SayBye(c) ==
  /\ Goto(c, "bye", "byeAcct")
  /\ Write(slot[c], <<c, -1>>)
  /\ UNCHANGED <<mutex, sem, queueVars, buf, emptySeen, connected, slot, mainVars,
                 peer, sent, got, handled>>

ByeAcct(c) ==
  /\ mutex = Free
  /\ IF slot[c] = NumClients
     THEN Goto(c, "byeAcct", "exit") /\ slot' = [slot EXCEPT ![c] = 1]
     ELSE Goto(c, "byeAcct", "bye") /\ slot' = [slot EXCEPT ![c] = @ + 1]
  /\ UNCHANGED <<mutex, sem, queueVars, buf, emptySeen, connected, mainVars, peerVars, handled>>

\* 423-434: the slot is freed and the socket closed under the mutex.
ClearSlot(c) ==
  /\ Goto(c, "exit", "close")
  /\ Acquire(c)
  /\ connected' = [connected EXCEPT ![c] = FALSE]
  /\ UNCHANGED <<sem, queueVars, buf, emptySeen, slot, mainVars, peerVars, handled>>

CloseSocket(c) ==
  /\ Goto(c, "close", "gone")
  /\ Release(c)
  /\ UNCHANGED <<sem, queueVars, buf, emptySeen, connected, slot, mainVars, peerVars, handled>>

\* The threads end with the process.
Up == mpc # "crashed"
Thread(c) ==
  /\ Up
  /\ \/ LookAtQueue(c) \/ ReadMessage(c) \/ ReadError(c) \/ ReadEnd(c)
     \/ Link(c) \/ Count(c) \/ Post(c)
     \/ SayBye(c) \/ ByeAcct(c)
     \/ ClearSlot(c) \/ CloseSocket(c)

-----------------------------------------------------------------------------
(* handle_messages *)

\* 139: size is read without the mutex.
CheckEmpty ==
  /\ IF size = 0 THEN MainGoto("check", "wait") ELSE MainGoto("check", "lock")
  /\ UNCHANGED <<mutex, sem, queueVars, threadVars, message, idx, peerVars, handled>>

\* 141: sem_wait.
Wait ==
  /\ MainGoto("wait", "lock")
  /\ sem > 0
  /\ sem' = sem - 1
  /\ UNCHANGED <<mutex, queueVars, threadVars, message, idx, peerVars, handled>>

\* Fault: dequeue returns the oldest message and leaves it in the list.
TakeKeeping ==
  /\ MainGoto("lock", "shrink")
  /\ Acquire(Main)
  /\ size # 0
  /\ message' = Head(list)
  /\ UNCHANGED <<sem, queueVars, threadVars, idx, peerVars, handled>>

\* Fault: dequeue from the end enqueue adds to.
TakeYoungest ==
  /\ MainGoto("lock", "shrink")
  /\ Acquire(Main)
  /\ size # 0
  /\ message' = list[Len(list)]
  /\ list' = SubSeq(list, 1, Len(list) - 1)
  /\ UNCHANGED <<sem, size, threadVars, idx, peerVars, handled>>

\* 146-148: dequeue under the mutex, first the node, then the size.
Take ==
  /\ MainGoto("lock", "shrink")
  /\ Acquire(Main)
  /\ size # 0
  /\ message' = Head(list)
  /\ list' = Tail(list)
  /\ UNCHANGED <<sem, size, threadVars, idx, peerVars, handled>>

Shrink ==
  /\ MainGoto("shrink", "dispatch")
  /\ size' = size - 1
  /\ Release(Main)
  /\ UNCHANGED <<sem, list, threadVars, message, idx, peerVars, handled>>

\* Woken for a message an earlier round already took: dequeue returns NULL,
\* which get_type_from_message turns into CMD_ERROR.
TakeNothing ==
  /\ MainGoto("lock", "dispatch")
  /\ mutex = Free
  /\ size = 0
  /\ UNCHANGED <<mutex, sem, queueVars, threadVars, message, idx, peerVars, handled>>

Handled == handled' = IF message = None THEN handled ELSE Append(handled, message)

\* 155: nothing is done for an error or a blank message.
Ignore ==
  /\ MainGoto("dispatch", "check")
  /\ message = None \/ Blank(message)
  /\ Handled
  /\ message' = None
  /\ UNCHANGED <<mutex, sem, queueVars, threadVars, idx, peerVars>>

\* 162-251, 405-432: main chat, yells, status and lurk go through broadcast_all.
Broadcast ==
  /\ MainGoto("dispatch", "bcast")
  /\ message # None /\ ~Blank(message) /\ message \notin Instant
  /\ Handled
  /\ idx' = 1
  /\ UNCHANGED <<mutex, sem, queueVars, threadVars, message, peerVars>>

\* The numbers a client's uid is read as: get_user_from_message leaves the
\* digits it copies without an end, so that one more may follow them.
ReadAs(c) == {c} \cup {10 * c + d : d \in 0..9}

\* 252-264: the text is copied through im->line, which nothing has set.  The
\* copy may end the process,
Crash ==
  /\ MainGoto("dispatch", "crashed")
  /\ message \in Instant
  /\ Handled
  /\ message' = None
  /\ UNCHANGED <<mutex, sem, queueVars, threadVars, idx, peerVars>>

\* or hit memory nobody misses.  The message does not name its recipient:
\* create_im_message leaves it out.  What is read in its place is the uid of
\* the sender.
SendPrivate ==
  /\ MainGoto("dispatch", "imWrite")
  /\ message \in Instant
  /\ Handled
  /\ \E u \in ReadAs(message[1]) : idx' = IF u \in Clients THEN u ELSE NumClients + 1
  /\ UNCHANGED <<mutex, sem, queueVars, threadVars, message, peerVars>>

\* 266: broadcast_client.  A number that is no client's is a slot nobody uses
\* or memory behind the slots.
WritePrivate ==
  /\ MainGoto("imWrite", "imAcct")
  /\ IF idx \in Clients THEN Write(idx, message) ELSE UNCHANGED <<backlog, out>>
  /\ UNCHANGED <<mutex, sem, queueVars, threadVars, message, idx, peer, sent, got, handled>>

PrivateAcct ==
  /\ MainGoto("imAcct", "check")
  /\ mutex = Free
  /\ message' = None
  /\ idx' = 1
  /\ UNCHANGED <<mutex, sem, queueVars, threadVars, peerVars, handled>>

\* broadcast_all: is_connected is read without the mutex, and the write that
\* follows may find the socket closed.
SkipSlot ==
  /\ idx <= NumClients /\ ~connected[idx]
  /\ MainGoto("bcast", "bcast")
  /\ idx' = idx + 1
  /\ UNCHANGED <<mutex, sem, queueVars, threadVars, message, peerVars, handled>>

PickSlot ==
  /\ idx <= NumClients /\ connected[idx]
  /\ MainGoto("bcast", "write")
  /\ UNCHANGED <<mutex, sem, queueVars, threadVars, message, idx, peerVars, handled>>

WriteSlot ==
  /\ MainGoto("write", "acct")
  /\ Write(idx, message)
  /\ UNCHANGED <<mutex, sem, queueVars, threadVars, message, idx, peer, sent, got, handled>>

SlotAcct ==
  /\ MainGoto("acct", "bcast")
  /\ mutex = Free
  /\ idx' = idx + 1
  /\ UNCHANGED <<mutex, sem, queueVars, threadVars, message, peerVars, handled>>

\* Fault: the loop stops before the last slot.
BroadcastDoneEarly ==
  /\ MainGoto("bcast", "check")
  /\ idx >= NumClients
  /\ message' = None
  /\ idx' = 1
  /\ UNCHANGED <<mutex, sem, queueVars, threadVars, peerVars, handled>>

BroadcastDone ==
  /\ MainGoto("bcast", "check")
  /\ idx > NumClients
  /\ message' = None
  /\ idx' = 1
  /\ UNCHANGED <<mutex, sem, queueVars, threadVars, peerVars, handled>>

MainThread ==
  \/ CheckEmpty \/ Wait \/ Take \/ Shrink \/ TakeNothing
  \/ Ignore \/ Broadcast \/ Crash \/ SendPrivate \/ WritePrivate \/ PrivateAcct
  \/ SkipSlot \/ PickSlot \/ WriteSlot \/ SlotAcct \/ BroadcastDone

-----------------------------------------------------------------------------
(* The peers *)

PeerSends(c) ==
  /\ peer[c] = "open" /\ sent[c] < Quota[c]
  /\ sent' = [sent EXCEPT ![c] = @ + 1]
  /\ UNCHANGED <<mutex, sem, queueVars, threadVars, mainVars, peer, got, backlog, out, handled>>

PeerReads(c) ==
  /\ backlog[c] > 0
  /\ backlog' = [backlog EXCEPT ![c] = @ - 1]
  /\ UNCHANGED <<mutex, sem, queueVars, threadVars, mainVars, peer, sent, got, out, handled>>

PeerLeaves(c) ==
  /\ c \in Leavers /\ peer[c] = "open"
  /\ \E how \in {"closed", "reset"} : peer' = [peer EXCEPT ![c] = how]
  /\ UNCHANGED <<mutex, sem, queueVars, threadVars, mainVars, sent, got, backlog, out, handled>>

\* What they do once the server is gone is not followed.
Peer(c) == Up /\ (PeerSends(c) \/ PeerReads(c) \/ PeerLeaves(c))

Next ==
  \/ \E c \in Clients : Thread(c) \/ Peer(c)
  \/ MainThread

(***************************************************************************)
(* Every thread that can step is scheduled.  Nothing obliges a peer to     *)
(* send, to read what it is sent, or to leave.  Weak fairness of a thread  *)
(* lets it wait for the mutex only as long as others keep sending, and     *)
(* Quota bounds what they send.                                            *)
(***************************************************************************)
Fairness ==
  /\ \A c \in Clients : WF_vars(Thread(c))
  /\ WF_vars(MainThread)

Spec == Init /\ [][Next]_vars
FairSpec == Spec /\ Fairness

-----------------------------------------------------------------------------
(* Safety *)

ThreadPc == {"top", "read", "lock", "count", "post", "bye", "byeAcct", "exit", "close", "gone"}
MainPc == {"check", "wait", "lock", "shrink", "dispatch", "imWrite", "imAcct",
          "bcast", "write", "acct", "crashed"}

\* Every variable keeps its type; broadcast_all writes inside the array of
\* slots, and no thread reads more than its peer has sent.
QueueType ==
  /\ mutex \in Clients \cup {Free, Main}
  /\ sem \in Nat /\ size \in Nat
  /\ list \in Seq(Msg)
ThreadType ==
  /\ pc \in [Clients -> ThreadPc]
  /\ buf \in [Clients -> Msg \cup {None}]
  /\ \A c \in Clients : pc[c] = "lock" => buf[c] # None
  /\ emptySeen \in [Clients -> BOOLEAN]
  /\ connected \in [Clients -> BOOLEAN]
  /\ slot \in [Clients -> Clients]
MainType ==
  /\ mpc \in MainPc
  /\ message \in Msg \cup {None}
  /\ idx \in 1..(NumClients + 1)
  /\ mpc \in {"write", "acct"} => idx \in Clients
  /\ mpc \in {"imWrite", "bcast", "write", "acct"} => message # None
  /\ handled \in Seq(Msg)
PeerType ==
  /\ peer \in [Clients -> {"open", "reset", "closed"}]
  /\ sent \in [Clients -> Nat]
  /\ got \in [Clients -> Nat]
  /\ \A c \in Clients : got[c] <= sent[c] /\ sent[c] <= Quota[c]
  /\ backlog \in [Clients -> 0..Window]
  /\ out \in [Clients -> Seq(Msg \cup Bye)]
TypeOK == QueueType /\ ThreadType /\ MainType /\ PeerType

\* A thread is inside a critical section of the queue or of a slot exactly
\* while it holds the mutex, so no two are.
Exclusion ==
  /\ \A c \in Clients : pc[c] \in {"count", "close"} <=> mutex = c
  /\ mpc = "shrink" <=> mutex = Main

\* size, which the main thread reads without the mutex, is off by one only
\* inside a critical section: between linking a message and counting it, or
\* between unlinking one and discounting it.
Uncounted == IF \E c \in Clients : pc[c] = "count" THEN 1 ELSE 0
Undiscounted == IF mpc = "shrink" THEN 1 ELSE 0
SizeTracksList == size + Uncounted = Len(list) + Undiscounted

\* No lost wakeup: each queued message is backed by a semaphore token, a
\* client about to post one, or the main thread on its way to dequeue; so
\* the main thread never sleeps on the semaphore with a message queued and
\* nobody about to wake it.
Posting == {c \in Clients : pc[c] \in {"count", "post"}}
OnItsWay == IF mpc = "lock" THEN 1 ELSE 0
NoLostWakeup == Len(list) <= sem + Cardinality(Posting) + OnItsWay

\* What main has dequeued and not dispatched, and what a client has read and
\* not yet linked.
Held == IF message # None /\ mpc \in {"shrink", "dispatch"} THEN <<message>> ELSE <<>>
InHand(c) == IF pc[c] = "lock" THEN <<buf[c]>> ELSE <<>>

\* All that was ever enqueued: dispatched, held by main and still queued.
Line == handled \o (Held \o list)

\* Of each client's messages exactly those the thread has read are on their
\* way or dispatched, once each and in the order the client sent them.
PerSenderOrder ==
  \A c \in Clients :
    LET way == Line \o InHand(c)
        Mine == {i \in DOMAIN way : way[i][1] = c /\ ~Blank(way[i])}
    IN  /\ {way[i][2] : i \in Mine} = 1..got[c]
        /\ \A i, j \in Mine : i < j => way[i][2] < way[j][2]

\* Neither instant nor sign-off messages.
Public(m) == m[2] > 0 /\ m \notin Instant

\* The last message dispatched is still to be written to client c.
StillOwed(c) == (mpc \in {"bcast", "write"} /\ idx <= c) \/ (mpc = "acct" /\ idx < c)

\* Where the public messages stand in the order of dispatch and in what was
\* written to client c; those of the first that c should have been sent; and
\* whether it was.
Said == {p \in DOMAIN handled : Public(handled[p])}
Heard(c) == {i \in DOMAIN out[c] : Public(out[c][i])}
Due(c) == IF StillOwed(c) THEN Said \ {Len(handled)} ELSE Said
HeardOf(c, p) == \E i \in Heard(c) : out[c][i] = handled[p]

\* Everybody sees the same conversation: a client that is there has been
\* sent the public messages in the order they were dispatched, all but the
\* one being broadcast; one that left has been sent a beginning of them.
Follows(c) ==
  /\ \A i \in Heard(c) : \E p \in Due(c) : out[c][i] = handled[p]
  /\ \A i, j \in Heard(c), p, q \in Said :
       out[c][i] = handled[p] /\ out[c][j] = handled[q] => (i < j <=> p < q)
  /\ \A p, q \in Said : p < q /\ HeardOf(c, q) => HeardOf(c, p)
  /\ peer[c] = "open" => \A p \in Due(c) : HeardOf(c, p)
OneConversation == \A c \in Clients : Follows(c)

\* No message is written to a client twice, a sign-off message neither, however
\* often main is woken for nothing; and an instant message is written to nobody
\* but the client that wrote it, or to the one its uid is read as.  That is what
\* the server does; docs/protocol/README_SERVER:163-166 has it reach its
\* recipient.
WrittenOnce ==
  \A c \in Clients :
    /\ \A i, j \in 1..Len(out[c]) : out[c][i] = out[c][j] => i = j
    /\ \A i \in 1..Len(out[c]) : out[c][i] \in Instant => c \in ReadAs(out[c][i][1])

-----------------------------------------------------------------------------
(* Liveness and refinement *)

\* The one write of a thread that a peer who does not read holds up.
MainBlocked == mpc \in {"imWrite", "write"} /\ idx \in Clients /\ Blocks(idx)
ByeBlocked(c) == pc[c] = "bye" /\ Blocks(slot[c])

\* What a peer has sent before leaving is dispatched in the end, however
\* the semaphore and the unlocked look at size interleave: there is always a
\* time to come when all that has been sent has been dispatched.  Only two
\* things end that: a peer that never again reads what main writes to it, and
\* an instant message that crashes the server.
AllHandled ==
  \A c \in Clients : \A k \in 1..sent[c] : \E i \in 1..Len(handled) : handled[i] = <<c, k>>
SentIsHandled == []<>AllHandled \/ <>[](MainBlocked \/ ~Up)

\* The thread of a peer that has left, or whose connection failed, ends, unless
\* the peer it says its sign-off to never reads again.  A main thread that hangs
\* in a write does not hold it up.
LeaverIsReaped ==
  \A c \in Clients : []<>(peer[c] = "open" \/ pc[c] = "gone") \/ <>[](ByeBlocked(c) \/ ~Up)

\* Queue, mutex and semaphore together are a mailbox: linking a message
\* posts it, dispatching it delivers it.
Mail == INSTANCE Mailbox WITH pending <- Held \o list, delivered <- handled,
                              stopped <- MainBlocked \/ ~Up
ImplementsMailbox == Mail!Spec
=============================================================================
