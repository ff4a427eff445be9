# Verification of BlackChat

TLA+ models of the BlackChat server (`src/server`), its client (`src/client`)
and their protocol (`src/protocol`), checked with TLC, and theorems about them
checked with TLAPS. BlackChat is a chat program for ten users: one server process
with threads, and an ncurses client.

    tlc -config MCMessagePump.cfg MCMessagePump            # any run of PROJECT.json
    tlapm MessagePumpProofs.tla                            # the proofs

`PROJECT.json` lists the runs, what each definition models (`map`), the hazards
of the code by line, the finding with the line it contradicts, and the theorems.

## The system

| Part | Code | State | Operations | Module |
|---|---|---|---|---|
| message queue | `server/bc_server_queue.c` | list of nodes with `head`, `tail`, `size` | `enqueue`, `dequeue`, `peek`, `isFull`, `isEmpty` | `LinkedQueue` |
| client threads | `bc_network.c: client_thread` | `messages_empty`, a buffer; their slot | name and uid exchange, read and enqueue, sign off and free the slot | `MessagePump`, `SessionTable` |
| main thread | `main.c: handle_messages` | the message in hand; per slot `vote`, `lurk` | wait, dequeue, dispatch, write to clients | `MessagePump`, `Commands` |
| listening thread | `bc_network.c: listen_thread` | `num_users_connected`, the ten `CLIENT_OBJ` slots | accept, choose a slot, spawn, or refuse | `SessionTable` |
| voting | `main.c: CMD_VOTE`, `disconnect_user` | `vote` of each slot | record, count, tally, eject | `SessionTable` |
| windows, lists, lurking | `main.c: CMD_WINDOW, CMD_USERLIST, CMD_LURK` | name and flag of each slot, files | save, make a list, toggle and announce | `Commands` |
| protocol | `protocol/protocol.c` | none | builders of and accessors to fixed-width text fields | `Protocol` |
| client network | `client/clientsocket.c` | uid, user list | send commands, read and show what the server sends | `Delivery` |
| client keyboard | `client/client.c` | `client_buffer`, cursor, gaudy mode, input mode | one for each key | `ClientUI` |
| transcript | `client/client.c` | buffer and its size, line at the top, alarm | append, scroll, resume | `Transcript` |
| client main loop | `client/client.c: main` | `is_running`, descriptors, terminal | select, keyboard, server, cleanup | `ClientLoop` |

The threads of the server share one mutex, one semaphore (`messages_sem`), the
queue, the slots and `num_users_connected`. A client thread reads its socket,
links the message into the queue under the mutex and posts the semaphore. The
main thread looks at the queue *without* the mutex, waits on the semaphore if it
looks empty, dequeues under the mutex and writes the answer to the clients. The
listener fills slots and counts users *without* the mutex, client threads free
and uncount them with it, and the main thread, after an ejection, uncounts
without it. Clients talk to the server over stream sockets only. A client is one
thread in a `select` loop and a SIGALRM handler, which shares the transcript with
it.

What is hard: the mixture of locked and unlocked accesses above; a semaphore that
counts every message next to an unlocked look at the queue; blocking writes;
thread cancellation in a critical section; slots, names and descriptors that are
reused while their former user's messages and thread are still about; reads that
return part of a message or several, where neither side looks for the end of one;
failed reads taken for data; a signal handler in the middle of an append; buffers
at their last byte; a library queue that `select` does not see.

What makes each part correct:

* queue: first in, first out, every call leaving a well-linked list;
* pump: nothing read is lost, repeated or reordered on the way to the dispatch;
  no sleeping on a non-empty queue; everybody sees one conversation; the threads
  of clients that left end;
* session table: the count is the number of users; a slot, its socket and its
  thread belong together; nobody closes another's socket; the mutex is never lost;
* voting: votes are their user's, and the user voted against is the one ejected;
* commands: what is said of a user has his name; a list has everybody once; the
  server and the client agree on who lurks;
* delivery: a line is seen once and in order by everyone it reaches, and is missed
  only for a reason that can be named;
* protocol: accessors give back what builders were given;
* client: typing line and transcript stay inside their memory, what is shown is
  what was typed and said, scrolling ends, and so does the process when it should.

## Modules

| Module | What it is |
|---|---|
| `Fifo` | a first-in first-out queue with an optional limit: what the queue promises |
| `LinkedQueue` | `bc_server_queue.c` as a heap of nodes; one action per call |
| `Mailbox` | what the receiving side promises the handler: each message handed over once, in order, none left unless the handler has stopped |
| `MessagePump` | client threads, mutex, semaphore, queue, main thread, writes, sockets |
| `SessionTable` | the listener, the slots, client threads from spawn to exit, voting and ejection |
| `Commands` | names, flags, user lists and windows, kept with slots that are handed on |
| `Chatroom` | what BlackChat promises of the main chat: one conversation, of which each user sees parts, in order, nothing twice |
| `Delivery` | clients and server over byte streams |
| `Protocol` | the codec, from builder to accessor to answer to accessor |
| `ClientUI` | the typing line and the input modes |
| `Transcript` | the transcript's memory and window, with the alarm |
| `ClientLoop` | the client process from start to exit |
| `...Proofs` | the theorems of the module they are named for; `ClientProofs`: of `ClientUI` and `ClientLoop` |
| `MC...` | constants and symmetry sets for TLC |

The parts meet at interfaces that are modelled on both sides: `MessagePump` uses
the queue as `LinkedQueue` is shown to implement it (`Fifo`); `Delivery` and
`Commands` have the single queue in order that `MessagePump` is shown to be
(`Mailbox`); slots in `Commands` come and go as in `SessionTable`, without its
races on the count; `ClientLoop` takes keys and messages for what `ClientUI` and
`Delivery` say they write and read.

### LinkedQueue

The heap is the three functions `next`, `prev`, `data` over a set `Node` of
addresses. What malloc returns, and every field not written since, holds `Junk`,
so a read of uninitialised memory would show. As in the code, taking the last
node allocates a fresh `tail` and leaves `head` at the old node, and no node is
ever freed. `size` is an integer; `Capacity` is `max_size`, -1 in the server. The
callers all hold the mutex, so that one call is one action; `chain` is a history
variable. malloc never fails.

### MessagePump

One action per piece of a thread between two points where another thread can see
the difference. `LookAtQueue ... CloseSocket` follow `client_thread` line by
line, `CheckEmpty ... BroadcastDone` follow `handle_messages` and
`broadcast_all`. `list` and `size` are apart, since the main thread reads `size`
without the mutex: `Link`/`Count` and `Take`/`Shrink` are separate steps.
`sem_wait` takes a token, `sem_post` adds one. Each of the two branches of the
client loop (`messages_empty` or not) is kept, for they end differently. A
socket holds `Window` unread messages and then blocks its writer; only peers in
`Slow` let messages pile up. A peer may leave (end of file) or reset its
connection (a failed read queues an empty message, which the handler ignores).
Commands differ only in who is written to: nobody, everybody, or, for the messages
in `Instant`, one slot. That one is not the recipient. `create_im_message` leaves
the receiver out, so that `SendPrivate` reads the sender's uid in its place, with
a digit from behind the array perhaps (`ReadAs`); and before that the text is copied
through `im->line`, which nothing has set, so that the process may end (`Crash`).
A thread that writes to a peer who never reads waits for ever: nothing makes a peer
read. Clients are signed on from the start and slots are not reused.

### SessionTable

A slot is a `CLIENT_OBJ`. A descriptor stands for a connection in `fdTable`, and
a thread finds its descriptor through its slot each time, as the code does.
`num += 1` and `num -= 1` are a load and a store. `pthread_cancel` sets a flag
that takes effect at the next cancellation point, which includes `close` inside
the critical section (`DieLocked`). `accept` returns the lowest free descriptor.
Of what clients say only votes are kept; each vote is a message with the uid its
sender was told.

This code has races, so that its properties are not simply true. The module
records each race as it happens in `mishaps`:

| mishap | where | what happens |
|---|---|---|
| `lost_update` | bc_network.c:303, 429, main.c:352 | two updates of the count overlap |
| `no_slot` | bc_network.c:287-295 | the count says there is room and no slot is free |
| `no_thread` | bc_network.c:300 | `pthread_create` fails |
| `early_reuse` | bc_network.c:426-428, main.c:516-517 | a slot is given away before its old socket is closed |
| `phantom_eject` | main.c:344-352 | the slot voted off is not connected |
| `early_eject` | bc_network.c:296-300 | ... is connected, its thread not yet recorded |
| `late_eject` | bc_network.c:403-423 | ... is connected, its thread has already read the end of file |
| `foreign_close` | | a socket is closed by somebody whose connection it is not |

and each property says which of them break it. The exceptions are as few as TLC
allows: with one label less each property is violated in some instance of up to
four connections (`early_eject` in `RoomMeansSlot` apart, which needs more
connections than TLC can do: a user who is uncounted twice makes the count one
too low). So, for instance, `NotOrphaned` says that an ejection of a user whose
connection had just ended is the *only* way to lose the mutex, and `CounterExact`
that reuse of a half-freed slot, a failed spawn or a foreign close do not spoil
the count. Ejecting a slot that never had a thread crashes the process
(`EjectCrash`: `pthread_cancel` of thread id 0).

Each of these five properties is also a theorem, so that the exceptions are
enough for any number of slots, connections and votes. The run has one vote, and
the proof of `VotesAreOwn` found what takes two: a user is ejected who had just
left, his slot goes to another, his late thread frees that one's slot and ends at
`close` with the mutex; the slot is free again, a third connection gets it, and
the vote in it is that of the second user, who is still there. No vote is counted
any more then, since counting takes the mutex; `VotesAreOwn` now says so
(`Orphaned`).

### Commands

A user is one session, and what the server keeps of him is kept with his slot:
name, lurk flag. `Accept`, `ClearName`, `SetName`, `LogOff` are the points of
`listen_thread` and `client_thread` between which another user's list can be made.
A message carries the slot its sender was given, and may be handled when the slot
is somebody else's. The main thread makes a list without the mutex, and reads each
name twice, so that an entry is two steps: its length (`HandleList`, `ListNext`) and
its text (`WriteEntry`). `list` has both, each as the user whose name it was; they can
differ for who came or left meanwhile. A read may take several messages
(`Joins`), of which the first is understood. `save_user_window` is one step that
may fail to find its directory. A write does not block here.

### Chatroom and Delivery

A stream is a sequence of cells: one cell is one message, and `Half` cells are
4096 bytes, half the server's buffer and all of the client's. A read returns any
prefix of what has arrived that its buffer holds, so messages join as they may;
only the first is understood, and the rest up to the first zero byte is its text.
Where the code writes a whole buffer (status messages, answers to requests), its
padding is zero cells. A message is short beside a buffer, a read does not end
inside a message's head, no text looks like a message, and the log-off notice of
`client_thread` is written in one step. `Ask` stands for the vote and the list
request; the functions are in `clientsocket.c` but the key that calls them is
compiled out. History variables number the lines, so that `OnceInOrder` and
`SaidInOrder` can be stated and `Chatroom` is implemented by a refinement mapping:
the conversation is what was taken out of the queue, what a user sees are ranges
of it. `MissesHaveCause` gives the complete list of ways in which a line does not
reach a signed-on user.

### Protocol

Characters are digits, NUL and "other". Each builder and each accessor is
translated with its own table of offsets and widths. A field is written digit by
digit, as `sprintf` does, and read by `Atoi`, which goes as far as there are digits.
Accessors copy into arrays whose last element may not be theirs: `Stack` is what may
lie behind such an array, `Heap` what a fresh block of memory may hold. A message
goes from a client through the server to the receivers, with the crash (`clients[0]`,
an uninitialised `im`) and the write behind `user_list` as outcomes of their own.
An instant message is followed to the window it is shown in, without the receiver
its builder leaves out, so that each accessor reads three characters too far; where it
ends before its text begins, the text is what the server's memory holds behind it
(`TextShown`). A yell is followed to the error it is taken for. One
message is on its way and arrives whole; a status is short enough for the 512 bytes
that the server has for it.

### ClientUI

`client_buffer` as `Size` bytes (1024 in the code), the cursor, the gaudy markers,
and one action for each key in each mode: typing, deleting in both directions,
gaudy on and off, sending, lurking, yelling, instant messages. Every access outside
the buffer sets `overrun`, after which the model stops. What a key writes to the
server is in `chat` and `told`.

### Transcript

Text is counted, not kept. `write_to_ts_win` is divided at each point where the
SIGALRM handler can see the difference: text padded, buffer freed, copied, shown.
`Residue` is what memory that `malloc` has not cleared may begin with. `Seconds`
is the alarm's time, `Tick` takes it down and the handler runs at zero between
any two steps.

### ClientLoop

`main` from `init_client` to its exit. `typed` is what waits at descriptor 0,
`fifo` what ncurses has read and kept; `getch` with the keypad on reads behind an
ESC. Select, the keyboard, each write of a key, the read and `close_client` are
steps, and the user, the server, the alarm and the loss of the connection come
between any two.

## Runs

| Run | Instance | Shows |
|---|---|---|
| `queue` | 3 messages, 6 nodes, limit 3 | the list is well linked, and `LinkedQueue` implements `Fifo`, the full queue included |
| `pump` | 2 clients, 1 and 2 messages; the first is slow or never reads, the second may leave or be reset, and its first message is an instant message | no lost wakeup, order and once-only delivery, one conversation, who gets an instant message; what is sent is dispatched unless main hangs in a write or has crashed, leavers' threads end, `Mailbox` is implemented with its liveness |
| `session_safety` | 2 slots, 4 connections, 1 vote, spawns may fail | count, choice of slot, mutex, use of descriptors and votes, with `disconnect_user` against every state of a thread |
| `session_liveness` | 2 slots, 2 connections, 1 vote, spawns may fail | leavers' threads end, the count comes back to zero for good |
| `majority` | 2 slots, 2 connections, 1 vote | a counterexample, see below |
| `commands` | 3 users on 2 slots, 3 messages of any kind, reads join | what is said of a user has his name; who is signed on while a list is made is in it, with his name and its length, each uid once; all are told rightly who lurks, but for joined messages and inherited flags |
| `chat` | 2 users with 3 lines or paddings together, every read size; one types and asks, one leaves | implements `Chatroom`, so that lines come once and in order; the causes of lost and of missed lines |
| `said_is_seen` | 2 users with 1 line | where nothing is padded, what is said is seen by all who are signed on |
| `typing_line` | a line of 4 bytes, all keys | deleted text, status, what is sent, and memory of the typing line |
| `transcript` | plain and gaudy lines, up to 560 characters, an alarm of 2 ticks | the buffer, the alarm and the window, with the alarm at every step; scrolling ends by itself |
| `client_loop` | all keys, 3 typed, 2 messages, both without end | no read waits, every exit has its reason; CTRL-Q and the server's end finish the client; messages are read |
| `codec` | 10 users, every command, texts and names of digits, short, partial and full lists, digits behind arrays | who and what arrive as they were sent, windows and lists are read as they were built, but for what comes from behind, and but for instant messages and yells, of which it shows what becomes of them |

`majority` ends in a counterexample: the user with a majority of the votes is not the
one ejected (docs/SPECS:137-138, `main.c:346`). The finding in `PROJECT.json` quotes
both.

### What the code does not promise

The docs promise more than the code keeps in other places too. A property that
passes says where, as an exception with its cause:

| Docs | Code | Where it shows |
|---|---|---|
| SPECS:136-137, votes of who quits are removed | a vote stays in the slot (`bc_network.c:426`, 295) | `VotesAreOwn`: only when who cast it is gone, or the mutex is lost |
| README_SERVER:186, all are told that a user lurks | the flag is inherited with the slot, and two joined messages turn it once (`main.c:412`) | `LurkIsTold`: only then |
| README_CLIENT:26, the uid comes back | a line broadcast before it hides it (`bc_network.c:296`) | `MissesHaveCause`: the uid is one message of a read as any other |
| README_SERVER:4, stage 1 before any command | lines sent before the uid was read have uid -1 (`clientsocket.c:66`) | `PatientIsHeard`: of users who waited |
| SPECS:98, real-time status | the newer of two joined status messages is dropped (`bc_network.c:370`) | `PatientIsHeard`, `MissesHaveCause`: typing is a cause of lost lines |
| README_FIRST:4, uids have three digits | a digit behind the array is read too (`protocol.c:214`): user 1 with a 0 behind is user 10 | `RequestArrives`, `AnswersFit`: `ReadAs` |
| README_SERVER:163-166, only its receiver sees an instant message | `create_im_message` leaves out the receiver (`protocol.c:67-69`): the server reads the sender in its place and sends the message back, six characters shorter, or crashes in copying it (`main.c:254-266`; `bc_network.c:83-85`) | `WrittenOnce`, `RequestArrives`, `AnswersFit`: to its writer, or who his uid is read as; `SentIsHandled`: unless the server has crashed |
| README_SERVER:96-98, a status goes to everyone but its writer | `broadcast_all` sends it to him too (`main.c:241`) | `AnswersFit`: all *others* receive it; nothing is claimed of the writer |
| README_SERVER:121-122, the writer of a line sees "You say" | all are sent "<name> says", he too (`main.c:174, 190`) | `AnswersFit`: the name is there, and all others receive it |
| README_SERVER:143, everyone receives a yell | `create_yell_message` writes the command of an error (`protocol.c:81-83`), and the server drops it | `AnswersFit`: a yell is never shown |
| README_CLIENT:61, uid and name of a list | names are not ended (`protocol.c:247`); a digit behind the first offset sends the reader to another place of the list (`protocol.c:236`); a list of all ten is written behind the array (`clientsocket.c:338`) | `ListSurvives`: `AsListed`, `Misread`, `"overrun"` |
| client.c:779, no overrun of the transcript | an exact fit puts its zero one behind (`client.c:780`) | `AtMostOneOver`; `PlainFits`: not without gaudy text |
| SPECS:48, CTRL-Q quits | right behind ESC it waits in ncurses for another key (`client.c:986`) | `QuitEnds`: with no ESC before it |
| clientsocket.c:70, a failed write is shown | SIGPIPE kills the client before (the server ignores it, `main.c:84`) | `EndsInOrder`: only after a reset |

Others are in the actions, and no property is about them:

* a user may leave in silence, as `messages_empty` will have it (`bc_network.c:381,
  403`; README_CLIENT:42);
* a list may name a user who left before it was begun (`main.c:384`), and a window's
  id is taken for the user's (`main.c:289`; README_SERVER:243);
* who comes or leaves while a list is made may be in it with the length of one name
  and the text of another (`protocol.c:312-313`), and the reader goes astray;
* a yell wipes what was being typed (`client.c:1062`; SPECS:180-183), and deleting
  backwards over gaudy text takes one byte (`client.c:1094`; SPECS:151-152);
* CTRL-N after resuming shows the beginning (`client.c:1150`; SPECS:42), and lines
  that arrive while the user scrolls may move the window (`client.c:800`;
  SPECS:158-160).

The bounds. Server: two slots are the fewest with a choice of slot and a user
besides the one that leaves; three users or connections let a slot be reused while
the other is taken; four are the fewest with which a lost update leads to a missing
slot. One vote is enough to eject since a user who is alone is everybody; `Scope` in
`MCSessionTable` lets the fourth connection come only where nobody has voted. Two
messages of one client are the fewest that can change order, and one of another
comes between them. Six nodes let the queue grow to three messages after one was
taken, through every way a node enters and leaves; the server has no limit, which
the theorems cover. `Window` is 1 as only "full" and "not full" matter. `commands`
bounds the messages of all users together (`MaxSent`): three are a request with a
lurk message on either side, or two that join and one behind. Delivery: with
`Half` = 2 or 3 a client's read takes a message whole, with its neighbour, or with
part of its padding, and the server's, twice as large, takes two padded ones; one
status message is longer than what is left in a buffer. `Scope` in `MCDelivery` is
three lines and paddings together: two lines of one user and one of another, or a
padding in front of, between or behind lines.
Protocol: ten users and a client's array of ten are the code's, for only with ten
can a digit behind a uid make it another user's; texts begin with digits that could be
uids or offsets, and one is longer than the 20 characters a status keeps. Typing
line: four bytes hold a marker pair and two characters, and every edge (first, last,
one behind) is met. Transcript: columns and the
initial size are the code's; 560 characters are two growths; the window has 4 rows
instead of 23 so that the transcript is longer than it. Client loop: two messages
show one read leaving another waiting, three keys an escape sequence broken off
with a key behind. Connections, addresses and users are interchangeable, so runs
without liveness use symmetry. Deadlock is not checked where peers
and users may all stay silent or leave, or the process ends, for then nothing is
left to do.

Fairness: weak fairness of each server thread, that is of the scheduler; in
`Delivery` also of the peers' reading, for one peer that never reads stops the main
thread in its write for ever (a property of this server, not of the model).
`MessagePump` has no such fairness, and its properties say so: what is sent is
dispatched unless from some time on main waits in a write (`MainBlocked`) or is gone,
and a leaver's thread ends unless it waits in the write of its own sign-off
(`ByeBlocked`) or the server has crashed; that main hangs does not hold it up. In
`ClientLoop` the client process alone is fair, in `Transcript` the clock and the
process. Nothing obliges a user to type, a peer to send or to
leave. Weak fairness lets a thread wait for the mutex only while others keep taking
it, and what they can do in a run is bounded by the messages and votes of the run.

Properties are worth what breaks them: for each one, `PROJECT.json` names a
mutant of the model, defined next to the definition it replaces and marked
`Fault:`, that violates it.

## Proofs

TLAPS checks, for every value of the constants that the assumptions allow:

* `QueueWellLinked`: `Spec => [](TypeOK /\ WellLinked)`. The inductive invariant
  relates the heap to `chain`: nodes of the chain are distinct and allocated,
  neighbours point at each other, `tail` is its first, `head` its last.
* `QueueIsFifo`: `Spec => ImplementsFifo`; each call maps to the call of `Fifo`
  on the data along the chain.
* `PumpIsSafe`: `Spec => [](TypeOK /\ Exclusion /\ SizeTracksList /\ NoLostWakeup)`.
  `NoLostWakeup` is not inductive alone: that the main thread goes to sleep only
  on an empty queue follows from `size`, which tracks the list only by
  `SizeTracksList`, which is preserved only because critical sections exclude
  each other. `NoLostWakeup` itself bounds the queued messages by the tokens, the
  threads about to post, and the main thread on its way to dequeue.
* `SleeperIsWoken`: if the main thread sleeps with a message queued, some client
  thread is about to post.
* `PumpIsMailbox`: the pump implements the safety part of `Mailbox`, whose handler is
  stopped while main waits in a write or is gone.
* `SendersKeepOrder`, `OneConversationForAll`, `NothingTwice`: `PerSenderOrder`,
  `OneConversation` and `WrittenOnce`. `LineOK` says that dispatched, held, queued
  and read-but-not-linked messages together are, for each client, the first `got` of
  what it sent, in order. `Ledger` adds what has been written: `OnTheAir` (the
  message being broadcast is the last one dispatched), `Sound` (what a client got
  was dispatched, and an instant message only if the writer's uid is read as
  its own) and `Follows`, with the sign-off notices, which are
  written by leaving threads in between. `ClientsAgree`: so no two clients disagree
  on the order of two messages.

In `SessionTable` the invariants build on each other:

* `MutexIsKept`: `Spec => [](TypeOK /\ NotOrphaned)`. A cancel
  reaches a thread that is past its last cancellation point before the mutex only
  as a late ejection; the invariant (`LockInv`) carries this from the cancel to
  the death at `close`, and says who holds the mutex. The types rest on the vote
  counts staying behind their loops' indices (`MainInv`) and on a connection
  that is being placed having no thread yet (`ListenInv`).
* `OneHolder`: the critical sections that free a slot and close its socket, in
  client threads and in `disconnect_user`, exclude each other.
* `CountIsExact`, `ListenerFindsSlot`: `CounterExact` and `RoomMeansSlot`. A running
  thread nobody has cancelled has its slot (`OwnInv`), since a slot leaves its user
  only by his own thread or in an ejection that cancels it; that the slot the
  listener takes is free is `PlaceInv`, and that a connected slot with its user's
  thread has one that runs is `SettledInv`. From the moment a cancelled thread has
  the mutex (`Doomed`) ownership can fail, and need not hold: nobody frees a slot
  any more. `CountInv` then follows the count step by step: exact without late
  ejections, and never too low with them, from which the scan of a listener that
  read `num < NumSlots` ends at a free slot.
* `EachUsesOwn`: `UsesOwn`. `FilesInv` adds to ownership that the slot's socket is a
  descriptor that stands for the owner; `FreshInv` says it of the connection that is
  being placed and `VictimInv` of the one that `disconnect_user` is about to close. A
  descriptor is then closed only by whom it stands for (`OwnFileChanges`).
* `VotesStayWithSlots`: `VotesAreOwn`. A vote, queued or recorded, is in the slot of
  who cast it (`VoteInv`), and he has that slot as long as he runs. The hard case is
  a late thread between `is_connected = false` and its death at `close`, where
  slots have not changed hands *yet* (`StrandedInv`).
* `QuietIsEmpty`: when no client thread runs and nobody is being counted in or out,
  all slots are free, unless a thread could not be created, and the count is zero,
  but for the races that `CounterExact` names. This is what of `CountDrains` is
  safety; that the server gets there is its liveness.

For the other modules:

* `WriterIsNamed` (with `CommandTypes`): `Spec => []WriterNamed`. The invariant says
  that a user who is there has his slot and no one else (`SlotInv`), that a thread
  has read his name before he can be heard (`NameInv`), and that each message under
  way is of a user who has a name, and carries the slot he has or had
  (`MessageInv`). A slot that is taken by the sender is then named for him.
* `ListsHaveAll`: `ListsAreWhole`. Every steady user in a slot already looked at is in
  the list or is the entry being written (`ListInv`): his name does not change between
  the two reads of it. He keeps the slot he had (`AnswerInv`).
* `LurkersAreTold`: `LurkIsTold`. The server toggles a flag where the client knows
  what it wants. `Turns` says that a sequence of messages takes a slot's flag from
  one value to another and is right at each message of a user in `Clean`, those
  without the two exceptions; `LurkInv` has it of the queue and, for each user, of
  what he has sent, so that the two ends agree.
* `SeenOnceInOrder`, `SaidKeepsOrder` (with `DeliveryTypes`): `Spec => []OnceInOrder`
  and `[]SaidInOrder` for any number of users and lines and every size of reads. The
  invariant orders what is in front of what (`UpBefore`, `DownBefore`) along each
  whole path: what was said, the queue, the stream and what is still to be sent
  form a chain, and each action takes a part off one end and appends it, or less of
  it, to the next.
* `RefinesChatroom`: `Spec => ImplementsChatroom`, from the same invariant.
* `LinesAreMissedForCause`: `MissesHaveCause`. What can stand in front of a line in
  any stream or in the queue has its cause there (`CauseInv`): a message that is no
  line is only there because somebody typed, asked or left.
* `PatientAreHeard`: `PatientIsHeard`. `PatienceInv` says what a user's stream can hold
  (`Sent`, `UpCell`): a name only at its front and while the server waits for one, and
  padding only of who typed, asked or wrote before he knew his uid (`Impatient`); and
  that a uid is known only after the name was read (`UidInv`). A line that is lost
  stands behind one of these.
* `TypingLineIsKept`: types, the cursor and `NothingHidden` of the typing line for
  every size of the buffer; `OthersSeeTheLine` and `SaidIsWhatWasShown`:
  `StatusFollows` and `SaidWasShown`, by the last status sent being the text of the
  line whenever a key is done; `OnlyEdgesOverrun`: where there is room on both sides
  of the cursor no key leaves the buffer. `StrLen` is defined by CHOOSE; its facts
  (a first NUL exists) are lemmas.
* `TranscriptFits`, `PlainTextFits`, `ScrollingEnds`, `EndIsShown`: at most one byte is
  ever written behind the transcript, none as long as no text is gaudy, a user who
  scrolls has the alarm pending, and one who does not sees the end. The first rests
  on sizes being whole lines until a marker or a residue was counted.
* `TypeCorrect`, `RequestsArrive`, `AnswersAreRight`, `ListsSurvive`: all of
  `Protocol`, for up to 999 users, any names that fit the 80 bytes of the name message,
  all texts, windows and lists, and anything behind arrays. The argument climbs from
  numbers to lists. The digits of a number that fits its field sum up to it
  (`FieldSum2`...), and `Atoi` of them is this sum (`AtoiOfField`), or, with a digit
  behind, ten times it and the digit (`AtoiBehind`): a field has at most four digits,
  so that the recursion is unfolded and needs no induction. A field is found at its
  offset whatever stands in front of and behind it (`Has`, `NumberReads`,
  `LooseReads`), so each accessor returns what its builder was given. `Placed` gives
  the offset of each user of a list; appending one keeps those before it
  (`PlacedNext`), and reading one goes from its offset to the next (`PlacedReads`),
  at the last of which there is nothing (`PlacedEnds`). Where a builder
  leaves a field out, as that of instant messages does, what an accessor reads is what
  stands three characters further on (`FromShifts`, `ImReads`). `IInv` then says of each
  stage what the message holds (`Sent`, `Answered`, `Listing`) and how far the list has been
  read correctly (`Reading`).
* `ReadsDoNotWait`, `ClientEnds` (with `ClientTypes`): the loop never waits in a read
  that select did not promise, and every exit has its reason and leaves the terminal
  as it was, or is SIGPIPE. `ReadyInv` says that what select found is still there
  when it is read, `LoopInv` where in the loop the socket and the terminal are in
  which state.

Assumptions of the proofs: those named `...Assumption` in the modules (sizes are
natural numbers, addresses and junk values are distinct, a yell fits the line, a number
its field and a name the 80 bytes that are read of it) and nothing else.

With TLC only: liveness under fairness (`SentIsHandled`, `LeaverIsReaped`,
`CountDrains`, `SaidIsSeen`, `Resumes`, `DenialEnds`, `QuitEnds`, `ServerHeard`, and
that of `Mailbox`; the prover has no ENABLED). Every safety property of a passing run
has a theorem.

With TLAPS only, since a theorem says it of every instance: `TypeOK` of every module
but `Protocol` (whose numbers it is about; in `ClientLoop` it is `LoopTypeOK`),
`Exclusion`, `SizeTracksList`, `CursorIsEnd`, `ScrollingHasAlarm`, `ClosedNotUsed`,
`SameOrder`, `EmptyWhenQuiet`, and `OnceInOrder` and `SaidInOrder`, which
`ImplementsChatroom` contains. TLC agreed on each of them, on the instances above,
before it was proved.

## Not modelled

* `logger.c` (writes a log line); `w_client.c` and `client/main.c` (built by no
  Makefile); `tester.c` (a test program); `update_time`, `get_user_window` and the
  error builder (never called); the handling of `TEXT_YELL` in `main.c:195-209`,
  which no message reaches since the only builder of yells writes another command.
* malloc failure, and `EMFILE` of accept. Memory that is never given back
  (`bc_server_queue.c:92`): the node supply of a run is its bound.
* The client's debug buffers: `read_from_server` formats what it read, up to 4096
  bytes, into 512 bytes that are never shown (`clientsocket.c:244-282`). A message of
  about that length writes behind them. Lengths in bytes are in no module; the
  modules take messages to be shorter, as `Delivery` says.
* Windows, colours and refreshing of the client.
* ncurses: a vendored library and by far the largest part of the repository. The
  client's Makefile links the system's `-lncurses`. What BlackChat's own code
  needs of it, the queue of `getch`, is in `ClientLoop`, as external.

## Plan

Done, in this order: queue, pump and slots, which carry every message and user;
then the client's keyboard, transcript and loop, delivery over streams, commands
and codec. Left:

1. `Commands` on the slots of `SessionTable` itself, so that lists and names meet
   half-freed slots and ejections;
2. `Delivery` with blocking writes, where a full socket and padding meet.
