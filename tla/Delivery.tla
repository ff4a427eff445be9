------------------------------ MODULE Delivery ------------------------------
(***************************************************************************)
(* Clients and the server over byte streams (server/bc_network.c,          *)
(* server/main.c, client/clientsocket.c): signing on, the main chat,       *)
(* typing, requests and logging off.                                       *)
(*                                                                         *)
(* Neither side looks for the end of a message.  A read returns whatever   *)
(* has arrived, only the message at its beginning is understood, and what  *)
(* comes behind it, up to the first zero byte, is taken for its text.      *)
(*                                                                         *)
(* A stream is a sequence of cells, one for a message and Half for 4096    *)
(* bytes, so that messages are short beside a buffer.  The zeros that      *)
(* fill a buffer are sent too where the code writes whole buffers.  A read *)
(* returns any part of what was sent that its buffer holds.                *)
(*                                                                         *)
(* The queue between the server's threads is the one Mailbox promises.     *)
(* Slots are not used again, and writes do not block (SessionTable and     *)
(* MessagePump have that).                                                 *)
(***************************************************************************)
EXTENDS Integers, Sequences

CONSTANTS
  N,         \* slots, 10; user c has slot c
  Half,      \* cells in 4096 bytes
  MaxSaid,   \* bound: lines a user says
  MaxTyped,  \* bound: keys each of Typists types while signed on
  Typists,
  Askers,    \* users that vote or ask for the user list, once
  Leavers    \* users that may leave

Clients == 1..N

ASSUME SizeAssumption == N \in Nat /\ Half \in Nat \ {0}
ASSUME BoundAssumption == MaxSaid \in Nat /\ MaxTyped \in Nat
ASSUME UserAssumption == Typists \cup Askers \cup Leavers \subseteq Clients

VARIABLES
  stage,    \* of a slot: "none", "slot" (is_connected), "on" (uid written), "out"
  open,     \* the client's socket
  uid,      \* the client knows its uid; until then it sends -1
  up, down, \* the streams of each client
  queue,    \* received messages: what is understood, and the text behind it
  out,      \* the message being broadcast
  next,     \* its next receiver; past the last one the main thread is idle
  crashed,  \* an array index of -1 was fatal
  window,   \* at each client, the status it shows of each user
  shown,    \* history: at each client, the messages in its transcript
  conversation, \* history: the lines said, with all that is in their texts
  due,      \* history: for each line of a user, who knew his uid when it was said
  typed,    \* history: keys typed
  asked,    \* history: has made a request
  lost,     \* history: lines the server threw away
  missed    \* history: at each client, what came behind the end of a text

serverVars == <<stage, queue, out, next, crashed, conversation, lost>>
clientVars == <<open, uid, window, shown, missed>>
userVars == <<due, typed, asked>>
vars == <<serverVars, clientVars, userVars, up, down>>

-----------------------------------------------------------------------------
(* Streams *)

Zero == [kind |-> "zero"]
Name == [kind |-> "name"]
Uid == [kind |-> "uid"]
Notice == [kind |-> "notice"]
Answer == [kind |-> "answer"]

\* A message in a buffer that is written as a whole.
Filled(m, n) == <<m>> \o [i \in 1..n - 1 |-> Zero]

IsChat(m) == m.kind = "chat"

\* Fault: a text ends with its own message.
OwnText(s) == IF s = <<>> \/ s[1].kind = "zero" THEN 0 ELSE 1

\* How much of what was read comes in front of its first zero.
TextLength(s) ==
  CHOOSE k \in 0..Len(s) :
    /\ \A i \in 1..k : s[i].kind # "zero"
    /\ k < Len(s) => s[k + 1].kind = "zero"

\* The sizes a read into n cells may have.
ReadSizes(s, n) == {k \in 1..Len(s) : k <= n}

Rest(s, k) == SubSeq(s, k + 1, Len(s))

ChatsIn(s) == {s[i] : i \in {j \in DOMAIN s : IsChat(s[j])}}

Init ==
  /\ stage = [c \in Clients |-> "none"]
  /\ open = [c \in Clients |-> TRUE]
  /\ uid = [c \in Clients |-> FALSE]
  /\ up = [c \in Clients |-> <<Name>>]
  /\ down = [c \in Clients |-> <<>>]
  /\ queue = <<>> /\ out = Zero /\ next = N + 1 /\ crashed = FALSE
  /\ window = [c \in Clients |-> [d \in Clients |-> 0]]
  /\ shown = [c \in Clients |-> <<>>]
  /\ conversation = <<>>
  /\ due = [c \in Clients |-> <<>>]
  /\ typed = [c \in Clients |-> 0] /\ asked = [c \in Clients |-> FALSE]
  /\ lost = {} /\ missed = [c \in Clients |-> {}]

-----------------------------------------------------------------------------
(* The client.  init_client has written the name; write does not wait for  *)
(* the uid.                                                                *)

Send(c, s) == up' = [up EXCEPT ![c] = @ \o s]

\* write_out: the line with the uid known so far.
Say(c) ==
  /\ open[c] /\ Len(due[c]) < MaxSaid
  /\ due' = [due EXCEPT ![c] = Append(@, {d \in Clients : uid[d]})]
  /\ Send(c, <<[kind |-> "chat", by |-> c, known |-> uid[c], num |-> Len(due'[c])]>>)
  /\ UNCHANGED <<serverVars, clientVars, typed, asked, down>>

\* write_status: 4096 bytes, and only with a uid.
Type(c) ==
  /\ open[c] /\ uid[c] /\ c \in Typists /\ typed[c] < MaxTyped
  /\ typed' = [typed EXCEPT ![c] = @ + 1]
  /\ Send(c, Filled([kind |-> "status", by |-> c, num |-> typed'[c]], Half))
  /\ UNCHANGED <<serverVars, clientVars, due, asked, down>>

\* submit_deep_six, write_deep_six: answered by a whole buffer.  The functions are
\* there, but the key that calls them is compiled out (client.c:1223-1231).
Ask(c) ==
  /\ open[c] /\ c \in Askers /\ ~asked[c]
  /\ asked' = [asked EXCEPT ![c] = TRUE]
  /\ Send(c, <<[kind |-> "ask", by |-> c, known |-> uid[c]]>>)
  /\ UNCHANGED <<serverVars, clientVars, due, typed, down>>

\* read_from_server, by the type of the message at the beginning.  A text takes
\* what was read up to the first zero with it.
ReadFromServer(c) ==
  /\ open[c]
  /\ \E k \in ReadSizes(down[c], Half) :
       LET s == SubSeq(down[c], 1, k)
           text == SubSeq(s, 1, TextLength(s))
           toTranscript == s[1].kind \in {"chat", "notice"}
       IN /\ down' = [down EXCEPT ![c] = Rest(@, k)]
          /\ shown' = IF toTranscript THEN [shown EXCEPT ![c] = @ \o text] ELSE shown
          /\ missed' = [missed EXCEPT ![c] = @ \cup
               {<<s[1].kind, s[i].lo>> : i \in
                 {j \in DOMAIN s : IsChat(s[j]) /\ ~(toTranscript /\ j <= Len(text))}}]
          /\ uid' = [uid EXCEPT ![c] = @ \/ s[1].kind = "uid"]
          /\ window' = IF s[1].kind = "status"
                         THEN [window EXCEPT ![c][s[1].by] = s[1].num] ELSE window
  /\ UNCHANGED <<serverVars, userVars, open, up>>

Leave(c) ==
  /\ open[c] /\ c \in Leavers
  /\ open' = [open EXCEPT ![c] = FALSE]
  /\ down' = [down EXCEPT ![c] = <<>>]
  /\ UNCHANGED <<serverVars, userVars, uid, window, shown, missed, up>>

-----------------------------------------------------------------------------
(* The listener and the client threads *)

\* What is written to a socket whose peer is gone is lost.
Receives(c) == stage[c] \in {"slot", "on"} /\ open[c]
WriteTo(c, s) == down' = [down EXCEPT ![c] = IF open[c] THEN @ \o s ELSE @]

\* listen_thread: from here on the slot gets what is broadcast.
Accept(c) ==
  /\ ~crashed /\ stage[c] = "none"
  /\ stage' = [stage EXCEPT ![c] = "slot"]
  /\ UNCHANGED <<clientVars, userVars, up, down, queue, out, next, crashed, conversation, lost>>

\* client_thread before its loop: 80 bytes for the name, whatever they hold, and
\* what is cut in two there begins with no command.
SignOn(c) ==
  /\ ~crashed /\ stage[c] = "slot"
  /\ stage' = [stage EXCEPT ![c] = "on"]
  /\ \E k \in DOMAIN up[c], cut \in BOOLEAN :
       /\ cut => k > 1
       /\ up' = [up EXCEPT ![c] = (IF cut THEN <<Zero>> ELSE <<>>) \o Rest(@, k)]
       /\ lost' = lost \cup ChatsIn(SubSeq(up[c], 1, k))
  /\ WriteTo(c, <<Uid>>)
  /\ UNCHANGED <<clientVars, userVars, queue, out, next, crashed, conversation>>

\* The loop of client_thread: read and enqueue.
Receive(c) ==
  /\ ~crashed /\ stage[c] = "on"
  /\ \E k \in ReadSizes(up[c], 2 * Half) :
       LET s == SubSeq(up[c], 1, k)
           text == IF IsChat(s[1]) THEN SubSeq(s, 1, TextLength(s)) ELSE <<>>
       IN /\ up' = [up EXCEPT ![c] = Rest(@, k)]
          /\ queue' = Append(queue, [head |-> s[1], text |-> text])
          /\ lost' = lost \cup (ChatsIn(s) \ ChatsIn(text))
  /\ UNCHANGED <<clientVars, userVars, down, stage, out, next, crashed, conversation>>

\* ... end of file.  Unless the queue looked empty, or the user is number 1,
\* every slot is written a whole buffer, and the slot is freed.
LogOff(c) ==
  /\ ~crashed /\ stage[c] = "on" /\ ~open[c] /\ up[c] = <<>>
  /\ stage' = [stage EXCEPT ![c] = "out"]
  /\ \/ UNCHANGED down
     \/ /\ c # 1
        /\ down' = [d \in Clients |->
             IF Receives(d) THEN down[d] \o Filled(Notice, 2 * Half) ELSE down[d]]
  /\ UNCHANGED <<clientVars, userVars, up, queue, out, next, crashed, conversation, lost>>

-----------------------------------------------------------------------------
(* The main thread *)

\* Index -1 of the clients, or the one the client's memory held before it knew
\* its uid, is another field of the server, taken for a pointer.
BadIndex ==
  /\ crashed' = TRUE
  /\ UNCHANGED <<queue, out, next, conversation, down>>

\* CMD_TEXT, TEXT_MAIN_CHAT.  What came glued to the line is part of its text.
HandleChat(m) ==
  /\ conversation' = conversation \o m.text
  /\ out' = [kind |-> "chat", lo |-> Len(conversation) + 1, hi |-> Len(conversation')]
  /\ next' = 1
  /\ UNCHANGED <<crashed, down>>

\* CMD_TEXT, TEXT_STATUS
HandleStatus(m) ==
  /\ out' = m.head /\ next' = 1
  /\ UNCHANGED <<crashed, conversation, down>>

\* CMD_VOTE and CMD_USERLIST: answered to the one user.
HandleAsk(m) ==
  /\ WriteTo(m.head.by, Filled(Answer, 2 * Half))
  /\ UNCHANGED <<crashed, conversation, out, next>>

\* What begins with no command is ignored.
Ignore == UNCHANGED <<crashed, conversation, out, next, down>>

Idle == next > N

Handle ==
  /\ ~crashed /\ Idle /\ queue # <<>>
  /\ LET m == Head(queue)
         k == m.head.kind
     IN \/ k \in {"chat", "ask"} /\ ~m.head.known /\ BadIndex
        \/ /\ queue' = Tail(queue)
           /\ \/ k = "chat" /\ HandleChat(m)
              \/ k = "status" /\ HandleStatus(m)
              \/ k = "ask" /\ m.head.known /\ HandleAsk(m)
              \/ k = "ask" /\ ~m.head.known /\ Ignore
              \/ k = "zero" /\ Ignore
  /\ UNCHANGED <<clientVars, userVars, up, stage, lost>>

\* Fault: the index is not moved on after a slot that is not connected.
BroadcastAgain ==
  /\ ~crashed /\ ~Idle
  /\ next' = IF next < N /\ ~Receives(next + 1) THEN next ELSE next + 1
  /\ down' = [down EXCEPT ![next] = IF Receives(next) THEN Append(@, out) ELSE @]
  /\ UNCHANGED <<clientVars, userVars, up, stage, queue, out, crashed, conversation, lost>>

\* broadcast_all, one write: as long as the text, without its zero.
Broadcast ==
  /\ ~crashed /\ ~Idle
  /\ next' = next + 1
  /\ down' = [down EXCEPT ![next] = IF Receives(next) THEN Append(@, out) ELSE @]
  /\ UNCHANGED <<clientVars, userVars, up, stage, queue, out, crashed, conversation, lost>>

-----------------------------------------------------------------------------

ClientStep(c) == Say(c) \/ Type(c) \/ Ask(c) \/ ReadFromServer(c) \/ Leave(c)
ThreadStep(c) == SignOn(c) \/ Receive(c) \/ LogOff(c)
MainStep == Handle \/ Broadcast

Next ==
  \/ \E c \in Clients : ClientStep(c) \/ ThreadStep(c) \/ Accept(c)
  \/ MainStep

Safety == Init /\ [][Next]_vars

\* Every thread of the server runs, and a client's loop reads what has arrived.
Spec ==
  /\ Safety
  /\ WF_vars(MainStep)
  /\ \A c \in Clients :
       WF_vars(Accept(c)) /\ WF_vars(ThreadStep(c)) /\ WF_vars(ReadFromServer(c))

-----------------------------------------------------------------------------
(* Properties *)

UpCells ==
  {Zero, Name}
    \cup [kind : {"chat"}, by : Clients, known : BOOLEAN, num : 1..MaxSaid]
    \cup [kind : {"ask"}, by : Clients, known : BOOLEAN]
    \cup [kind : {"status"}, by : Clients, num : 1..MaxTyped]

OutCells ==
  [kind : {"chat"}, lo : Nat, hi : Nat] \cup [kind : {"status"}, by : Clients, num : 1..MaxTyped]

DownCells == {Zero, Uid, Notice, Answer} \cup OutCells

TypeOK ==
  /\ stage \in [Clients -> {"none", "slot", "on", "out"}]
  /\ {open, uid, asked} \subseteq [Clients -> BOOLEAN]
  /\ up \in [Clients -> Seq(UpCells)]
  /\ down \in [Clients -> Seq(DownCells)]
  /\ queue \in Seq([head : UpCells, text : Seq(UpCells)])
  /\ out \in OutCells \cup {Zero} /\ next \in 1..N + 1 /\ (out = Zero => next = N + 1)
  /\ crashed \in BOOLEAN
  /\ window \in [Clients -> [Clients -> 0..MaxTyped]]
  /\ shown \in [Clients -> Seq(DownCells)]
  /\ conversation \in Seq(UpCells)
  /\ due \in [Clients -> Seq(SUBSET Clients)] /\ typed \in [Clients -> 0..MaxTyped]

\* Every user sees the conversation in the server's order and no line of it
\* twice, however reads cut and join the stream (bc_network.c:437-453,
\* clientsocket.c:228-288).
OnceInOrder ==
  \A c \in Clients : \A i, j \in DOMAIN shown[c] :
    i < j /\ IsChat(shown[c][i]) /\ IsChat(shown[c][j]) => shown[c][i].hi < shown[c][j].lo

\* One user's lines keep their order in the conversation, and none is said twice:
\* from write_out through the reads, the queue and the dispatch.
SaidInOrder ==
  \A i, j \in DOMAIN conversation :
    LET x == conversation[i]
        y == conversation[j]
    IN i < j /\ IsChat(x) /\ IsChat(y) /\ x.by = y.by => x.num < y.num

\* The server throws away no line of a user who waited for his uid, unless his
\* own typing or requests came in front of it; nor does it cut it short
\* (bc_network.c:370, main.c:168).
PatientIsHeard ==
  \A m \in lost :
    typed[m.by] > 0 \/ asked[m.by] \/ \E n \in 1..m.num : m.by \notin due[m.by][n]

\* A client misses a line of the conversation only behind its uid, somebody's
\* status, an answer to its own request or a log-off notice (clientsocket.c:228,
\* 251).
MissesHaveCause ==
  \A d \in Clients : \A m \in missed[d] :
    \/ m[1] = "uid" \/ asked[d]
    \/ \E c \in Clients : typed[c] > 0 \/ stage[c] = "out"

\* One conversation, of which each user sees parts in its order (bc_network.c:437).
Room == INSTANCE Chatroom WITH
  Users <- Clients,
  conversation <- [i \in DOMAIN conversation |->
    [by |-> conversation[i].by,
     num |-> IF IsChat(conversation[i]) THEN conversation[i].num ELSE 0]],
  seen <- [c \in Clients |-> [i \in DOMAIN shown[c] |->
    IF IsChat(shown[c][i]) THEN [lo |-> shown[c][i].lo, hi |-> shown[c][i].hi]
                           ELSE [lo |-> 0, hi |-> 0]]]
ImplementsChatroom == Room!Spec

\* A line of a user who knows his uid is seen, where nothing is padded with
\* zeros, by everybody who knew his when it was said.
Seen(d, c, n) ==
  \E i \in DOMAIN shown[d] :
    /\ IsChat(shown[d][i])
    /\ \E k \in shown[d][i].lo..shown[d][i].hi : LET m == conversation[k] IN IsChat(m) /\ m.by = c /\ m.num = n

SaidIsSeen ==
  \A c, d \in Clients : \A n \in 1..MaxSaid :
    (n <= Len(due[c]) /\ {c, d} \subseteq due[c][n]) ~> (Seen(d, c, n) \/ crashed)
=============================================================================
