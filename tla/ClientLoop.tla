----------------------------- MODULE ClientLoop -----------------------------
(***************************************************************************)
(* The life of the client process: main of client/client.c from            *)
(* init_client to its exit, with what read_from_server and close_client do *)
(* to the socket.                                                          *)
(*                                                                         *)
(* The loop waits in select for the keyboard and the server, handles one   *)
(* key and one read, in this order, and looks at is_running.  What keys do *)
(* and what is read are ClientUI's and Delivery's; here a key writes to    *)
(* the server so many times, and a read takes so many messages.            *)
(*                                                                         *)
(* External: TCP as the client sees it, and getch of ncurses with keypad,  *)
(* which reads on behind an ESC and keeps what it does not understand in a *)
(* queue of its own, where select does not see it.                         *)
(***************************************************************************)
EXTENDS Integers, Sequences

CONSTANTS
  Keys,      \* what the user types: part of {"text", "scroll", "esc", "quit"}
  MaxTyped,  \* bound: keys waiting in the terminal
  MaxInbox   \* bound: messages waiting in the socket

ASSUME KeyAssumption == Keys \subseteq {"text", "scroll", "esc", "quit"}
ASSUME BoundAssumption == MaxTyped \in Nat /\ MaxInbox \in Nat

MostWrites == 2  \* of a key: the message, and the status behind it

VARIABLES
  pc,       \* "start", the steps of an iteration, "cleanup", "close", "ended"
  is_running,  \* is_running
  ready,    \* testfds, as select left it
  left,     \* writes the key in hand has still to make
  typed,    \* bytes waiting at descriptor 0
  fifo,     \* bytes that ncurses has read and not handed over
  inbox,    \* messages that arrived and have not been read
  conn,     \* the server's side: "open", "eof", "reset"
  pending,  \* the next call reports the reset
  sock,     \* the client's descriptor
  term,     \* "shell", or "curses" between initscr and endwin
  alarm,    \* alarm(5) is is_running
  exit,     \* how the process ended
  quit,     \* history: CTRL-Q has been handled
  denied    \* history: YOU HAVE BEEN DENIED!!! has been shown

keyVars == <<typed, fifo>>
socketVars == <<inbox, conn, pending, sock>>
endVars == <<term, exit, quit, denied>>
loopVars == <<pc, is_running, ready, left, keyVars, socketVars, alarm, endVars>>

LoopInit ==
  /\ pc = "start" /\ is_running = TRUE /\ ready = {} /\ left = 0
  /\ typed = <<>> /\ fifo = <<>>
  /\ inbox = 0 /\ conn = "open" /\ pending = FALSE /\ sock = "open"
  /\ term = "shell" /\ alarm = FALSE
  /\ exit = "none" /\ quit = FALSE /\ denied = FALSE

-----------------------------------------------------------------------------
(* The user, the server, the clock *)

UserTypes ==
  /\ Len(typed) < MaxTyped
  /\ \E k \in Keys : typed' = Append(typed, k)
  /\ UNCHANGED <<pc, is_running, ready, left, fifo, socketVars, alarm, endVars>>

ServerWrites ==
  /\ pc # "start" /\ conn = "open" /\ inbox < MaxInbox
  /\ inbox' = inbox + 1
  /\ UNCHANGED <<pc, is_running, ready, left, keyVars, conn, pending, sock, alarm, endVars>>

\* Ejection, refusal, or the server's end.  Closing with data unread resets.
ServerCloses ==
  /\ pc # "start" /\ conn = "open"
  /\ \/ conn' = "eof" /\ UNCHANGED pending
     \/ conn' = "reset" /\ pending' = TRUE
  /\ UNCHANGED <<pc, is_running, ready, left, keyVars, inbox, sock, alarm, endVars>>

\* SIGALRM anywhere but in select: scroll_ended_handler, see Transcript.
AlarmRings ==
  /\ alarm /\ pc \notin {"select", "ended"}
  /\ alarm' = FALSE
  /\ UNCHANGED <<pc, is_running, ready, left, keyVars, socketVars, endVars>>

-----------------------------------------------------------------------------
(* The client *)

Ends(how) == pc' = "ended" /\ exit' = how

\* init_client; then initscr and the windows.
Start ==
  /\ pc = "start"
  /\ \/ Ends("failed") /\ UNCHANGED term
     \/ pc' = "select" /\ term' = "curses" /\ UNCHANGED exit
  /\ UNCHANGED <<is_running, ready, left, keyVars, socketVars, alarm, quit, denied>>

Readable ==
  {f \in {"keys", "server"} :
     \/ f = "keys" /\ typed # <<>>
     \/ f = "server" /\ (inbox > 0 \/ conn # "open")}

\* Fault: the set given to select is looked at, not the one it left.
SelectAll ==
  /\ pc = "select" /\ sock = "open" /\ Readable # {}
  /\ ready' = {"keys", "server"}
  /\ pc' = "keys"
  /\ UNCHANGED <<is_running, left, keyVars, socketVars, alarm, endVars>>

Select ==
  /\ pc = "select" /\ sock = "open" /\ Readable # {}
  /\ ready' = Readable
  /\ pc' = "keys"
  /\ UNCHANGED <<is_running, left, keyVars, socketVars, alarm, endVars>>

\* SIGALRM in select: EINTR, and once more.
Interrupted ==
  /\ pc = "select" /\ sock = "open" /\ alarm
  /\ alarm' = FALSE
  /\ UNCHANGED <<pc, is_running, ready, left, keyVars, socketVars, endVars>>

\* select with the closed descriptor: EBADF.
BadDescriptor ==
  /\ pc = "select" /\ sock = "closed"
  /\ is_running' = FALSE /\ pc' = "cleanup"
  /\ UNCHANGED <<ready, left, keyVars, socketVars, alarm, endVars>>

NoKey ==
  /\ pc = "keys" /\ "keys" \notin ready
  /\ pc' = "server"
  /\ UNCHANGED <<is_running, ready, left, keyVars, socketVars, alarm, endVars>>

\* getch: first what ncurses kept.  It waits for the byte behind an ESC, at
\* most a second.
Getch(k) ==
  \/ /\ fifo # <<>> /\ k = Head(fifo)
     /\ fifo' = Tail(fifo) /\ UNCHANGED typed
  \/ /\ fifo = <<>> /\ k = Head(typed)
     /\ \/ fifo' = <<>> /\ typed' = Tail(typed)
        \/ /\ k = "esc" /\ Len(typed) > 1
           /\ fifo' = <<typed[2]>> /\ typed' = Tail(Tail(typed))

\* A key in any mode.  CTRL-Q clears is_running (but in yell mode, where it is as
\* any other key), the scrolling keys set the alarm; text, and keys that change
\* the mode, may write to the server.
Key ==
  /\ pc = "keys" /\ "keys" \in ready
  /\ \E k \in Keys :
       /\ Getch(k)
       /\ left' \in IF k = "text" THEN 0..MostWrites ELSE {0}
       /\ alarm' = (alarm \/ k = "scroll")
       /\ quit' = (quit \/ k = "quit")
       /\ is_running' = (is_running /\ k # "quit")
  /\ pc' = IF left' > 0 THEN "write" ELSE "server"
  /\ UNCHANGED <<ready, socketVars, term, exit, denied>>

AfterWrite == IF left = 1 THEN "server" ELSE "write"

\* What the client writes behind the server's end is answered by a reset.
Write ==
  /\ pc = "write" /\ (conn = "reset" => pending)
  /\ left' = left - 1 /\ pc' = AfterWrite
  /\ conn' \in IF conn = "eof" THEN {"eof", "reset"} ELSE {conn}
  /\ pending' = FALSE
  /\ UNCHANGED <<is_running, ready, keyVars, inbox, sock, alarm, endVars>>

\* SIGPIPE, which the client does not ignore.
Killed ==
  /\ pc = "write" /\ conn = "reset" /\ ~pending
  /\ Ends("killed")
  /\ UNCHANGED <<is_running, ready, left, keyVars, socketVars, alarm, term, quit, denied>>

\* Fault: is_running is not looked at.
AgainAlways == pc' = "select"

\* The loop's condition, behind refresh_all_windows.
Again == pc' = IF is_running THEN "select" ELSE "cleanup"

NothingRead ==
  /\ pc = "server" /\ "server" \notin ready
  /\ Again
  /\ UNCHANGED <<is_running, ready, left, keyVars, socketVars, alarm, endVars>>

\* Fault: the server is read only when no key was pressed.
ReadMessagesElse ==
  /\ pc = "server" /\ "server" \in ready /\ inbox > 0
  /\ inbox' \in IF "keys" \in ready THEN {inbox} ELSE 0..inbox - 1
  /\ Again
  /\ UNCHANGED <<is_running, ready, left, keyVars, conn, pending, sock, alarm, endVars>>

\* read_from_server: up to 4096 bytes, one message or several.
ReadMessages ==
  /\ pc = "server" /\ "server" \in ready /\ inbox > 0
  /\ inbox' \in 0..inbox - 1
  /\ Again
  /\ UNCHANGED <<is_running, ready, left, keyVars, conn, pending, sock, alarm, endVars>>

\* read fails with the reset, and nothing is done.
ReadFails ==
  /\ pc = "server" /\ "server" \in ready /\ inbox = 0 /\ pending
  /\ pending' = FALSE
  /\ Again
  /\ UNCHANGED <<is_running, ready, left, keyVars, inbox, conn, sock, alarm, endVars>>

\* Fault: the process ends where it sees the end of file.
ReadEndExits ==
  /\ pc = "server" /\ "server" \in ready /\ inbox = 0 /\ ~pending
  /\ denied' = TRUE /\ sock' = "closed"
  /\ Ends("failed")
  /\ UNCHANGED <<is_running, ready, left, keyVars, inbox, conn, pending, alarm, term, quit>>

\* Fault: nothing is done at the end of file.
ReadEndIgnored ==
  /\ pc = "server" /\ "server" \in ready /\ inbox = 0 /\ ~pending
  /\ Again
  /\ UNCHANGED <<is_running, ready, left, keyVars, socketVars, alarm, endVars>>

\* read returns 0: the user is told, and the socket closed; is_running stays.
ReadEnd ==
  /\ pc = "server" /\ "server" \in ready /\ inbox = 0 /\ ~pending
  /\ denied' = TRUE /\ sock' = "closed"
  /\ Again
  /\ UNCHANGED <<is_running, ready, left, keyVars, inbox, conn, pending, alarm, term, exit, quit>>

\* free, delwin, endwin
Cleanup ==
  /\ pc = "cleanup"
  /\ term' = "shell" /\ pc' = "close"
  /\ UNCHANGED <<is_running, ready, left, keyVars, socketVars, alarm, exit, quit, denied>>

\* close_client: closing twice fails and exits.
Close ==
  /\ pc = "close"
  /\ Ends(IF sock = "closed" THEN "failed" ELSE "normal")
  /\ sock' = "closed"
  /\ UNCHANGED <<is_running, ready, left, keyVars, inbox, conn, pending, alarm, term, quit, denied>>

ReadFromServer == NothingRead \/ ReadMessages \/ ReadFails \/ ReadEnd
WaitStep == Select \/ Interrupted \/ BadDescriptor
KeyStep == NoKey \/ Key \/ Write \/ Killed
Client == Start \/ WaitStep \/ KeyStep \/ ReadFromServer \/ Cleanup \/ Close

LoopNext == Client \/ UserTypes \/ ServerWrites \/ ServerCloses \/ AlarmRings

Safety == LoopInit /\ [][LoopNext]_loopVars

\* The process is scheduled; nothing is asked of the user or the server.
LoopSpec == Safety /\ WF_loopVars(Client)

-----------------------------------------------------------------------------
(* Properties *)

LoopTypeOK ==
  /\ pc \in {"start", "select", "keys", "write", "server", "cleanup", "close", "ended"}
  /\ is_running \in BOOLEAN /\ ready \subseteq {"keys", "server"} /\ left \in 0..MostWrites
  /\ typed \in Seq(Keys) /\ fifo \in Seq(Keys)
  /\ inbox \in Nat /\ conn \in {"open", "eof", "reset"} /\ pending \in BOOLEAN
  /\ sock \in {"open", "closed"} /\ term \in {"shell", "curses"} /\ alarm \in BOOLEAN
  /\ exit \in {"none", "normal", "failed", "killed"}
  /\ quit \in BOOLEAN /\ denied \in BOOLEAN

\* What select reported still holds when it is used, though a key is handled and
\* written to the server in between: the client never waits in read, and in
\* getch only for the rest of a sequence (client.c:971, 984-986, 1314-1316).
NeverStuck ==
  /\ pc = "keys" /\ "keys" \in ready => typed # <<>>
  /\ pc = "server" /\ "server" \in ready => inbox > 0 \/ conn # "open"

\* Once close_client was called in the middle of an iteration, the socket is not
\* written or read any more (clientsocket.c:229-233, client.c:975-981).
ClosedNotUsed ==
  sock = "closed" => pc \in {"select", "cleanup", "close", "ended"}

\* The process ends after CTRL-Q or after the server's end was shown, with the
\* terminal as it was; only a SIGPIPE, and that only after a reset, leaves it in
\* raw mode (client.c:968-981, 1353-1357, clientsocket.c:504-521).
EndsInOrder ==
  /\ pc \in {"cleanup", "close"} => quit \/ denied
  /\ exit = "normal" => quit /\ ~denied
  /\ exit \in {"normal", "failed"} => term = "shell"
  /\ exit = "killed" => term = "curses" /\ conn = "reset"

\* After the server's end the client ends, however much the user types
\* (clientsocket.c:229-233, client.c:968-981).
DenialEnds == (conn # "open") ~> (pc = "ended")

\* CTRL-Q is waiting at the terminal, with no ESC before it.
QuitTyped ==
  \E i \in DOMAIN typed : typed[i] = "quit" /\ \A j \in 1..i - 1 : typed[j] # "esc"

\* When the user has typed CTRL-Q, the client ends, however much the server
\* sends and the user types behind it (client.c:1178-1181).  Right behind an ESC
\* it is read with the ESC, and lies where select does not see it until the
\* next key (client.c:983-988).
QuitEnds == QuitTyped ~> (pc = "ended")

\* While there are messages, the client goes on reading them, however much the
\* user types (client.c:1314-1316).
ServerHeard == []<>(inbox = 0 \/ pc = "ended") \/ []<><<inbox' < inbox>>_loopVars
=============================================================================
