------------------------------ MODULE ClientUI ------------------------------
(***************************************************************************)
(* The keyboard side of client/client.c: the typing line (client_buffer    *)
(* with its cursor and the gaudy markers), the lurk, yell and instant      *)
(* message modes, and what each key makes the client send.                 *)
(*                                                                         *)
(* Keys are handled one after the other by the main loop, one action per   *)
(* key.  `line' is the memory of client_buffer, Size bytes (1024 in the    *)
(* code); a key that reads or writes outside it sets `overrun', after      *)
(* which nothing can be said of the process and the model stops.           *)
(* refresh and the window contents are left out.                           *)
(***************************************************************************)
EXTENDS Integers, Sequences

CONSTANTS
  Size,       \* bytes of client_buffer
  Letters,    \* characters that can be typed, other than the blank
  Yells       \* the texts of yell_messages

NUL == "nul"  \* '\0'
STX == "stx"  \* 2, gaudy text starts
ETX == "etx"  \* 3, gaudy text ends
Blank == " "
Char == Letters \cup {Blank, STX, ETX}

ASSUME SizeAssumption == Size \in Nat \ {0}
ASSUME CharAssumption == Letters \intersect {NUL, STX, ETX, Blank} = {}
ASSUME YellAssumption ==
  \A y \in Yells : y \in Seq(Letters) /\ 0 < Len(y) /\ Len(y) < Size

Offsets == 0..(Size - 1)
Modes == {"edit", "lurk", "yell", "im"}
None == <<NUL>>            \* no text: no text of the client holds a NUL

VARIABLES
  line,      \* client_buffer
  cursor,    \* client_cursor_position
  gaudy,     \* gaudy_mode_on
  mode,      \* is_lurking, is_yelling, sending_im
  running,   \* is_running
  uidKnown,  \* uid > 0 in clientsocket.c
  chat,      \* the last main chat message written to the server
  told,      \* the last status written to the server
  keyed,     \* history: a key of the typing line since the uid is known
  overrun

lineVars == <<line, cursor, overrun>>
netVars == <<uidKnown, chat, told, keyed>>
vars == <<lineVars, gaudy, mode, running, netVars>>

Init ==
  /\ line = [i \in Offsets |-> NUL] /\ cursor = 0 /\ gaudy = FALSE
  /\ mode = "edit" /\ running = TRUE /\ uidKnown = FALSE
  /\ chat = None /\ told = None /\ keyed = FALSE /\ overrun = FALSE

-----------------------------------------------------------------------------
(* client_buffer as a C string *)

StrLen(m) ==
  CHOOSE n \in 0..Size :
    /\ \A i \in 0..(n - 1) : m[i] # NUL
    /\ n = Size \/ m[n] = NUL

Text(m) == [i \in 1..StrLen(m) |-> m[i - 1]]

Zeroed(m, from, to) == [i \in Offsets |-> IF i \in from..to THEN NUL ELSE m[i]]

\* memset and strcpy of a yell message.
Copied(t) == [i \in Offsets |-> IF i < Len(t) THEN t[i + 1] ELSE NUL]

\* print_client_chat_buffer, 370-375.  The comparison with strlen is unsigned,
\* so that a negative cursor is put to the end as well.
Clamped(c, m) == IF c < 0 \/ c > StrLen(m) THEN StrLen(m) ELSE c

\* What a handler leaves behind: the line, with the cursor where it put it or
\* where print_client_chat_buffer moves it to.  A line without a NUL makes
\* strlen read on behind the buffer.
Leaves(m, c) ==
  /\ line' = m /\ cursor' = c
  /\ overrun' = (StrLen(m) = Size)
Prints(m, c) == Leaves(m, Clamped(c, m))
Overruns == overrun' = TRUE /\ UNCHANGED <<line, cursor>>

-----------------------------------------------------------------------------
(* What is sent *)

Ready(m) == mode = m /\ running /\ ~overrun

\* Fault: the status is written before the key is looked at.
WriteStatusEarly ==
  /\ told' = IF uidKnown /\ StrLen(line) > 0 THEN Text(line) ELSE told
  /\ keyed' = uidKnown
  /\ UNCHANGED uidKnown

\* write_status, called after every key of the typing line with what the line
\* holds by then.
WriteStatus ==
  /\ told' = IF uidKnown /\ ~overrun' /\ StrLen(line') > 0 THEN Text(line') ELSE told
  /\ keyed' = uidKnown
  /\ UNCHANGED uidKnown

\* A key of the typing line that sends no chat message is read and, when the
\* line has been edited, the status written.
Pressed == Ready("edit") /\ UNCHANGED <<chat, running>>

\* write_out: an empty line sends nothing, any other is sent and cleared.
WriteOut(m, c) ==
  IF StrLen(m) > 0
  THEN /\ chat' = Text(m)
       /\ line' = Zeroed(m, 0, Size - 1) /\ cursor' = 0
       /\ overrun' = (StrLen(m) = Size)
  ELSE /\ UNCHANGED chat
       /\ Leaves(m, c)

-----------------------------------------------------------------------------
(* The keys of the typing line *)

\* Characters behind the cursor move up, 1283-1290.
Inserted(m, c, ch) ==
  [i \in Offsets |-> IF i = c THEN ch
                     ELSE IF i > c /\ i <= StrLen(m) + 1 THEN m[i - 1] ELSE m[i]]

Store(ch) ==
  /\ IF cursor \in Offsets /\ (cursor # StrLen(line) => StrLen(line) + 1 \in Offsets)
     THEN Prints(IF cursor = StrLen(line) THEN [line EXCEPT ![cursor] = ch]
                                          ELSE Inserted(line, cursor, ch), cursor + 1)
     ELSE Overruns
  /\ UNCHANGED <<gaudy, mode>>

\* 1278-1299.
Type == Pressed /\ \E ch \in Letters \cup {Blank} : Store(ch) /\ WriteStatus

\* KEY_DOWN and KEY_UP are 258 and 259.  iscntrl is not defined for them: the
\* key does nothing, or the byte stored is 2 or 3, a gaudy marker.
Arrow ==
  /\ Pressed
  /\ \/ \E ch \in {STX, ETX} : Store(ch)
     \/ UNCHANGED <<lineVars, gaudy, mode>>
  /\ WriteStatus

\* CTRL-G, 1080-1090.
Gaudy ==
  /\ Pressed
  /\ gaudy' = ~gaudy
  /\ IF cursor \in Offsets
     THEN Prints([line EXCEPT ![cursor] = IF gaudy THEN ETX ELSE STX], cursor + 1)
     ELSE Overruns
  /\ UNCHANGED mode
  /\ WriteStatus

\* CTRL-H and 127, with the number of characters it takes.
Delete(n) ==
  /\ Pressed
  /\ IF StrLen(line) - n \in Offsets
     THEN Prints([line EXCEPT ![StrLen(line) - n] = NUL], cursor)
     ELSE Overruns
  /\ UNCHANGED <<gaudy, mode>>
  /\ WriteStatus

\* Fault: the character before the last one is zeroed.
DeleteTwo == Delete(2)

\* 1092-1096.
Backspace == Delete(1)

\* KEY_BACKSPACE, 1259-1274: the last character, or one before the cursor.
KeyBackspace ==
  /\ Pressed
  /\ LET n == StrLen(line)
     IN  IF cursor = n
         THEN IF n = 0 THEN Overruns
              ELSE Prints([line EXCEPT ![n - 1] = NUL], n - 1)
         ELSE Prints([i \in Offsets |-> IF cursor >= 2 /\ i \in (cursor - 2)..(n - 1)
                                        THEN line[i + 1] ELSE line[i]], cursor - 1)
  /\ UNCHANGED <<gaudy, mode>>
  /\ WriteStatus

\* Fault: gaudy mode ends without its marker.
EnterUnmarked ==
  /\ Ready("edit")
  /\ gaudy' = FALSE
  /\ WriteOut(line, cursor)
  /\ WriteStatus /\ UNCHANGED <<mode, running>>

\* CTRL-J, 1105-1127.
Enter ==
  /\ Ready("edit")
  /\ gaudy' = FALSE
  /\ IF ~gaudy THEN WriteOut(line, cursor)
     ELSE IF cursor \in Offsets /\ cursor + 1 \in Offsets
     THEN WriteOut([line EXCEPT ![cursor] = ETX, ![cursor + 1] = Blank], cursor + 2)
     ELSE Overruns /\ UNCHANGED chat
  /\ WriteStatus /\ UNCHANGED <<mode, running>>

\* CTRL-K, 1129-1136: the first zero written ends the loop.
Kill ==
  /\ Pressed
  /\ Leaves(IF cursor + 1 < StrLen(line) THEN [line EXCEPT ![cursor + 1] = NUL] ELSE line,
            cursor)
  /\ UNCHANGED <<gaudy, mode>>
  /\ WriteStatus

\* CTRL-U, 1197-1202.
EraseLine ==
  /\ Pressed
  /\ Prints(Zeroed(line, 0, StrLen(line)), 0)
  /\ UNCHANGED <<gaudy, mode>>
  /\ WriteStatus

\* delete_last_word_in_buffer: the blank in front of the last word, or 0.
WordStart(m) ==
  LET Starts == {i \in 0..StrLen(m) :
                   /\ m[i] \in {Blank, NUL}
                   /\ \E j \in i..StrLen(m) : m[j] \notin {Blank, NUL}}
  IN  IF Starts = {} THEN 0 ELSE CHOOSE i \in Starts : \A j \in Starts : j <= i

\* Fault: only the blank in front of the word is zeroed.
EraseWordShort ==
  /\ Pressed
  /\ Prints([line EXCEPT ![WordStart(line)] = NUL], cursor)
  /\ UNCHANGED <<gaudy, mode>>
  /\ WriteStatus

\* CTRL-W, 1204-1207.
EraseWord ==
  /\ Pressed
  /\ Prints(Zeroed(line, WordStart(line), StrLen(line)), cursor)
  /\ UNCHANGED <<gaudy, mode>>
  /\ WriteStatus

-----------------------------------------------------------------------------
(* Modes *)

\* TAB, CTRL-L and CTRL-Y; CTRL-L also writes the lurk message.
Leave(m) ==
  /\ Pressed
  /\ mode' = m
  /\ UNCHANGED <<lineVars, gaudy>>
  /\ WriteStatus
EnterIM == Leave("im")
EnterLurk == Leave("lurk")
EnterYell == Leave("yell")

\* 994-1030, 1060-1069: CTRL-L, any key in instant message mode, and a key
\* that is no yell message lead back to the typing line.
Return ==
  /\ \E m \in {"im", "lurk", "yell"} : Ready(m)
  /\ mode' = "edit"
  /\ UNCHANGED <<lineVars, gaudy, running, netVars>>

\* 1061-1069.  The message goes through the typing line.
Yell ==
  /\ Ready("yell")
  /\ \E y \in Yells : WriteOut(Copied(y), cursor)
  /\ mode' = "edit"
  /\ UNCHANGED <<gaudy, running, uidKnown, told, keyed>>

\* CTRL-Q: after it, the typing line writes its status a last time; a yell
\* ignores it.
Quit ==
  /\ running /\ ~overrun /\ mode # "yell"
  /\ running' = FALSE
  /\ mode' = IF mode = "im" THEN "edit" ELSE mode
  /\ UNCHANGED <<lineVars, gaudy, chat>>
  /\ IF mode = "edit" THEN WriteStatus ELSE UNCHANGED <<uidKnown, told, keyed>>

\* read_from_server, USER_LIST_RECEIVE_UID.
ReceiveUid ==
  /\ running /\ ~overrun /\ ~uidKnown
  /\ uidKnown' = TRUE
  /\ UNCHANGED <<lineVars, gaudy, mode, running, chat, told, keyed>>

Next ==
  \/ Type \/ Arrow \/ Gaudy \/ Backspace \/ KeyBackspace \/ Enter
  \/ Kill \/ EraseLine \/ EraseWord
  \/ EnterIM \/ EnterLurk \/ EnterYell \/ Return \/ Yell
  \/ Quit \/ ReceiveUid

Spec == Init /\ [][Next]_vars

-----------------------------------------------------------------------------
(* Properties *)

TypeOK ==
  /\ line \in [Offsets -> Char \cup {NUL}]
  /\ cursor \in 0..Size
  /\ mode \in Modes
  /\ {gaudy, running, uidKnown, keyed, overrun} \subseteq BOOLEAN
  /\ chat \in Seq(Char) \cup {None}
  /\ told \in Seq(Char) \cup {None}

\* No key moves the cursor, but many move the end of the line: they stay
\* together all the same, through every editing key, sending and yelling.
\* (Were they ever apart, keys would edit in the middle of the line, where
\* KEY_BACKSPACE takes the wrong character, and CTRL-G overwrites.)
CursorIsEnd == ~overrun => cursor = StrLen(line)

\* Behind the end of the line there are only zeros, so that no deleted text
\* comes back when the zero that ends the line is overwritten by a new
\* character (the line is edited in place and strlen is taken anew by each).
NothingHidden == ~overrun => \A i \in Offsets : i >= StrLen(line) => line[i] = NUL

\* A key that finds a character to delete and room for two more stays inside
\* client_buffer: the only ways out of it are deleting in an empty line and
\* writing near its end (client.c:1094, 1293).
RoomMeansSafe ==
  [][~overrun /\ 0 < StrLen(line) /\ StrLen(line) + 2 < Size => ~overrun']_vars

\* Others see what is in the line: once the uid is known and a key was
\* pressed, the last status sent is the text, unless the line is empty, which
\* is never sent, so that the last text stays with the others (clientsocket.c:103).
StatusFollows ==
  ~overrun /\ keyed /\ StrLen(line) > 0 => told = Text(line)

\* What ENTER says is what the others have been shown as it was typed, with the
\* gaudy text closed (write_out takes the line, write_status took it before).
\* Only gaudy mode left on over an emptied line makes ENTER say a bare marker.
SaidWasShown ==
  [][mode = "edit" /\ keyed /\ StrLen(line) > 0 /\ chat' # chat
       => chat' = told \o (IF gaudy THEN <<ETX, Blank>> ELSE <<>>)]_vars
=============================================================================
