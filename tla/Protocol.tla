------------------------------ MODULE Protocol ------------------------------
(***************************************************************************)
(* A command on its way through the codec (protocol/protocol.c): built by  *)
(* a client, taken apart and answered by the server (server/main.c), and   *)
(* taken apart by the clients (client/clientsocket.c).                     *)
(*                                                                         *)
(* A message is a string of fields of fixed width.  Builders and accessors *)
(* each have their own table of the fields, and accessors copy a field     *)
(* into a local array first: some end it where they should, some one byte  *)
(* too late, some not at all, and atoi reads on into what is behind.       *)
(*                                                                         *)
(* A character is a digit, 0..9, or one of the two below: names are        *)
(* alphanumeric (blackchat.h:90), and a text that begins with blanks is    *)
(* read by atoi as one with zeros.  One message is under way, and arrives  *)
(* whole (see Delivery).  Messages are built as README_CLIENT has them; of *)
(* the functions for this, write_im, init_user_list and                    *)
(* create_yell_message are not called by client.c.                         *)
(***************************************************************************)
EXTENDS Integers, Sequences

CONSTANTS
  N,        \* slots, 10
  Kinds,    \* what is asked
  Windows,  \* windows a client may have: type, id, place and size
  Texts,    \* what users write
  Namings,  \* what the users of the slots may be called
  Onlines,  \* who may be connected when a list is asked for
  Stack,    \* characters that may lie behind a local array
  Heap,     \* what may lie in new memory, before the first NUL
  Capacity  \* of user_list in read_from_server, 10

NUL == 10
Other == 11  \* any other character

Slots == 1..N
Characters == 0..11
Strings == Seq(Characters \ {NUL})

\* What fits into a field of two, three or four digits.
Numbers(w) == CASE w = 2 -> 0..99 [] w = 3 -> 0..999 [] w = 4 -> 0..9999

ASSUME SlotAssumption == N \in Numbers(3) \ {0}
ASSUME KindAssumption == Kinds \subseteq {"chat", "status", "im", "yell", "vote", "lurk", "list", "window"}
ASSUME CapacityAssumption == Capacity \in Nat \ {0}
ASSUME TextAssumption == Texts \subseteq Strings /\ Heap \subseteq Strings
\* 80 bytes are read, four of them in front of the name (bc_network.c:337).
ASSUME NameAssumption == \A f \in Namings : f \in [Slots -> Strings] /\ \A s \in Slots : Len(f[s]) <= 76
ASSUME OnlineAssumption == Onlines \subseteq SUBSET Slots
ASSUME WindowAssumption ==
  Windows \subseteq [type : Numbers(2), wid : Numbers(3), x : Numbers(4), y : Numbers(4),
                     z : Numbers(2), w : Numbers(4), h : Numbers(4)]
ASSUME StackAssumption == Stack \subseteq Characters

CMD_TEXT == 0
CMD_WINDOW == 1
CMD_VOTE == 2
CMD_USERLIST == 3
CMD_ERROR == 4
CMD_LURK == 5
TEXT_MAIN_CHAT == 1
TEXT_YELL == 2
TEXT_STATUS == 4
TEXT_IM == 8
VOTE == 0
VOTE_ACCEPTED == 1
VOTE_NOT_ACCEPTED == 2
USER_LIST_REQUEST == 0
USER_LIST_CURRENT == 4

VARIABLES
  stage,     \* "idle", "sent", "listing", "answered", "reading", "shown",
             \* "saved", "dropped", "crashed", "overrun"
  want,      \* what the user asked for
  window,    \* the window it has
  saved,     \* the window the server reads
  name,      \* user_data->name of each slot
  message,   \* what is on the wire
  user,      \* who the server takes the sender for
  other,     \* ... the receiver, or the one voted for
  receivers, \* who the answer is sent to
  online,    \* the slots that are connected
  scan,      \* slot looked at next for the list, or offset of the next user in it
  built,     \* users put into the list
  read,      \* users taken from it, each with the name_len it was read with
  shown      \* what a receiver understood: kind, uid and text

vars == <<stage, want, window, saved, name, message, user, other, receivers, online, scan, built, read, shown>>
serverVars == <<user, other, receivers, online>>
listVars == <<scan, built, read>>

Nothing == [kind |-> "nothing", uid |-> 0, text |-> <<>>]

Init ==
  /\ stage = "idle" /\ message = <<>>
  /\ want \in [kind : Kinds, uid : Slots, to : Slots, text : Texts]
  /\ name \in Namings
  /\ IF want.kind = "list" THEN online \in Onlines /\ want.uid \in online ELSE online = Slots
  /\ want.kind \notin {"im", "vote"} => want.to = want.uid
  /\ want.kind \notin {"chat", "status", "im", "yell"} => want.text = CHOOSE t \in Texts : TRUE
  /\ window \in Windows
  /\ want.kind # "window" => window = CHOOSE w \in Windows : TRUE
  /\ saved = [f \in DOMAIN window |-> 0]
  /\ user = 0 /\ other = 0 /\ receivers = {}
  /\ scan = 0 /\ built = <<>> /\ read = <<>> /\ shown = Nothing

-----------------------------------------------------------------------------
(* Fields *)

\* Fields have at most four digits.
Power(k) == CASE k = 0 -> 1 [] k = 1 -> 10 [] k = 2 -> 100 [] k = 3 -> 1000

\* sprintf %0wd of a number that fits.
Field(n, w) == [i \in 1..w |-> (n \div Power(w - i)) % 10]

\* The character at an offset; behind its end the buffer is zeroed.
At(m, i) == IF i < Len(m) THEN m[i + 1] ELSE NUL

\* strncpy of w characters.
Copy(m, at, w) == [i \in 1..w |-> At(m, at + i - 1)]

\* atoi of an array, as far as it has digits.
Atoi(s) ==
  LET value[i \in 0..Len(s)] ==
        IF i = 0 THEN 0
        ELSE IF \A j \in 1..i : s[j] \in 0..9 THEN 10 * value[i - 1] + s[i] ELSE value[i - 1]
  IN value[Len(s)]

\* An accessor that ends its array.
Number(m, at, w) == Atoi(Copy(m, at, w))

\* One that does not: get_user_from_message, get_first_user, get_user_lurking.
\* One digit behind it stands for more.
Loose(m, at, w, behind) == Atoi(Append(Copy(m, at, w), behind))

From(m, at) == SubSeq(m, at + 1, Len(m))

-----------------------------------------------------------------------------
(* Builders and accessors *)

Command(cmd, type) == Field(cmd, 2) \o Field(type, 2)

create_text_message(type, uid, text) == Command(CMD_TEXT, type) \o Field(uid, 3) \o text

create_im_message(uid, to, text) == Command(CMD_TEXT, TEXT_IM) \o Field(uid, 3) \o text
create_yell_message(uid, text) == Command(CMD_ERROR, TEXT_YELL) \o Field(uid, 3) \o text

\* create_vote_message, respond_vote_message
VoteMessage(type, uid, voted) == Command(CMD_VOTE, type) \o Field(uid, 3) \o Field(voted, 3)
request_user_list(uid) == Command(CMD_USERLIST, USER_LIST_REQUEST) \o Field(uid, 3)
create_user_lurking(uid) == Field(CMD_LURK, 2) \o Field(uid, 3)

\* A user of the list: the length of what follows the offset, uid, name.
Entry(u) == Field(Len(name[u]) + 3, 3) \o Field(u, 3) \o name[u]
create_first_user(type, uid) == Command(CMD_USERLIST, type) \o Field(uid, 3) \o Entry(uid)

\* One number behind the other, in the order of the fields.
create_window_message(v) ==
  Command(CMD_WINDOW, v.type) \o Field(v.wid, 3) \o Field(v.x, 4) \o Field(v.y, 4)
    \o Field(v.z, 2) \o Field(v.w, 4) \o Field(v.h, 4)

get_window(m, behind) ==
  [type |-> Number(m, 2, 2), wid |-> Loose(m, 4, 3, behind), x |-> Number(m, 7, 4),
   y |-> Number(m, 11, 4), z |-> Number(m, 15, 2), w |-> Number(m, 17, 4), h |-> Number(m, 21, 4)]

get_type(m) == Number(m, 0, 2)
get_text_type(m) == Number(m, 2, 2)
get_user(m, behind) == Loose(m, 4, 3, behind)
get_from_user(m) == Number(m, 7, 3)

\* Fault: a sender's uid is expected in front of every text.
TextAtTen(m) == From(m, 10)
get_text(m) == From(m, IF get_text_type(m) = TEXT_IM THEN 10 ELSE 7)

\* get_user_lurking
Lurking(m, behind) == Loose(m, 2, 3, behind)

\* What a field without an end is read as, when a digit may lie behind it.
ReadAs(n) == {n} \union {10 * n + d : d \in Stack \intersect 0..9}

-----------------------------------------------------------------------------
(* The client asks *)

Request ==
  CASE want.kind = "chat" -> create_text_message(TEXT_MAIN_CHAT, want.uid, want.text)
    [] want.kind = "status" -> create_text_message(TEXT_STATUS, want.uid, want.text)
    [] want.kind = "im" -> create_im_message(want.uid, want.to, want.text)
    [] want.kind = "yell" -> create_yell_message(want.uid, want.text)
    [] want.kind = "vote" -> VoteMessage(VOTE, want.uid, want.to)
    [] want.kind = "window" -> create_window_message(window)
    [] want.kind = "lurk" -> create_user_lurking(want.uid)
    [] want.kind = "list" -> request_user_list(want.uid)

Ask ==
  /\ stage = "idle" /\ stage' = "sent" /\ message' = Request
  /\ UNCHANGED <<want, window, saved, name, serverVars, listVars, shown>>

-----------------------------------------------------------------------------
(* The server answers *)

\* Fault: the NUL behind the name is copied with it.
SaysZero(u) == name[u] \o <<NUL>>

Says(u) == name[u] \o <<Other>>

Stops(how) ==
  /\ stage' = how
  /\ UNCHANGED <<want, window, saved, name, message, serverVars, listVars, shown>>

Serve(u, o, whom, answer) ==
  /\ user' = u /\ other' = o
  /\ IF {u, o} \subseteq Slots
     THEN receivers' = whom /\ message' = answer /\ stage' = "answered"
     ELSE stage' = "crashed" /\ UNCHANGED <<receivers, message>>
  /\ UNCHANGED <<want, window, saved, name, online, listVars, shown>>

ServeChat ==
  /\ get_type(message) = CMD_TEXT /\ get_text_type(message) = TEXT_MAIN_CHAT
  /\ \E c \in Stack :
       LET u == get_user(message, c)
       IN Serve(u, want.uid, Slots, create_text_message(TEXT_MAIN_CHAT, u, Says(u) \o get_text(message)))

\* Of a status the last 20 characters are moved to its front; c, the character
\* that temp has behind them, ends the text or comes with them, and what the
\* text had from there on stays.
LastOf(text) == SubSeq(text, Len(text) - 19, Len(text))
Kept(text, c) ==
  IF Len(text) <= 20 THEN text
  ELSE IF c = NUL THEN LastOf(text) ELSE Append(LastOf(text), c) \o SubSeq(text, 22, Len(text))

\* Only here the user is looked at before his slot is.
ServeStatus ==
  /\ get_type(message) = CMD_TEXT /\ get_text_type(message) = TEXT_STATUS
  /\ \E c, d \in Stack :
       LET u == get_user(message, c)
       IN IF u \in Slots
          THEN Serve(u, want.uid, Slots,
                     create_text_message(TEXT_STATUS, u, Says(u) \o Kept(get_text(message), d)))
          ELSE Stops("dropped")

\* The text is copied to im->line, which nobody allocates: the server crashes, or
\* memory is lost that does not matter here.
ServeIm ==
  /\ get_type(message) = CMD_TEXT /\ get_text_type(message) = TEXT_IM
  /\ \/ Stops("crashed")
     \/ \E c \in Stack :
          LET u == get_from_user(message) to == get_user(message, c)
          IN Serve(u, to, {to}, create_im_message(u, to, get_text(message)))

\* Fault: voter and candidate change places.
VoteSwapped ==
  /\ get_type(message) = CMD_VOTE
  /\ \E c \in Stack, answer \in {VOTE_ACCEPTED, VOTE_NOT_ACCEPTED} :
       LET u == Number(message, 7, 3) voted == get_user(message, c)
       IN Serve(u, voted, {u}, VoteMessage(answer, u, voted))

\* get_user_from_message is the voter; the answer does not matter here.
ServeVote ==
  /\ get_type(message) = CMD_VOTE
  /\ \E c \in Stack, answer \in {VOTE_ACCEPTED, VOTE_NOT_ACCEPTED} :
       LET u == get_user(message, c) voted == Number(message, 7, 3)
       IN Serve(u, voted, {u}, VoteMessage(answer, u, voted))

ServeLurk ==
  /\ get_type(message) = CMD_LURK
  /\ \E c \in Stack :
       LET u == Lurking(message, c)
       IN Serve(u, want.uid, Slots, create_text_message(TEXT_MAIN_CHAT, u, Says(u)))

\* CMD_ERROR
Drop == get_type(message) = CMD_ERROR /\ Stops("dropped")

ServeList ==
  /\ get_type(message) = CMD_USERLIST
  /\ \E c \in Stack :
       LET u == get_user(message, c)
       IN /\ user' = u /\ other' = want.uid
          /\ IF u \in Slots
             THEN /\ message' = create_first_user(USER_LIST_CURRENT, u)
                  /\ built' = <<u>> /\ receivers' = {u} /\ stage' = "listing"
             ELSE stage' = "crashed" /\ UNCHANGED <<message, built, receivers>>
  /\ scan' = 1
  /\ UNCHANGED <<want, window, saved, name, online, read, shown>>

\* save_user_window; the user is read where the window's id is.
ServeWindow ==
  /\ get_type(message) = CMD_WINDOW
  /\ \E c, d \in Stack : saved' = get_window(message, c) /\ user' = get_user(message, d)
  /\ other' = want.uid
  /\ stage' = "saved"
  /\ UNCHANGED <<want, window, name, message, receivers, online, listVars, shown>>

HandleMessage ==
  /\ stage = "sent"
  /\ \/ ServeChat \/ ServeStatus
     \/ ServeIm \/ ServeVote \/ ServeLurk \/ ServeList \/ ServeWindow \/ Drop

Listed == scan \in online /\ scan # user

\* create_next_user for each slot.
CreateNextUser ==
  /\ stage = "listing"
  /\ message' = IF Listed THEN message \o Entry(scan) ELSE message
  /\ built' = IF Listed THEN Append(built, scan) ELSE built
  /\ scan' = scan + 1
  /\ stage' = IF scan = N THEN "answered" ELSE "listing"
  /\ UNCHANGED <<want, window, saved, name, serverVars, read, shown>>

-----------------------------------------------------------------------------
(* A receiver shows it *)

\* The server sends its memory behind the message too, which it has not cleared:
\* that is the text, where an instant message ends before its text begins.
TextShown(h) == IF get_text_type(message) = TEXT_IM /\ Len(message) < 10 THEN h ELSE get_text(message)

ShowText ==
  /\ get_type(message) = CMD_TEXT
  /\ \E c \in Stack, h \in Heap :
       shown' = [kind |-> IF get_text_type(message) = TEXT_IM THEN "im"
                          ELSE IF get_text_type(message) = TEXT_STATUS THEN "window" ELSE "line",
                 uid |-> IF get_text_type(message) = TEXT_IM THEN get_from_user(message)
                         ELSE get_user(message, c),
                 text |-> TextShown(h)]
  /\ stage' = "shown"
  /\ UNCHANGED <<want, window, saved, name, message, serverVars, listVars>>

ShowVote ==
  /\ get_type(message) = CMD_VOTE
  /\ shown' = [kind |-> IF get_text_type(message) = VOTE_ACCEPTED THEN "accepted" ELSE "refused",
               uid |-> Number(message, 7, 3), text |-> <<>>]
  /\ stage' = "shown"
  /\ UNCHANGED <<want, window, saved, name, message, serverVars, listVars>>

NameLength(offset) == IF offset > 3 THEN offset - 3 ELSE 3 - offset

\* strncpy of a name into new memory, without the NUL behind it.  A wrong length
\* may write behind the memory, which is not followed.
NameAt(m, at, w, behind) == SubSeq(m, at + 1, IF at + w < Len(m) THEN at + w ELSE Len(m)) \o behind

\* get_first_user
GetFirstUser ==
  /\ get_type(message) = CMD_USERLIST /\ get_text_type(message) = USER_LIST_CURRENT
  /\ \E c, d \in Stack, h \in Heap :
       LET offset == Loose(message, 7, 3, c)
       IN /\ read' = <<[uid |-> Loose(message, 10, 3, d), length |-> NameLength(offset),
                        name |-> NameAt(message, 13, NameLength(offset), h)]>>
          /\ scan' = 7 + 3 + offset
  /\ stage' = "reading"
  /\ UNCHANGED <<want, window, saved, name, message, serverVars, built, shown>>

Show ==
  /\ stage = "answered"
  /\ ShowText \/ ShowVote \/ GetFirstUser

\* Fault: the uid's width is left out of the offset.
NextUserShort ==
  /\ stage = "reading"
  /\ UNCHANGED <<want, window, saved, name, message, serverVars, built>>
  /\ IF Len(read) >= Capacity
     THEN stage' = "overrun" /\ UNCHANGED <<scan, read, shown>>
     ELSE LET offset == Number(message, scan, 3)
              w == NameLength(offset)
          IN IF offset = 0
             THEN stage' = "shown" /\ shown' = [Nothing EXCEPT !.kind = "list"]
                  /\ UNCHANGED <<scan, read>>
             ELSE /\ \E h \in Heap :
                       read' = Append(read, [uid |-> Number(message, scan + 3, 3), length |-> w,
                                             name |-> NameAt(message, scan + 6, w, h)])
                  /\ scan' = scan + 3 + w
                  /\ UNCHANGED <<stage, shown>>

\* One turn of the loop: user_list[user_num] is allocated, and get_next_user fills
\* it or finds that there is none.
GetNextUser ==
  /\ stage = "reading"
  /\ UNCHANGED <<want, window, saved, name, message, serverVars, built>>
  /\ IF Len(read) >= Capacity
     THEN stage' = "overrun" /\ UNCHANGED <<scan, read, shown>>
     ELSE LET offset == Number(message, scan, 3)
              w == NameLength(offset)
          IN IF offset = 0
             THEN stage' = "shown" /\ shown' = [Nothing EXCEPT !.kind = "list"]
                  /\ UNCHANGED <<scan, read>>
             ELSE /\ \E h \in Heap :
                       read' = Append(read, [uid |-> Number(message, scan + 3, 3), length |-> w,
                                             name |-> NameAt(message, scan + 6, w, h)])
                  /\ scan' = scan + 3 + 3 + w
                  /\ UNCHANGED <<stage, shown>>

Next == Ask \/ HandleMessage \/ CreateNextUser \/ Show \/ GetNextUser

Spec == Init /\ [][Next]_vars

-----------------------------------------------------------------------------
(* Properties *)

TypeOK ==
  /\ stage \in {"idle", "sent", "listing", "answered", "reading", "shown",
                "saved", "dropped", "crashed", "overrun"}
  /\ message \in Strings
  /\ saved \in [{"type", "wid", "x", "y", "z", "w", "h"} -> Nat]
  /\ user \in Nat /\ other \in Nat /\ receivers \subseteq Slots
  /\ scan \in Nat /\ built \in Seq(Slots)
  /\ read \in Seq([uid : Nat, length : Nat, name : Strings])
  /\ shown \in [kind : {"nothing", "line", "window", "im", "accepted", "refused", "list"},
               uid : Nat, text : Strings]

\* What the server read is what the client wrote: sender and candidate, and all
\* numbers of a window, whose id is taken for the user.  Only a digit that happens
\* to lie behind an array makes another number of the first of them.  An instant
\* message is built without its receiver: there the writer is read as the receiver,
\* and the first three characters of the text as the writer (main.c:172, 213,
\* 254-255, 289-297, 375, 409; protocol.c:67-69, 144-166, 205-217).
RequestArrives ==
  /\ stage \notin {"idle", "sent", "dropped"} /\ want.kind \notin {"im", "window"} =>
       /\ user \in ReadAs(want.uid)
       /\ other = IF want.kind = "vote" THEN want.to ELSE want.uid
  /\ stage \in {"answered", "shown"} /\ want.kind = "im" =>
       user = Number(want.text, 0, 3) /\ other \in ReadAs(want.uid)
  /\ stage = "saved" =>
       /\ user \in ReadAs(window.wid) /\ saved.wid \in ReadAs(window.wid)
       /\ saved = [window EXCEPT !.wid = saved.wid]

StartsWith(s, t) == SubSeq(s, 1, Len(t)) = t

\* A line and a status reach all others with what was written, digits at its front
\* included, behind the name of who the server took for the writer (they come back
\* to him too, which docs/protocol/README_SERVER:96-98 and 121-122 have otherwise).
LineFits ==
  want.kind \in {"chat", "status"} =>
    /\ Slots \ {user} \subseteq receivers
    /\ want.kind = "chat" => shown.text = Says(user) \o want.text
    /\ want.kind = "status" =>
         /\ shown.kind = "window" /\ shown.uid \in ReadAs(user)
         /\ IF Len(want.text) <= 20 THEN shown.text = Says(user) \o want.text
            ELSE StartsWith(shown.text, Says(user) \o LastOf(want.text))

\* An instant message reaches nobody but its writer, where README_SERVER:163-166
\* has the one it is for, and from each side it loses three characters that are
\* taken for a uid: those of the second three stand for the window it is shown in.
ImFits ==
  want.kind = "im" =>
    /\ receivers \subseteq ReadAs(want.uid)
    /\ shown.kind = "im" /\ shown.uid = Number(want.text, 3, 3)
    /\ Len(want.text) >= 6 => shown.text = From(want.text, 6)

\* What is shown is what was asked for: a line, a status (in the window of who was
\* taken for its writer, if no digit lies behind his uid again; a long one begins
\* with its end), an instant message, with what is wrong about it, or a vote,
\* answered to the voter.  A yell, which README_SERVER:143 has for everyone, is
\* built as an error and never shown (main.c:172-266; protocol.c:67-69, 81-83;
\* clientsocket.c:254-279, 300-318).
AnswersFit ==
  /\ want.kind = "yell" => stage \in {"idle", "sent", "dropped"}
  /\ stage = "shown" =>
       /\ LineFits /\ ImFits
       /\ want.kind = "vote" => receivers = {user} /\ shown.uid = want.to

\* A user as the list has it, with what may be wrong about it: a name is not
\* ended, and for the first user the uid is not either.
AsListed(i, r) ==
  /\ r.uid \in IF i = 1 THEN ReadAs(built[i]) ELSE {built[i]}
  /\ \E h \in Heap : r.name = name[built[i]] \o h

\* A digit behind its first offset, and the list is read from the wrong place on.
Misread == read # <<>> /\ read[1].length # Len(name[built[1]])

\* A user list is read as it was built: the same users in the same order,
\* whatever digits their names start with.  What is wrong comes from behind a
\* copy without end: in a name, in the first uid, or in the first offset.  There
\* is room for a list that is not full (clientsocket.c:331-342, protocol.c:230-290).
ListSurvives ==
  want.kind = "list" =>
    /\ Misread => Stack \intersect 0..9 # {}
    /\ stage = "shown" /\ ~Misread =>
         Len(read) = Len(built) /\ \A i \in DOMAIN built : AsListed(i, read[i])
    /\ stage = "overrun" /\ ~Misread => Len(built) >= Capacity
=============================================================================
