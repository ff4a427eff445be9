------------------------------ MODULE Commands ------------------------------
(***************************************************************************)
(* What the server knows of a user (server/main.c:126-474, the sign-on in  *)
(* server/bc_network.c): names, lurk flags, user lists, saved windows.     *)
(*                                                                         *)
(* All of it is kept with the slot, not with the user.  A slot goes on to  *)
(* its next user while messages of the last one are still queued, and the  *)
(* main thread reads it without the mutex.                                 *)
(*                                                                         *)
(* A user is one session here, and knows his uid when he sends.  The       *)
(* client sends lines and lurk messages; user lists and windows are sent   *)
(* as README_CLIENT has them (in client.c CTRL-^ is compiled out, and      *)
(* write_window_session is empty).  A write does not block.                *)
(***************************************************************************)
EXTENDS Integers, Sequences, FiniteSets

CONSTANTS
  N,        \* slots, 10
  People,
  Nobody,   \* no one, and the name of a slot that never had one
  Wids,     \* window ids
  Kinds,    \* what is sent: part of {"chat", "lurk", "list", "window"}
  Joins,    \* a read may take several messages
  MaxSent   \* bound: messages of all users

Slots == 1..N

ASSUME SlotAssumption == N \in Nat \ {0}
ASSUME PeopleAssumption == Nobody \notin People
ASSUME KindAssumption == Kinds \subseteq {"chat", "lurk", "list", "window"}
ASSUME BoundAssumption == MaxSent \in Nat /\ Joins \in BOOLEAN

VARIABLES
  at,       \* of a user: "away", "slot", "cleared", "on", "closed", "gone"
  slot,     \* his slot, once he had one
  occupant, \* of a slot that is_connected, Nobody otherwise
  name,     \* user_data->name, as the user it belongs to
  lurk,     \* user_data->lurk
  lurking,  \* is_lurking, at the client
  pipe,     \* messages sent and not read
  queue,    \* messages for the main thread
  list,     \* the user list being made: uid, whose name the length is of, name
  entry,    \* what is being added to it, {} or {<<uid, length>>}
  asker,    \* the uid it is for
  scan,     \* the slot looked at next
  files,    \* the saved session at the path made for a window id
  sent,     \* history: how many messages were sent
  said,     \* history: what was said to all last, and of whom
  answers,  \* history: the last list, and who was there all the time
  steady,   \* history: who is signed on since the list was begun
  inherits, \* history: the slot's flag was set when he got it, or was to be
  dropped   \* history: his lurk messages that were not understood

userVars == <<at, slot, occupant>>
mainVars == <<lurk, list, entry, asker, scan, files, said, answers>>
vars == <<userVars, mainVars, steady, name, lurking, pipe, queue, sent, inherits, dropped>>

Init ==
  /\ at = [p \in People |-> "away"]
  /\ slot = [p \in People |-> 1]
  /\ occupant = [c \in Slots |-> Nobody]
  /\ name = [c \in Slots |-> Nobody]
  /\ lurk = [c \in Slots |-> FALSE]
  /\ lurking = [p \in People |-> FALSE]
  /\ pipe = [p \in People |-> <<>>]
  /\ queue = <<>>
  /\ list = {} /\ entry = {} /\ asker = 1 /\ scan = N + 1
  /\ files = [w \in Wids |-> Nobody]
  /\ sent = 0
  /\ said = {} /\ answers = {} /\ steady = {}
  /\ inherits = [p \in People |-> FALSE]
  /\ dropped = [p \in People |-> 0]

-----------------------------------------------------------------------------
(* Coming and going *)

LurksOf(c, s) == Cardinality({i \in DOMAIN s : s[i].kind = "lurk" /\ s[i].user = c})

\* What the flag will be when all that is queued has been handled.
FlagToBe(c) == lurk[c] # (LurksOf(c, queue) % 2 = 1)

\* listen_thread: the lowest free slot.  Nothing in it is reset.
Accept(p) ==
  /\ at[p] = "away"
  /\ \E c \in Slots :
       /\ occupant[c] = Nobody
       /\ \A d \in 1..c - 1 : occupant[d] # Nobody
       /\ slot' = [slot EXCEPT ![p] = c]
       /\ occupant' = [occupant EXCEPT ![c] = p]
       /\ inherits' = [inherits EXCEPT ![p] = FlagToBe(c)]
  /\ at' = [at EXCEPT ![p] = "slot"]
  /\ UNCHANGED <<mainVars, steady, name, lurking, pipe, queue, sent, dropped>>

\* client_thread: memset of the name ...
ClearName(p) ==
  /\ at[p] = "slot"
  /\ at' = [at EXCEPT ![p] = "cleared"]
  /\ name' = [name EXCEPT ![slot[p]] = Nobody]
  /\ UNCHANGED <<mainVars, steady, slot, occupant, lurking, pipe, queue, sent, inherits, dropped>>

\* Fault: the name of the slot's first user stays.
SetNameOnce(p) ==
  /\ at[p] = "cleared"
  /\ at' = [at EXCEPT ![p] = "on"]
  /\ name' = [name EXCEPT ![slot[p]] =
       IF \E q \in People : at[q] = "gone" /\ slot[q] = slot[p]
         THEN CHOOSE q \in People : at[q] = "gone" /\ slot[q] = slot[p] ELSE p]
  /\ UNCHANGED <<mainVars, steady, slot, occupant, lurking, pipe, queue, sent, inherits, dropped>>

\* ... get_user_name_message, and the uid is written.
SetName(p) ==
  /\ at[p] = "cleared"
  /\ at' = [at EXCEPT ![p] = "on"]
  /\ name' = [name EXCEPT ![slot[p]] = p]
  /\ UNCHANGED <<mainVars, steady, slot, occupant, lurking, pipe, queue, sent, inherits, dropped>>

\* The user quits.
Quit(p) ==
  /\ at[p] = "on"
  /\ at' = [at EXCEPT ![p] = "closed"]
  /\ UNCHANGED <<mainVars, steady, slot, occupant, name, lurking, pipe, queue, sent, inherits, dropped>>

\* End of file: the slot is free, its name and flag stay.
LogOff(p) ==
  /\ at[p] = "closed" /\ pipe[p] = <<>>
  /\ at' = [at EXCEPT ![p] = "gone"]
  /\ occupant' = [occupant EXCEPT ![slot[p]] = Nobody]
  /\ steady' = steady \ {p}
  /\ UNCHANGED <<mainVars, slot, name, lurking, pipe, queue, sent, inherits, dropped>>

-----------------------------------------------------------------------------
(* Messages *)

Put(p, m) ==
  /\ at[p] = "on" /\ sent < MaxSent /\ m.kind \in Kinds
  /\ pipe' = [pipe EXCEPT ![p] = Append(@, m)]
  /\ sent' = sent + 1
  /\ UNCHANGED <<userVars, mainVars, steady, name, queue, inherits, dropped>>

\* write_out, request_user_list
Say(p) ==
  /\ ~lurking[p]
  /\ \E k \in {"chat", "list"} : Put(p, [kind |-> k, user |-> slot[p], by |-> p])
  /\ UNCHANGED lurking

\* CTRL-L: write_lurk says that it changed, not to what.
Lurk(p) ==
  /\ Put(p, [kind |-> "lurk", user |-> slot[p], by |-> p, to |-> ~lurking[p]])
  /\ lurking' = [lurking EXCEPT ![p] = ~@]

\* create_window_message: where other messages have the user, this one has the
\* window's id.
SendWindow(p) ==
  /\ \E w \in Wids : Put(p, [kind |-> "window", user |-> w, wid |-> w, by |-> p])
  /\ UNCHANGED lurking

\* client_thread: one read and enqueue.  Of what arrives together only the first
\* message is understood.
Receive(p) ==
  /\ at[p] \in {"on", "closed"}
  /\ \E k \in 1..Len(pipe[p]) :
       /\ k > 1 => Joins
       /\ queue' = Append(queue, pipe[p][1])
       /\ pipe' = [pipe EXCEPT ![p] = SubSeq(@, k + 1, Len(@))]
       /\ dropped' = [dropped EXCEPT ![p] =
            @ + Cardinality({i \in 2..k : pipe[p][i].kind = "lurk"})]
  /\ UNCHANGED <<userVars, mainVars, steady, name, lurking, sent, inherits>>

-----------------------------------------------------------------------------
(* The main thread *)

\* No list is being made.
Idle == list = {} /\ entry = {}

\* What is said of a user has the name his slot has now.
Announce(m, text) ==
  said' =
    {[by |-> m.by, name |-> name[m.user], here |-> occupant[m.user] = m.by, text |-> text]}

\* CMD_TEXT
HandleChat(m) ==
  /\ Announce(m, "line")
  /\ UNCHANGED <<lurk, list, entry, asker, scan, files, answers, steady>>

\* Fault: the flag is only ever set.
HandleLurkSets(m) ==
  /\ lurk' = [lurk EXCEPT ![m.user] = TRUE]
  /\ Announce(m, IF m.to THEN "right" ELSE "wrong")
  /\ UNCHANGED <<list, entry, asker, scan, files, answers, steady>>

\* CMD_LURK: the flag is turned, and its new value is said.
HandleLurk(m) ==
  /\ lurk' = [lurk EXCEPT ![m.user] = ~@]
  /\ Announce(m, IF lurk'[m.user] = m.to THEN "right" ELSE "wrong")
  /\ UNCHANGED <<list, entry, asker, scan, files, answers, steady>>

SignedOn == {p \in People : at[p] \in {"on", "closed"}}

\* CMD_USERLIST: create_first_user for the one who asked begins with the length of
\* his name ...
HandleList(m) ==
  /\ entry' = {<<m.user, name[m.user]>>} /\ list' = {}
  /\ asker' = m.user /\ scan' = 1
  /\ steady' = SignedOn
  /\ UNCHANGED <<lurk, files, said, answers>>

\* CMD_WINDOW: save_user_window, which may not find the directory.
HandleWindow(m) ==
  /\ UNCHANGED files \/ files' = [files EXCEPT ![m.wid] = m.by]
  /\ UNCHANGED <<lurk, list, entry, asker, scan, said, answers, steady>>

Handle ==
  /\ Idle /\ queue # <<>>
  /\ queue' = Tail(queue)
  /\ LET m == Head(queue)
     IN \/ m.kind = "chat" /\ HandleChat(m)
        \/ m.kind = "lurk" /\ HandleLurk(m)
        \/ m.kind = "list" /\ HandleList(m)
        \/ m.kind = "window" /\ HandleWindow(m)
  /\ UNCHANGED <<userVars, name, lurking, pipe, sent, inherits, dropped>>

\* ... and reads the name once more to write it.
WriteEntry ==
  /\ entry # {} /\ entry' = {}
  /\ list' = list \cup {<<e[1], e[2], name[e[1]]>> : e \in entry}
  /\ UNCHANGED <<userVars, lurk, asker, scan, files, said, answers, steady>>
  /\ UNCHANGED <<name, lurking, pipe, queue, sent, inherits, dropped>>

\* Fault: the loop ends one slot early.
ListShort ==
  /\ ~Idle /\ entry = {} /\ scan <= N
  /\ entry' = IF occupant[scan] # Nobody /\ scan # asker /\ scan < N THEN {<<scan, name[scan]>>} ELSE {}
  /\ scan' = scan + 1
  /\ UNCHANGED <<userVars, lurk, list, asker, files, said, answers, steady>>
  /\ UNCHANGED <<name, lurking, pipe, queue, sent, inherits, dropped>>

\* So does create_next_user for each other slot ...
ListNext ==
  /\ ~Idle /\ entry = {} /\ scan <= N
  /\ entry' = IF occupant[scan] # Nobody /\ scan # asker THEN {<<scan, name[scan]>>} ELSE {}
  /\ scan' = scan + 1
  /\ UNCHANGED <<userVars, lurk, list, asker, files, said, answers, steady>>
  /\ UNCHANGED <<name, lurking, pipe, queue, sent, inherits, dropped>>

\* ... and the list is written to the one who asked.
ListDone ==
  /\ ~Idle /\ entry = {} /\ scan > N
  /\ list' = {}
  /\ answers' = {[of |-> asker, list |-> list, steady |-> steady]}
  /\ UNCHANGED <<userVars, lurk, entry, asker, scan, files, said, steady>>
  /\ UNCHANGED <<name, lurking, pipe, queue, sent, inherits, dropped>>

-----------------------------------------------------------------------------

UserStep(p) == Say(p) \/ Lurk(p) \/ SendWindow(p) \/ Quit(p)
ThreadStep(p) == ClearName(p) \/ SetName(p) \/ Receive(p) \/ LogOff(p)

Next ==
  \/ \E p \in People : UserStep(p) \/ ThreadStep(p) \/ Accept(p)
  \/ Handle \/ WriteEntry \/ ListNext \/ ListDone

Spec == Init /\ [][Next]_vars

-----------------------------------------------------------------------------
(* Properties *)

Messages ==
  [kind : {"chat", "list"}, user : Slots, by : People]
    \cup [kind : {"lurk"}, user : Slots, by : People, to : BOOLEAN]
    \cup [kind : {"window"}, user : Wids, wid : Wids, by : People]

Somebody == People \cup {Nobody}

TypeOK ==
  /\ at \in [People -> {"away", "slot", "cleared", "on", "closed", "gone"}]
  /\ slot \in [People -> Slots]
  /\ occupant \in [Slots -> Somebody] /\ name \in [Slots -> Somebody]
  /\ lurk \in [Slots -> BOOLEAN] /\ lurking \in [People -> BOOLEAN]
  /\ pipe \in [People -> Seq(Messages)] /\ queue \in Seq(Messages)
  /\ list \subseteq Slots \X Somebody \X Somebody
  /\ entry \subseteq Slots \X Somebody /\ asker \in Slots /\ scan \in 1..N + 1
  /\ files \in [Wids -> Somebody]
  /\ sent \in 0..MaxSent

\* While a user is in his slot, what is said of him has his name: no thread has
\* named the slot for another, and none of his messages is handled before his
\* name was read (bc_network.c:337-340, main.c:174, 413).
WriterNamed == \A s \in said : s.here => s.name = s.by

\* A list has everybody who was signed on while it was made, with his own name and
\* its length, whoever else comes and goes, and one line for a uid.  Only who came
\* or left meanwhile can be listed with the length of one name and the text of
\* another, which throws a client off (main.c:380-387; protocol.c:305-314).
ListsAreWhole ==
  \A a \in answers :
    /\ \A p \in a.steady : <<slot[p], p, p>> \in a.list
    /\ \A x, y \in a.list : x[1] = y[1] => x = y

\* All are told rightly whether a user lurks, if each of his messages was
\* understood and the slot's flag was off when he came (main.c:412-432;
\* README_SERVER:186 has no such condition).
LurkIsTold == \A s \in said : s.text = "wrong" => dropped[s.by] > 0 \/ inherits[s.by]
=============================================================================
