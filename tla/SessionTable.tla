----------------------------- MODULE SessionTable ---------------------------
(***************************************************************************)
(* Who owns a slot of the server: the ten CLIENT_OBJ of SERVER_OBJ, their  *)
(* sockets, their threads, and num_users_connected.                        *)
(*                                                                         *)
(* Three kinds of threads share the slots.  listen_thread accepts          *)
(* connections, fills a free slot and counts it, all without the mutex.    *)
(* client_thread serves one connection and, at its end, frees the slot     *)
(* under the mutex.  The main thread records deep-six votes, and           *)
(* disconnect_user takes a slot from a thread it cancels.                  *)
(*                                                                         *)
(* One action is what a thread does between two points where another can   *)
(* tell the difference; `+= 1' and `-= 1' on num_users_connected are a     *)
(* load and a store, as the unoptimised build has them.  A critical        *)
(* section that writes nothing is one step that needs the mutex free.      *)
(*                                                                         *)
(* A thread is named by the connection it was created for.  What clients   *)
(* say is left out but for their votes (MessagePump has the rest).         *)
(*                                                                         *)
(* `mishaps' records the races of this design as they happen, so that the  *)
(* properties can say what each of them, and nothing else, breaks.         *)
(***************************************************************************)
EXTENDS Integers, Sequences, FiniteSets

CONSTANTS
  NumSlots,     \* MAX_CONNECTIONS, 10 in the server
  Conn,         \* the connections that may come; bounds the run
  NoConn,
  MaxBallots,   \* bound: votes cast in a run
  SpawnMayFail  \* whether pthread_create may fail

ASSUME SlotsAssumption == NumSlots \in Nat \ {0}
ASSUME ConnAssumption == NoConn \notin Conn /\ Conn \cap {"free", "main"} = {}
ASSUME BallotsAssumption == MaxBallots \in Nat /\ SpawnMayFail \in BOOLEAN

Slots == 1..NumSlots
Fds == 1..Cardinality(Conn)   \* every connection can have a descriptor of its own
NoVote == -1

VARIABLES
  mutex,      \* "free", "main" or the thread that holds it
  num,        \* num_users_connected
  slot,       \* the CLIENT_OBJ: sock, connected, thread, vote; and the connections
              \* owner it was last given to and voteBy that cast its vote
  fdTable,    \* the connection each descriptor stands for
  peer,       \* the other end of a connection
  backlog,    \* the connections that wait for accept
  thr,        \* client threads: pc, slot; the file they read, cancel, a register
  lis,        \* listen_thread: pc, the accepted conn and fd, idx, found, a register
  main,       \* CMD_VOTE: pc, idx, count, tally, target, a register, and the
              \* victim that disconnect_user set out to close
  ballots,    \* votes queued for the main thread
  cast,       \* how many votes were ever cast
  mishaps     \* history

netVars == <<fdTable, peer, backlog>>
ballotVars == <<ballots, cast>>
vars == <<mutex, num, slot, netVars, thr, lis, main, ballotVars, mishaps>>

\* init_network and fill_queue.
Init ==
  /\ mutex = "free" /\ num = 0
  /\ slot = [i \in Slots |-> [sock |-> 0, connected |-> FALSE, thread |-> NoConn,
                              vote |-> NoVote, owner |-> NoConn, voteBy |-> NoConn]]
  /\ fdTable = [f \in Fds |-> NoConn]
  /\ peer = [c \in Conn |-> "absent"] /\ backlog = {}
  /\ thr = [c \in Conn |-> [pc |-> "none", slot |-> 0, file |-> NoConn, cancel |-> FALSE,
                            reg |-> 0]]
  /\ lis = [pc |-> "accept", conn |-> NoConn, fd |-> 0, idx |-> 1, found |-> 0, reg |-> 0]
  /\ main = [pc |-> "idle", idx |-> 1, count |-> 0, tally |-> [i \in Slots |-> 0],
             target |-> 0, reg |-> 0, victim |-> NoConn]
  /\ ballots = <<>> /\ cast = 0
  /\ mishaps = {}

Mishaps == {"lost_update", "no_slot", "no_thread", "early_reuse", "early_eject",
            "late_eject", "phantom_eject", "foreign_close"}

Alive == main.pc # "crashed"       \* the process
Mishap(m) == mishaps' = mishaps \cup {m}

\* A store of num loses the updates made since the matching load.
StoreNum(loaded, n) ==
  /\ num' = n
  /\ IF loaded = num THEN UNCHANGED mishaps ELSE Mishap("lost_update")

\* close: a descriptor that is not open is left alone.
Close(f) == fdTable' = [g \in Fds |-> IF g = f THEN NoConn ELSE fdTable[g]]
File(f) == IF f \in Fds THEN fdTable[f] ELSE NoConn

-----------------------------------------------------------------------------
(* The peers *)

PeerArrives(c) ==
  /\ peer[c] = "absent"
  /\ peer' = [peer EXCEPT ![c] = "open"]
  /\ backlog' = backlog \cup {c}
  /\ UNCHANGED <<mutex, num, slot, fdTable, thr, lis, main, ballotVars, mishaps>>

PeerLeaves(c) ==
  /\ peer[c] = "open"
  /\ peer' = [peer EXCEPT ![c] = "closed"]
  /\ UNCHANGED <<mutex, num, slot, fdTable, backlog, thr, lis, main, ballotVars, mishaps>>

-----------------------------------------------------------------------------
(* listen_thread *)

LowestFree(f) == fdTable[f] = NoConn /\ \A g \in 1..(f - 1) : fdTable[g] # NoConn

\* 277.
Accept(c) ==
  /\ lis.pc = "accept"
  /\ c \in backlog
  /\ backlog' = backlog \ {c}
  /\ \E f \in Fds :
       /\ LowestFree(f)
       /\ fdTable' = [fdTable EXCEPT ![f] = c]
       /\ lis' = [lis EXCEPT !.pc = "load", !.conn = c, !.fd = f]
  /\ UNCHANGED <<mutex, num, slot, peer, thr, main, ballotVars, mishaps>>

Admit(room) ==
  /\ lis.pc = "load"
  /\ lis' = [lis EXCEPT !.pc = IF room THEN "scan" ELSE "refuse", !.idx = 1]
  /\ UNCHANGED <<mutex, num, slot, netVars, thr, main, ballotVars, mishaps>>

\* Fault: `<=' for `<'.
LoadNumLate == Admit(num <= NumSlots)

\* 281-285: the number of users is read without the mutex.
LoadNum == Admit(num < NumSlots)

\* 287-293: the first slot that is not connected.
ScanTaken ==
  /\ lis.pc = "scan"
  /\ lis.idx \in Slots /\ slot[lis.idx].connected
  /\ lis' = [lis EXCEPT !.idx = @ + 1]
  /\ UNCHANGED <<mutex, num, slot, netVars, thr, main, ballotVars, mishaps>>

TakeIf(free) ==
  /\ lis.pc = "scan"
  /\ lis.idx \in Slots /\ free
  /\ lis' = [lis EXCEPT !.pc = "occupy", !.found = lis.idx]
  /\ UNCHANGED <<mutex, num, slot, netVars, thr, main, ballotVars, mishaps>>

\* Fault: is_connected is not looked at.
ScanAny == TakeIf(TRUE)

ScanFree == TakeIf(~slot[lis.idx].connected)

\* No slot is free although the count said so: temp_client_obj was never set
\* in this round.  Its stack slot still holds the last round's value.
ScanNone ==
  /\ lis.pc = "scan"
  /\ lis.idx \notin Slots
  /\ lis' = [lis EXCEPT !.pc = "occupy"]
  /\ Mishap("no_slot")
  /\ UNCHANGED <<mutex, num, slot, netVars, thr, main, ballotVars>>

\* The slot's former thread, or disconnect_user, has marked it free and has
\* not yet closed its socket.
HalfFreed(i) ==
  \/ \E t \in Conn : thr[t].pc = "xclose" /\ thr[t].slot = i
  \/ main.pc = "dclose" /\ main.target = i

\* 295-298: vote and lurk keep what the former user left.
Occupy ==
  /\ lis.pc = "occupy" /\ lis.found # 0
  /\ slot' = [slot EXCEPT ![lis.found] =
               [@ EXCEPT !.sock = lis.fd, !.connected = TRUE, !.owner = lis.conn]]
  /\ lis' = [lis EXCEPT !.pc = "spawn"]
  /\ IF HalfFreed(lis.found) THEN Mishap("early_reuse") ELSE UNCHANGED mishaps
  /\ UNCHANGED <<mutex, num, netVars, thr, main, ballotVars>>

\* 300.
Spawn ==
  /\ lis.pc = "spawn"
  /\ slot' = [slot EXCEPT ![lis.found].thread = lis.conn]
  /\ thr' = [thr EXCEPT ![lis.conn] = [@ EXCEPT !.pc = "name", !.slot = lis.found]]
  /\ lis' = [lis EXCEPT !.pc = "incload"]
  /\ UNCHANGED <<mutex, num, netVars, main, ballotVars, mishaps>>

\* A failure is reported on the console and otherwise ignored.
SpawnFails ==
  /\ lis.pc = "spawn" /\ SpawnMayFail
  /\ lis' = [lis EXCEPT !.pc = "incload"]
  /\ Mishap("no_thread")
  /\ UNCHANGED <<mutex, num, slot, netVars, thr, main, ballotVars>>

\* 303, without the mutex.
IncLoad ==
  /\ lis.pc = "incload"
  /\ lis' = [lis EXCEPT !.pc = "incstore", !.reg = num]
  /\ UNCHANGED <<mutex, num, slot, netVars, thr, main, ballotVars, mishaps>>

NextRound == [lis EXCEPT !.pc = "accept", !.conn = NoConn, !.fd = 0, !.idx = 1, !.reg = 0]

IncStore ==
  /\ lis.pc = "incstore"
  /\ StoreNum(lis.reg, lis.reg + 1)
  /\ lis' = NextRound
  /\ UNCHANGED <<mutex, slot, netVars, thr, main, ballotVars>>

\* 306-313.
Refuse ==
  /\ lis.pc = "refuse"
  /\ Close(lis.fd)
  /\ lis' = NextRound
  /\ UNCHANGED <<mutex, num, slot, peer, backlog, thr, main, ballotVars, mishaps>>

Listener ==
  \/ \E c \in Conn : Accept(c)
  \/ LoadNum \/ ScanTaken \/ ScanFree \/ ScanNone \/ Occupy
  \/ Spawn \/ SpawnFails \/ IncLoad \/ IncStore \/ Refuse

-----------------------------------------------------------------------------
(* client_thread *)

At(t, pc) == thr[t].pc = pc
Uncancelled(t, pc) == At(t, pc) /\ ~thr[t].cancel
Goto(t, pc) == thr' = [thr EXCEPT ![t].pc = pc]
GotoReading(t, pc, c) == thr' = [thr EXCEPT ![t] = [@ EXCEPT !.pc = pc, !.file = c]]

\* The thread looks its descriptor up in the slot each time it needs it.
Fd(t) == slot[thr[t].slot].sock

\* A thread with a pending cancel ends at its next cancellation point:
\* pthread_testcancel, read and write, and the printf calls if they reach
\* the console.
Cancelled(t) ==
  /\ thr[t].cancel
  /\ thr[t].pc \in {"name", "top", "read", "exit"}
  /\ GotoReading(t, "dead", NoConn)
  /\ UNCHANGED <<mutex, num, slot, netVars, lis, main, ballotVars, mishaps>>

\* 337-356: the name is read and the uid written, whatever they return.
SignOn(t) ==
  /\ Uncancelled(t, "name")
  /\ Goto(t, "top")
  /\ UNCHANGED <<mutex, num, slot, netVars, lis, main, ballotVars, mishaps>>

\* 361-370: the look at the queue, and read finds the open file.
EnterRead(t) ==
  /\ Uncancelled(t, "top") /\ mutex = "free"
  /\ GotoReading(t, "read", File(Fd(t)))
  /\ UNCHANGED <<mutex, num, slot, netVars, lis, main, ballotVars, mishaps>>

\* read returns a vote of the peer, which names its sender by the uid it was
\* told.
ReadVote(t, v) ==
  LET c == thr[t].file
  IN  /\ Uncancelled(t, "read")
      /\ c # NoConn /\ peer[c] = "open" /\ thr[c].pc \notin {"none", "name"}
      /\ cast < MaxBallots
      /\ cast' = cast + 1
      /\ thr' = [thr EXCEPT ![t] = [@ EXCEPT !.pc = "lock", !.reg = v]]
      /\ UNCHANGED <<mutex, num, slot, netVars, lis, main, ballots, mishaps>>

\* read fails on a closed descriptor; -1 is taken for data and the thread
\* goes round.
ReadFails(t) ==
  /\ Uncancelled(t, "read") /\ mutex = "free"
  /\ thr[t].file = NoConn
  /\ Goto(t, "top")
  /\ UNCHANGED <<mutex, num, slot, netVars, lis, main, ballotVars, mishaps>>

\* 390-394, 407-411.
Enqueue(t) ==
  LET c == thr[t].file
  IN  /\ At(t, "lock") /\ mutex = "free"
      /\ ballots' = Append(ballots, [user |-> thr[c].slot, by |-> c, for |-> thr[t].reg])
      /\ thr' = [thr EXCEPT ![t] = [@ EXCEPT !.pc = "top", !.file = NoConn, !.reg = 0]]
      /\ UNCHANGED <<mutex, num, slot, netVars, lis, main, cast, mishaps>>

EndOfFile(t) ==
  /\ Uncancelled(t, "read")
  /\ thr[t].file # NoConn /\ peer[thr[t].file] = "closed"
  /\ GotoReading(t, "exit", NoConn)
  /\ UNCHANGED <<mutex, num, slot, peer, backlog, lis, main, ballotVars, mishaps>>

\* Fault: the socket is closed here and once more on the way out.
ReadEndCloses(t) == EndOfFile(t) /\ Close(Fd(t))

\* 373, 403: read returns 0.
ReadEnd(t) == EndOfFile(t) /\ UNCHANGED fdTable

\* Past the last printf, on the way to the mutex.
PassPrint(t) ==
  /\ At(t, "exit")
  /\ Goto(t, "xlock")
  /\ UNCHANGED <<mutex, num, slot, netVars, lis, main, ballotVars, mishaps>>

\* 423-427.
FreeSlot(t) ==
  /\ At(t, "xlock")
  /\ mutex = "free" /\ mutex' = t
  /\ slot' = [slot EXCEPT ![thr[t].slot].connected = FALSE]
  /\ Goto(t, "xclose")
  /\ UNCHANGED <<num, netVars, lis, main, ballotVars, mishaps>>

\* 428-429: the socket the slot has by now is closed, and num loaded.
CloseSocket(t) ==
  /\ Uncancelled(t, "xclose")
  /\ Close(Fd(t))
  /\ thr' = [thr EXCEPT ![t] = [@ EXCEPT !.pc = "xstore", !.reg = num]]
  /\ IF File(Fd(t)) \in {t, NoConn} THEN UNCHANGED mishaps ELSE Mishap("foreign_close")
  /\ UNCHANGED <<mutex, num, slot, peer, backlog, lis, main, ballotVars>>

\* close is a cancellation point: a thread whose cancel is pending ends there
\* with the mutex locked.
DieLocked(t) ==
  /\ At(t, "xclose") /\ thr[t].cancel
  /\ Goto(t, "dead")
  /\ UNCHANGED <<mutex, num, slot, netVars, lis, main, ballotVars, mishaps>>

End(t, change, lock) ==
  /\ At(t, "xstore")
  /\ StoreNum(thr[t].reg, thr[t].reg + change)
  /\ mutex' = lock
  /\ thr' = [thr EXCEPT ![t] = [@ EXCEPT !.pc = "dead", !.reg = 0]]
  /\ UNCHANGED <<slot, netVars, lis, main, ballotVars>>

\* Fault: the thread ends without unlocking.
UncountKeepingLock(t) == End(t, -1, mutex)

\* Fault: the user is not taken off the count.
UncountNot(t) == End(t, 0, "free")

\* 429-434.
Uncount(t) == End(t, -1, "free")

Thread(t) ==
  \/ SignOn(t) \/ EnterRead(t) \/ ReadFails(t) \/ Enqueue(t)
  \/ ReadEnd(t) \/ PassPrint(t) \/ FreeSlot(t) \/ CloseSocket(t) \/ Uncount(t)
  \/ Cancelled(t) \/ DieLocked(t)

-----------------------------------------------------------------------------
(* handle_messages: CMD_VOTE *)

Record(first) ==
  LET b == Head(ballots)
  IN  /\ main.pc = "idle" /\ mutex = "free"
      /\ ballots # <<>> /\ ballots' = Tail(ballots)
      /\ slot' = IF slot[b.user].vote = b.for THEN slot
                 ELSE [slot EXCEPT ![b.user] = [@ EXCEPT !.vote = b.for, !.voteBy = b.by]]
      /\ main' = [main EXCEPT !.pc = "count", !.idx = first, !.count = 0]
      /\ UNCHANGED <<mutex, num, netVars, thr, lis, cast, mishaps>>

\* 296-306: the vote is the slot's, whoever holds the slot by now.
RecordVote == Record(1)

Votes(i) == slot[i].connected /\ slot[i].vote # NoVote

\* 320-328.
CountVote ==
  /\ main.pc = "count" /\ main.idx \in Slots
  /\ mutex = "free"
  /\ main' = [main EXCEPT !.count = @ + (IF Votes(main.idx) THEN 1 ELSE 0), !.idx = @ + 1]
  /\ UNCHANGED <<mutex, num, slot, netVars, thr, lis, ballotVars, mishaps>>

\* 330: num is read without the mutex.
Compare ==
  /\ main.pc = "count" /\ main.idx \notin Slots
  /\ main' = [main EXCEPT !.pc = IF main.count = num THEN "tally" ELSE "idle",
                          !.idx = 1, !.count = 0]
  /\ UNCHANGED <<mutex, num, slot, netVars, thr, lis, ballotVars, mishaps>>

\* 337-338.
Tallied(i) ==
  IF Votes(i) THEN [main.tally EXCEPT ![slot[i].vote] = @ + 1] ELSE main.tally

\* 334-342.
TallyVote ==
  /\ main.pc = "tally" /\ main.idx \in Slots
  /\ mutex = "free"
  /\ main' = [main EXCEPT !.tally = Tallied(main.idx), !.idx = @ + 1]
  /\ UNCHANGED <<mutex, num, slot, netVars, thr, lis, ballotVars, mishaps>>

\* 344-349: the first slot with the fewest votes.
VotedOff(i) ==
  /\ \A j \in Slots : main.tally[i] <= main.tally[j]
  /\ \A j \in 1..(i - 1) : main.tally[i] < main.tally[j]

Choose ==
  /\ main.pc = "tally" /\ main.idx \notin Slots
  /\ \E i \in Slots :
       /\ VotedOff(i)
       /\ main' = [main EXCEPT !.pc = "dlock", !.target = i, !.idx = 1]
  /\ UNCHANGED <<mutex, num, slot, netVars, thr, lis, ballotVars, mishaps>>

\* What is wrong with ejecting slot i at this moment: nobody is there, the
\* user's thread is not yet known, or it has already seen the end of its
\* connection.
EjectMishap(i) ==
  {m \in Mishaps :
     \/ m = "phantom_eject" /\ ~slot[i].connected
     \/ m = "early_eject" /\ slot[i].connected /\ slot[i].thread # slot[i].owner
     \/ m = "late_eject" /\ thr[slot[i].thread].pc \in {"exit", "xlock"}}

Disconnect ==
  LET i == main.target
  IN  /\ main.pc = "dlock" /\ slot[i].thread # NoConn
      /\ mutex = "free" /\ mutex' = "main"
      /\ slot' = [slot EXCEPT ![i].connected = FALSE]
      /\ main' = [main EXCEPT !.pc = "dclose", !.victim = slot[i].owner]
      /\ mishaps' = mishaps \cup EjectMishap(i)
      /\ UNCHANGED <<num, netVars, lis, ballotVars>>

\* disconnect_user, 511-516.  A thread that has ended is left alone by
\* pthread_cancel.
Eject ==
  /\ Disconnect
  /\ thr' = [thr EXCEPT ![slot[main.target].thread].cancel = @ \/
               thr[slot[main.target].thread].pc # "dead"]

\* pthread_cancel of a slot that never had a thread follows a null pointer,
\* and the process ends with all its threads.
EjectCrash ==
  /\ main.pc = "dlock" /\ slot[main.target].thread = NoConn
  /\ mutex = "free"
  /\ main' = [main EXCEPT !.pc = "crashed"]
  /\ lis' = [lis EXCEPT !.pc = "crashed"]
  /\ thr' = [c \in Conn |-> [thr[c] EXCEPT !.pc = IF @ = "none" THEN "none" ELSE "dead"]]
  /\ UNCHANGED <<mutex, num, slot, netVars, ballotVars, mishaps>>

\* 517-518, and the load of main.c:352.
EjectClose ==
  LET f == slot[main.target].sock
  IN  /\ main.pc = "dclose"
      /\ Close(f)
      /\ mutex' = "free"
      /\ main' = [main EXCEPT !.pc = "decstore", !.reg = num, !.victim = NoConn]
      /\ IF File(f) \in {main.victim, NoConn} THEN UNCHANGED mishaps ELSE Mishap("foreign_close")
      /\ UNCHANGED <<num, slot, peer, backlog, thr, lis, ballotVars>>

\* main.c:352, without the mutex.
DecStore ==
  /\ main.pc = "decstore"
  /\ StoreNum(main.reg, main.reg - 1)
  /\ main' = [main EXCEPT !.pc = "reset", !.reg = 0]
  /\ UNCHANGED <<mutex, slot, netVars, thr, lis, ballotVars>>

\* 355-361: only the main thread looks at votes, so one step resets them all.
ResetVotes ==
  /\ main.pc = "reset" /\ mutex = "free"
  /\ slot' = [i \in Slots |-> [slot[i] EXCEPT !.vote = NoVote, !.voteBy = NoConn]]
  /\ main' = [main EXCEPT !.pc = "idle", !.tally = [i \in Slots |-> 0], !.target = 0]
  /\ UNCHANGED <<mutex, num, netVars, thr, lis, ballotVars, mishaps>>

MainThread ==
  \/ RecordVote \/ CountVote \/ Compare \/ TallyVote \/ Choose
  \/ Eject \/ EjectCrash \/ EjectClose \/ DecStore \/ ResetVotes

-----------------------------------------------------------------------------

Next ==
  \/ \E c \in Conn : PeerArrives(c) \/ PeerLeaves(c) \/ Thread(c)
  \/ \E c \in Conn, v \in Slots : ReadVote(c, v)
  \/ Listener
  \/ MainThread

Spec == Init /\ [][Next]_vars

\* Every thread of the server is scheduled; a client may stay silent, and
\* need not come or leave.
FairSpec ==
  /\ Spec
  /\ \A c \in Conn : WF_vars(Thread(c))
  /\ WF_vars(Listener)
  /\ WF_vars(MainThread)

-----------------------------------------------------------------------------
(* Safety.  Each property names the races that break it; a run of the      *)
(* server in which none of those has happened keeps it.                    *)

ThreadPc == {"none", "name", "top", "read", "lock", "exit", "xlock", "xclose", "xstore", "dead"}
ListenPc == {"accept", "load", "scan", "occupy", "spawn", "incload", "incstore", "refuse",
             "crashed"}
MainPc == {"idle", "count", "tally", "dlock", "dclose", "decstore", "reset", "crashed"}

MaybeConn == Conn \cup {NoConn}
Ballot == [user : Slots, by : Conn, for : Slots]
SlotRec == [sock : Fds \cup {0}, connected : BOOLEAN, thread : MaybeConn,
            vote : Slots \cup {NoVote}, owner : MaybeConn, voteBy : MaybeConn]
ThreadRec == [pc : ThreadPc, slot : Slots \cup {0}, file : MaybeConn, cancel : BOOLEAN,
              reg : Int]
ListenRec == [pc : ListenPc, conn : MaybeConn, fd : Fds \cup {0}, idx : 1..(NumSlots + 1),
              found : Slots \cup {0}, reg : Int]
MainRec == [pc : MainPc, idx : 1..(NumSlots + 1), count : 0..NumSlots,
            tally : [Slots -> 0..NumSlots], target : Slots \cup {0}, reg : Int,
            victim : MaybeConn]

\* Every variable keeps its type: no index leaves the table of slots, a
\* count of votes stays below their number, and locks have holders.
SharedType ==
  /\ mutex \in Conn \cup {"free", "main"} /\ num \in Int
  /\ fdTable \in [Fds -> MaybeConn]
  /\ peer \in [Conn -> {"absent", "open", "closed"}] /\ backlog \subseteq Conn
  /\ ballots \in Seq(Ballot) /\ cast \in 0..MaxBallots
  /\ mishaps \subseteq Mishaps
TypeOK ==
  /\ SharedType
  /\ slot \in [Slots -> SlotRec] /\ thr \in [Conn -> ThreadRec]
  /\ lis \in ListenRec /\ main \in MainRec

Happened(S) == mishaps \cap S # {}
BadEject == {"early_eject", "late_eject", "phantom_eject"}

Online == {i \in Slots : slot[i].connected}
Leaving == {t \in Conn : thr[t].pc \in {"xclose", "xstore"}}
One(b) == IF b THEN 1 ELSE 0

\* num_users_connected is the number of connected slots, give or take the
\* user each thread is about to count or uncount, until two updates of it
\* overlap or a slot is ejected that is empty, not yet running or already
\* leaving (bc_network.c:303, 429, main.c:352).
CounterExact ==
  \/ Happened({"lost_update"} \cup BadEject) \/ ~Alive
  \/ num = Cardinality(Online) - One(lis.pc \in {"spawn", "incload", "incstore"})
           + Cardinality(Leaving) + One(main.pc \in {"dclose", "decstore"})

\* A count below MAX_CONNECTIONS means that the listener will find a free
\* slot, which it relies on (bc_network.c:285-295), until an update was lost
\* or a user was uncounted twice.
RoomMeansSlot ==
  Happened({"no_slot"}) => Happened({"lost_update", "early_eject", "phantom_eject"})

\* No thread ends with the mutex locked, which would stop every client and
\* the main thread for good, unless it was ejected when its connection had
\* ended: close at bc_network.c:428 is then where the cancel takes effect.
Orphaned == mutex \in Conn /\ thr[mutex].pc = "dead"
NotOrphaned == Orphaned => Happened({"late_eject"})

\* Nobody closes the socket of a connection that is not its own, and a client
\* thread reads from its own client, never from a later holder of its slot or
\* of its descriptor, unless a slot was given away between is_connected = false
\* and close, or twice, or ejected when it was not its user's (bc_network.c:370,
\* 400, 426-428, main.c:516-517).
UsesOwn ==
  \/ Happened({"early_reuse", "no_slot", "early_eject", "phantom_eject"})
  \/ /\ ~Happened({"foreign_close"})
     /\ \A t \in Conn : Uncancelled(t, "read") => thr[t].file = t

\* A vote counts as another user's only when he who cast it is gone, whose
\* slot that user has got: docs/SPECS:136-137 wants no such vote either, but
\* nothing clears them (main.c:304-318, bc_network.c:426).  Once the mutex is
\* lost no vote is counted any more.
VotesAreOwn ==
  \/ Happened({"early_reuse", "no_slot", "early_eject", "phantom_eject"}) \/ Orphaned
  \/ \A i \in Slots :
       Votes(i) /\ slot[i].voteBy # slot[i].owner =>
         thr[slot[i].voteBy].pc \in {"xstore", "dead"} \/ thr[slot[i].voteBy].cancel

\* docs/SPECS:137-138: "If a user gets deep-six votes equal to a majority
\* (more than half) of the users online, that user is ejected."  A user with
\* that many votes is the one disconnect_user is called for.
MajorityIsEjected ==
  main.pc = "dlock" => \A i \in Slots : 2 * main.tally[i] > Cardinality(Online) => main.target = i

-----------------------------------------------------------------------------
(* Liveness *)

\* What can keep a thread from its end: the process crashed, the mutex is
\* lost, or the thread serves a slot or a descriptor that is not its own.
Derailed ==
  \/ ~Alive
  \/ Happened({"early_reuse", "no_slot"} \cup BadEject)

\* The thread of a client that has left ends.
LeaverIsReaped == \A c \in Conn : peer[c] = "closed" /\ thr[c].pc # "none" ~> thr[c].pc = "dead" \/ Derailed

\* When every client that came has left, the count comes back to zero and
\* stays there, so that the server has its full room again.
CountDrains ==
  (\A c \in Conn : peer[c] = "closed") ~>
    [](num = 0 \/ Derailed \/ Happened({"lost_update", "no_thread"}))
=============================================================================
