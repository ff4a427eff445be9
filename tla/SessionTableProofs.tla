------------------------- MODULE SessionTableProofs -------------------------
(***************************************************************************)
(* Theorems about SessionTable, for any number of slots, connections and   *)
(* votes: its types, that only a late ejection can lose the mutex, that    *)
(* num_users_connected is exact and the listener finds a slot, that every  *)
(* thread uses its own connection, and whose a vote is.  Each of the last  *)
(* four holds until one of the races happens that the property names.      *)
(*                                                                         *)
(* Inv gives types and the mutex.  TableInv to OwnInv say who has a slot,  *)
(* CountInv how many do; UseInv adds the descriptors and VoteInv the votes.*)
(***************************************************************************)
EXTENDS SessionTable, FiniteSetTheorems, TLAPS

\* A thread that runs has a slot, and one about to enqueue a vote holds one.
ThreadInv ==
  \A t \in Conn :
    /\ thr[t].pc # "none" => thr[t].slot \in Slots
    /\ thr[t].pc = "lock" => /\ thr[t].file \in Conn
                             /\ thr[thr[t].file].slot \in Slots
                             /\ thr[t].reg \in Slots

\* A connection that has not come, waits or is being placed has no thread.
Placing == {"load", "scan", "occupy", "spawn", "refuse"}
ListenInv ==
  /\ lis.pc \in Placing => /\ lis.conn \in Conn
                           /\ thr[lis.conn].pc = "none"
                           /\ lis.conn \notin backlog
                           /\ peer[lis.conn] # "absent"
  /\ lis.pc = "spawn" => lis.found \in Slots
  /\ \A c \in backlog : thr[c].pc = "none" /\ peer[c] # "absent"
  /\ \A c \in Conn : peer[c] = "absent" => thr[c].pc = "none"

\* Counts of votes stay behind the index of their loop.
MainInv ==
  /\ main.pc = "count" => main.count < main.idx
  /\ main.pc \in {"dlock", "dclose", "decstore"} => main.target \in Slots
  /\ main.pc \in {"idle", "count"} => \A i \in Slots : main.tally[i] = 0
  /\ main.pc = "tally" => \A i \in Slots : main.tally[i] < main.idx

\* Who holds the mutex, and who can die with it.
LockInv ==
  /\ mutex = "main" <=> main.pc = "dclose"
  /\ \A t \in Conn : thr[t].pc \in {"xclose", "xstore"} => mutex = t
  /\ \A t \in Conn : mutex = t => \/ thr[t].pc \in {"xclose", "xstore"}
                                  \/ thr[t].pc = "dead" /\ "late_eject" \in mishaps
  /\ \A t \in Conn : thr[t].cancel /\ thr[t].pc \in {"exit", "xlock", "xclose", "xstore"}
                       => "late_eject" \in mishaps

Inv == TypeOK /\ ThreadInv /\ ListenInv /\ MainInv /\ LockInv

-----------------------------------------------------------------------------
(* Which actions change what *)

\* The actions that change thr.
ThreadMoves ==
  \/ thr' = thr
  \/ \E t \in Conn : \/ Thread(t)
                     \/ \E v \in Slots : ReadVote(t, v)
  \/ Spawn \/ Eject \/ EjectCrash

\* The actions that change slot.
SlotMoves ==
  \/ slot' = slot
  \/ \E t \in Conn : FreeSlot(t)
  \/ Occupy \/ Spawn \/ RecordVote \/ Eject \/ ResetVotes

\* The actions that change what the threads share.
LockMoves ==
  mutex' = mutex \/ (\E t \in Conn : FreeSlot(t) \/ Uncount(t)) \/ Eject \/ EjectClose
FileMoves ==
  \/ fdTable' = fdTable
  \/ \E t \in Conn : Accept(t) \/ CloseSocket(t)
  \/ EjectClose \/ Refuse
CountMoves ==
  num' = num \/ (\E t \in Conn : Uncount(t)) \/ IncStore \/ DecStore
MishapMoves ==
  \/ mishaps' = mishaps
  \/ \E t \in Conn : CloseSocket(t) \/ Uncount(t)
  \/ ScanNone \/ Occupy \/ SpawnFails \/ IncStore
  \/ Eject \/ EjectClose \/ DecStore
BallotMoves ==
  ballots' = ballots \/ (\E t \in Conn : Enqueue(t)) \/ RecordVote

Moves ==
  /\ ThreadMoves /\ SlotMoves
  /\ lis' = lis \/ Listener \/ EjectCrash
  /\ main' = main \/ MainThread
  /\ LockMoves /\ FileMoves /\ CountMoves /\ MishapMoves /\ BallotMoves

\* Every step changes each variable only through the actions named here.
LEMMA Frame ==
  ASSUME [Next]_vars
  PROVE  Moves
<1> USE DEF Moves, ThreadMoves, SlotMoves, LockMoves, FileMoves, CountMoves, MishapMoves,
            BallotMoves, Thread, Listener, MainThread, netVars, ballotVars
<1> DEFINE Goal == Moves
<1>1. ASSUME NEW c \in Conn, PeerArrives(c) PROVE Goal
  BY <1>1 DEF PeerArrives
<1>2. ASSUME NEW c \in Conn, PeerLeaves(c) PROVE Goal
  BY <1>2 DEF PeerLeaves
<1>3. ASSUME NEW c \in Conn, Accept(c) PROVE Goal
  BY <1>3 DEF Accept
<1>4. ASSUME NEW c \in Conn, SignOn(c) PROVE Goal
  BY <1>4 DEF SignOn, Uncancelled, At, Goto
<1>5. ASSUME NEW c \in Conn, EnterRead(c) PROVE Goal
  BY <1>5 DEF EnterRead, Uncancelled, At, GotoReading
<1>6. ASSUME NEW c \in Conn, ReadFails(c) PROVE Goal
  BY <1>6 DEF ReadFails, Uncancelled, At, Goto
<1>7. ASSUME NEW c \in Conn, Enqueue(c) PROVE Goal
  BY <1>7 DEF Enqueue, At
<1>8. ASSUME NEW c \in Conn, ReadEnd(c) PROVE Goal
  BY <1>8 DEF ReadEnd, EndOfFile, Uncancelled, At, GotoReading
<1>9. ASSUME NEW c \in Conn, PassPrint(c) PROVE Goal
  BY <1>9 DEF PassPrint, At, Goto
<1>10. ASSUME NEW c \in Conn, FreeSlot(c) PROVE Goal
  BY <1>10 DEF FreeSlot, At, Goto
<1>11. ASSUME NEW c \in Conn, CloseSocket(c) PROVE Goal
  BY <1>11 DEF CloseSocket, Uncancelled, At
<1>12. ASSUME NEW c \in Conn, Uncount(c) PROVE Goal
  BY <1>12 DEF Uncount, End, At
<1>13. ASSUME NEW c \in Conn, Cancelled(c) PROVE Goal
  BY <1>13 DEF Cancelled, GotoReading
<1>14. ASSUME NEW c \in Conn, DieLocked(c) PROVE Goal
  BY <1>14 DEF DieLocked, At, Goto
<1>15. ASSUME NEW c \in Conn, NEW v \in Slots, ReadVote(c, v) PROVE Goal
  BY <1>15 DEF ReadVote, Uncancelled, At
<1>16. CASE LoadNum
  BY <1>16 DEF LoadNum, Admit
<1>17. CASE ScanTaken
  BY <1>17 DEF ScanTaken
<1>18. CASE ScanFree
  BY <1>18 DEF ScanFree, TakeIf
<1>19. CASE ScanNone
  BY <1>19 DEF ScanNone
<1>20. CASE Occupy
  BY <1>20 DEF Occupy
<1>21. CASE Spawn
  BY <1>21 DEF Spawn
<1>22. CASE SpawnFails
  BY <1>22 DEF SpawnFails
<1>23. CASE IncLoad
  BY <1>23 DEF IncLoad
<1>24. CASE IncStore
  BY <1>24 DEF IncStore, NextRound
<1>25. CASE Refuse
  BY <1>25 DEF Refuse, NextRound
<1>26. CASE RecordVote
  BY <1>26 DEF RecordVote, Record
<1>27. CASE CountVote
  BY <1>27 DEF CountVote
<1>28. CASE Compare
  BY <1>28 DEF Compare
<1>29. CASE TallyVote
  BY <1>29 DEF TallyVote
<1>30. CASE Choose
  BY <1>30 DEF Choose
<1>31. CASE Eject
  BY <1>31 DEF Eject, Disconnect
<1>32. CASE EjectCrash
  BY <1>32 DEF EjectCrash
<1>33. CASE EjectClose
  BY <1>33 DEF EjectClose
<1>34. CASE DecStore
  BY <1>34 DEF DecStore
<1>35. CASE ResetVotes
  BY <1>35 DEF ResetVotes
<1>36. CASE UNCHANGED vars
  BY <1>36 DEF vars
<1> QED BY <1>1, <1>2, <1>3, <1>4, <1>5, <1>6, <1>7, <1>8, <1>9, <1>10, <1>11,
  <1>12, <1>13, <1>14, <1>15, <1>16, <1>17, <1>18, <1>19, <1>20, <1>21, <1>22,
  <1>23, <1>24, <1>25, <1>26, <1>27, <1>28, <1>29, <1>30, <1>31, <1>32, <1>33,
  <1>34, <1>35, <1>36 DEF Next

-----------------------------------------------------------------------------
(* Types *)

\* A thread's record keeps its type under the update most steps make.
LEMMA SetPcReg ==
  ASSUME NEW r \in ThreadRec, NEW p \in ThreadPc, NEW n \in Int
  PROVE  [r EXCEPT !.pc = p, !.reg = n] \in ThreadRec
BY DEF ThreadRec

\* The threads' records keep their type.
LEMMA ThreadType ==
  ASSUME TypeOK, [Next]_vars
  PROVE  thr' \in [Conn -> ThreadRec]
<1> DEFINE Goal == thr' \in [Conn -> ThreadRec]
<1>1. /\ thr \in [Conn -> ThreadRec] /\ num \in Int
      /\ \A f : File(f) \in MaybeConn
      /\ lis.conn \in MaybeConn /\ lis.found \in Slots \cup {0}
  BY DEF TypeOK, SharedType, File, MaybeConn, ListenRec
<1> USE <1>1 DEF ThreadRec, ThreadPc, MaybeConn
<1>2. CASE thr' = thr
  BY <1>2
<1>3. ASSUME NEW c \in Conn, SignOn(c) PROVE Goal
  BY <1>3 DEF SignOn, Uncancelled, At, Goto
<1>4. ASSUME NEW c \in Conn, EnterRead(c) PROVE Goal
  BY <1>4 DEF EnterRead, Uncancelled, At, GotoReading
<1>5. ASSUME NEW c \in Conn, ReadFails(c) PROVE Goal
  BY <1>5 DEF ReadFails, Uncancelled, At, Goto
<1>6. ASSUME NEW c \in Conn, Enqueue(c) PROVE Goal
  <2>1. PICK n \in Int : n = 0
    OBVIOUS
  <2>2. [thr[c] EXCEPT !.pc = "top", !.file = NoConn, !.reg = n] \in ThreadRec
    OBVIOUS
  <2> QED BY <1>6, <2>1, <2>2 DEF Enqueue
<1>7. ASSUME NEW c \in Conn, ReadEnd(c) PROVE Goal
  BY <1>7 DEF ReadEnd, EndOfFile, Uncancelled, At, GotoReading
<1>8. ASSUME NEW c \in Conn, PassPrint(c) PROVE Goal
  BY <1>8 DEF PassPrint, At, Goto
<1>9. ASSUME NEW c \in Conn, FreeSlot(c) PROVE Goal
  BY <1>9 DEF FreeSlot, At, Goto
<1>10. ASSUME NEW c \in Conn, CloseSocket(c) PROVE Goal
  BY <1>10 DEF CloseSocket, Uncancelled, At
<1>11. ASSUME NEW c \in Conn, Uncount(c) PROVE Goal
  <2> HIDE DEF ThreadRec
  <2>1. 0 \in Int /\ "dead" \in ThreadPc /\ thr[c] \in ThreadRec
    BY DEF ThreadPc
  <2>2. [thr[c] EXCEPT !.pc = "dead", !.reg = 0] \in ThreadRec
    BY <2>1, SetPcReg, Zenon
  <2> QED BY <1>11, <2>2 DEF Uncount, End
<1>12. ASSUME NEW c \in Conn, Cancelled(c) PROVE Goal
  BY <1>12 DEF Cancelled, GotoReading
<1>13. ASSUME NEW c \in Conn, DieLocked(c) PROVE Goal
  BY <1>13 DEF DieLocked, At, Goto
<1>14. ASSUME NEW c \in Conn, NEW v \in Slots, ReadVote(c, v) PROVE Goal
  <2> HIDE DEF ThreadRec
  <2>1. v \in Int /\ "lock" \in ThreadPc /\ thr[c] \in ThreadRec
    BY DEF ThreadPc, Slots
  <2>2. [thr[c] EXCEPT !.pc = "lock", !.reg = v] \in ThreadRec
    BY <2>1, SetPcReg, Zenon
  <2> QED BY <1>14, <2>2 DEF ReadVote
<1>15. CASE Spawn
  BY <1>15 DEF Spawn
<1>16. CASE Eject
  <2> DEFINE t == slot[main.target].thread
  <2>1. PICK b \in BOOLEAN : thr' = [thr EXCEPT ![t].cancel = b]
    BY <1>16 DEF Eject
  <2>2. CASE t \in Conn
    BY <2>1, <2>2
  <2>3. CASE t \notin Conn
    BY <2>1, <2>3
  <2> QED BY <2>2, <2>3
<1>17. CASE EjectCrash
  <2>1. \A r \in ThreadRec, p \in ThreadPc : [r EXCEPT !.pc = p] \in ThreadRec
    OBVIOUS
  <2>2. thr' = [c \in Conn |-> [thr[c] EXCEPT !.pc = IF @ = "none" THEN "none" ELSE "dead"]]
    BY <1>17 DEF EjectCrash
  <2>3. ASSUME NEW c \in Conn
        PROVE  [thr[c] EXCEPT !.pc = IF @ = "none" THEN "none" ELSE "dead"] \in ThreadRec
    <3> HIDE DEF ThreadRec
    <3>1. (IF thr[c].pc = "none" THEN "none" ELSE "dead") \in ThreadPc /\ thr[c] \in ThreadRec
      OBVIOUS
    <3> QED BY <3>1, <2>1
  <2> HIDE DEF ThreadRec
  <2> QED BY <2>2, <2>3
<1> QED BY <1>2, <1>3, <1>4, <1>5, <1>6, <1>7, <1>8, <1>9, <1>10, <1>11,
  <1>12, <1>13, <1>14, <1>15, <1>16, <1>17, Frame DEF Moves, ThreadMoves, Thread

\* The slots keep their type; a queued vote names a slot.
LEMMA SlotType ==
  ASSUME TypeOK, [Next]_vars
  PROVE  slot' \in [Slots -> SlotRec]
<1> DEFINE Goal == slot' \in [Slots -> SlotRec]
<1>1. /\ slot \in [Slots -> SlotRec]
      /\ lis.fd \in Fds \cup {0} /\ lis.conn \in MaybeConn
      /\ ballots # <<>> => Head(ballots) \in Ballot
  BY DEF TypeOK, SharedType, ListenRec
<1> USE <1>1 DEF SlotRec, MaybeConn
<1>2. CASE slot' = slot
  BY <1>2
<1>3. ASSUME NEW c \in Conn, FreeSlot(c) PROVE Goal
  BY <1>3 DEF FreeSlot, At, Goto
<1>4. CASE Occupy
  BY <1>4 DEF Occupy
<1>5. CASE Spawn
  BY <1>5 DEF Spawn
<1>6. CASE RecordVote
  BY <1>6 DEF RecordVote, Record, Ballot
<1>7. CASE Eject
  BY <1>7 DEF Eject, Disconnect
<1>8. CASE ResetVotes
  BY <1>8 DEF ResetVotes
<1> QED BY <1>2, <1>3, <1>4, <1>5, <1>6, <1>7, <1>8, Frame DEF Moves, SlotMoves

\* The listener's record is well typed at the start of a round.
LEMMA NextRoundType ==
  ASSUME lis \in ListenRec
  PROVE  NextRound \in ListenRec
<1>1. PICK n \in Int, f \in Fds \cup {0}, k \in 1..(NumSlots + 1) : n = 0 /\ f = 0 /\ k = 1
  BY SlotsAssumption
<1>2. [lis EXCEPT !.pc = "accept", !.conn = NoConn, !.fd = f, !.idx = k, !.reg = n] \in ListenRec
  BY DEF ListenRec, ListenPc, MaybeConn
<1> QED BY <1>1, <1>2 DEF NextRound

\* The listener's record keeps its type; its index stops one past the table.
LEMMA ListenType ==
  ASSUME TypeOK, [Next]_vars
  PROVE  lis' \in ListenRec
<1>1. /\ lis \in ListenRec /\ num \in Int
      /\ NumSlots \in Nat /\ 1 \in 1..(NumSlots + 1)
  BY SlotsAssumption DEF TypeOK, SharedType
<1> USE <1>1 DEF ListenRec, ListenPc, MaybeConn, Slots
<1>2. CASE lis' = lis
  BY <1>2
<1>3. ASSUME NEW c \in Conn, Accept(c) PROVE lis' \in ListenRec
  BY <1>3 DEF Accept
<1>4. CASE LoadNum
  BY <1>4 DEF LoadNum, Admit
<1>5. CASE ScanTaken
  BY <1>5 DEF ScanTaken
<1>6. CASE ScanFree
  BY <1>6 DEF ScanFree, TakeIf
<1>7. CASE ScanNone
  BY <1>7 DEF ScanNone
<1>8. CASE Occupy
  BY <1>8 DEF Occupy
<1>9. CASE Spawn
  BY <1>9 DEF Spawn
<1>10. CASE SpawnFails
  BY <1>10 DEF SpawnFails
<1>11. CASE IncLoad
  BY <1>11 DEF IncLoad
<1>12. CASE IncStore
  BY <1>12, NextRoundType DEF IncStore
<1>13. CASE Refuse
  BY <1>13, NextRoundType DEF Refuse
<1>14. CASE EjectCrash
  BY <1>14 DEF EjectCrash
<1> QED BY <1>2, <1>3, <1>4, <1>5, <1>6, <1>7, <1>8, <1>9, <1>10, <1>11,
  <1>12, <1>13, <1>14, Frame DEF Moves, Listener

\* The main thread's record keeps its type; its counts stay below NumSlots
\* because they stay behind the index of their loop (MainInv).
LEMMA MainType ==
  ASSUME TypeOK, MainInv, [Next]_vars
  PROVE  main' \in MainRec
<1>1. /\ main \in MainRec /\ num \in Int
      /\ \A i \in Slots : slot[i].owner \in MaybeConn /\ slot[i].vote \in Slots \cup {NoVote}
      /\ NumSlots \in Nat /\ 1 \in 1..(NumSlots + 1) /\ 0 \in 0..NumSlots
  BY SlotsAssumption DEF TypeOK, SharedType, SlotRec
<1> USE <1>1 DEF MainRec, MainPc, MaybeConn, Slots
<1>2. CASE main' = main
  BY <1>2
<1>3. CASE RecordVote
  BY <1>3 DEF RecordVote, Record
<1>4. CASE CountVote
  <2>1. PICK n \in 0..NumSlots : n = main.count + (IF Votes(main.idx) THEN 1 ELSE 0)
    BY <1>4 DEF CountVote, MainInv
  <2>2. PICK k \in 1..(NumSlots + 1) : k = main.idx + 1
    BY <1>4 DEF CountVote
  <2>3. main' = [main EXCEPT !.count = n, !.idx = k]
    BY <1>4, <2>1, <2>2 DEF CountVote
  <2> QED BY <2>3
<1>5. CASE Compare
  BY <1>5 DEF Compare
<1>6. CASE TallyVote
  <2>1. Tallied(main.idx) \in [Slots -> 0..NumSlots]
    <3>1. \A i \in Slots : main.tally[i] + 1 \in 0..NumSlots
      BY <1>6 DEF TallyVote, MainInv
    <3> QED BY <3>1, <1>6 DEF TallyVote, Tallied, Votes
  <2>2. PICK k \in 1..(NumSlots + 1) : k = main.idx + 1
    BY <1>6 DEF TallyVote
  <2>3. main' = [main EXCEPT !.tally = Tallied(main.idx), !.idx = k]
    BY <1>6, <2>2 DEF TallyVote
  <2> QED BY <2>1, <2>3
<1>7. CASE Choose
  BY <1>7 DEF Choose
<1>8. CASE Eject
  BY <1>8 DEF Eject, Disconnect, MainInv
<1>9. CASE EjectCrash
  BY <1>9 DEF EjectCrash
<1>10. CASE EjectClose
  BY <1>10 DEF EjectClose
<1>11. CASE DecStore
  <2>1. PICK n \in Int : n = 0
    OBVIOUS
  <2> QED BY <1>11, <2>1 DEF DecStore
<1>12. CASE ResetVotes
  BY <1>12 DEF ResetVotes
<1> QED BY <1>2, <1>3, <1>4, <1>5, <1>6, <1>7, <1>8, <1>9, <1>10, <1>11,
  <1>12, Frame DEF Moves, MainThread

\* What the threads share keeps its type.
LEMMA SharedTypeStep ==
  ASSUME TypeOK, ThreadInv, [Next]_vars
  PROVE  SharedType'
<1> USE DEF TypeOK, SharedType, netVars, ballotVars
<1>1. ASSUME NEW c \in Conn, PeerArrives(c) PROVE SharedType'
  BY <1>1 DEF PeerArrives
<1>2. ASSUME NEW c \in Conn, PeerLeaves(c) PROVE SharedType'
  BY <1>2 DEF PeerLeaves
<1>3. ASSUME NEW c \in Conn, Accept(c) PROVE SharedType'
  BY <1>3 DEF Accept, MaybeConn
<1>4. ASSUME NEW c \in Conn, SignOn(c) PROVE SharedType'
  BY <1>4 DEF SignOn, Uncancelled, At, Goto
<1>5. ASSUME NEW c \in Conn, EnterRead(c) PROVE SharedType'
  BY <1>5 DEF EnterRead, Uncancelled, At, GotoReading
<1>6. ASSUME NEW c \in Conn, ReadFails(c) PROVE SharedType'
  BY <1>6 DEF ReadFails, Uncancelled, At, Goto
<1>7. ASSUME NEW c \in Conn, Enqueue(c) PROVE SharedType'
  BY <1>7 DEF Enqueue, At, ThreadInv, Ballot
<1>8. ASSUME NEW c \in Conn, ReadEnd(c) PROVE SharedType'
  BY <1>8 DEF ReadEnd, EndOfFile, Uncancelled, At, GotoReading
<1>9. ASSUME NEW c \in Conn, PassPrint(c) PROVE SharedType'
  BY <1>9 DEF PassPrint, At, Goto
<1>10. ASSUME NEW c \in Conn, FreeSlot(c) PROVE SharedType'
  BY <1>10 DEF FreeSlot, At, Goto
<1>11. ASSUME NEW c \in Conn, CloseSocket(c) PROVE SharedType'
  BY <1>11 DEF CloseSocket, Uncancelled, At, Close, MaybeConn, Mishap, Mishaps
<1>12. ASSUME NEW c \in Conn, Uncount(c) PROVE SharedType'
  BY <1>12 DEF Uncount, End, At, StoreNum, Mishap, Mishaps, ThreadRec
<1>13. ASSUME NEW c \in Conn, Cancelled(c) PROVE SharedType'
  BY <1>13 DEF Cancelled, GotoReading
<1>14. ASSUME NEW c \in Conn, DieLocked(c) PROVE SharedType'
  BY <1>14 DEF DieLocked, At, Goto
<1>15. ASSUME NEW c \in Conn, NEW v \in Slots, ReadVote(c, v) PROVE SharedType'
  <2>1. cast + 1 \in 0..MaxBallots
    BY <1>15, BallotsAssumption DEF ReadVote
  <2> QED BY <1>15, <2>1 DEF ReadVote
<1>16. CASE LoadNum
  BY <1>16 DEF LoadNum, Admit
<1>17. CASE ScanTaken
  BY <1>17 DEF ScanTaken
<1>18. CASE ScanFree
  BY <1>18 DEF ScanFree, TakeIf
<1>19. CASE ScanNone
  BY <1>19 DEF ScanNone, Mishap, Mishaps
<1>20. CASE Occupy
  BY <1>20 DEF Occupy, Mishap, Mishaps
<1>21. CASE Spawn
  BY <1>21 DEF Spawn
<1>22. CASE SpawnFails
  BY <1>22 DEF SpawnFails, Mishap, Mishaps
<1>23. CASE IncLoad
  BY <1>23 DEF IncLoad
<1>24. CASE IncStore
  BY <1>24 DEF IncStore, NextRound, StoreNum, Mishap, Mishaps, ListenRec
<1>25. CASE Refuse
  BY <1>25 DEF Refuse, NextRound, Close, MaybeConn
<1>26. CASE RecordVote
  BY <1>26 DEF RecordVote, Record
<1>27. CASE CountVote
  BY <1>27 DEF CountVote
<1>28. CASE Compare
  BY <1>28 DEF Compare
<1>29. CASE TallyVote
  BY <1>29 DEF TallyVote
<1>30. CASE Choose
  BY <1>30 DEF Choose
<1>31. CASE Eject
  BY <1>31 DEF Eject, Disconnect, EjectMishap
<1>32. CASE EjectCrash
  BY <1>32 DEF EjectCrash
<1>33. CASE EjectClose
  BY <1>33 DEF EjectClose, Close, MaybeConn, Mishap, Mishaps
<1>34. CASE DecStore
  BY <1>34 DEF DecStore, StoreNum, Mishap, Mishaps, MainRec
<1>35. CASE ResetVotes
  BY <1>35 DEF ResetVotes
<1>36. CASE UNCHANGED vars
  BY <1>36 DEF vars, netVars, ballotVars
<1> QED BY <1>1, <1>2, <1>3, <1>4, <1>5, <1>6, <1>7, <1>8, <1>9, <1>10, <1>11,
  <1>12, <1>13, <1>14, <1>15, <1>16, <1>17, <1>18, <1>19, <1>20, <1>21, <1>22,
  <1>23, <1>24, <1>25, <1>26, <1>27, <1>28, <1>29, <1>30, <1>31, <1>32, <1>33,
  <1>34, <1>35, <1>36 DEF Next, Thread, Listener, MainThread

-----------------------------------------------------------------------------
(* The invariants *)

\* ThreadInv is preserved.
LEMMA ThreadStep ==
  ASSUME TypeOK, ThreadInv, ListenInv, [Next]_vars
  PROVE  ThreadInv'
<1>1. thr \in [Conn -> ThreadRec]
  BY DEF TypeOK
<1> USE <1>1 DEF ThreadInv
<1>2. CASE thr' = thr
  BY <1>2
<1>3. ASSUME NEW c \in Conn, SignOn(c) PROVE ThreadInv'
  BY <1>3 DEF SignOn, Uncancelled, At, Goto, ThreadRec
<1>4. ASSUME NEW c \in Conn, EnterRead(c) PROVE ThreadInv'
  BY <1>4 DEF EnterRead, Uncancelled, At, GotoReading, ThreadRec
<1>5. ASSUME NEW c \in Conn, ReadFails(c) PROVE ThreadInv'
  BY <1>5 DEF ReadFails, Uncancelled, At, Goto, ThreadRec
<1>6. ASSUME NEW c \in Conn, Enqueue(c) PROVE ThreadInv'
  BY <1>6 DEF Enqueue, At, ThreadRec
<1>7. ASSUME NEW c \in Conn, ReadEnd(c) PROVE ThreadInv'
  BY <1>7 DEF ReadEnd, EndOfFile, Uncancelled, At, GotoReading, ThreadRec
<1>8. ASSUME NEW c \in Conn, PassPrint(c) PROVE ThreadInv'
  BY <1>8 DEF PassPrint, At, Goto, ThreadRec
<1>9. ASSUME NEW c \in Conn, FreeSlot(c) PROVE ThreadInv'
  BY <1>9 DEF FreeSlot, At, Goto, ThreadRec
<1>10. ASSUME NEW c \in Conn, CloseSocket(c) PROVE ThreadInv'
  BY <1>10 DEF CloseSocket, Uncancelled, At, ThreadRec
<1>11. ASSUME NEW c \in Conn, Uncount(c) PROVE ThreadInv'
  BY <1>11 DEF Uncount, End, At, ThreadRec
<1>12. ASSUME NEW c \in Conn, Cancelled(c) PROVE ThreadInv'
  BY <1>12 DEF Cancelled, GotoReading, ThreadRec
<1>13. ASSUME NEW c \in Conn, DieLocked(c) PROVE ThreadInv'
  BY <1>13 DEF DieLocked, At, Goto, ThreadRec
<1>14. ASSUME NEW c \in Conn, NEW v \in Slots, ReadVote(c, v) PROVE ThreadInv'
  BY <1>14 DEF ReadVote, Uncancelled, At, ThreadRec, TypeOK, MaybeConn
<1>15. CASE Spawn
  BY <1>15 DEF Spawn, ListenInv, Placing, ThreadRec
<1>16. CASE Eject
  BY <1>16 DEF Eject, Disconnect, ThreadRec
<1>17. CASE EjectCrash
  BY <1>17 DEF EjectCrash, ThreadRec
<1> QED BY <1>2, <1>3, <1>4, <1>5, <1>6, <1>7, <1>8, <1>9, <1>10, <1>11,
  <1>12, <1>13, <1>14, <1>15, <1>16, <1>17, Frame DEF Moves, ThreadMoves, Thread

\* ListenInv is preserved.
LEMMA ListenStep ==
  ASSUME TypeOK, ListenInv, [Next]_vars
  PROVE  ListenInv'
<1>1. thr \in [Conn -> ThreadRec] /\ lis \in ListenRec /\ backlog \subseteq
  Conn /\ peer \in [Conn -> {"absent", "open", "closed"}]
  BY DEF TypeOK, SharedType
<1> USE <1>1 DEF ListenInv, Placing, netVars, ballotVars
<1>2. ASSUME NEW c \in Conn, PeerArrives(c) PROVE ListenInv'
  BY <1>2 DEF PeerArrives
<1>3. ASSUME NEW c \in Conn, PeerLeaves(c) PROVE ListenInv'
  BY <1>3 DEF PeerLeaves
<1>4. ASSUME NEW c \in Conn, Accept(c) PROVE ListenInv'
  BY <1>4 DEF Accept, ListenRec
<1>5. ASSUME NEW c \in Conn, SignOn(c) PROVE ListenInv'
  BY <1>5 DEF SignOn, Uncancelled, At, Goto, ThreadRec
<1>6. ASSUME NEW c \in Conn, EnterRead(c) PROVE ListenInv'
  BY <1>6 DEF EnterRead, Uncancelled, At, GotoReading, ThreadRec
<1>7. ASSUME NEW c \in Conn, ReadFails(c) PROVE ListenInv'
  BY <1>7 DEF ReadFails, Uncancelled, At, Goto, ThreadRec
<1>8. ASSUME NEW c \in Conn, Enqueue(c) PROVE ListenInv'
  BY <1>8 DEF Enqueue, At, ThreadRec
<1>9. ASSUME NEW c \in Conn, ReadEnd(c) PROVE ListenInv'
  BY <1>9 DEF ReadEnd, EndOfFile, Uncancelled, At, GotoReading, ThreadRec
<1>10. ASSUME NEW c \in Conn, PassPrint(c) PROVE ListenInv'
  BY <1>10 DEF PassPrint, At, Goto, ThreadRec
<1>11. ASSUME NEW c \in Conn, FreeSlot(c) PROVE ListenInv'
  BY <1>11 DEF FreeSlot, At, Goto, ThreadRec
<1>12. ASSUME NEW c \in Conn, CloseSocket(c) PROVE ListenInv'
  BY <1>12 DEF CloseSocket, Uncancelled, At, ThreadRec
<1>13. ASSUME NEW c \in Conn, Uncount(c) PROVE ListenInv'
  BY <1>13 DEF Uncount, End, At, ThreadRec
<1>14. ASSUME NEW c \in Conn, Cancelled(c) PROVE ListenInv'
  BY <1>14 DEF Cancelled, GotoReading, ThreadRec
<1>15. ASSUME NEW c \in Conn, DieLocked(c) PROVE ListenInv'
  BY <1>15 DEF DieLocked, At, Goto, ThreadRec
<1>16. ASSUME NEW c \in Conn, NEW v \in Slots, ReadVote(c, v) PROVE ListenInv'
  BY <1>16 DEF ReadVote, Uncancelled, At, ThreadRec
<1>17. CASE LoadNum
  BY <1>17 DEF LoadNum, Admit, ListenRec
<1>18. CASE ScanTaken
  BY <1>18 DEF ScanTaken, ListenRec
<1>19. CASE ScanFree
  BY <1>19 DEF ScanFree, TakeIf, ListenRec
<1>20. CASE ScanNone
  BY <1>20 DEF ScanNone, ListenRec
<1>21. CASE Occupy
  BY <1>21 DEF Occupy, ListenRec
<1>22. CASE Spawn
  BY <1>22 DEF Spawn, ThreadRec, ListenRec
<1>23. CASE SpawnFails
  BY <1>23 DEF SpawnFails, ListenRec
<1>24. CASE IncLoad
  BY <1>24 DEF IncLoad, ListenRec
<1>25. CASE IncStore
  BY <1>25 DEF IncStore, NextRound, ListenRec
<1>26. CASE Refuse
  BY <1>26 DEF Refuse, NextRound, ListenRec
<1>27. CASE RecordVote
  BY <1>27 DEF RecordVote, Record
<1>28. CASE CountVote
  BY <1>28 DEF CountVote
<1>29. CASE Compare
  BY <1>29 DEF Compare
<1>30. CASE TallyVote
  BY <1>30 DEF TallyVote
<1>31. CASE Choose
  BY <1>31 DEF Choose
<1>32. CASE Eject
  BY <1>32 DEF Eject, Disconnect, ThreadRec
<1>33. CASE EjectCrash
  BY <1>33 DEF EjectCrash, ThreadRec
<1>34. CASE EjectClose
  BY <1>34 DEF EjectClose
<1>35. CASE DecStore
  BY <1>35 DEF DecStore
<1>36. CASE ResetVotes
  BY <1>36 DEF ResetVotes
<1>37. CASE UNCHANGED vars
  BY <1>37 DEF vars, netVars, ballotVars
<1> QED BY <1>2, <1>3, <1>4, <1>5, <1>6, <1>7, <1>8, <1>9, <1>10, <1>11,
  <1>12, <1>13, <1>14, <1>15, <1>16, <1>17, <1>18, <1>19, <1>20, <1>21, <1>22,
  <1>23, <1>24, <1>25, <1>26, <1>27, <1>28, <1>29, <1>30, <1>31, <1>32, <1>33,
  <1>34, <1>35, <1>36, <1>37 DEF Next, Thread, Listener, MainThread

\* MainInv is preserved.
LEMMA MainStep ==
  ASSUME TypeOK, MainInv, [Next]_vars
  PROVE  MainInv'
<1>1. main \in MainRec /\ NumSlots \in Nat
  BY SlotsAssumption DEF TypeOK
<1> USE <1>1 DEF MainInv, Slots
<1>2. CASE main' = main
  BY <1>2
<1>3. CASE RecordVote
  BY <1>3 DEF RecordVote, Record, MainRec
<1>4. CASE CountVote
  BY <1>4 DEF CountVote, MainRec
<1>5. CASE Compare
  BY <1>5 DEF Compare, MainRec
<1>6. CASE TallyVote
  BY <1>6 DEF TallyVote, MainRec, Tallied
<1>7. CASE Choose
  BY <1>7 DEF Choose, MainRec
<1>8. CASE Eject
  BY <1>8 DEF Eject, Disconnect, MainRec
<1>9. CASE EjectCrash
  BY <1>9 DEF EjectCrash, MainRec
<1>10. CASE EjectClose
  BY <1>10 DEF EjectClose, MainRec
<1>11. CASE DecStore
  BY <1>11 DEF DecStore, MainRec
<1>12. CASE ResetVotes
  BY <1>12 DEF ResetVotes, MainRec
<1> QED BY <1>2, <1>3, <1>4, <1>5, <1>6, <1>7, <1>8, <1>9, <1>10, <1>11,
  <1>12, Frame DEF Moves, MainThread

\* LockInv is preserved: a cancel meets a thread past its last cancellation
\* point before the mutex only as a late ejection.
LEMMA LockStep ==
  ASSUME TypeOK, ListenInv, LockInv, [Next]_vars
  PROVE  LockInv'
<1>1. thr \in [Conn -> ThreadRec] /\ main \in MainRec /\ mutex \in Conn \cup
  {"free", "main"}
  BY DEF TypeOK, SharedType
<1> USE <1>1, ConnAssumption DEF LockInv, netVars, ballotVars, StoreNum,
  Mishap
<1>2. ASSUME NEW c \in Conn, PeerArrives(c) PROVE LockInv'
  BY <1>2 DEF PeerArrives
<1>3. ASSUME NEW c \in Conn, PeerLeaves(c) PROVE LockInv'
  BY <1>3 DEF PeerLeaves
<1>4. ASSUME NEW c \in Conn, Accept(c) PROVE LockInv'
  BY <1>4 DEF Accept
<1>5. ASSUME NEW c \in Conn, SignOn(c) PROVE LockInv'
  BY <1>5 DEF SignOn, Uncancelled, At, Goto, ThreadRec
<1>6. ASSUME NEW c \in Conn, EnterRead(c) PROVE LockInv'
  BY <1>6 DEF EnterRead, Uncancelled, At, GotoReading, ThreadRec
<1>7. ASSUME NEW c \in Conn, ReadFails(c) PROVE LockInv'
  BY <1>7 DEF ReadFails, Uncancelled, At, Goto, ThreadRec
<1>8. ASSUME NEW c \in Conn, Enqueue(c) PROVE LockInv'
  BY <1>8 DEF Enqueue, At, ThreadRec
<1>9. ASSUME NEW c \in Conn, ReadEnd(c) PROVE LockInv'
  BY <1>9 DEF ReadEnd, EndOfFile, Uncancelled, At, GotoReading, ThreadRec
<1>10. ASSUME NEW c \in Conn, PassPrint(c) PROVE LockInv'
  BY <1>10 DEF PassPrint, At, Goto, ThreadRec
<1>11. ASSUME NEW c \in Conn, FreeSlot(c) PROVE LockInv'
  BY <1>11 DEF FreeSlot, At, Goto, ThreadRec
<1>12. ASSUME NEW c \in Conn, CloseSocket(c) PROVE LockInv'
  BY <1>12 DEF CloseSocket, Uncancelled, At, ThreadRec
<1>13. ASSUME NEW c \in Conn, Uncount(c) PROVE LockInv'
  BY <1>13 DEF Uncount, End, At, ThreadRec
<1>14. ASSUME NEW c \in Conn, Cancelled(c) PROVE LockInv'
  BY <1>14 DEF Cancelled, GotoReading, ThreadRec
<1>15. ASSUME NEW c \in Conn, DieLocked(c) PROVE LockInv'
  BY <1>15 DEF DieLocked, At, Goto, ThreadRec
<1>16. ASSUME NEW c \in Conn, NEW v \in Slots, ReadVote(c, v) PROVE LockInv'
  BY <1>16 DEF ReadVote, Uncancelled, At, ThreadRec
<1>17. CASE LoadNum
  BY <1>17 DEF LoadNum, Admit
<1>18. CASE ScanTaken
  BY <1>18 DEF ScanTaken
<1>19. CASE ScanFree
  BY <1>19 DEF ScanFree, TakeIf
<1>20. CASE ScanNone
  BY <1>20 DEF ScanNone
<1>21. CASE Occupy
  BY <1>21 DEF Occupy
<1>22. CASE Spawn
  BY <1>22 DEF Spawn, ThreadRec, ListenInv, Placing
<1>23. CASE SpawnFails
  BY <1>23 DEF SpawnFails
<1>24. CASE IncLoad
  BY <1>24 DEF IncLoad
<1>25. CASE IncStore
  BY <1>25 DEF IncStore, NextRound
<1>26. CASE Refuse
  BY <1>26 DEF Refuse, NextRound
<1>27. CASE RecordVote
  BY <1>27 DEF RecordVote, Record, MainRec
<1>28. CASE CountVote
  BY <1>28 DEF CountVote, MainRec
<1>29. CASE Compare
  BY <1>29 DEF Compare, MainRec
<1>30. CASE TallyVote
  BY <1>30 DEF TallyVote, MainRec
<1>31. CASE Choose
  BY <1>31 DEF Choose, MainRec
<1>32. CASE Eject
  BY <1>32 DEF Eject, Disconnect, ThreadRec, MainRec, EjectMishap, Mishaps
<1>33. CASE EjectCrash
  BY <1>33 DEF EjectCrash, ThreadRec, MainRec, ThreadPc
<1>34. CASE EjectClose
  BY <1>34 DEF EjectClose, MainRec
<1>35. CASE DecStore
  BY <1>35 DEF DecStore, MainRec
<1>36. CASE ResetVotes
  BY <1>36 DEF ResetVotes, MainRec
<1>37. CASE UNCHANGED vars
  BY <1>37 DEF vars, netVars, ballotVars
<1> QED BY <1>2, <1>3, <1>4, <1>5, <1>6, <1>7, <1>8, <1>9, <1>10, <1>11,
  <1>12, <1>13, <1>14, <1>15, <1>16, <1>17, <1>18, <1>19, <1>20, <1>21, <1>22,
  <1>23, <1>24, <1>25, <1>26, <1>27, <1>28, <1>29, <1>30, <1>31, <1>32, <1>33,
  <1>34, <1>35, <1>36, <1>37 DEF Next, Thread, Listener, MainThread

-----------------------------------------------------------------------------
(* The theorem *)

\* The invariant holds at the start.
LEMMA InvInit == Init => Inv
<1> SUFFICES ASSUME Init PROVE Inv
  OBVIOUS
<1> USE DEF Init
<1>1. SharedType
  BY BallotsAssumption DEF SharedType, MaybeConn
<1>2. slot \in [Slots -> SlotRec]
  BY DEF SlotRec, MaybeConn
<1>3. thr \in [Conn -> ThreadRec]
  BY DEF ThreadRec, ThreadPc, MaybeConn
<1>4. lis \in ListenRec
  BY SlotsAssumption DEF ListenRec, ListenPc, MaybeConn
<1>5. main \in MainRec
  BY SlotsAssumption DEF MainRec, MainPc, MaybeConn
<1>6. ThreadInv
  BY DEF ThreadInv
<1>7. ListenInv
  BY DEF ListenInv, Placing
<1>8. MainInv
  BY DEF MainInv
<1>9. LockInv
  BY ConnAssumption DEF LockInv
<1> QED BY <1>1, <1>2, <1>3, <1>4, <1>5, <1>6, <1>7, <1>8, <1>9 DEF Inv, TypeOK

\* The invariant is inductive.
LEMMA InvStep == Inv /\ [Next]_vars => Inv'
<1> SUFFICES ASSUME Inv, [Next]_vars PROVE Inv'
  OBVIOUS
<1>1. TypeOK /\ ThreadInv /\ ListenInv /\ MainInv /\ LockInv
  BY DEF Inv
<1>2. SharedType' /\ slot' \in [Slots -> SlotRec] /\ thr' \in [Conn -> ThreadRec]
  BY <1>1, SharedTypeStep, SlotType, ThreadType
<1>3. lis' \in ListenRec /\ main' \in MainRec
  BY <1>1, ListenType, MainType
<1>4. ThreadInv' /\ ListenInv' /\ MainInv' /\ LockInv'
  BY <1>1, ThreadStep, ListenStep, MainStep, LockStep
<1>5. TypeOK'
  BY <1>2, <1>3 DEF TypeOK, SlotRec, ThreadRec, ListenRec, MainRec, MaybeConn
<1> QED BY <1>4, <1>5 DEF Inv

\* For any number of slots, connections and votes: every variable keeps its
\* type, and a thread ends with the mutex locked only if the main thread
\* ejected it after its connection had ended (bc_network.c:428, main.c:513).
THEOREM MutexIsKept == Spec => [](TypeOK /\ NotOrphaned)
<1>1. Inv => TypeOK /\ NotOrphaned
  BY DEF Inv, LockInv, NotOrphaned, Orphaned, Happened
<1> QED BY InvInit, InvStep, <1>1, PTL DEF Spec

\* The two critical sections that free a slot and close its socket
\* (bc_network.c:422-430, main.c:511-518) exclude each other and themselves.
THEOREM OneHolder ==
  Spec => [](\A t, u \in Conn :
               thr[t].pc \in {"xclose", "xstore"} =>
                 main.pc # "dclose" /\ (thr[u].pc \in {"xclose", "xstore"} => t = u))
<1>1. Inv => \A t, u \in Conn :
               thr[t].pc \in {"xclose", "xstore"} =>
                 main.pc # "dclose" /\ (thr[u].pc \in {"xclose", "xstore"} => t = u)
  BY ConnAssumption DEF Inv, LockInv
<1> QED BY InvInit, InvStep, <1>1, PTL DEF Spec
-----------------------------------------------------------------------------
(* What a step does to one thread, one slot, the mutex and one descriptor  *)

Running == {"name", "top", "read", "lock", "exit", "xlock"}

ThreadChange(t) ==
  /\ thr[t].cancel => thr'[t].cancel
  /\ thr'[t].cancel => thr[t].cancel \/ (Eject /\ t = slot[main.target].thread)
  /\ thr[t].pc # "none" => thr'[t].pc # "none" /\ thr'[t].slot = thr[t].slot
  /\ thr[t].pc = "none" => \/ thr'[t].pc = "none"
                           \/ /\ Spawn /\ t = lis.conn
                              /\ thr'[t].pc = "name" /\ thr'[t].slot = lis.found
  /\ thr'[t].pc \in Running => thr[t].pc \in Running \/ (Spawn /\ t = lis.conn)
  /\ thr[t].pc \in Running /\ ~thr[t].cancel =>
       thr'[t].pc \in Running \/ FreeSlot(t) \/ main'.pc = "crashed"
  /\ thr[t].pc \in {"xclose", "xstore"} /\ ~thr[t].cancel =>
       thr'[t].pc \in {"xclose", "xstore"} \/ Uncount(t) \/ main'.pc = "crashed"
  /\ thr'[t].pc = "xclose" => thr[t].pc = "xclose" \/ FreeSlot(t)
  /\ thr'[t].pc = "xstore" => thr[t].pc = "xstore" \/ CloseSocket(t)
  /\ thr'[t].pc = "read" =>
       (thr[t].pc = "read" /\ thr'[t].file = thr[t].file) \/ EnterRead(t)
  /\ thr'[t].pc = "lock" =>
       /\ thr'[t].file = thr[t].file
       /\ thr[t].pc = "lock" \/ thr[thr[t].file].pc # "none"

LEMMA ThreadChanges ==
  ASSUME TypeOK, ListenInv, [Next]_vars
  PROVE  \A t \in Conn : ThreadChange(t)
<1> DEFINE Goal == \A t \in Conn : ThreadChange(t)
<1>1. thr \in [Conn -> ThreadRec] /\ main \in MainRec
  BY DEF TypeOK
<1> USE <1>1 DEF ThreadChange, Running
<1>2. CASE thr' = thr
  BY <1>2
<1>3. ASSUME NEW c \in Conn, SignOn(c) PROVE Goal
  BY <1>3 DEF SignOn, Uncancelled, At, Goto, ThreadRec
<1>4. ASSUME NEW c \in Conn, EnterRead(c) PROVE Goal
  BY <1>4 DEF EnterRead, Uncancelled, At, GotoReading, ThreadRec
<1>5. ASSUME NEW c \in Conn, ReadFails(c) PROVE Goal
  BY <1>5 DEF ReadFails, Uncancelled, At, Goto, ThreadRec
<1>6. ASSUME NEW c \in Conn, Enqueue(c) PROVE Goal
  BY <1>6 DEF Enqueue, At, ThreadRec
<1>7. ASSUME NEW c \in Conn, ReadEnd(c) PROVE Goal
  BY <1>7 DEF ReadEnd, EndOfFile, Uncancelled, At, GotoReading, ThreadRec
<1>8. ASSUME NEW c \in Conn, PassPrint(c) PROVE Goal
  BY <1>8 DEF PassPrint, At, Goto, ThreadRec
<1>9. ASSUME NEW c \in Conn, FreeSlot(c) PROVE Goal
  BY <1>9 DEF FreeSlot, At, Goto, ThreadRec
<1>10. ASSUME NEW c \in Conn, CloseSocket(c) PROVE Goal
  BY <1>10 DEF CloseSocket, Uncancelled, At, ThreadRec
<1>11. ASSUME NEW c \in Conn, Uncount(c) PROVE Goal
  BY <1>11 DEF Uncount, End, At, ThreadRec
<1>12. ASSUME NEW c \in Conn, Cancelled(c) PROVE Goal
  BY <1>12 DEF Cancelled, GotoReading, ThreadRec
<1>13. ASSUME NEW c \in Conn, DieLocked(c) PROVE Goal
  BY <1>13 DEF DieLocked, At, Goto, ThreadRec
<1>14. ASSUME NEW c \in Conn, NEW v \in Slots, ReadVote(c, v) PROVE Goal
  BY <1>14 DEF ReadVote, Uncancelled, At, ThreadRec
<1>15. CASE Spawn
  <2>1. lis.conn \in Conn /\ thr[lis.conn].pc = "none"
    BY <1>15 DEF Spawn, ListenInv, Placing
  <2>2. thr' = [thr EXCEPT ![lis.conn] = [@ EXCEPT !.pc = "name", !.slot = lis.found]]
    BY <1>15 DEF Spawn
  <2> QED
    BY <1>15, <2>1, <2>2 DEF ThreadRec
<1>16. CASE Eject
  <2> DEFINE x == slot[main.target].thread
  <2>1. PICK b : thr' = [thr EXCEPT ![x].cancel = thr[x].cancel \/ b]
    BY <1>16 DEF Eject
  <2>2. \A t \in Conn : thr'[t].pc = thr[t].pc /\ thr'[t].slot = thr[t].slot /\ thr'[t].file = thr[t].file
    BY <2>1 DEF ThreadRec
  <2>3. \A t \in Conn : t # x => thr'[t] = thr[t]
    BY <2>1
  <2>4. \A t \in Conn : thr[t].cancel => thr'[t].cancel
    BY <2>1 DEF ThreadRec
  <2> HIDE DEF x
  <2>5. \A t \in Conn : thr'[t].cancel => thr[t].cancel \/ t = x
    BY <2>3
  <2> QED
    BY <1>16, <2>2, <2>4, <2>5 DEF x
<1>17. CASE EjectCrash
  BY <1>17 DEF EjectCrash, ThreadRec, MainRec
<1> QED BY <1>2, <1>3, <1>4, <1>5, <1>6, <1>7, <1>8, <1>9, <1>10, <1>11,
  <1>12, <1>13, <1>14, <1>15, <1>16, <1>17, Frame DEF Moves, ThreadMoves, Thread

SlotChange(i) ==
  /\ slot'[i].connected => slot[i].connected \/ (Occupy /\ i = lis.found)
  /\ slot[i].connected => \/ slot'[i].connected
                          \/ \E t \in Conn : FreeSlot(t) /\ i = thr[t].slot
                          \/ Eject /\ i = main.target
  /\ \/ slot'[i].owner = slot[i].owner /\ slot'[i].sock = slot[i].sock
     \/ /\ Occupy /\ i = lis.found
        /\ slot'[i].owner = lis.conn /\ slot'[i].sock = lis.fd
  /\ slot'[i].thread = slot[i].thread \/ (Spawn /\ i = lis.found /\ slot'[i].thread = lis.conn)
  /\ \/ slot'[i].vote = slot[i].vote /\ slot'[i].voteBy = slot[i].voteBy
     \/ slot'[i].vote = NoVote
     \/ RecordVote /\ i = Head(ballots).user /\ slot'[i].voteBy = Head(ballots).by

LEMMA SlotChanges ==
  ASSUME TypeOK, [Next]_vars
  PROVE  \A i \in Slots : SlotChange(i)
<1> DEFINE Goal == \A i \in Slots : SlotChange(i)
<1>1. slot \in [Slots -> SlotRec]
  BY DEF TypeOK
<1> USE <1>1 DEF SlotChange
<1>2. CASE slot' = slot
  BY <1>2
<1>3. ASSUME NEW c \in Conn, FreeSlot(c) PROVE Goal
  <2>1. slot' = [slot EXCEPT ![thr[c].slot].connected = FALSE]
    BY <1>3 DEF FreeSlot
  <2> QED
    BY <1>3, <2>1 DEF SlotRec
<1>4. CASE Occupy
  <2>1. slot' = [slot EXCEPT ![lis.found] =
               [@ EXCEPT !.sock = lis.fd, !.connected = TRUE, !.owner = lis.conn]]
    BY <1>4 DEF Occupy
  <2> QED
    BY <1>4, <2>1 DEF SlotRec
<1>5. CASE Spawn
  <2>1. slot' = [slot EXCEPT ![lis.found].thread = lis.conn]
    BY <1>5 DEF Spawn
  <2> QED
    BY <1>5, <2>1 DEF SlotRec
<1>6. CASE RecordVote
  BY <1>6 DEF RecordVote, Record, SlotRec
<1>7. CASE Eject
  <2>1. slot' = [slot EXCEPT ![main.target].connected = FALSE]
    BY <1>7 DEF Eject, Disconnect
  <2> QED
    BY <1>7, <2>1 DEF SlotRec
<1>8. CASE ResetVotes
  BY <1>8 DEF ResetVotes, SlotRec
<1> QED BY <1>2, <1>3, <1>4, <1>5, <1>6, <1>7, <1>8, Frame DEF Moves, SlotMoves

\* The mutex passes to a thread only in FreeSlot, and away from it only when the
\* user has been uncounted.
LEMMA LockChanges ==
  ASSUME TypeOK, LockInv, [Next]_vars
  PROVE  /\ mutex \in Conn => mutex' = mutex \/ Uncount(mutex)
         /\ mutex' \in Conn => mutex' = mutex \/ FreeSlot(mutex')
<1>1. ASSUME NEW t \in Conn, FreeSlot(t) PROVE mutex = "free" /\ mutex' = t
  BY <1>1 DEF FreeSlot
<1>2. ASSUME NEW t \in Conn, Uncount(t) PROVE mutex = t /\ mutex' = "free"
  BY <1>2 DEF Uncount, End, At, LockInv
<1>3. Eject => mutex = "free" /\ mutex' = "main"
  BY DEF Eject, Disconnect
<1>4. EjectClose => mutex = "main" /\ mutex' = "free"
  BY DEF EjectClose, LockInv
<1> QED
  BY <1>1, <1>2, <1>3, <1>4, ConnAssumption, Frame DEF Moves, LockMoves

\* A descriptor is closed by a thread that leaves, in an ejection or by the
\* listener that refuses, and stands for a new connection only if it was free.
LEMMA FileChanges ==
  ASSUME TypeOK, [Next]_vars, NEW f \in Fds
  PROVE  \/ fdTable'[f] = fdTable[f]
         \/ \E c \in Conn : Accept(c) /\ fdTable[f] = NoConn
         \/ \E t \in Conn : CloseSocket(t) /\ f = Fd(t)
         \/ EjectClose /\ f = slot[main.target].sock
         \/ Refuse /\ f = lis.fd
<1>1. fdTable \in [Fds -> MaybeConn]
  BY DEF TypeOK, SharedType
<1>2. ASSUME NEW c \in Conn, Accept(c)
      PROVE  fdTable'[f] = fdTable[f] \/ fdTable[f] = NoConn
  BY <1>1, <1>2 DEF Accept, LowestFree
<1>3. ASSUME NEW t \in Conn, CloseSocket(t) PROVE fdTable'[f] = fdTable[f] \/ f = Fd(t)
  BY <1>3 DEF CloseSocket, Close
<1>4. EjectClose => fdTable'[f] = fdTable[f] \/ f = slot[main.target].sock
  BY DEF EjectClose, Close
<1>5. Refuse => fdTable'[f] = fdTable[f] \/ f = lis.fd
  BY DEF Refuse, Close
<1> QED
  BY <1>2, <1>3, <1>4, <1>5, Frame DEF Moves, FileMoves

\* The history only grows.
LEMMA MishapsStay ==
  ASSUME [Next]_vars, NEW S, Happened(S)
  PROVE  Happened(S)'
<1>1. mishaps \subseteq mishaps'
  <2>1. ASSUME NEW t \in Conn, CloseSocket(t) \/ Uncount(t) PROVE mishaps \subseteq mishaps'
    BY <2>1 DEF CloseSocket, Uncount, End, StoreNum, Mishap
  <2>2. ScanNone \/ Occupy \/ SpawnFails => mishaps \subseteq mishaps'
    BY DEF ScanNone, Occupy, SpawnFails, Mishap
  <2>3. IncStore \/ DecStore => mishaps \subseteq mishaps'
    BY DEF IncStore, DecStore, StoreNum, Mishap
  <2>4. Eject \/ EjectClose => mishaps \subseteq mishaps'
    BY DEF Eject, Disconnect, EjectClose, Mishap
  <2> QED
    BY <2>1, <2>2, <2>3, <2>4, Frame DEF Moves, MishapMoves
<1> QED
  BY <1>1 DEF Happened
-----------------------------------------------------------------------------
(* Who owns a slot                                                         *)

\* A slot's thread is one created for it; a cancel never meets a thread that
\* does not run yet, or is about to store the count.
TableInv ==
  /\ \A i \in Slots : slot[i].thread \in Conn =>
       thr[slot[i].thread].pc # "none" /\ thr[slot[i].thread].slot = i
  /\ \A i \in Slots : slot[i].connected => slot[i].owner \in Conn
  /\ \A t \in Conn : thr[t].pc \in {"none", "xstore"} => ~thr[t].cancel

\* A connected slot that has its user's thread has one that runs.
SettledInv ==
  Alive => \A i \in Slots : slot[i].connected /\ slot[i].thread = slot[i].owner =>
             thr[slot[i].owner].pc \in Running /\ ~thr[slot[i].owner].cancel

\* A thread with a pending cancel has the mutex, and will never give it back.
Doomed == mutex \in Conn /\ thr[mutex].cancel

\* The slot the listener has chosen is free, and then its connection's.
PlaceInv ==
  /\ lis.pc = "occupy" /\ ~Happened({"no_slot"}) => lis.found \in Slots /\ ~slot[lis.found].connected
  /\ lis.pc = "spawn" /\ ~Happened({"no_slot", "early_eject"}) =>
       Doomed \/ (slot[lis.found].connected /\ slot[lis.found].owner = lis.conn)

\* A running thread that nobody has cancelled has its slot.
Owns(t) ==
  LET s == slot[thr[t].slot] IN s.connected /\ s.owner = t /\ s.thread = t
OwnInv ==
  \/ Happened({"no_slot", "early_eject"}) \/ Doomed
  \/ \A t \in Conn : thr[t].pc \in Running /\ ~thr[t].cancel => Owns(t)

LEMMA TableStep ==
  ASSUME TypeOK, ThreadInv, ListenInv, MainInv, LockInv, TableInv, [Next]_vars
  PROVE  TableInv'
<1>1. /\ \A t \in Conn : ThreadChange(t)
      /\ \A i \in Slots : SlotChange(i)
  BY ThreadChanges, SlotChanges
<1>2. Spawn => /\ lis.conn \in Conn /\ lis.found \in Slots /\ thr[lis.conn].pc = "none"
               /\ thr'[lis.conn].pc = "name" /\ thr'[lis.conn].slot = lis.found
  <2> SUFFICES ASSUME Spawn
               PROVE  /\ lis.conn \in Conn /\ lis.found \in Slots /\ thr[lis.conn].pc = "none"
                      /\ thr'[lis.conn].pc = "name" /\ thr'[lis.conn].slot = lis.found
    OBVIOUS
  <2>1. lis.conn \in Conn /\ lis.found \in Slots /\ thr[lis.conn].pc = "none"
    BY DEF Spawn, ListenInv, Placing
  <2>2. thr' = [thr EXCEPT ![lis.conn] = [@ EXCEPT !.pc = "name", !.slot = lis.found]]
    BY DEF Spawn
  <2> QED
    BY <2>1, <2>2 DEF TypeOK, ThreadRec
<1>3. ASSUME NEW i \in Slots, slot'[i].thread \in Conn
      PROVE  thr'[slot'[i].thread].pc # "none" /\ thr'[slot'[i].thread].slot = i
  <2>1. CASE slot'[i].thread = slot[i].thread
    BY <1>1, <1>3, <2>1 DEF TableInv, ThreadChange
  <2>2. CASE Spawn /\ i = lis.found /\ slot'[i].thread = lis.conn
    BY <1>2, <2>2
  <2> QED
    BY <1>1, <2>1, <2>2 DEF SlotChange
<1>4. ASSUME NEW i \in Slots, slot'[i].connected PROVE slot'[i].owner \in Conn
  <2>1. Occupy => lis.conn \in Conn /\ slot' = [slot EXCEPT ![lis.found] =
               [@ EXCEPT !.sock = lis.fd, !.connected = TRUE, !.owner = lis.conn]]
    BY DEF Occupy, ListenInv, Placing
  <2>2. CASE Occupy /\ i = lis.found
    BY <2>1, <2>2 DEF TypeOK, SlotRec
  <2>3. CASE ~(Occupy /\ i = lis.found)
    BY <1>1, <1>4, <2>3 DEF SlotChange, TableInv
  <2> QED
    BY <2>2, <2>3
<1>5. ASSUME NEW t \in Conn, thr'[t].pc \in {"none", "xstore"} PROVE ~thr'[t].cancel
  <2>1. CASE Eject /\ t = slot[main.target].thread
    <3>1. mutex = "free" /\ main.target \in Slots /\ mutex \notin Conn
      BY <2>1, ConnAssumption DEF Eject, Disconnect, MainInv
    <3>2. thr[t].pc # "none" /\ thr[t].pc # "xstore"
      BY <2>1, <3>1 DEF TableInv, LockInv
    <3>3. thr'[t].pc # "none" /\ (thr'[t].pc = "xstore" => CloseSocket(t))
      BY <1>1, <3>2 DEF ThreadChange
    <3>4. ~CloseSocket(t)
      BY <3>1 DEF CloseSocket, Uncancelled, At, LockInv
    <3> QED
      BY <1>5, <3>3, <3>4
  <2>2. CASE ~(Eject /\ t = slot[main.target].thread)
    <3>1. thr'[t].cancel => thr[t].cancel
      BY <1>1, <2>2 DEF ThreadChange
    <3>2. CloseSocket(t) => ~thr[t].cancel
      BY DEF CloseSocket, Uncancelled
    <3>3. thr[t].pc \in {"none", "xstore"} \/ CloseSocket(t)
      BY <1>1, <1>5 DEF ThreadChange
    <3> QED
      BY <3>1, <3>2, <3>3 DEF TableInv
  <2> QED
    BY <2>1, <2>2
<1> QED
  BY <1>3, <1>4, <1>5 DEF TableInv

LEMMA SettledStep ==
  ASSUME TypeOK, ThreadInv, ListenInv, MainInv, LockInv, TableInv, SettledInv, [Next]_vars
  PROVE  SettledInv'
<1>1. /\ \A t \in Conn : ThreadChange(t)
      /\ \A i \in Slots : SlotChange(i)
  BY ThreadChanges, SlotChanges
<1>2. /\ lis.pc \in Placing => lis.conn \in Conn /\ thr[lis.conn].pc = "none"
      /\ Occupy \/ Spawn => lis.pc \in Placing /\ lis.found \in Slots
      /\ Occupy => lis.pc = "occupy"
      /\ Spawn => lis.pc = "spawn"
  BY DEF ListenInv, Placing, Occupy, Spawn, TypeOK, ListenRec
<1>alive. Alive' => Alive
  BY Frame DEF Moves, Alive, MainThread, RecordVote, Record, CountVote, Compare, TallyVote,
     Choose, Eject, Disconnect, EjectCrash, EjectClose, DecStore, ResetVotes
<1> SUFFICES ASSUME Alive', NEW i \in Slots, slot'[i].connected, slot'[i].thread = slot'[i].owner
             PROVE  thr'[slot'[i].owner].pc \in Running /\ ~thr'[slot'[i].owner].cancel
  BY DEF SettledInv
<1>3. TableInv'
  BY TableStep
<1> DEFINE x == slot'[i].owner
<1>4. x \in Conn /\ thr'[x].pc # "none" /\ thr'[x].slot = i
  BY <1>3 DEF TableInv
<1>5. CASE Spawn /\ i = lis.found /\ slot'[i].thread = lis.conn
  <2>1. thr[x].pc = "none" /\ thr'[x].pc # "none"
    BY <1>2, <1>4, <1>5
  <2>2. thr'[x].pc = "name" /\ ~thr[x].cancel
    BY <1>1, <1>4, <2>1 DEF ThreadChange, TableInv
  <2>3. ~Eject
    BY <1>5 DEF Spawn, Eject, Disconnect, TypeOK, ListenRec, vars
  <2> QED
    BY <1>1, <1>4, <2>2, <2>3 DEF ThreadChange, Running
<1>6. CASE slot'[i].thread = slot[i].thread /\ ~(Occupy /\ i = lis.found)
  <2>1. slot[i].connected /\ slot[i].owner = x /\ slot[i].thread = x
    BY <1>1, <1>6 DEF SlotChange
  <2>2. thr[x].pc \in Running /\ ~thr[x].cancel /\ thr[x].slot = i
    BY <1>alive, <1>4, <2>1 DEF SettledInv, TableInv
  <2>3. ~FreeSlot(x)
    BY <1>4, <2>2 DEF FreeSlot, TypeOK, SlotRec
  <2>4. thr'[x].pc \in Running
    BY <1>1, <1>4, <2>2, <2>3 DEF ThreadChange, Alive
  <2>5. ASSUME Eject, x = slot[main.target].thread PROVE FALSE
    <3>1. main.target \in Slots
      BY <2>5 DEF Eject, Disconnect, MainInv
    <3>2. main.target = i
      BY <1>4, <2>2, <2>5, <3>1 DEF TableInv
    <3> QED
      BY <2>5, <3>2 DEF Eject, Disconnect, TypeOK, SlotRec
  <2>6. ~thr'[x].cancel
    BY <1>1, <1>4, <2>2, <2>5 DEF ThreadChange
  <2> QED
    BY <2>4, <2>6
<1>7. CASE Occupy /\ i = lis.found
  <2>1. slot'[i].owner = lis.conn /\ slot'[i].thread = slot[i].thread
    BY <1>7 DEF Occupy, TypeOK, SlotRec
  <2>2. slot[i].thread = lis.conn
    BY <2>1
  <2> QED
    BY <1>2, <1>7, <2>2 DEF TableInv
<1> QED
  BY <1>1, <1>5, <1>6, <1>7 DEF SlotChange

\* A thread whose cancel is pending keeps the mutex.
LEMMA DoomedStays ==
  ASSUME TypeOK, ListenInv, LockInv, TableInv, Doomed, [Next]_vars
  PROVE  Doomed'
<1>1. mutex \in Conn /\ thr[mutex].cancel
  BY DEF Doomed
<1>2. ~Uncount(mutex)
  BY <1>1 DEF Uncount, End, At, TableInv
<1>3. mutex' = mutex
  BY <1>1, <1>2, LockChanges
<1>4. thr'[mutex].cancel
  BY <1>1, ThreadChanges DEF ThreadChange
<1> QED
  BY <1>1, <1>3, <1>4 DEF Doomed

\* A late thread that frees its slot keeps the mutex for good.
LEMMA LateDooms ==
  ASSUME TypeOK, ListenInv, NEW t \in Conn, FreeSlot(t), thr[t].cancel, [Next]_vars
  PROVE  Doomed'
<1>1. thr'[t].cancel
  BY ThreadChanges DEF ThreadChange
<1> QED
  BY <1>1 DEF Doomed, FreeSlot

LEMMA ListenerChanges ==
  ASSUME TypeOK, [Next]_vars
  PROVE  /\ lis'.pc = "occupy" => \/ lis' = lis
                                  \/ lis.pc = "scan" /\ ScanFree /\ lis'.found = lis.idx
                                  \/ ScanNone
         /\ lis'.pc = "spawn" => lis' = lis \/ (Occupy /\ lis'.found = lis.found /\ lis'.conn = lis.conn)
         /\ lis'.pc = "scan" => \/ lis' = lis
                                \/ LoadNum /\ num < NumSlots /\ lis'.idx = 1
                                \/ ScanTaken /\ lis'.idx = lis.idx + 1
         /\ lis'.pc \in Placing => \/ lis' = lis
                                   \/ \E c \in Conn : Accept(c)
                                   \/ /\ lis.pc \in Placing
                                      /\ lis'.conn = lis.conn /\ lis'.fd = lis.fd
<1>1. lis \in ListenRec
  BY DEF TypeOK
<1> DEFINE Goal ==
         /\ lis'.pc = "occupy" => \/ lis' = lis
                                  \/ lis.pc = "scan" /\ ScanFree /\ lis'.found = lis.idx
                                  \/ ScanNone
         /\ lis'.pc = "spawn" => lis' = lis \/ (Occupy /\ lis'.found = lis.found /\ lis'.conn = lis.conn)
         /\ lis'.pc = "scan" => \/ lis' = lis
                                \/ LoadNum /\ num < NumSlots /\ lis'.idx = 1
                                \/ ScanTaken /\ lis'.idx = lis.idx + 1
         /\ lis'.pc \in Placing => \/ lis' = lis
                                   \/ \E c \in Conn : Accept(c)
                                   \/ /\ lis.pc \in Placing
                                      /\ lis'.conn = lis.conn /\ lis'.fd = lis.fd
<1> USE <1>1 DEF Placing
<1>2. ASSUME NEW c \in Conn, Accept(c) PROVE Goal
  BY <1>2 DEF Accept, ListenRec
<1>3. CASE LoadNum
  BY <1>3 DEF LoadNum, Admit, ListenRec
<1>4. CASE ScanTaken
  BY <1>4 DEF ScanTaken, ListenRec
<1>5. CASE ScanFree
  BY <1>5 DEF ScanFree, TakeIf, ListenRec
<1>6. CASE ScanNone
  BY <1>6 DEF ScanNone, ListenRec
<1>7. CASE Occupy
  BY <1>7 DEF Occupy, ListenRec
<1>8. CASE Spawn
  BY <1>8 DEF Spawn, ListenRec
<1>9. CASE SpawnFails
  BY <1>9 DEF SpawnFails, ListenRec
<1>10. CASE IncLoad
  BY <1>10 DEF IncLoad, ListenRec
<1>11. CASE IncStore \/ Refuse
  BY <1>11 DEF IncStore, Refuse, NextRound, ListenRec
<1>12. CASE EjectCrash
  BY <1>12 DEF EjectCrash, ListenRec
<1> QED
  BY <1>2, <1>3, <1>4, <1>5, <1>6, <1>7, <1>8, <1>9, <1>10, <1>11, <1>12, Frame
  DEF Moves, Listener

\* A slot stops being connected when its thread frees it, or in an ejection that
\* needs the mutex free.
LEMMA PlaceStep ==
  ASSUME TypeOK, ThreadInv, ListenInv, MainInv, LockInv, TableInv, OwnInv, PlaceInv, [Next]_vars
  PROVE  PlaceInv'
<1>1. /\ \A t \in Conn : ThreadChange(t)
      /\ \A i \in Slots : SlotChange(i)
  BY ThreadChanges, SlotChanges
<1>2. ASSUME lis'.pc = "occupy", ~Happened({"no_slot"})'
      PROVE  lis'.found \in Slots /\ ~slot'[lis'.found].connected
  <2>1. ~Happened({"no_slot"})
    BY <1>2, MishapsStay
  <2>2. ~ScanNone
    BY <1>2 DEF ScanNone, Mishap, Happened
  <2>3. CASE lis' = lis
    <3>1. lis.found \in Slots /\ ~slot[lis.found].connected
      BY <1>2, <2>1, <2>3 DEF PlaceInv
    <3>2. ~Occupy
      BY <1>2, <2>3 DEF Occupy, TypeOK, ListenRec
    <3> QED
      BY <1>1, <2>3, <3>1, <3>2 DEF SlotChange
  <2>4. CASE lis.pc = "scan" /\ ScanFree /\ lis'.found = lis.idx
    BY <2>4 DEF ScanFree, TakeIf
  <2> QED
    BY <1>2, <2>2, <2>3, <2>4, ListenerChanges
<1>3. ASSUME lis'.pc = "spawn", ~Happened({"no_slot", "early_eject"})', ~Doomed'
      PROVE  slot'[lis'.found].connected /\ slot'[lis'.found].owner = lis'.conn
  <2>1. ~Happened({"no_slot", "early_eject"}) /\ ~Doomed
    BY <1>3, MishapsStay, DoomedStays
  <2>2. CASE lis' = lis
    <3>1. /\ slot[lis.found].connected /\ slot[lis.found].owner = lis.conn
          /\ lis.found \in Slots /\ lis.conn \in Conn /\ thr[lis.conn].pc = "none"
      BY <1>3, <2>1, <2>2 DEF PlaceInv, ListenInv, Placing
    <3>2. ~Occupy
      BY <1>3, <2>2 DEF Occupy, TypeOK, ListenRec
    <3>3. ASSUME NEW t \in Conn, FreeSlot(t), lis.found = thr[t].slot PROVE FALSE
      <4>1. ~thr[t].cancel
        BY <1>3, <3>3, LateDooms
      <4>2. thr[t].pc \in Running
        BY <3>3 DEF FreeSlot, At, Running
      <4>3. slot[lis.found].owner = t
        BY <2>1, <3>3, <4>1, <4>2 DEF OwnInv, Owns
      <4> QED
        BY <3>1, <4>2, <4>3 DEF Running
    <3>4. ASSUME Eject, lis.found = main.target PROVE FALSE
      <4>1. slot[lis.found].thread # lis.conn
        BY <3>1 DEF TableInv
      <4>2. "early_eject" \in mishaps'
        BY <3>1, <3>4, <4>1 DEF Eject, Disconnect, EjectMishap, Mishaps
      <4> QED
        BY <1>3, <4>2 DEF Happened
    <3> QED
      BY <1>1, <2>2, <3>1, <3>2, <3>3, <3>4 DEF SlotChange
  <2>3. CASE Occupy /\ lis'.found = lis.found /\ lis'.conn = lis.conn
    <3>1. lis.found \in Slots
      BY <2>3 DEF Occupy, TypeOK, ListenRec
    <3>2. slot' = [slot EXCEPT ![lis.found] =
               [@ EXCEPT !.sock = lis.fd, !.connected = TRUE, !.owner = lis.conn]]
      BY <2>3 DEF Occupy
    <3> QED
      BY <2>3, <3>1, <3>2 DEF TypeOK, SlotRec
  <2> QED
    BY <1>3, <2>2, <2>3, ListenerChanges
<1> QED
  BY <1>2, <1>3 DEF PlaceInv

LEMMA OwnStep ==
  ASSUME TypeOK, ThreadInv, ListenInv, MainInv, LockInv, TableInv, OwnInv, PlaceInv, [Next]_vars
  PROVE  OwnInv'
<1>1. /\ \A t \in Conn : ThreadChange(t)
      /\ \A i \in Slots : SlotChange(i)
  BY ThreadChanges, SlotChanges
<1> SUFFICES ASSUME ~Happened({"no_slot", "early_eject"})', ~Doomed',
                    NEW t \in Conn, thr'[t].pc \in Running, ~thr'[t].cancel
             PROVE  Owns(t)'
  BY DEF OwnInv
<1>2. ~Happened({"no_slot", "early_eject"}) /\ ~Doomed
  BY MishapsStay, DoomedStays
<1>3. ~thr[t].cancel
  BY <1>1 DEF ThreadChange
<1>4. CASE Spawn /\ t = lis.conn
  <2>1. /\ lis.found \in Slots /\ lis.conn \in Conn /\ thr[lis.conn].pc = "none"
        /\ slot[lis.found].connected /\ slot[lis.found].owner = lis.conn
    BY <1>2, <1>4 DEF Spawn, PlaceInv, ListenInv, Placing
  <2>2. thr'[t].slot = lis.found
    BY <1>1, <1>4, <2>1, ThreadChanges DEF ThreadChange, Running
  <2>3. slot' = [slot EXCEPT ![lis.found].thread = lis.conn]
    BY <1>4 DEF Spawn
  <2>4. /\ slot'[lis.found].connected /\ slot'[lis.found].owner = lis.conn
        /\ slot'[lis.found].thread = lis.conn
    BY <2>1, <2>3 DEF TypeOK, SlotRec
  <2> QED
    BY <1>4, <2>2, <2>4 DEF Owns
<1>5. CASE thr[t].pc \in Running
  <2> DEFINE i == thr[t].slot
  <2>1. i \in Slots /\ thr'[t].slot = i
    BY <1>1, <1>5 DEF ThreadChange, Running, ThreadInv
  <2>2. slot[i].connected /\ slot[i].owner = t /\ slot[i].thread = t
    BY <1>2, <1>3, <1>5 DEF OwnInv, Owns
  <2>3. ~(Occupy /\ i = lis.found)
    <3>1. Occupy => ~slot[lis.found].connected
      BY <1>2 DEF Occupy, PlaceInv, Happened
    <3> QED
      BY <2>2, <3>1
  <2>4. ~(Spawn /\ i = lis.found)
    <3>1. Spawn => slot[lis.found].owner = lis.conn /\ thr[lis.conn].pc = "none"
      BY <1>2 DEF Spawn, PlaceInv, ListenInv, Placing
    <3> QED
      BY <1>5, <2>2, <3>1 DEF Running
  <2>5. ASSUME NEW u \in Conn, FreeSlot(u), i = thr[u].slot PROVE FALSE
    <3>1. ~thr[u].cancel
      BY <2>5, LateDooms
    <3>2. thr[u].pc \in Running
      BY <2>5 DEF FreeSlot, At, Running
    <3>3. u = t
      BY <1>2, <2>2, <2>5, <3>1, <3>2 DEF OwnInv, Owns
    <3>4. thr'[t].pc = "xclose"
      BY <2>5, <3>3 DEF FreeSlot, Goto, TypeOK, ThreadRec
    <3> QED
      BY <3>4 DEF Running
  <2>6. ASSUME Eject, i = main.target PROVE FALSE
    <3>1. thr' = [thr EXCEPT ![slot[main.target].thread].cancel = @ \/
               thr[slot[main.target].thread].pc # "dead"]
      BY <2>6 DEF Eject
    <3>2. thr[t].pc # "dead" /\ slot[main.target].thread = t
      BY <1>5, <2>2, <2>6 DEF Running
    <3>3. thr'[t].cancel
      BY <3>1, <3>2 DEF TypeOK, ThreadRec
    <3> QED
      BY <3>3
  <2> HIDE DEF i
  <2>7. slot'[i].connected /\ slot'[i].owner = t /\ slot'[i].thread = t
    BY <1>1, <2>1, <2>2, <2>3, <2>4, <2>5, <2>6 DEF SlotChange
  <2> QED
    BY <2>1, <2>7 DEF Owns
<1> QED
  BY <1>1, <1>4, <1>5 DEF ThreadChange
-----------------------------------------------------------------------------
(* The count of users                                                      *)

Counting == {"spawn", "incload", "incstore"}
Ejecting == {"dclose", "decstore"}

\* The thread that has the mutex will uncount its user.
Uncounting == mutex \in Conn /\ thr[mutex].pc \in {"xclose", "xstore"} /\ ~thr[mutex].cancel

Expected ==
  Cardinality(Online) - One(lis.pc \in Counting) + One(Uncounting) + One(main.pc \in Ejecting)

\* Until an update is lost, or a slot is ejected that is empty or has no thread
\* yet, the count is never too low; and never wrong if no user was ejected who
\* was leaving.  So a listener that scans has a free slot before it.
CountInv ==
  Alive /\ ~Happened({"lost_update", "early_eject", "phantom_eject"}) =>
    /\ ~Happened({"no_slot"})
    /\ num >= Expected
    /\ ~Happened({"late_eject"}) => num = Expected
    /\ lis.pc = "scan" => \E i \in Slots : i >= lis.idx /\ ~slot[i].connected

LEMMA SlotSets ==
  ASSUME NEW S \in SUBSET Slots
  PROVE  /\ IsFiniteSet(S) /\ Cardinality(S) \in Nat
         /\ Cardinality(S) < NumSlots => \E i \in Slots : i \notin S
         /\ \A i \in Slots : i \notin S => Cardinality(S \cup {i}) = Cardinality(S) + 1
         /\ \A i \in S : Cardinality(S \ {i}) = Cardinality(S) - 1
<1>1. IsFiniteSet(Slots) /\ Cardinality(Slots) = NumSlots
  <2>1. NumSlots \in Nat /\ 1 \in Int /\ NumSlots \in Int
    BY SlotsAssumption
  <2>2. IsFiniteSet(1..NumSlots) /\ Cardinality(1..NumSlots) = IF 1 > NumSlots THEN 0 ELSE NumSlots - 1 + 1
    BY <2>1, FS_Interval
  <2>3. ~(1 > NumSlots)
    BY SlotsAssumption
  <2> QED
    BY <2>1, <2>2, <2>3 DEF Slots
<1>2. IsFiniteSet(S) /\ Cardinality(S) \in Nat
  BY <1>1, FS_Subset, FS_CardinalityType
<1>3. Cardinality(S) < NumSlots => S # Slots
  BY <1>1, SlotsAssumption
<1>4. \A i : i \notin S => Cardinality(S \cup {i}) = Cardinality(S) + 1
  BY <1>2, FS_AddElement
<1>5. \A i : i \in S => Cardinality(S \ {i}) = Cardinality(S) - 1
  BY <1>2, FS_RemoveElement
<1> QED
  BY <1>2, <1>3, <1>4, <1>5

\* The set of connected slots, by the actions that change it.
LEMMA OnlineChanges ==
  ASSUME TypeOK, ThreadInv, MainInv, [Next]_vars
  PROVE  /\ Occupy /\ lis.found \in Slots /\ ~slot[lis.found].connected =>
              Cardinality(Online') = Cardinality(Online) + 1
         /\ \A t \in Conn : FreeSlot(t) =>
              Cardinality(Online') = Cardinality(Online) - One(slot[thr[t].slot].connected)
         /\ Eject => Cardinality(Online') = Cardinality(Online) - One(slot[main.target].connected)
         /\ ~Occupy /\ ~Eject /\ (\A t \in Conn : ~FreeSlot(t)) => Online' = Online
<1>1. slot \in [Slots -> SlotRec] /\ Online \in SUBSET Slots
  BY DEF TypeOK, Online
<1>2. ASSUME Occupy, lis.found \in Slots, ~slot[lis.found].connected
      PROVE  Cardinality(Online') = Cardinality(Online) + 1
  <2>1. slot' = [slot EXCEPT ![lis.found] =
               [@ EXCEPT !.sock = lis.fd, !.connected = TRUE, !.owner = lis.conn]]
    BY <1>2 DEF Occupy
  <2>2. Online' = Online \cup {lis.found} /\ lis.found \notin Online
    BY <1>1, <1>2, <2>1 DEF Online, SlotRec
  <2> QED
    BY <1>1, <1>2, <2>2, SlotSets
<1>3. ASSUME NEW i \in Slots, slot' = [slot EXCEPT ![i].connected = FALSE]
      PROVE  Cardinality(Online') = Cardinality(Online) - One(slot[i].connected)
  <2>1. Online' = Online \ {i}
    BY <1>1, <1>3 DEF Online, SlotRec
  <2>2. CASE slot[i].connected
    <3>1. i \in Online
      BY <2>2 DEF Online
    <3> QED
      BY <1>1, <2>1, <2>2, <3>1, SlotSets DEF One
  <2>3. CASE ~slot[i].connected
    <3>1. Online' = Online
      BY <2>1, <2>3 DEF Online
    <3> QED
      BY <1>1, <2>3, <3>1, SlotSets DEF One
  <2> QED
    BY <2>2, <2>3
<1>4. ASSUME NEW t \in Conn, FreeSlot(t)
      PROVE  Cardinality(Online') = Cardinality(Online) - One(slot[thr[t].slot].connected)
  <2>1. thr[t].slot \in Slots
    BY <1>4 DEF FreeSlot, At, ThreadInv
  <2>2. slot' = [slot EXCEPT ![thr[t].slot].connected = FALSE]
    BY <1>4 DEF FreeSlot
  <2> QED
    BY <1>3, <2>1, <2>2
<1>5. ASSUME Eject
      PROVE Cardinality(Online') = Cardinality(Online) - One(slot[main.target].connected)
  <2>1. main.target \in Slots
    BY <1>5 DEF Eject, Disconnect, MainInv
  <2>2. slot' = [slot EXCEPT ![main.target].connected = FALSE]
    BY <1>5 DEF Eject, Disconnect
  <2> QED
    BY <1>3, <2>1, <2>2
<1>6. ASSUME ~Occupy, ~Eject, \A t \in Conn : ~FreeSlot(t) PROVE Online' = Online
  <2>1. \A i \in Slots : slot'[i].connected <=> slot[i].connected
    BY <1>6, SlotChanges DEF SlotChange
  <2> QED
    BY <2>1 DEF Online
<1> QED
  BY <1>2, <1>4, <1>5, <1>6

\* Who is about to count or uncount, by the actions that change it.
LEMMA UncountingChanges ==
  ASSUME TypeOK, ListenInv, LockInv, TableInv, [Next]_vars, Alive'
  PROVE  /\ \A t \in Conn : FreeSlot(t) => ~Uncounting /\ (Uncounting' <=> ~thr[t].cancel)
         /\ \A t \in Conn : Uncount(t) => Uncounting /\ ~Uncounting'
         /\ (\A t \in Conn : ~FreeSlot(t) /\ ~Uncount(t)) => (Uncounting' <=> Uncounting)
<1>1. \A t \in Conn : ThreadChange(t)
  BY ThreadChanges
<1>2. ASSUME NEW t \in Conn, FreeSlot(t) PROVE ~Uncounting /\ (Uncounting' <=> ~thr[t].cancel)
  <2>1. mutex = "free" /\ mutex' = t /\ thr' = [thr EXCEPT ![t].pc = "xclose"]
    BY <1>2 DEF FreeSlot, Goto
  <2>2. thr'[t].pc = "xclose" /\ (thr'[t].cancel <=> thr[t].cancel)
    BY <2>1 DEF TypeOK, ThreadRec
  <2> QED
    BY <2>1, <2>2, ConnAssumption DEF Uncounting
<1>3. ASSUME NEW t \in Conn, Uncount(t) PROVE Uncounting /\ ~Uncounting'
  <2>1. mutex = t /\ thr[t].pc = "xstore" /\ mutex' = "free"
    BY <1>3 DEF Uncount, End, At, LockInv
  <2> QED
    BY <2>1, ConnAssumption DEF Uncounting, TableInv
<1>4. ASSUME \A t \in Conn : ~FreeSlot(t) /\ ~Uncount(t) PROVE Uncounting' <=> Uncounting
  <2>1. mutex \in Conn \/ mutex' \in Conn => mutex' = mutex
    BY <1>4, LockChanges
  <2>2. SUFFICES ASSUME mutex \in Conn, mutex' = mutex PROVE Uncounting' <=> Uncounting
    BY <2>1 DEF Uncounting
  <2>3. ~Eject
    BY <2>2, ConnAssumption DEF Eject, Disconnect
  <2>4. thr'[mutex].cancel <=> thr[mutex].cancel
    BY <1>1, <2>2, <2>3 DEF ThreadChange
  <2>5. CloseSocket(mutex) => thr[mutex].pc = "xclose"
    BY DEF CloseSocket, Uncancelled, At
  <2>6. thr'[mutex].pc \in {"xclose", "xstore"} => thr[mutex].pc \in {"xclose", "xstore"}
    BY <1>1, <1>4, <2>2, <2>5 DEF ThreadChange
  <2>7. thr[mutex].pc \in {"xclose", "xstore"} /\ ~thr[mutex].cancel => thr'[mutex].pc \in {"xclose", "xstore"}
    BY <1>1, <1>4, <2>2 DEF ThreadChange, Alive
  <2> QED
    BY <2>2, <2>4, <2>6, <2>7 DEF Uncounting
<1> QED
  BY <1>2, <1>3, <1>4

LEMMA CountersChange ==
  ASSUME TypeOK, [Next]_vars, Alive'
  PROVE  /\ Alive
         /\ (~Occupy /\ ~IncStore) => (lis'.pc \in Counting <=> lis.pc \in Counting)
         /\ (~Eject /\ ~DecStore) => (main'.pc \in Ejecting <=> main.pc \in Ejecting)
<1>1. lis \in ListenRec /\ main \in MainRec
  BY DEF TypeOK
<1>2. ~EjectCrash
  BY <1>1 DEF EjectCrash, Alive, MainRec
<1>3. (~Occupy /\ ~IncStore) => (lis'.pc \in Counting <=> lis.pc \in Counting)
  <2>1. ASSUME NEW c \in Conn, Accept(c) PROVE lis'.pc \in Counting <=> lis.pc \in Counting
    BY <1>1, <2>1 DEF Accept, ListenRec, Counting
  <2>2. LoadNum \/ ScanTaken \/ ScanFree \/ ScanNone => (lis'.pc \in Counting <=> lis.pc \in Counting)
    BY <1>1 DEF LoadNum, Admit, ScanTaken, ScanFree, TakeIf, ScanNone, ListenRec, Counting
  <2>3. Spawn \/ SpawnFails \/ IncLoad \/ Refuse => (lis'.pc \in Counting <=> lis.pc \in Counting)
    BY <1>1 DEF Spawn, SpawnFails, IncLoad, Refuse, NextRound, ListenRec, Counting
  <2> QED
    BY <1>2, <2>1, <2>2, <2>3, Frame DEF Moves, Listener
<1>4. (~Eject /\ ~DecStore) => (main'.pc \in Ejecting <=> main.pc \in Ejecting)
  <2>1. RecordVote \/ CountVote \/ Compare \/ TallyVote \/ Choose =>
          (main'.pc \in Ejecting <=> main.pc \in Ejecting)
    BY <1>1 DEF RecordVote, Record, CountVote, Compare, TallyVote, Choose, MainRec, Ejecting
  <2>2. EjectClose \/ ResetVotes => (main'.pc \in Ejecting <=> main.pc \in Ejecting)
    BY <1>1 DEF EjectClose, ResetVotes, MainRec, Ejecting
  <2> QED
    BY <1>2, <2>1, <2>2, Frame DEF Moves, MainThread
<1>5. Alive
  <2>1. RecordVote \/ CountVote \/ Compare \/ TallyVote \/ Choose => Alive
    BY DEF RecordVote, Record, CountVote, Compare, TallyVote, Choose, Alive
  <2>2. Eject \/ EjectClose \/ DecStore \/ ResetVotes => Alive
    BY DEF Eject, Disconnect, EjectClose, DecStore, ResetVotes, Alive
  <2>3. main' = main => Alive
    BY DEF Alive
  <2> QED
    BY <1>2, <2>1, <2>2, <2>3, Frame DEF Moves, MainThread
<1> QED
  BY <1>3, <1>4, <1>5

LEMMA NoSlotStep ==
  ASSUME TypeOK, [Next]_vars, "no_slot" \in mishaps'
  PROVE  "no_slot" \in mishaps \/ ScanNone
<1>1. ASSUME NEW t \in Conn, CloseSocket(t) \/ Uncount(t) PROVE "no_slot" \in mishaps
  BY <1>1 DEF CloseSocket, Uncount, End, StoreNum, Mishap
<1>2. Occupy \/ SpawnFails => "no_slot" \in mishaps
  BY DEF Occupy, SpawnFails, Mishap
<1>3. IncStore \/ DecStore => "no_slot" \in mishaps
  BY DEF IncStore, DecStore, StoreNum, Mishap
<1>4. Eject \/ EjectClose => "no_slot" \in mishaps
  BY DEF Eject, Disconnect, EjectMishap, EjectClose, Mishap
<1> QED
  BY <1>1, <1>2, <1>3, <1>4, Frame DEF Moves, MishapMoves

\* The listener that has read a count below the maximum has a free slot before
\* it as long as it looks.
LEMMA ScanStep ==
  ASSUME TypeOK, Alive, ~Happened({"lost_update", "early_eject", "phantom_eject"}), CountInv,
         lis'.pc = "scan", [Next]_vars
  PROVE  \E i \in Slots : i >= lis'.idx /\ ~slot'[i].connected
<1>1. CASE lis' = lis
  <2>1. PICK i \in Slots : i >= lis.idx /\ ~slot[i].connected
    BY <1>1 DEF CountInv
  <2>2. ~Occupy
    BY <1>1 DEF Occupy
  <2>3. ~slot'[i].connected
    BY <2>1, <2>2, SlotChanges DEF SlotChange
  <2> QED
    BY <1>1, <2>1, <2>3
<1>2. CASE LoadNum /\ num < NumSlots /\ lis'.idx = 1
  <2>1. lis.pc = "load" /\ slot' = slot
    BY <1>2 DEF LoadNum, Admit
  <2>2. Online \in SUBSET Slots
    BY DEF Online
  <2>3. Cardinality(Online) \in Nat /\ num \in Int /\ NumSlots \in Nat
    BY <2>2, SlotSets, SlotsAssumption DEF TypeOK, SharedType
  <2>4. One(lis.pc \in Counting) = 0 /\ One(Uncounting) \in Nat /\ One(main.pc \in Ejecting) \in Nat
    BY <2>1 DEF One, Counting
  <2>5. num >= Cardinality(Online)
    <3>1. num >= Expected
      BY DEF CountInv
    <3> DEFINE a == Cardinality(Online)
               l == One(lis.pc \in Counting)
               u == One(Uncounting)
               m == One(main.pc \in Ejecting)
    <3>2. Expected = a - l + u + m
      BY DEF Expected
    <3>3. a \in Nat /\ l = 0 /\ u \in Nat /\ m \in Nat
      BY <2>3, <2>4
    <3> HIDE DEF a, l, u, m
    <3>4. num >= a
      BY <2>3, <3>1, <3>2, <3>3
    <3> QED
      BY <3>4 DEF a
  <2>6. Cardinality(Online) < NumSlots
    BY <1>2, <2>3, <2>5
  <2>7. PICK i \in Slots : i \notin Online
    BY <2>2, <2>6, SlotSets
  <2>8. i >= 1 /\ ~slot[i].connected
    BY <2>7 DEF Slots, Online
  <2> QED
    BY <1>2, <2>1, <2>8
<1>3. CASE ScanTaken /\ lis'.idx = lis.idx + 1
  <2>1. lis.pc = "scan" /\ lis.idx \in Slots /\ slot[lis.idx].connected /\ slot' = slot
    BY <1>3 DEF ScanTaken
  <2>2. PICK i \in Slots : i >= lis.idx /\ ~slot[i].connected
    BY <2>1 DEF CountInv
  <2>3. i # lis.idx
    BY <2>1, <2>2
  <2>4. i >= lis.idx + 1
    BY <2>1, <2>2, <2>3 DEF Slots
  <2> QED
    BY <1>3, <2>1, <2>2, <2>4
<1> QED
  BY <1>1, <1>2, <1>3, ListenerChanges

\* What leaves the mutex alone neither frees a slot nor uncounts a user.
LEMMA LockIsUsed ==
  ASSUME TypeOK, LockInv, mutex' = mutex
  PROVE  \A t \in Conn : ~FreeSlot(t) /\ ~Uncount(t)
<1>1. \A t \in Conn : FreeSlot(t) => mutex = "free" /\ mutex' = t
  BY DEF FreeSlot
<1>2. \A t \in Conn : Uncount(t) => mutex = t /\ mutex' = "free"
  BY DEF Uncount, End, At, LockInv
<1> QED
  BY <1>1, <1>2, ConnAssumption

LEMMA CountStep ==
  ASSUME TypeOK, ThreadInv, ListenInv, MainInv, LockInv, TableInv, OwnInv, PlaceInv, CountInv,
         [Next]_vars
  PROVE  CountInv'
<1> DEFINE bad == {"lost_update", "early_eject", "phantom_eject"}
<1> SUFFICES ASSUME Alive', ~Happened(bad)'
             PROVE  /\ ~Happened({"no_slot"})'
                    /\ num' >= Expected'
                    /\ ~Happened({"late_eject"})' => num' = Expected'
                    /\ lis'.pc = "scan" => \E i \in Slots : i >= lis'.idx /\ ~slot'[i].connected
  BY DEF CountInv
<1>1. Alive /\ ~Happened(bad) /\ (~Happened({"late_eject"})' => ~Happened({"late_eject"}))
  BY CountersChange, MishapsStay
<1>2. /\ ~Happened({"no_slot"}) /\ num >= Expected
      /\ ~Happened({"late_eject"}) => num = Expected
      /\ lis.pc = "scan" => \E i \in Slots : i >= lis.idx /\ ~slot[i].connected
  BY <1>1 DEF CountInv
<1>3. ~ScanNone
  <2>1. SUFFICES ASSUME ScanNone PROVE FALSE
    OBVIOUS
  <2>2. PICK i \in Slots : i >= lis.idx
    BY <1>2, <2>1 DEF ScanNone
  <2>3. lis.idx \in 1..(NumSlots + 1) /\ lis.idx \notin Slots
    BY <2>1 DEF ScanNone, TypeOK, ListenRec
  <2> QED
    BY <2>2, <2>3, SlotsAssumption DEF Slots
<1>4. ~Happened({"no_slot"})'
  BY <1>2, <1>3, NoSlotStep DEF Happened
<1>5. lis'.pc = "scan" => \E i \in Slots : i >= lis'.idx /\ ~slot'[i].connected
  BY <1>1, ScanStep
<1> DEFINE a == Cardinality(Online)
           l == One(lis.pc \in Counting)
           u == One(Uncounting)
           m == One(main.pc \in Ejecting)
           a1 == Cardinality(Online')
           l1 == One(lis'.pc \in Counting)
           u1 == One(Uncounting')
           m1 == One(main'.pc \in Ejecting)
<1>6. Expected = a - l + u + m /\ Expected' = a1 - l1 + u1 + m1
  BY DEF Expected
<1>7. a \in Nat /\ a1 \in Nat /\ {l, u, m, l1, u1, m1} \subseteq {0, 1}
  <2>1. Online \in SUBSET Slots /\ Online' \in SUBSET Slots
    BY DEF Online
  <2>2. a \in Nat /\ a1 \in Nat
    BY <2>1, SlotSets
  <2> QED
    BY <2>2 DEF One
<1>8. num \in Int /\ num' \in Int /\ lis.reg \in Int /\ main.reg \in Int
      /\ \A t \in Conn : thr[t].reg \in Int
  BY SharedTypeStep DEF TypeOK, SharedType, ListenRec, MainRec, ThreadRec
<1> DEFINE Lower == num' - num >= (a1 - a) - (l1 - l) + (u1 - u) + (m1 - m)
           Exact == num' - num = (a1 - a) - (l1 - l) + (u1 - u) + (m1 - m)
<1>locked. mutex' = mutex => \A t \in Conn : ~FreeSlot(t) /\ ~Uncount(t)
  BY LockIsUsed
<1>sameL. ~Occupy /\ ~IncStore => l1 = l
  BY CountersChange DEF One
<1>sameM. ~Eject /\ ~DecStore => m1 = m
  BY CountersChange DEF One
<1>sameU. (\A t \in Conn : ~FreeSlot(t) /\ ~Uncount(t)) => u1 = u
  <2>1. (\A t \in Conn : ~FreeSlot(t) /\ ~Uncount(t)) => (Uncounting' <=> Uncounting)
    BY UncountingChanges
  <2> QED
    BY <2>1 DEF One
<1>sameA. ~Occupy /\ ~Eject /\ (\A t \in Conn : ~FreeSlot(t)) => a1 = a
  BY OnlineChanges
<1>listening. ~(Occupy /\ IncStore) /\ (Occupy \/ IncStore => ~Eject /\ ~DecStore /\ mutex' = mutex)
  BY DEF Occupy, IncStore, Eject, Disconnect, DecStore, TypeOK, ListenRec, MainRec
<1>threads. \A t \in Conn : FreeSlot(t) \/ Uncount(t) => lis' = lis /\ main' = main
  BY DEF FreeSlot, Uncount, End
<1>still. /\ lis' = lis => ~Occupy /\ ~IncStore
          /\ main' = main => ~Eject /\ ~DecStore
  <2>1. Occupy => lis.pc = "occupy" /\ lis'.pc = "spawn"
    BY DEF Occupy, TypeOK, ListenRec
  <2>2. IncStore => lis.pc = "incstore" /\ lis'.pc = "accept"
    BY DEF IncStore, NextRound, TypeOK, ListenRec
  <2>3. Eject => main.pc = "dlock" /\ main'.pc = "dclose"
    BY DEF Eject, Disconnect, TypeOK, MainRec
  <2>4. DecStore => main.pc = "decstore" /\ main'.pc = "reset"
    BY DEF DecStore, TypeOK, MainRec
  <2> QED
    BY <2>1, <2>2, <2>3, <2>4
<1>9. ASSUME Occupy PROVE Exact
  <2>1. num' = num /\ lis.pc = "occupy" /\ lis'.pc = "spawn"
    BY <1>9 DEF Occupy, TypeOK, ListenRec
  <2>2. lis.found \in Slots /\ ~slot[lis.found].connected
    BY <1>2, <2>1 DEF PlaceInv
  <2>3. a1 = a + 1
    BY <1>9, <2>2, OnlineChanges
  <2>4. l = 0 /\ l1 = 1
    BY <2>1 DEF One, Counting
  <2>5. u1 = u /\ m1 = m
    BY <1>9, <1>locked, <1>listening, <1>sameU, <1>sameM
  <2> HIDE DEF a, l, u, m, a1, l1, u1, m1
  <2> QED
    BY <1>7, <1>8, <2>1, <2>3, <2>4, <2>5
<1>10. ASSUME IncStore PROVE Exact
  <2>1. num' = lis.reg + 1 /\ lis.pc = "incstore" /\ lis'.pc = "accept"
    BY <1>10 DEF IncStore, StoreNum, NextRound, TypeOK, ListenRec
  <2>2. lis.reg = num
    BY <1>10 DEF IncStore, StoreNum, Mishap, Happened
  <2>3. l = 1 /\ l1 = 0
    BY <2>1 DEF One, Counting
  <2>4. a1 = a /\ u1 = u /\ m1 = m
    BY <1>10, <1>locked, <1>listening, <1>sameA, <1>sameU, <1>sameM
  <2> HIDE DEF a, l, u, m, a1, l1, u1, m1
  <2> QED
    BY <1>7, <1>8, <2>1, <2>2, <2>3, <2>4
<1>11. ASSUME DecStore PROVE Exact
  <2>1. /\ num' = main.reg - 1 /\ main.pc = "decstore" /\ main'.pc = "reset"
        /\ mutex' = mutex /\ lis' = lis
    BY <1>11 DEF DecStore, StoreNum, TypeOK, MainRec
  <2>2. main.reg = num
    BY <1>11 DEF DecStore, StoreNum, Mishap, Happened
  <2>3. m = 1 /\ m1 = 0
    BY <2>1 DEF One, Ejecting
  <2>4. ~Eject
    BY <2>1 DEF Eject, Disconnect
  <2>5. a1 = a /\ u1 = u /\ l1 = l
    BY <2>1, <2>4, <1>locked, <1>still, <1>sameA, <1>sameU, <1>sameL
  <2> HIDE DEF a, l, u, m, a1, l1, u1, m1
  <2> QED
    BY <1>7, <1>8, <2>1, <2>2, <2>3, <2>5
<1>12. ASSUME NEW t \in Conn, Uncount(t) PROVE Exact
  <2>1. num' = thr[t].reg - 1 /\ thr[t].reg = num
    BY <1>12 DEF Uncount, End, StoreNum, Mishap, Happened
  <2>2. u = 1 /\ u1 = 0
    BY <1>12, UncountingChanges DEF One
  <2>3. a1 = a
    <3>1. slot' = slot
      BY <1>12 DEF Uncount, End
    <3> QED
      BY <3>1 DEF Online
  <2>4. l1 = l /\ m1 = m
    BY <1>12, <1>threads, <1>still, <1>sameL, <1>sameM
  <2> HIDE DEF a, l, u, m, a1, l1, u1, m1
  <2> QED
    BY <1>7, <1>8, <2>1, <2>2, <2>3, <2>4
<1>13. ASSUME NEW t \in Conn, FreeSlot(t)
       PROVE  Lower /\ (~Happened({"late_eject"}) => Exact)
  <2>1. num' = num /\ mutex = "free" /\ thr[t].pc = "xlock"
    BY <1>13 DEF FreeSlot, At
  <2>2. a1 = a - One(slot[thr[t].slot].connected)
    BY <1>13, OnlineChanges
  <2>3. l1 = l /\ m1 = m
    BY <1>13, <1>threads, <1>still, <1>sameL, <1>sameM
  <2>4. u = 0
    BY <1>13, UncountingChanges DEF One
  <2>5. CASE thr[t].cancel
    <3>1. u1 = 0
      BY <1>13, <2>5, UncountingChanges DEF One
    <3>2. Happened({"late_eject"})
      BY <2>1, <2>5 DEF LockInv, Happened
    <3>3. PICK x \in {0, 1} : x = One(slot[thr[t].slot].connected)
      BY DEF One
    <3> HIDE DEF a, l, u, m, a1, l1, u1, m1
    <3> QED
      BY <1>7, <1>8, <2>1, <2>2, <2>3, <2>4, <3>1, <3>2, <3>3
  <2>6. CASE ~thr[t].cancel
    <3>1. u1 = 1
      BY <1>13, <2>6, UncountingChanges DEF One
    <3>2. ~Doomed /\ ~Happened({"no_slot", "early_eject"})
      BY <1>1, <1>2, <2>1, ConnAssumption DEF Doomed, Happened
    <3>3. slot[thr[t].slot].connected
      BY <2>1, <2>6, <3>2 DEF OwnInv, Owns, Running
    <3>4. One(slot[thr[t].slot].connected) = 1
      BY <3>3 DEF One
    <3> HIDE DEF a, l, u, m, a1, l1, u1, m1
    <3> QED
      BY <1>7, <1>8, <2>1, <2>2, <2>3, <2>4, <3>1, <3>4
  <2> QED
    BY <2>5, <2>6
<1>14. ASSUME Eject PROVE Exact
  <2>1. num' = num /\ main.pc = "dlock" /\ main'.pc = "dclose" /\ lis' = lis /\ mutex' = "main"
    BY <1>14 DEF Eject, Disconnect, TypeOK, MainRec
  <2>2. slot[main.target].connected
    BY <1>14 DEF Eject, Disconnect, EjectMishap, Mishaps, Happened
  <2>3. a1 = a - 1
    BY <1>14, <2>2, OnlineChanges DEF One
  <2>4. m = 0 /\ m1 = 1
    BY <2>1 DEF One, Ejecting
  <2>5. \A t \in Conn : ~FreeSlot(t) /\ ~Uncount(t)
    BY <2>1, ConnAssumption DEF FreeSlot, Uncount, End
  <2>6. l1 = l /\ u1 = u
    BY <2>1, <2>5, <1>still, <1>sameL, <1>sameU
  <2> HIDE DEF a, l, u, m, a1, l1, u1, m1
  <2> QED
    BY <1>7, <1>8, <2>1, <2>3, <2>4, <2>6
<1>15. ASSUME ~Occupy, ~IncStore, ~DecStore, ~Eject, \A t \in Conn : ~FreeSlot(t) /\ ~Uncount(t)
       PROVE  Exact
  <2>1. num' = num
    BY <1>15, Frame DEF Moves, CountMoves
  <2>2. a1 = a /\ l1 = l /\ u1 = u /\ m1 = m
    BY <1>15, <1>sameA, <1>sameL, <1>sameU, <1>sameM
  <2> HIDE DEF a, l, u, m, a1, l1, u1, m1
  <2> QED
    BY <1>7, <1>8, <2>1, <2>2
<1>16. Lower /\ (~Happened({"late_eject"}) => Exact)
  <2>1. Exact => Lower
    <3> HIDE DEF a, l, u, m, a1, l1, u1, m1
    <3> QED
      BY <1>7, <1>8
  <2> HIDE DEF Exact, Lower
  <2> QED
    BY <1>9, <1>10, <1>11, <1>12, <1>13, <1>14, <1>15, <2>1
<1>17. num' >= Expected' /\ (~Happened({"late_eject"})' => num' = Expected')
  <2> HIDE DEF a, l, u, m, a1, l1, u1, m1
  <2>1. num' >= Expected'
    BY <1>2, <1>6, <1>7, <1>8, <1>16
  <2>2. ~Happened({"late_eject"}) => num' = Expected'
    BY <1>2, <1>6, <1>7, <1>8, <1>16
  <2> QED
    BY <1>1, <2>1, <2>2
<1> QED
  BY <1>4, <1>5, <1>17

\* The listener ends with the process.
CrashInv == ~Alive => lis.pc = "crashed"

LEMMA CrashStep ==
  ASSUME TypeOK, CrashInv, [Next]_vars
  PROVE  CrashInv'
<1> SUFFICES ASSUME main'.pc = "crashed" PROVE lis'.pc = "crashed"
  BY DEF CrashInv, Alive
<1>1. EjectCrash => lis'.pc = "crashed"
  BY DEF EjectCrash, TypeOK, ListenRec
<1>2. MainThread => EjectCrash
  BY DEF MainThread, RecordVote, Record, CountVote, Compare, TallyVote, Choose, Eject,
     Disconnect, EjectClose, DecStore, ResetVotes, TypeOK, MainRec
<1>3. ASSUME main' = main PROVE lis'.pc = "crashed"
  <2>1. lis.pc = "crashed"
    BY <1>3 DEF CrashInv, Alive
  <2>2. ~Listener
    BY <2>1 DEF Listener, Accept, LoadNum, Admit, ScanTaken, ScanFree, TakeIf, ScanNone, Occupy,
       Spawn, SpawnFails, IncLoad, IncStore, Refuse
  <2> QED
    BY <1>1, <2>1, <2>2, Frame DEF Moves
<1> QED
  BY <1>1, <1>2, <1>3, Frame DEF Moves

\* As long as the count is not too low the scan ends at a free slot.
LEMMA RoomStep ==
  ASSUME TypeOK, CrashInv, CountInv, RoomMeansSlot, [Next]_vars
  PROVE  RoomMeansSlot'
<1> DEFINE bad == {"lost_update", "early_eject", "phantom_eject"}
<1> SUFFICES ASSUME Happened({"no_slot"})' PROVE Happened(bad)'
  BY DEF RoomMeansSlot
<1>1. ScanNone => Happened(bad)
  <2> SUFFICES ASSUME ScanNone, ~Happened(bad) PROVE FALSE
    OBVIOUS
  <2>1. Alive
    BY DEF CrashInv, ScanNone
  <2>2. PICK i \in Slots : i >= lis.idx
    BY <2>1 DEF CountInv, ScanNone
  <2>3. lis.idx \in 1..(NumSlots + 1) /\ lis.idx \notin Slots
    BY DEF ScanNone, TypeOK, ListenRec
  <2> QED
    BY <2>2, <2>3, SlotsAssumption DEF Slots
<1>2. Happened({"no_slot"}) => Happened(bad)
  BY DEF RoomMeansSlot
<1>3. Happened(bad)
  BY <1>1, <1>2, NoSlotStep DEF Happened
<1> QED
  BY <1>3, MishapsStay

-----------------------------------------------------------------------------
\* The invariant about slots and their count.
SlotInv ==
  Inv /\ TableInv /\ SettledInv /\ PlaceInv /\ OwnInv /\ CountInv /\ CrashInv /\ RoomMeansSlot

LEMMA SlotInvInit == Init => SlotInv
<1> SUFFICES ASSUME Init PROVE SlotInv
  OBVIOUS
<1> USE DEF Init
<1>1. Inv
  BY InvInit
<1>2. TableInv /\ SettledInv /\ PlaceInv
  BY ConnAssumption DEF TableInv, SettledInv, PlaceInv, Happened
<1>3. OwnInv
  BY DEF OwnInv, Running
<1>4. CountInv
  <2>1. Online = {} /\ Cardinality(Online) = 0
    BY FS_EmptySet DEF Online
  <2>2. ~Uncounting
    BY ConnAssumption DEF Uncounting
  <2>3. Expected = 0
    <3>1. One(lis.pc \in Counting) = 0 /\ One(Uncounting) = 0 /\ One(main.pc \in Ejecting) = 0
      BY <2>2 DEF One, Counting, Ejecting
    <3> QED
      BY <2>1, <3>1 DEF Expected
  <2>4. num >= Expected /\ num = Expected
    BY <2>3
  <2> QED
    BY <2>4 DEF CountInv, Happened
<1>5. CrashInv /\ RoomMeansSlot
  BY DEF CrashInv, Alive, RoomMeansSlot, Happened
<1> QED
  BY <1>1, <1>2, <1>3, <1>4, <1>5 DEF SlotInv

LEMMA SlotInvStep == SlotInv /\ [Next]_vars => SlotInv'
<1> SUFFICES ASSUME SlotInv, [Next]_vars PROVE SlotInv'
  OBVIOUS
<1>1. /\ Inv /\ TypeOK /\ ThreadInv /\ ListenInv /\ MainInv /\ LockInv
      /\ TableInv /\ SettledInv /\ PlaceInv /\ OwnInv /\ CountInv /\ CrashInv /\ RoomMeansSlot
  BY DEF SlotInv, Inv
<1>2. Inv' /\ TableInv' /\ SettledInv'
  BY <1>1, InvStep, TableStep, SettledStep
<1>3. PlaceInv' /\ OwnInv'
  BY <1>1, PlaceStep, OwnStep
<1>4. CountInv' /\ CrashInv' /\ RoomMeansSlot'
  BY <1>1, CountStep, CrashStep, RoomStep
<1> QED
  BY <1>2, <1>3, <1>4 DEF SlotInv

\* The mutex has one leaving thread or none.
LEMMA OneLeaves ==
  ASSUME LockInv, TableInv, ~Happened({"late_eject"})
  PROVE  Cardinality(Leaving) = One(Uncounting)
<1>1. \A t \in Conn : t \in Leaving => t = mutex /\ ~thr[t].cancel
  BY DEF Leaving, LockInv, Happened
<1>2. CASE Uncounting
  <2>1. mutex \in Leaving
    BY <1>2 DEF Uncounting, Leaving
  <2>2. Leaving = {mutex}
    BY <1>1, <2>1 DEF Leaving
  <2>3. Cardinality(Leaving) = 1
    BY <2>2, FS_Singleton
  <2> QED
    BY <1>2, <2>3 DEF One
<1>3. CASE ~Uncounting
  <2>1. Leaving = {}
    BY <1>1, <1>3 DEF Uncounting, Leaving
  <2>2. Cardinality(Leaving) = 0
    BY <2>1, FS_EmptySet
  <2> QED
    BY <1>3, <2>2 DEF One
<1> QED
  BY <1>2, <1>3

\* For any number of slots, connections and votes: num_users_connected is the
\* number of connected slots, give or take the users that are being counted or
\* uncounted, until two updates of it overlap or the wrong slot is ejected
\* (bc_network.c:303, 429, main.c:352).
THEOREM CountIsExact == Spec => []CounterExact
<1>1. SlotInv => CounterExact
  <2> SUFFICES ASSUME SlotInv, ~Happened({"lost_update"} \cup BadEject), Alive
               PROVE  num = Cardinality(Online) - One(lis.pc \in {"spawn", "incload", "incstore"})
                            + Cardinality(Leaving) + One(main.pc \in {"dclose", "decstore"})
    BY DEF CounterExact
  <2>1. ~Happened({"lost_update", "early_eject", "phantom_eject"}) /\ ~Happened({"late_eject"})
    BY DEF Happened, BadEject
  <2>2. num = Expected
    BY <2>1 DEF SlotInv, CountInv
  <2>3. Cardinality(Leaving) = One(Uncounting)
    BY <2>1, OneLeaves DEF SlotInv, Inv
  <2> QED
    BY <2>2, <2>3 DEF Expected, Counting, Ejecting
<1> QED
  BY SlotInvInit, SlotInvStep, <1>1, PTL DEF Spec

\* For any number of slots, connections and votes: a listener that read a count
\* below MAX_CONNECTIONS finds a free slot, unless an update of the count was
\* lost or a slot was ejected that was empty or had no thread yet
\* (bc_network.c:285-295).
THEOREM ListenerFindsSlot == Spec => []RoomMeansSlot
<1>1. SlotInv => RoomMeansSlot
  BY DEF SlotInv
<1> QED
  BY SlotInvInit, SlotInvStep, <1>1, PTL DEF Spec
-----------------------------------------------------------------------------
(* Whose descriptor it is                                                  *)

\* The races that give a slot to two, or eject it when it is not its user's.
Mixed == {"early_reuse", "no_slot", "early_eject", "phantom_eject"}

HasFile(t) ==
  LET s == slot[thr[t].slot] IN s.owner = t /\ s.sock \in Fds /\ fdTable[s.sock] = t

\* The part of UseInv about the threads, which a thread that keeps the mutex
\* for good does not disturb any more.
FilesInv ==
  Doomed \/ \A t \in Conn : thr[t].pc \in Running \cup {"xclose"} /\ ~thr[t].cancel => HasFile(t)

\* The descriptor that accept returned stands for the connection that is placed.
FreshInv ==
  /\ lis.pc \in Placing => lis.fd \in Fds /\ fdTable[lis.fd] = lis.conn
  /\ lis.pc = "spawn" => Doomed \/ slot[lis.found].sock = lis.fd

\* disconnect_user closes the socket of the one it set out to eject.
VictimInv ==
  main.pc = "dclose" =>
    /\ slot[main.target].sock \in Fds
    /\ fdTable[slot[main.target].sock] = main.victim
    /\ main.victim \in Conn /\ thr[main.victim].pc # "none" /\ thr[main.victim].cancel

\* As long as nobody shares a slot, every thread that may use its slot's socket
\* finds its own connection there.
UseInv ==
  \/ Happened(Mixed)
  \/ /\ ~Happened({"foreign_close"})
     /\ \A t \in Conn : Uncancelled(t, "read") => thr[t].file = t
     /\ FilesInv /\ FreshInv /\ VictimInv

\* A foreign descriptor is closed only where a slot's socket is.
LEMMA ForeignStep ==
  ASSUME TypeOK, [Next]_vars, "foreign_close" \in mishaps', "foreign_close" \notin mishaps
  PROVE  \/ \E t \in Conn : CloseSocket(t) /\ File(Fd(t)) \notin {t, NoConn}
         \/ EjectClose /\ File(slot[main.target].sock) \notin {main.victim, NoConn}
<1>1. ASSUME NEW t \in Conn, CloseSocket(t) PROVE File(Fd(t)) \notin {t, NoConn}
  BY <1>1 DEF CloseSocket
<1>2. EjectClose => File(slot[main.target].sock) \notin {main.victim, NoConn}
  BY DEF EjectClose
<1>3. ASSUME NEW t \in Conn PROVE ~Uncount(t)
  BY DEF Uncount, End, StoreNum, Mishap
<1>4. ~ScanNone /\ ~Occupy /\ ~SpawnFails
  BY DEF ScanNone, Occupy, SpawnFails, Mishap
<1>5. ~IncStore /\ ~DecStore
  BY DEF IncStore, DecStore, StoreNum, Mishap
<1>6. ~Eject
  BY DEF Eject, Disconnect, EjectMishap
<1> QED
  BY <1>1, <1>2, <1>3, <1>4, <1>5, <1>6, Frame DEF Moves, MishapMoves

\* A thread that closes the socket of its slot, as long as nobody shares one, finds
\* its own connection there.
LEMMA ClosesOwn ==
  ASSUME TypeOK, LockInv, FilesInv, NEW t \in Conn, CloseSocket(t)
  PROVE  HasFile(t) /\ ~Doomed /\ mutex = t
<1>1. thr[t].pc = "xclose" /\ ~thr[t].cancel
  BY DEF CloseSocket, Uncancelled, At
<1>2. mutex = t
  BY <1>1 DEF LockInv
<1>3. ~Doomed
  BY <1>1, <1>2 DEF Doomed
<1> QED
  BY <1>1, <1>2, <1>3 DEF FilesInv

\* A descriptor is closed by the one whose connection it stands for.
LEMMA OwnFileChanges ==
  ASSUME TypeOK, LockInv, ListenInv, FilesInv, FreshInv, VictimInv, [Next]_vars,
         NEW f \in Fds, NEW c \in Conn, fdTable[f] = c
  PROVE  \/ fdTable'[f] = c
         \/ CloseSocket(c)
         \/ EjectClose /\ c = main.victim
         \/ Refuse /\ c = lis.conn
<1>1. ASSUME NEW t \in Conn, CloseSocket(t), f = Fd(t) PROVE t = c
  BY <1>1, ClosesOwn DEF HasFile, Fd
<1>2. ASSUME EjectClose, f = slot[main.target].sock PROVE c = main.victim
  BY <1>2 DEF EjectClose, VictimInv
<1>3. ASSUME Refuse, f = lis.fd PROVE c = lis.conn
  BY <1>3 DEF Refuse, FreshInv, Placing
<1>4. fdTable[f] # NoConn
  BY ConnAssumption
<1> QED
  BY <1>1, <1>2, <1>3, <1>4, FileChanges

\* Whoever fills a slot that is being freed is noticed.
LEMMA ReuseIsNoted ==
  ASSUME TypeOK, Occupy, ~Happened(Mixed)', NEW t \in Conn
  PROVE  /\ thr[t].pc = "xclose" => thr[t].slot # lis.found
         /\ main.pc = "dclose" => main.target # lis.found
<1>1. ~HalfFreed(lis.found)
  BY DEF Occupy, Mishap, Happened, Mixed
<1> QED
  BY <1>1 DEF HalfFreed

LEMMA FilesStep ==
  ASSUME Inv, TableInv, PlaceInv, OwnInv, FilesInv, FreshInv, VictimInv,
         ~Happened(Mixed)', [Next]_vars
  PROVE  FilesInv'
<1>1. TypeOK /\ ThreadInv /\ ListenInv /\ LockInv
  BY DEF Inv
<1>2. /\ \A t \in Conn : ThreadChange(t)
      /\ \A i \in Slots : SlotChange(i)
  BY <1>1, ThreadChanges, SlotChanges
<1>3. ~Happened(Mixed)
  BY MishapsStay
<1>4. ~Happened({"no_slot", "early_eject"}) /\ ~Happened({"no_slot"})
  BY <1>3 DEF Happened, Mixed
<1> SUFFICES ASSUME ~Doomed', NEW t \in Conn, thr'[t].pc \in Running \cup {"xclose"}, ~thr'[t].cancel
             PROVE  HasFile(t)'
  BY DEF FilesInv
<1>5. ~Doomed /\ ~thr[t].cancel
  BY <1>1, <1>2, DoomedStays DEF ThreadChange
<1>6. CASE Spawn /\ t = lis.conn
  <2>1. lis.pc = "spawn" /\ lis.found \in Slots /\ thr[t].pc = "none"
    BY <1>1, <1>6 DEF Spawn, ListenInv, Placing
  <2>2. slot[lis.found].owner = t /\ slot[lis.found].sock = lis.fd
    BY <1>4, <1>5, <1>6, <2>1 DEF PlaceInv, FreshInv
  <2>3. lis.fd \in Fds /\ fdTable[lis.fd] = t
    BY <1>6, <2>1 DEF FreshInv, Placing
  <2>4. thr'[t].slot = lis.found
    BY <1>2, <2>1 DEF ThreadChange, Running
  <2>5. slot'[lis.found].owner = t /\ slot'[lis.found].sock = lis.fd
    BY <1>1, <1>6, <2>1, <2>2 DEF Spawn, TypeOK, SlotRec
  <2>6. fdTable' = fdTable
    BY <1>6 DEF Spawn, netVars
  <2> QED
    BY <2>3, <2>4, <2>5, <2>6 DEF HasFile
<1>7. CASE ~(Spawn /\ t = lis.conn)
  <2> DEFINE i == thr[t].slot
             f == slot[i].sock
  <2>1. thr[t].pc \in Running \cup {"xclose"}
    BY <1>2, <1>7 DEF ThreadChange, FreeSlot, At, Running
  <2>2. i \in Slots /\ thr'[t].slot = i
    BY <1>1, <1>2, <2>1 DEF ThreadInv, ThreadChange, Running
  <2>3. slot[i].owner = t /\ f \in Fds /\ fdTable[f] = t
    BY <1>5, <2>1 DEF FilesInv, HasFile
  <2>4. ~(Occupy /\ i = lis.found)
    <3>1. SUFFICES ASSUME Occupy, i = lis.found PROVE FALSE
      OBVIOUS
    <3>2. ~slot[i].connected
      BY <1>4, <3>1 DEF Occupy, PlaceInv
    <3>3. CASE thr[t].pc \in Running
      BY <1>4, <1>5, <3>2, <3>3 DEF OwnInv, Owns
    <3>4. CASE thr[t].pc = "xclose"
      BY <1>1, <3>1, <3>4, ReuseIsNoted
    <3> QED
      BY <2>1, <3>3, <3>4
  <2>5. slot'[i].owner = t /\ slot'[i].sock = f
    BY <1>2, <2>2, <2>3, <2>4 DEF SlotChange
  <2>6. ~CloseSocket(t)
    BY <1>1 DEF CloseSocket, TypeOK, ThreadRec, Running
  <2>7. ~(EjectClose /\ t = main.victim)
    BY <1>5 DEF EjectClose, VictimInv
  <2>8. ~(Refuse /\ t = lis.conn)
    BY <1>1, <2>1 DEF Refuse, ListenInv, Placing, Running
  <2> HIDE DEF i, f
  <2>9. fdTable'[f] = t
    BY <1>1, <2>3, <2>6, <2>7, <2>8, OwnFileChanges
  <2> QED
    BY <2>2, <2>3, <2>5, <2>9 DEF HasFile
<1> QED
  BY <1>6, <1>7

LEMMA FreshStep ==
  ASSUME Inv, TableInv, FilesInv, FreshInv, VictimInv, ~Happened(Mixed)', [Next]_vars
  PROVE  FreshInv'
<1>1. TypeOK /\ ThreadInv /\ ListenInv /\ LockInv
  BY DEF Inv
<1>2. ASSUME lis'.pc \in Placing PROVE lis'.fd \in Fds /\ fdTable'[lis'.fd] = lis'.conn
  <2>1. ASSUME NEW c \in Conn, Accept(c) PROVE lis'.fd \in Fds /\ fdTable'[lis'.fd] = lis'.conn
    BY <1>1, <2>1 DEF Accept, TypeOK, SharedType, ListenRec
  <2>2. ASSUME lis.pc \in Placing, lis'.conn = lis.conn, lis'.fd = lis.fd
        PROVE  lis'.fd \in Fds /\ fdTable'[lis'.fd] = lis'.conn
    <3>1. lis.fd \in Fds /\ fdTable[lis.fd] = lis.conn /\ lis.conn \in Conn /\ thr[lis.conn].pc = "none"
      BY <1>1, <2>2 DEF FreshInv, ListenInv
    <3>2. ~CloseSocket(lis.conn)
      BY <3>1 DEF CloseSocket, Uncancelled, At
    <3>3. ~(EjectClose /\ lis.conn = main.victim)
      BY <3>1 DEF EjectClose, VictimInv
    <3>4. ~Refuse
      BY <1>1, <1>2 DEF Refuse, NextRound, TypeOK, ListenRec, Placing
    <3> QED
      BY <1>1, <2>2, <3>1, <3>2, <3>3, <3>4, OwnFileChanges
  <2> QED
    BY <1>1, <1>2, <2>1, <2>2, ListenerChanges
<1>3. ASSUME lis'.pc = "spawn", ~Doomed' PROVE slot'[lis'.found].sock = lis'.fd
  <2>1. ~Doomed
    BY <1>1, <1>3, DoomedStays
  <2>2. ASSUME lis' = lis PROVE slot'[lis'.found].sock = lis'.fd
    <3>1. slot[lis.found].sock = lis.fd /\ lis.found \in Slots
      BY <1>1, <1>3, <2>1, <2>2 DEF FreshInv, ListenInv
    <3>2. ~Occupy
      BY <1>3, <2>2 DEF Occupy
    <3> QED
      BY <1>1, <2>2, <3>1, <3>2, SlotChanges DEF SlotChange
  <2>3. ASSUME Occupy PROVE slot'[lis'.found].sock = lis'.fd
    <3>1. lis.found \in Slots /\ lis'.found = lis.found /\ lis'.fd = lis.fd
      BY <1>1, <2>3 DEF Occupy, TypeOK, ListenRec
    <3>2. slot' = [slot EXCEPT ![lis.found] =
                    [@ EXCEPT !.sock = lis.fd, !.connected = TRUE, !.owner = lis.conn]]
      BY <2>3 DEF Occupy
    <3> QED
      BY <1>1, <3>1, <3>2 DEF TypeOK, SlotRec
  <2> QED
    BY <1>1, <1>3, <2>2, <2>3, ListenerChanges
<1> QED
  BY <1>2, <1>3 DEF FreshInv

\* Only an ejection makes the main thread close a socket.
LEMMA EjectingStarts ==
  ASSUME TypeOK, [Next]_vars, main'.pc = "dclose"
  PROVE  main' = main \/ Eject
<1>1. ~RecordVote /\ ~CountVote /\ ~Compare /\ ~TallyVote /\ ~Choose
  BY DEF RecordVote, Record, CountVote, Compare, TallyVote, Choose, TypeOK, MainRec
<1>2. ~EjectCrash /\ ~EjectClose /\ ~DecStore /\ ~ResetVotes
  BY DEF EjectCrash, EjectClose, DecStore, ResetVotes, TypeOK, MainRec
<1> QED
  BY <1>1, <1>2, Frame DEF Moves, MainThread

LEMMA VictimStep ==
  ASSUME Inv, TableInv, SettledInv, FilesInv, FreshInv, VictimInv, ~Happened(Mixed)', [Next]_vars
  PROVE  VictimInv'
<1>1. TypeOK /\ ThreadInv /\ ListenInv /\ MainInv /\ LockInv
  BY DEF Inv
<1> SUFFICES ASSUME main'.pc = "dclose"
             PROVE  /\ slot'[main'.target].sock \in Fds
                    /\ fdTable'[slot'[main'.target].sock] = main'.victim
                    /\ main'.victim \in Conn /\ thr'[main'.victim].pc # "none"
                    /\ thr'[main'.victim].cancel
  BY DEF VictimInv
<1>2. CASE main' = main
  <2> DEFINE i == main.target
             f == slot[i].sock
             v == main.victim
  <2>1. i \in Slots /\ mutex = "main"
    BY <1>1, <1>2 DEF MainInv, LockInv
  <2>2. f \in Fds /\ fdTable[f] = v /\ v \in Conn /\ thr[v].pc # "none" /\ thr[v].cancel
    BY <1>2 DEF VictimInv
  <2>3. ~(Occupy /\ i = lis.found)
    BY <1>1, <1>2, <2>2, ReuseIsNoted
  <2>4. slot'[i].sock = f
    BY <1>1, <2>1, <2>3, SlotChanges DEF SlotChange
  <2>5. ~CloseSocket(v)
    BY <2>2 DEF CloseSocket, Uncancelled
  <2>6. ~EjectClose
    BY <1>1 DEF EjectClose, TypeOK, MainRec
  <2>7. ~(Refuse /\ v = lis.conn)
    BY <1>1, <2>2 DEF Refuse, ListenInv, Placing
  <2> HIDE DEF f, v
  <2>8. fdTable'[f] = v
    BY <1>1, <2>2, <2>5, <2>6, <2>7, OwnFileChanges
  <2>9. thr'[v].pc # "none" /\ thr'[v].cancel
    BY <1>1, <2>2, ThreadChanges DEF ThreadChange
  <2> QED
    BY <1>2, <2>2, <2>4, <2>8, <2>9 DEF v
<1>3. CASE Eject
  <2> DEFINE i == main.target
             v == slot[i].owner
             f == slot[i].sock
  <2>1. main.pc = "dlock" /\ mutex = "free" /\ i \in Slots
    BY <1>1, <1>3 DEF Eject, Disconnect, MainInv
  <2>2. ~Happened({"phantom_eject", "early_eject"})'
    BY DEF Happened, Mixed
  <2>3. slot[i].connected /\ slot[i].thread = v
    BY <1>3, <2>2 DEF Eject, Disconnect, EjectMishap, Mishaps, Happened
  <2>4. v \in Conn /\ thr[v].slot = i /\ thr[v].pc \in Running /\ ~thr[v].cancel
    BY <2>1, <2>3 DEF TableInv, SettledInv, Alive
  <2>5. ~Doomed
    BY <2>1, ConnAssumption DEF Doomed
  <2>6. f \in Fds /\ fdTable[f] = v
    BY <2>4, <2>5 DEF FilesInv, HasFile
  <2>7. thr'[v].pc # "none" /\ thr'[v].cancel
    <3>1. thr' = [thr EXCEPT ![v].cancel = @ \/ thr[v].pc # "dead"]
      BY <1>3, <2>3 DEF Eject
    <3>2. thr[v].pc # "dead" /\ thr[v].pc # "none"
      BY <2>4 DEF Running
    <3> HIDE DEF v
    <3> QED
      BY <1>1, <2>4, <3>1, <3>2 DEF TypeOK, ThreadRec
  <2>8. fdTable' = fdTable /\ slot'[i].sock = f
    BY <1>1, <1>3, <2>1 DEF Eject, Disconnect, netVars, TypeOK, SlotRec
  <2>9. main'.target = i /\ main'.victim = v
    BY <1>1, <1>3 DEF Eject, Disconnect, TypeOK, MainRec
  <2> HIDE DEF i, v, f
  <2> QED
    BY <2>4, <2>6, <2>7, <2>8, <2>9
<1> QED
  BY <1>1, <1>2, <1>3, EjectingStarts

LEMMA UseStep ==
  ASSUME Inv, TableInv, SettledInv, PlaceInv, OwnInv, UseInv, [Next]_vars
  PROVE  UseInv'
<1>1. TypeOK /\ ThreadInv /\ ListenInv /\ MainInv /\ LockInv
  BY DEF Inv
<1> SUFFICES ASSUME ~Happened(Mixed)'
             PROVE  /\ ~Happened({"foreign_close"})'
                    /\ \A t \in Conn : Uncancelled(t, "read")' => thr'[t].file = t
                    /\ FilesInv' /\ FreshInv' /\ VictimInv'
  BY DEF UseInv
<1>2. /\ ~Happened({"foreign_close"})
      /\ \A t \in Conn : Uncancelled(t, "read") => thr[t].file = t
      /\ FilesInv /\ FreshInv /\ VictimInv
  BY MishapsStay DEF UseInv
<1>3. ~Happened({"foreign_close"})'
  <2>1. ASSUME NEW t \in Conn, CloseSocket(t) PROVE File(Fd(t)) = t
    BY <1>1, <1>2, <2>1, ClosesOwn DEF HasFile, Fd, File
  <2>2. EjectClose => File(slot[main.target].sock) = main.victim
    BY <1>2 DEF EjectClose, VictimInv, File
  <2> QED
    BY <1>1, <1>2, <2>1, <2>2, ForeignStep DEF Happened
<1>4. ASSUME NEW t \in Conn, thr'[t].pc = "read", ~thr'[t].cancel PROVE thr'[t].file = t
  <2>1. ~thr[t].cancel /\ ((thr[t].pc = "read" /\ thr'[t].file = thr[t].file) \/ EnterRead(t))
    BY <1>1, <1>4, ThreadChanges DEF ThreadChange
  <2>2. CASE EnterRead(t)
    <3>1. mutex = "free" /\ thr[t].pc = "top"
      BY <2>2 DEF EnterRead, Uncancelled, At
    <3>2. HasFile(t)
      BY <1>2, <2>1, <3>1, ConnAssumption DEF FilesInv, Doomed, Running
    <3>3. thr'[t].file = File(Fd(t))
      BY <1>1, <2>2 DEF EnterRead, GotoReading, TypeOK, ThreadRec
    <3> QED
      BY <3>2, <3>3 DEF HasFile, Fd, File
  <2> QED
    BY <1>2, <2>1, <2>2 DEF Uncancelled, At
<1>5. FilesInv' /\ FreshInv' /\ VictimInv'
  BY <1>2, FilesStep, FreshStep, VictimStep
<1> QED
  BY <1>3, <1>4, <1>5 DEF Uncancelled, At
-----------------------------------------------------------------------------
(* Whose vote it is                                                        *)

\* Connection c has got slot i, and no other, for good.
NamedBy(c, i) == c \in Conn /\ thr[c].pc # "none" /\ thr[c].slot = i

\* A vote, queued or recorded, is in the slot of the connection that cast it.
VoteInv ==
  /\ \A t \in Conn : thr[t].pc = "lock" => thr[thr[t].file].pc # "none"
  /\ \A j \in DOMAIN ballots : NamedBy(ballots[j].by, ballots[j].user)
  /\ \A i \in Slots : slot[i].vote # NoVote => NamedBy(slot[i].voteBy, i)

\* While a thread that was ejected too late holds the mutex, on its way to close,
\* no slot changes hands but for the one it took from its present user.
StrandedInv ==
  \/ Happened(Mixed) \/ ~Doomed \/ thr[mutex].pc # "xclose"
  \/ /\ \A t \in Conn : thr[t].pc \in Running /\ ~thr[t].cancel =>
          /\ slot[thr[t].slot].owner = t
          /\ slot[thr[t].slot].connected \/ thr[t].slot = thr[mutex].slot
     /\ lis.pc = "spawn" =>
          /\ slot[lis.found].owner = lis.conn
          /\ slot[lis.found].connected \/ lis.found = thr[mutex].slot

\* A thread keeps its slot.
LEMMA NameStays ==
  ASSUME TypeOK, ListenInv, [Next]_vars, NEW c, NEW i, NamedBy(c, i)
  PROVE  NamedBy(c, i)'
BY ThreadChanges DEF ThreadChange, NamedBy

LEMMA VoteStep ==
  ASSUME TypeOK, ThreadInv, ListenInv, VoteInv, [Next]_vars
  PROVE  VoteInv'
<1>1. ASSUME NEW t \in Conn, thr'[t].pc = "lock" PROVE thr'[thr'[t].file].pc # "none"
  <2>1. thr'[t].file = thr[t].file /\ thr[thr[t].file].pc # "none"
    BY <1>1, ThreadChanges DEF ThreadChange, VoteInv
  <2>2. CASE thr[t].file \in Conn
    BY <2>1, <2>2, ThreadChanges DEF ThreadChange
  <2>3. CASE thr[t].file \notin Conn
    <3>1. thr' \in [Conn -> ThreadRec]
      BY ThreadType
    <3>2. ThreadInv'
      BY ThreadStep
    <3> QED
      BY <1>1, <2>1, <2>3, <3>2 DEF ThreadInv
  <2> QED
    BY <2>2, <2>3
<1>2. ASSUME NEW j \in DOMAIN ballots'
      PROVE  /\ ballots'[j].by \in Conn /\ thr'[ballots'[j].by].pc # "none"
             /\ thr'[ballots'[j].by].slot = ballots'[j].user
  <2>1. ballots \in Seq(Ballot)
    BY DEF TypeOK, SharedType
  <2>2. PICK c, i : c = ballots'[j].by /\ i = ballots'[j].user
    OBVIOUS
  <2>3. NamedBy(c, i)
    <3>1. CASE ballots' = ballots
      BY <1>2, <2>2, <3>1 DEF VoteInv
    <3>2. ASSUME NEW t \in Conn, Enqueue(t) PROVE NamedBy(c, i)
      <4> DEFINE b == [user |-> thr[thr[t].file].slot, by |-> thr[t].file, for |-> thr[t].reg]
      <4>1. thr[t].pc = "lock" /\ ballots' = Append(ballots, b)
        BY <3>2 DEF Enqueue, At
      <4>2. thr[t].file \in Conn /\ thr[thr[t].file].pc # "none"
        BY <4>1 DEF ThreadInv, VoteInv
      <4>3. NamedBy(b.by, b.user)
        BY <4>2 DEF NamedBy
      <4> HIDE DEF b
      <4>4. ballots'[j] = b \/ (j \in DOMAIN ballots /\ ballots'[j] = ballots[j])
        BY <1>2, <2>1, <4>1
      <4> QED
        BY <2>2, <4>3, <4>4 DEF VoteInv
    <3>3. CASE RecordVote
      <4>1. ballots # <<>> /\ ballots' = Tail(ballots)
        BY <3>3 DEF RecordVote, Record
      <4>2. j + 1 \in DOMAIN ballots /\ ballots'[j] = ballots[j + 1]
        BY <1>2, <2>1, <4>1
      <4> QED
        BY <2>2, <4>2 DEF VoteInv
    <3> QED
      BY <3>1, <3>2, <3>3, Frame DEF Moves, BallotMoves
  <2>4. NamedBy(c, i)'
    BY <2>3, NameStays
  <2> QED
    BY <2>2, <2>4 DEF NamedBy
<1>3. ASSUME NEW i \in Slots, slot'[i].vote # NoVote
      PROVE  /\ slot'[i].voteBy \in Conn /\ thr'[slot'[i].voteBy].pc # "none"
             /\ thr'[slot'[i].voteBy].slot = i
  <2>1. PICK c : c = slot'[i].voteBy
    OBVIOUS
  <2>2. NamedBy(c, i)
    <3>1. CASE slot'[i].vote = slot[i].vote /\ slot'[i].voteBy = slot[i].voteBy
      BY <1>3, <2>1, <3>1 DEF VoteInv
    <3>2. CASE RecordVote /\ i = Head(ballots).user /\ slot'[i].voteBy = Head(ballots).by
      <4>1. ballots \in Seq(Ballot) /\ ballots # <<>>
        BY <3>2 DEF RecordVote, Record, TypeOK, SharedType
      <4>2. 1 \in DOMAIN ballots /\ Head(ballots) = ballots[1]
        BY <4>1
      <4> QED
        BY <2>1, <3>2, <4>2 DEF VoteInv
    <3> QED
      BY <1>3, <3>1, <3>2, SlotChanges DEF SlotChange
  <2>3. NamedBy(c, i)'
    BY <2>2, NameStays
  <2> QED
    BY <2>1, <2>3 DEF NamedBy
<1> QED
  BY <1>1, <1>2, <1>3 DEF VoteInv, NamedBy

LEMMA StrandedStep ==
  ASSUME Inv, TableInv, PlaceInv, OwnInv, StrandedInv, [Next]_vars
  PROVE  StrandedInv'
<1>1. TypeOK /\ ThreadInv /\ ListenInv /\ MainInv /\ LockInv
  BY DEF Inv
<1>2. /\ \A t \in Conn : ThreadChange(t)
      /\ \A i \in Slots : SlotChange(i)
  BY <1>1, ThreadChanges, SlotChanges
<1> SUFFICES ASSUME ~Happened(Mixed)', Doomed', thr'[mutex'].pc = "xclose"
             PROVE  /\ \A t \in Conn : thr'[t].pc \in Running /\ ~thr'[t].cancel =>
                         /\ slot'[thr'[t].slot].owner = t
                         /\ slot'[thr'[t].slot].connected \/ thr'[t].slot = thr'[mutex'].slot
                    /\ lis'.pc = "spawn" =>
                         /\ slot'[lis'.found].owner = lis'.conn
                         /\ slot'[lis'.found].connected \/ lis'.found = thr'[mutex'].slot
  BY DEF StrandedInv
<1>3. ~Happened(Mixed)
  BY MishapsStay
<1>4. ~Happened({"no_slot", "early_eject"}) /\ ~Happened({"no_slot"})
  BY <1>3 DEF Happened, Mixed
<1>5. PICK m \in Conn : m = mutex' /\ thr'[m].cancel /\ thr'[m].pc = "xclose"
  BY DEF Doomed
<1>6. CASE FreeSlot(m)
  <2>1. mutex = "free" /\ ~Doomed /\ lis' = lis /\ ~Occupy /\ ~Eject /\ ~Spawn
    <3>1. mutex = "free" /\ lis' = lis
      BY <1>6 DEF FreeSlot
    <3>2. ~Occupy /\ ~Spawn
      BY <1>1, <3>1 DEF Occupy, Spawn, TypeOK, ListenRec
    <3>3. ~Eject
      BY <1>5, ConnAssumption DEF Eject, Disconnect
    <3> QED
      BY <3>1, <3>2, <3>3, ConnAssumption DEF Doomed
  <2>2. slot' = [slot EXCEPT ![thr[m].slot].connected = FALSE]
    BY <1>6 DEF FreeSlot
  <2>3. \A i \in Slots : /\ slot'[i].owner = slot[i].owner
                         /\ slot'[i].connected = slot[i].connected \/ i = thr[m].slot
    BY <1>1, <2>2 DEF TypeOK, SlotRec
  <2>4. thr[m].pc = "xlock" /\ thr'[m].slot = thr[m].slot
    BY <1>2, <1>6 DEF FreeSlot, At, ThreadChange
  <2>5. ASSUME NEW t \in Conn, thr'[t].pc \in Running, ~thr'[t].cancel
        PROVE  /\ slot'[thr'[t].slot].owner = t
               /\ slot'[thr'[t].slot].connected \/ thr'[t].slot = thr[m].slot
    <3>1. thr[t].pc \in Running /\ ~thr[t].cancel
      BY <1>2, <2>1, <2>5 DEF ThreadChange
    <3>2. thr[t].slot \in Slots /\ thr'[t].slot = thr[t].slot
      BY <1>1, <1>2, <3>1 DEF ThreadInv, ThreadChange, Running
    <3>3. slot[thr[t].slot].connected /\ slot[thr[t].slot].owner = t
      BY <1>4, <2>1, <3>1 DEF OwnInv, Owns
    <3> QED
      BY <2>3, <3>2, <3>3
  <2>6. ASSUME lis'.pc = "spawn"
        PROVE  /\ slot'[lis'.found].owner = lis'.conn
               /\ slot'[lis'.found].connected \/ lis'.found = thr[m].slot
    <3>1. lis.found \in Slots /\ slot[lis.found].connected /\ slot[lis.found].owner = lis.conn
      BY <1>1, <1>4, <2>1, <2>6 DEF ListenInv, PlaceInv
    <3> QED
      BY <2>1, <2>3, <3>1
  <2> QED
    BY <1>5, <2>4, <2>5, <2>6
<1>7. CASE ~FreeSlot(m)
  <2>1. mutex = m
    BY <1>1, <1>5, <1>7, LockChanges
  <2>2. ~Eject
    BY <2>1, ConnAssumption DEF Eject, Disconnect
  <2>3. thr[m].cancel /\ thr[m].pc = "xclose" /\ thr'[m].slot = thr[m].slot
    BY <1>2, <1>5, <1>7, <2>2 DEF ThreadChange
  <2>4. /\ \A t \in Conn : thr[t].pc \in Running /\ ~thr[t].cancel =>
             /\ slot[thr[t].slot].owner = t
             /\ slot[thr[t].slot].connected \/ thr[t].slot = thr[m].slot
        /\ lis.pc = "spawn" =>
             /\ slot[lis.found].owner = lis.conn
             /\ slot[lis.found].connected \/ lis.found = thr[m].slot
    BY <1>3, <2>1, <2>3 DEF StrandedInv, Doomed
  <2>5. \A t \in Conn : ~FreeSlot(t)
    BY <2>1, ConnAssumption DEF FreeSlot
  <2>6. \A i \in Slots : slot[i].connected => slot'[i].connected
    BY <1>2, <2>2, <2>5 DEF SlotChange
  <2>7. Occupy => lis.found \in Slots /\ ~slot[lis.found].connected /\ lis.found # thr[m].slot
    <3>1. Occupy => lis.found \in Slots /\ ~slot[lis.found].connected
      BY <1>4 DEF Occupy, PlaceInv
    <3>2. Occupy => lis.found # thr[m].slot
      BY <1>1, <2>3, ReuseIsNoted
    <3> QED
      BY <3>1, <3>2
  <2>8. ASSUME NEW t \in Conn, thr'[t].pc \in Running, ~thr'[t].cancel
        PROVE  /\ slot'[thr'[t].slot].owner = t
               /\ slot'[thr'[t].slot].connected \/ thr'[t].slot = thr[m].slot
    <3>1. CASE thr[t].pc \in Running
      <4>1. thr[t].slot \in Slots /\ thr'[t].slot = thr[t].slot /\ ~thr[t].cancel
        BY <1>1, <1>2, <2>8, <3>1 DEF ThreadInv, ThreadChange, Running
      <4>2. /\ slot[thr[t].slot].owner = t
            /\ slot[thr[t].slot].connected \/ thr[t].slot = thr[m].slot
        BY <2>4, <3>1, <4>1
      <4>3. slot'[thr[t].slot].owner = t
        BY <1>2, <2>7, <4>1, <4>2 DEF SlotChange
      <4> QED
        BY <2>6, <4>1, <4>2, <4>3
    <3>2. CASE Spawn /\ t = lis.conn
      <4>1. lis.pc = "spawn" /\ lis.found \in Slots /\ thr[t].pc = "none"
        BY <1>1, <3>2 DEF Spawn, ListenInv, Placing
      <4>2. thr'[t].slot = lis.found
        BY <1>2, <2>8, <4>1 DEF ThreadChange, Running
      <4>3. ~Occupy
        BY <4>1 DEF Occupy
      <4>4. slot'[lis.found].owner = t
        BY <1>2, <2>4, <3>2, <4>1, <4>3 DEF SlotChange
      <4> QED
        BY <2>4, <2>6, <4>1, <4>2, <4>4
    <3> QED
      BY <1>2, <2>8, <3>1, <3>2 DEF ThreadChange
  <2>9. ASSUME lis'.pc = "spawn"
        PROVE  /\ slot'[lis'.found].owner = lis'.conn
               /\ slot'[lis'.found].connected \/ lis'.found = thr[m].slot
    <3>1. CASE lis' = lis
      <4>1. lis.found \in Slots /\ ~Occupy
        BY <1>1, <2>9, <3>1 DEF ListenInv, Occupy
      <4>2. slot'[lis.found].owner = slot[lis.found].owner
        BY <1>2, <4>1 DEF SlotChange
      <4> QED
        BY <2>4, <2>6, <2>9, <3>1, <4>1, <4>2
    <3>2. CASE Occupy /\ lis'.found = lis.found /\ lis'.conn = lis.conn
      <4>1. slot' = [slot EXCEPT ![lis.found] =
                       [@ EXCEPT !.sock = lis.fd, !.connected = TRUE, !.owner = lis.conn]]
        BY <3>2 DEF Occupy
      <4>2. slot'[lis.found].owner = lis.conn /\ slot'[lis.found].connected
        BY <1>1, <2>7, <3>2, <4>1 DEF TypeOK, SlotRec
      <4> QED
        BY <3>2, <4>2
    <3> QED
      BY <1>1, <2>9, <3>1, <3>2, ListenerChanges
  <2> QED
    BY <1>5, <2>3, <2>8, <2>9
<1> QED
  BY <1>6, <1>7

-----------------------------------------------------------------------------
\* The invariant about the users of slots.
UserInv == SlotInv /\ UseInv /\ VoteInv /\ StrandedInv

LEMMA UserInvInit == Init => UserInv
<1> SUFFICES ASSUME Init PROVE UserInv
  OBVIOUS
<1>1. SlotInv
  BY SlotInvInit
<1>2. UseInv
  BY DEF Init, UseInv, Happened, Uncancelled, At, FilesInv, FreshInv, VictimInv, Placing, Running
<1>3. VoteInv /\ StrandedInv
  BY ConnAssumption DEF Init, VoteInv, StrandedInv, Doomed
<1> QED
  BY <1>1, <1>2, <1>3 DEF UserInv

LEMMA UserInvStep == UserInv /\ [Next]_vars => UserInv'
<1> SUFFICES ASSUME UserInv, [Next]_vars PROVE UserInv'
  OBVIOUS
<1>1. /\ SlotInv /\ Inv /\ TypeOK /\ ThreadInv /\ ListenInv
      /\ TableInv /\ SettledInv /\ PlaceInv /\ OwnInv /\ UseInv /\ VoteInv /\ StrandedInv
  BY DEF UserInv, SlotInv, Inv
<1>2. SlotInv'
  BY <1>1, SlotInvStep
<1>3. UseInv' /\ VoteInv' /\ StrandedInv'
  BY <1>1, UseStep, VoteStep, StrandedStep
<1> QED
  BY <1>2, <1>3 DEF UserInv

\* For any number of slots, connections and votes: no thread closes a socket or
\* reads from a connection that is not its own, as long as no slot is given to
\* two or ejected when it is not its user's (bc_network.c:370, 400, 426-428,
\* main.c:516-517).
THEOREM EachUsesOwn == Spec => []UsesOwn
<1>1. UserInv => UsesOwn
  BY DEF UserInv, UseInv, UsesOwn, Mixed
<1> QED
  BY UserInvInit, UserInvStep, <1>1, PTL DEF Spec

\* For any number of slots, connections and votes: a vote that counts as another
\* user's was cast by one who is gone (main.c:304-318, bc_network.c:426).
THEOREM VotesStayWithSlots == Spec => []VotesAreOwn
<1>1. UserInv => VotesAreOwn
  <2> SUFFICES ASSUME UserInv, ~Happened(Mixed), ~Orphaned, NEW i \in Slots,
                      Votes(i), slot[i].voteBy # slot[i].owner, ~thr[slot[i].voteBy].cancel
               PROVE  thr[slot[i].voteBy].pc \in {"xstore", "dead"}
    BY DEF VotesAreOwn, Mixed
  <2> DEFINE v == slot[i].voteBy
  <2>1. /\ Inv /\ TypeOK /\ LockInv /\ TableInv /\ UseInv /\ VoteInv /\ StrandedInv
    BY DEF UserInv, SlotInv, Inv
  <2>2. v \in Conn /\ thr[v].pc # "none" /\ thr[v].slot = i
    BY <2>1 DEF Votes, VoteInv, NamedBy
  <2>3. thr[v].pc \in Running \cup {"xclose", "xstore", "dead"}
    BY <2>1, <2>2 DEF TypeOK, ThreadRec, ThreadPc, Running
  <2>4. CASE ~Doomed
    <3>1. thr[v].pc \notin Running \cup {"xclose"}
      BY <2>1, <2>2, <2>4 DEF UseInv, FilesInv, HasFile
    <3> QED
      BY <2>3, <3>1
  <2>5. CASE Doomed
    <3>1. mutex \in Conn /\ thr[mutex].cancel /\ thr[mutex].pc = "xclose"
      BY <2>1, <2>5 DEF Doomed, Orphaned, LockInv, TableInv
    <3>2. thr[v].pc # "xclose"
      BY <2>1, <2>2, <3>1 DEF LockInv
    <3>3. thr[v].pc \notin Running
      BY <2>1, <2>2, <2>5, <3>1 DEF StrandedInv
    <3> QED
      BY <2>3, <3>2, <3>3
  <2> QED
    BY <2>4, <2>5
<1> QED
  BY UserInvInit, UserInvStep, <1>1, PTL DEF Spec

-----------------------------------------------------------------------------
(* No ghosts                                                               *)

\* A connected slot has its user's thread, or gets it in the next step of the
\* listener, unless a thread could not be created.
ServedInv ==
  /\ lis.pc = "spawn" => slot[lis.found].owner = lis.conn
  /\ \/ Happened({"no_thread"})
     \/ \A i \in Slots : slot[i].connected =>
          slot[i].thread = slot[i].owner \/ (lis.pc = "spawn" /\ lis.found = i)

\* What the listener that spawns a thread does next.
LEMMA SpawnEnds ==
  ASSUME TypeOK, [Next]_vars, lis.pc = "spawn"
  PROVE  lis' = lis \/ Spawn \/ SpawnFails \/ EjectCrash
<1>1. ASSUME NEW c \in Conn PROVE ~Accept(c)
  BY DEF Accept
<1>2. ~LoadNum /\ ~ScanTaken /\ ~ScanFree /\ ~ScanNone /\ ~Occupy /\ ~IncLoad /\ ~IncStore /\ ~Refuse
  BY DEF LoadNum, Admit, ScanTaken, ScanFree, TakeIf, ScanNone, Occupy, IncLoad, IncStore, Refuse
<1> QED
  BY <1>1, <1>2, Frame DEF Moves, Listener

LEMMA ServedStep ==
  ASSUME TypeOK, ListenInv, CrashInv, ServedInv, Alive', [Next]_vars
  PROVE  ServedInv'
<1>1. \A i \in Slots : SlotChange(i)
  BY SlotChanges
<1>2. lis'.pc = "spawn" => slot'[lis'.found].owner = lis'.conn
  <2>1. SUFFICES ASSUME lis'.pc = "spawn" PROVE slot'[lis'.found].owner = lis'.conn
    OBVIOUS
  <2>2. CASE lis' = lis
    <3>1. lis.found \in Slots /\ ~Occupy /\ slot[lis.found].owner = lis.conn
      BY <2>1, <2>2 DEF ListenInv, Occupy, ServedInv
    <3> QED
      BY <1>1, <2>2, <3>1 DEF SlotChange
  <2>3. CASE Occupy /\ lis'.found = lis.found /\ lis'.conn = lis.conn
    <3>1. lis.found \in Slots
      BY <2>3 DEF Occupy, TypeOK, ListenRec
    <3>2. slot' = [slot EXCEPT ![lis.found] =
                    [@ EXCEPT !.sock = lis.fd, !.connected = TRUE, !.owner = lis.conn]]
      BY <2>3 DEF Occupy
    <3> QED
      BY <2>3, <3>1, <3>2 DEF TypeOK, SlotRec
  <2> QED
    BY <2>1, <2>2, <2>3, ListenerChanges
<1>3. ASSUME ~Happened({"no_thread"})', NEW i \in Slots, slot'[i].connected
      PROVE  slot'[i].thread = slot'[i].owner \/ (lis'.pc = "spawn" /\ lis'.found = i)
  <2>1. \A k \in Slots : slot[k].connected =>
          slot[k].thread = slot[k].owner \/ (lis.pc = "spawn" /\ lis.found = k)
    BY <1>3, MishapsStay DEF ServedInv
  <2>2. CASE Occupy /\ i = lis.found
    BY <2>2 DEF Occupy, TypeOK, ListenRec
  <2>3. CASE Spawn /\ i = lis.found
    <3>1. slot'[i].thread = lis.conn /\ slot'[i].owner = slot[i].owner
      BY <2>3 DEF Spawn, TypeOK, SlotRec
    <3>2. slot[i].owner = lis.conn
      BY <2>3 DEF Spawn, ServedInv
    <3> QED
      BY <3>1, <3>2
  <2>4. CASE ~(Occupy /\ i = lis.found) /\ ~(Spawn /\ i = lis.found)
    <3>1. slot[i].connected /\ slot'[i].owner = slot[i].owner /\ slot'[i].thread = slot[i].thread
      BY <1>1, <1>3, <2>4 DEF SlotChange
    <3>2. CASE lis.pc = "spawn" /\ lis.found = i
      <4>1. ~SpawnFails
        BY <1>3 DEF SpawnFails, Mishap, Happened
      <4>2. ~EjectCrash
        BY DEF EjectCrash, Alive, TypeOK, MainRec
      <4> QED
        BY <2>4, <3>2, <4>1, <4>2, SpawnEnds
    <3>3. CASE ~(lis.pc = "spawn" /\ lis.found = i)
      BY <2>1, <3>1, <3>3
    <3> QED
      BY <3>2, <3>3
  <2> QED
    BY <2>2, <2>3, <2>4
<1> QED
  BY <1>2, <1>3 DEF ServedInv

\* Nobody is on his way in or out, and no client thread runs.
Quiet ==
  /\ Alive /\ lis.pc \notin Counting /\ main.pc \notin Ejecting
  /\ \A c \in Conn : thr[c].pc \in {"none", "dead"}

\* When the last thread has ended, all slots are free and nobody is counted
\* (bc_network.c:303, 422-430, main.c:352), unless one of the races has spoilt
\* the count or a thread could not be created.
EmptyWhenQuiet ==
  Quiet /\ ~Happened({"no_thread"}) =>
    /\ \A i \in Slots : ~slot[i].connected
    /\ ~Happened({"lost_update"} \cup BadEject) => num = 0

\* For any number of slots, connections and votes: the server comes back to its
\* full room.  This is the safety part of CountDrains.
THEOREM QuietIsEmpty == Spec => []EmptyWhenQuiet
<1> DEFINE GhostInv == SlotInv /\ (Alive => ServedInv)
<1>1. Init => GhostInv
  <2>1. Init => ServedInv
    BY DEF Init, ServedInv
  <2> QED
    BY <2>1, SlotInvInit
<1>2. GhostInv /\ [Next]_vars => GhostInv'
  <2> SUFFICES ASSUME GhostInv, [Next]_vars PROVE GhostInv'
    OBVIOUS
  <2>1. TypeOK /\ ListenInv /\ CrashInv
    BY DEF SlotInv, Inv
  <2>2. Alive' => ServedInv'
    BY <2>1, CountersChange, ServedStep
  <2> QED
    BY <2>2, SlotInvStep
<1>3. GhostInv => EmptyWhenQuiet
  <2> SUFFICES ASSUME GhostInv, Quiet, ~Happened({"no_thread"})
               PROVE  /\ \A i \in Slots : ~slot[i].connected
                      /\ ~Happened({"lost_update"} \cup BadEject) => num = 0
    BY DEF EmptyWhenQuiet
  <2>1. TypeOK /\ SettledInv /\ TableInv /\ CountInv /\ ServedInv
    BY DEF SlotInv, Inv, Quiet
  <2>2. ASSUME NEW i \in Slots PROVE ~slot[i].connected
    <3>1. SUFFICES ASSUME slot[i].connected PROVE FALSE
      OBVIOUS
    <3>2. slot[i].thread = slot[i].owner
      BY <2>1, <3>1 DEF ServedInv, Quiet, Counting
    <3>3. slot[i].owner \in Conn /\ thr[slot[i].owner].pc \in Running
      BY <2>1, <3>1, <3>2 DEF SettledInv, TableInv, Quiet
    <3> QED
      BY <3>3 DEF Quiet, Running
  <2>3. ASSUME ~Happened({"lost_update"} \cup BadEject) PROVE num = 0
    <3>1. num = Expected
      BY <2>1, <2>3 DEF CountInv, Happened, BadEject, Quiet
    <3>2. Cardinality(Online) = 0
      <4>1. Online = {}
        BY <2>2 DEF Online
      <4> QED
        BY <4>1, FS_EmptySet
    <3>3. One(lis.pc \in Counting) = 0 /\ One(Uncounting) = 0 /\ One(main.pc \in Ejecting) = 0
      BY DEF One, Uncounting, Quiet
    <3>4. Expected = 0 - 0 + 0 + 0
      BY <3>2, <3>3 DEF Expected
    <3> QED
      BY <3>1, <3>4
  <2> QED
    BY <2>2, <2>3
<1> QED
  BY <1>1, <1>2, <1>3, PTL DEF Spec
=============================================================================
