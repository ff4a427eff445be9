--------------------------- MODULE CommandsProofs ---------------------------
(***************************************************************************)
(* Theorems of Commands, for any number of slots and users.                *)
(***************************************************************************)
EXTENDS Commands, TLAPS, FiniteSetTheorems, FunctionTheorems, WellFoundedInduction

Here == {"slot", "cleared", "on", "closed"}
Named == {"on", "closed", "gone"}

\* A user who is there has his slot, and whoever a slot is taken by is there.
SlotInv ==
  /\ \A p \in People : at[p] \in Here => occupant[slot[p]] = p
  /\ \A c \in Slots : occupant[c] # Nobody =>
       occupant[c] \in People /\ at[occupant[c]] \in Here /\ slot[occupant[c]] = c

\* The thread of the slot has read his name before he can be heard.
NameInv == \A p \in People : at[p] \in {"on", "closed"} => name[slot[p]] = p

\* A message is of a user who has a name, and has the slot he had or has.
Good(m) == at[m.by] \in Named /\ (m.kind # "window" => m.user = slot[m.by])

MessageInv ==
  /\ \A i \in DOMAIN queue : Good(queue[i])
  /\ \A p \in People : \A i \in DOMAIN pipe[p] : Good(pipe[p][i])

IInv == TypeOK /\ SlotInv /\ NameInv /\ MessageInv /\ WriterNamed

LEMMA InitInv == Init => IInv
<1> SUFFICES ASSUME Init PROVE IInv
  OBVIOUS
<1>1. TypeOK
  <2>1. lurk \in [Slots -> BOOLEAN] /\ lurking \in [People -> BOOLEAN]
    BY Zenon DEF Init
  <2>2. pipe \in [People -> Seq(Messages)] /\ queue \in Seq(Messages)
    BY DEF Init
  <2>3. slot \in [People -> Slots] /\ asker \in Slots /\ scan \in 1..N + 1
    BY SlotAssumption DEF Init, Slots
  <2>4. sent \in 0..MaxSent
    BY BoundAssumption DEF Init
  <2> QED BY <2>1, <2>2, <2>3, <2>4 DEF Init, TypeOK, Somebody
<1>2. SlotInv /\ NameInv
  BY DEF Init, SlotInv, NameInv, Here
<1>3. MessageInv /\ WriterNamed
  BY DEF Init, MessageInv, WriterNamed
<1> QED BY <1>1, <1>2, <1>3 DEF IInv

-----------------------------------------------------------------------------
(* Sequences *)

LEMMA TailType ==
  ASSUME NEW S, NEW s \in Seq(S), s # <<>>
  PROVE  /\ Tail(s) \in Seq(S) /\ Head(s) \in S /\ 1 \in DOMAIN s /\ Head(s) = s[1]
         /\ \A i \in DOMAIN Tail(s) : i + 1 \in DOMAIN s /\ Tail(s)[i] = s[i + 1]
OBVIOUS

LEMMA AppendType ==
  ASSUME NEW S, NEW s \in Seq(S), NEW x \in S
  PROVE  /\ Append(s, x) \in Seq(S)
         /\ \A i \in DOMAIN Append(s, x) : Append(s, x)[i] = x \/ (i \in DOMAIN s /\ Append(s, x)[i] = s[i])
OBVIOUS

LEMMA RestType ==
  ASSUME NEW S, NEW s \in Seq(S), NEW k \in 1..Len(s)
  PROVE  /\ SubSeq(s, k + 1, Len(s)) \in Seq(S)
         /\ \A i \in DOMAIN SubSeq(s, k + 1, Len(s)) :
              i + k \in DOMAIN s /\ SubSeq(s, k + 1, Len(s))[i] = s[i + k]
OBVIOUS

-----------------------------------------------------------------------------
(* Coming and going *)

LEMMA AcceptKeeps == ASSUME IInv, NEW p \in People, Accept(p) PROVE IInv'
<1> USE DEF IInv
<1>1. PICK c \in Slots :
        /\ occupant[c] = Nobody
        /\ slot' = [slot EXCEPT ![p] = c]
        /\ occupant' = [occupant EXCEPT ![c] = p]
  BY DEF Accept
<1>2. at[p] = "away" /\ at' = [at EXCEPT ![p] = "slot"]
  BY DEF Accept
<1>3. UNCHANGED <<lurk, list, entry, asker, scan, files, said, name, lurking, pipe, queue, sent>>
  BY DEF Accept, mainVars
<1>4. TypeOK'
  BY <1>1, <1>2, <1>3 DEF TypeOK, Somebody
<1>5. SlotInv'
  BY <1>1, <1>2, PeopleAssumption DEF SlotInv, TypeOK, Here, Somebody
<1>6. NameInv'
  BY <1>1, <1>2, <1>3 DEF NameInv, TypeOK
<1>7. ASSUME NEW m, m.by \in People, Good(m) PROVE Good(m)'
  BY <1>1, <1>2, <1>7 DEF Good, Named, TypeOK
<1>8. MessageInv'
  <2>1. ASSUME NEW i \in DOMAIN queue PROVE queue[i].by \in People
    BY DEF TypeOK, Messages
  <2>2. ASSUME NEW q \in People, NEW i \in DOMAIN pipe[q] PROVE pipe[q][i].by \in People
    BY DEF TypeOK, Messages
  <2> QED BY <1>3, <1>7, <2>1, <2>2 DEF MessageInv, Good
<1>9. WriterNamed'
  BY <1>3 DEF WriterNamed
<1> QED BY <1>4, <1>5, <1>6, <1>8, <1>9

\* Messages stay good while names are kept and nobody loses his slot's number.
LEMMA MessagesKept ==
  ASSUME IInv, UNCHANGED <<queue, pipe, slot>>,
         \A p \in People : at[p] \in Named => at'[p] \in Named
  PROVE  MessageInv'
<1>1. ASSUME NEW m, m.by \in People, Good(m) PROVE Good(m)'
  BY <1>1 DEF Good
<1>2. ASSUME NEW i \in DOMAIN queue PROVE queue[i].by \in People
  BY DEF IInv, TypeOK, Messages
<1>3. ASSUME NEW q \in People, NEW i \in DOMAIN pipe[q] PROVE pipe[q][i].by \in People
  BY DEF IInv, TypeOK, Messages
<1> QED BY <1>1, <1>2, <1>3 DEF IInv, MessageInv

LEMMA ClearNameKeeps == ASSUME IInv, NEW p \in People, ClearName(p) PROVE IInv'
<1> USE DEF IInv
<1>1. /\ at[p] = "slot" /\ at' = [at EXCEPT ![p] = "cleared"]
      /\ name' = [name EXCEPT ![slot[p]] = Nobody]
  BY DEF ClearName
<1>2. UNCHANGED <<slot, occupant, lurk, list, entry, asker, scan, files, said, lurking, pipe, queue, sent>>
  BY DEF ClearName, mainVars
<1>3. TypeOK'
  BY <1>1, <1>2 DEF TypeOK, Somebody
<1>4. SlotInv'
  BY <1>1, <1>2 DEF SlotInv, TypeOK, Here
<1>5. NameInv'
  BY <1>1, <1>2 DEF NameInv, SlotInv, TypeOK, Here
<1>6. MessageInv'
  BY <1>1, <1>2, MessagesKept DEF TypeOK, Named
<1>7. WriterNamed'
  BY <1>2 DEF WriterNamed
<1> QED BY <1>3, <1>4, <1>5, <1>6, <1>7

LEMMA SetNameKeeps == ASSUME IInv, NEW p \in People, SetName(p) PROVE IInv'
<1> USE DEF IInv
<1>1. /\ at[p] = "cleared" /\ at' = [at EXCEPT ![p] = "on"]
      /\ name' = [name EXCEPT ![slot[p]] = p]
  BY DEF SetName
<1>2. UNCHANGED <<slot, occupant, lurk, list, entry, asker, scan, files, said, lurking, pipe, queue, sent>>
  BY DEF SetName, mainVars
<1>3. TypeOK'
  BY <1>1, <1>2 DEF TypeOK, Somebody
<1>4. SlotInv'
  BY <1>1, <1>2 DEF SlotInv, TypeOK, Here
<1>5. NameInv'
  BY <1>1, <1>2 DEF NameInv, SlotInv, TypeOK, Here
<1>6. MessageInv'
  BY <1>1, <1>2, MessagesKept DEF TypeOK, Named
<1>7. WriterNamed'
  BY <1>2 DEF WriterNamed
<1> QED BY <1>3, <1>4, <1>5, <1>6, <1>7

LEMMA QuitKeeps == ASSUME IInv, NEW p \in People, Quit(p) PROVE IInv'
<1> USE DEF IInv
<1>1. at[p] = "on" /\ at' = [at EXCEPT ![p] = "closed"]
  BY DEF Quit
<1>2. UNCHANGED <<slot, occupant, name, lurk, list, entry, asker, scan, files, said, lurking, pipe, queue, sent>>
  BY DEF Quit, mainVars
<1>3. TypeOK'
  BY <1>1, <1>2 DEF TypeOK
<1>4. SlotInv'
  BY <1>1, <1>2 DEF SlotInv, TypeOK, Here
<1>5. NameInv'
  BY <1>1, <1>2 DEF NameInv, TypeOK
<1>6. MessageInv'
  BY <1>1, <1>2, MessagesKept DEF TypeOK, Named
<1>7. WriterNamed'
  BY <1>2 DEF WriterNamed
<1> QED BY <1>3, <1>4, <1>5, <1>6, <1>7

LEMMA LogOffKeeps == ASSUME IInv, NEW p \in People, LogOff(p) PROVE IInv'
<1> USE DEF IInv
<1>1. /\ at[p] = "closed" /\ at' = [at EXCEPT ![p] = "gone"]
      /\ occupant' = [occupant EXCEPT ![slot[p]] = Nobody]
  BY DEF LogOff
<1>2. UNCHANGED <<slot, name, lurk, list, entry, asker, scan, files, said, lurking, pipe, queue, sent>>
  BY DEF LogOff, mainVars
<1>3. TypeOK'
  BY <1>1, <1>2 DEF TypeOK, Somebody
<1>4. SlotInv'
  BY <1>1, <1>2 DEF SlotInv, TypeOK, Here
<1>5. NameInv'
  BY <1>1, <1>2 DEF NameInv, TypeOK
<1>6. MessageInv'
  BY <1>1, <1>2, MessagesKept DEF TypeOK, Named
<1>7. WriterNamed'
  BY <1>2 DEF WriterNamed
<1> QED BY <1>3, <1>4, <1>5, <1>6, <1>7

-----------------------------------------------------------------------------
(* Messages *)

LEMMA PutKeeps ==
  ASSUME IInv, NEW p \in People, NEW m \in Messages, Put(p, m), m.by = p,
         m.kind # "window" => m.user = slot[p],
         lurking' \in [People -> BOOLEAN]
  PROVE  IInv'
<1> USE DEF IInv
<1>1. /\ at[p] = "on" /\ sent < MaxSent
      /\ pipe' = [pipe EXCEPT ![p] = Append(@, m)]
      /\ sent' = sent + 1
  BY DEF Put
<1>2. UNCHANGED <<at, slot, occupant, name, lurk, list, entry, asker, scan, files, said, queue>>
  BY DEF Put, mainVars, userVars
<1>3. pipe[p] \in Seq(Messages)
  BY DEF TypeOK
<1>4. /\ Append(pipe[p], m) \in Seq(Messages)
      /\ \A i \in DOMAIN Append(pipe[p], m) :
           Append(pipe[p], m)[i] = m \/ (i \in DOMAIN pipe[p] /\ Append(pipe[p], m)[i] = pipe[p][i])
  BY <1>3, AppendType
<1>5. TypeOK'
  <2>1. pipe' \in [People -> Seq(Messages)]
    BY ONLY <1>1, <1>4, pipe \in [People -> Seq(Messages)] DEF TypeOK
  <2>2. sent' \in 0..MaxSent
    BY <1>1, BoundAssumption DEF TypeOK
  <2> QED BY <1>2, <2>1, <2>2 DEF TypeOK
<1>6. SlotInv' /\ NameInv' /\ WriterNamed'
  BY <1>2 DEF SlotInv, NameInv, WriterNamed
<1>7. MessageInv'
  <2>1. Good(m)
    BY <1>1 DEF Good, Named
  <2>2. \A x : Good(x)' <=> Good(x)
    BY <1>2 DEF Good
  <2>3. \A q \in People : pipe'[q] = IF q = p THEN Append(pipe[p], m) ELSE pipe[q]
    BY <1>1 DEF TypeOK
  <2>4. ASSUME NEW q \in People, NEW i \in DOMAIN pipe'[q] PROVE Good(pipe'[q][i])
    BY <1>4, <2>1, <2>3, <2>4 DEF MessageInv
  <2> QED BY <1>2, <2>2, <2>4 DEF MessageInv
<1> QED BY <1>5, <1>6, <1>7

LEMMA SayKeeps == ASSUME IInv, NEW p \in People, Say(p) PROVE IInv'
<1>1. PICK k \in {"chat", "list"} : Put(p, [kind |-> k, user |-> slot[p], by |-> p])
  BY DEF Say
<1>2. [kind |-> k, user |-> slot[p], by |-> p] \in Messages
  BY DEF IInv, TypeOK, Messages
<1>3. lurking' \in [People -> BOOLEAN]
  <2>1. lurking' = lurking
    BY DEF Say
  <2> QED BY <2>1, Zenon DEF IInv, TypeOK
<1> QED BY <1>1, <1>2, <1>3, PutKeeps

LEMMA NotIsBoolean ==
  ASSUME NEW S, NEW l \in [S -> BOOLEAN], NEW x \in S
  PROVE  (~l[x]) \in BOOLEAN
OBVIOUS

LEMMA LurkKeeps == ASSUME IInv, NEW p \in People, Lurk(p) PROVE IInv'
<1>1. Put(p, [kind |-> "lurk", user |-> slot[p], by |-> p, to |-> ~lurking[p]])
  BY DEF Lurk
<1>2. lurking \in [People -> BOOLEAN] /\ slot[p] \in Slots
  BY DEF IInv, TypeOK
<1>3. [kind |-> "lurk", user |-> slot[p], by |-> p, to |-> ~lurking[p]] \in Messages
  <2>1. (~lurking[p]) \in BOOLEAN
    BY <1>2, NotIsBoolean
  <2> QED BY <1>2, <2>1 DEF Messages
<1>4. lurking' \in [People -> BOOLEAN]
  <2>1. lurking' = [lurking EXCEPT ![p] = ~@]
    BY DEF Lurk
  <2> QED BY <1>2, <2>1, Zenon
<1> QED BY <1>1, <1>3, <1>4, PutKeeps

LEMMA SendWindowKeeps == ASSUME IInv, NEW p \in People, SendWindow(p) PROVE IInv'
<1>1. PICK w \in Wids : Put(p, [kind |-> "window", user |-> w, wid |-> w, by |-> p])
  BY DEF SendWindow
<1>2. [kind |-> "window", user |-> w, wid |-> w, by |-> p] \in Messages
  BY DEF Messages
<1>3. lurking' \in [People -> BOOLEAN]
  <2>1. lurking' = lurking
    BY DEF SendWindow
  <2> QED BY <2>1, Zenon DEF IInv, TypeOK
<1> QED BY <1>1, <1>2, <1>3, PutKeeps

LEMMA ReceiveKeeps == ASSUME IInv, NEW p \in People, Receive(p) PROVE IInv'
<1> USE DEF IInv
<1>1. PICK k \in 1..Len(pipe[p]) :
        /\ queue' = Append(queue, pipe[p][1])
        /\ pipe' = [pipe EXCEPT ![p] = SubSeq(@, k + 1, Len(@))]
  BY DEF Receive
<1>2. UNCHANGED <<at, slot, occupant, name, lurk, list, entry, asker, scan, files, said, lurking, sent>>
  BY DEF Receive, mainVars, userVars
<1>3. pipe[p] \in Seq(Messages) /\ queue \in Seq(Messages)
  BY DEF TypeOK
<1>4. 1 \in DOMAIN pipe[p] /\ pipe[p][1] \in Messages
  BY <1>3
<1>5. /\ Append(queue, pipe[p][1]) \in Seq(Messages)
      /\ \A i \in DOMAIN Append(queue, pipe[p][1]) :
           \/ Append(queue, pipe[p][1])[i] = pipe[p][1]
           \/ i \in DOMAIN queue /\ Append(queue, pipe[p][1])[i] = queue[i]
  BY <1>3, <1>4, AppendType
<1>6. /\ SubSeq(pipe[p], k + 1, Len(pipe[p])) \in Seq(Messages)
      /\ \A i \in DOMAIN SubSeq(pipe[p], k + 1, Len(pipe[p])) :
           /\ i + k \in DOMAIN pipe[p]
           /\ SubSeq(pipe[p], k + 1, Len(pipe[p]))[i] = pipe[p][i + k]
  BY <1>3, RestType
<1>7. TypeOK'
  <2>1. pipe' \in [People -> Seq(Messages)]
    BY ONLY <1>1, <1>6, pipe \in [People -> Seq(Messages)] DEF TypeOK
  <2> QED BY <1>1, <1>2, <1>5, <2>1 DEF TypeOK
<1>8. SlotInv' /\ NameInv' /\ WriterNamed'
  BY <1>2 DEF SlotInv, NameInv, WriterNamed
<1>9. MessageInv'
  <2>1. \A x : Good(x)' <=> Good(x)
    BY <1>2 DEF Good
  <2>2. Good(pipe[p][1])
    BY <1>4 DEF MessageInv
  <2>3. ASSUME NEW i \in DOMAIN queue' PROVE Good(queue'[i])
    BY <1>1, <1>5, <2>2, <2>3 DEF MessageInv
  <2>4. \A q \in People : pipe'[q] = IF q = p THEN SubSeq(pipe[p], k + 1, Len(pipe[p])) ELSE pipe[q]
    BY <1>1 DEF TypeOK
  <2>5. ASSUME NEW q \in People, NEW i \in DOMAIN pipe'[q] PROVE Good(pipe'[q][i])
    BY <1>6, <2>4, <2>5 DEF MessageInv
  <2> QED BY <2>1, <2>3, <2>5 DEF MessageInv
<1> QED BY <1>7, <1>8, <1>9

-----------------------------------------------------------------------------
(* The main thread *)

\* The user of the message is in the slot: it is his, and its thread has read
\* his name, for he has been heard.
LEMMA AnnounceKeeps ==
  ASSUME IInv, NEW m \in Messages, Good(m), m.kind # "window", NEW text, Announce(m, text)
  PROVE  WriterNamed'
<1>1. m.by \in People /\ m.user = slot[m.by] /\ at[m.by] \in Named
  BY DEF Messages, Good
<1>2. ASSUME occupant[m.user] = m.by PROVE name[m.user] = m.by
  <2>1. m.user \in Slots /\ m.by # Nobody
    BY <1>1, PeopleAssumption DEF IInv, TypeOK
  <2>2. at[m.by] \in Here
    BY <1>2, <2>1 DEF IInv, SlotInv
  <2>3. at[m.by] \in {"on", "closed"}
    BY <1>1, <2>2 DEF Here, Named
  <2> QED BY <1>1, <2>3 DEF IInv, NameInv
<1>3. ASSUME NEW s \in said', s.here PROVE s.name = s.by
  <2>1. s = [by |-> m.by, name |-> name[m.user], here |-> occupant[m.user] = m.by, text |-> text]
    BY <1>3, Zenon DEF Announce
  <2>2. s.here = (occupant[m.user] = m.by)
    BY <2>1, Zenon
  <2>3. s.name = name[m.user] /\ s.by = m.by
    BY <2>1
  <2> QED BY <1>2, <1>3, <2>2, <2>3
<1> QED BY <1>3 DEF WriterNamed

LEMMA HandleKeeps == ASSUME IInv, Handle PROVE IInv'
<1> DEFINE m == Head(queue)
<1>1. queue # <<>> /\ queue' = Tail(queue) /\ queue \in Seq(Messages)
  BY DEF Handle, IInv, TypeOK
<1>2. UNCHANGED <<at, slot, occupant, name, lurking, pipe, sent>>
  BY DEF Handle, userVars
<1>3. /\ queue' \in Seq(Messages) /\ m \in Messages /\ 1 \in DOMAIN queue /\ m = queue[1]
      /\ \A i \in DOMAIN queue' : i + 1 \in DOMAIN queue /\ queue'[i] = queue[i + 1]
  BY <1>1, TailType
<1>4. Good(m)
  BY <1>3 DEF IInv, MessageInv
<1>5. MessageInv'
  <2>1. \A x : Good(x)' <=> Good(x)
    BY <1>2 DEF Good
  <2> QED BY <1>2, <1>3, <2>1 DEF IInv, MessageInv
<1>6. SlotInv' /\ NameInv'
  BY <1>2 DEF IInv, SlotInv, NameInv
<1>7. \/ m.kind = "chat" /\ HandleChat(m)
      \/ m.kind = "lurk" /\ HandleLurk(m)
      \/ m.kind = "list" /\ HandleList(m)
      \/ m.kind = "window" /\ HandleWindow(m)
  BY DEF Handle
<1> HIDE DEF m
<1>8. m.by \in People /\ (m.kind # "window" => m.user \in Slots)
  BY <1>3 DEF Messages
<1>9. /\ lurk' \in [Slots -> BOOLEAN]
      /\ list' \subseteq Slots \X Somebody \X Somebody /\ entry' \subseteq Slots \X Somebody /\ asker' \in Slots /\ scan' \in 1..N + 1
      /\ files' \in [Wids -> Somebody] /\ WriterNamed'
  <2> DEFINE Rest1 == lurk \in [Slots -> BOOLEAN]
             Rest2 == list \subseteq Slots \X Somebody \X Somebody /\ entry \subseteq Slots \X Somebody /\ asker \in Slots /\ scan \in 1..N + 1
             Rest3 == files \in [Wids -> Somebody]
  <2>1. Rest1 /\ Rest2 /\ Rest3 /\ WriterNamed /\ name \in [Slots -> Somebody]
    BY Zenon DEF IInv, TypeOK
  <2>2. CASE m.kind = "chat" /\ HandleChat(m)
    <3>1. WriterNamed'
      BY <1>3, <1>4, <2>2, AnnounceKeeps DEF HandleChat
    <3>2. UNCHANGED <<lurk, list, entry, asker, scan, files>>
      BY <2>2 DEF HandleChat
    <3> QED BY <2>1, <3>1, <3>2, Zenon
  <2>3. CASE m.kind = "lurk" /\ HandleLurk(m)
    <3>1. WriterNamed'
      BY <1>3, <1>4, <2>3, AnnounceKeeps DEF HandleLurk
    <3>2. UNCHANGED <<list, entry, asker, scan, files>>
      BY <2>3 DEF HandleLurk
    <3>3. lurk' = [lurk EXCEPT ![m.user] = ~@]
      BY <2>3 DEF HandleLurk
    <3>4. lurk' \in [Slots -> BOOLEAN]
      BY <2>1, <3>3, Zenon
    <3> QED BY <2>1, <3>1, <3>2, <3>4, Zenon
  <2>4. CASE m.kind = "list" /\ HandleList(m)
    <3>1. /\ entry' = {<<m.user, name[m.user]>>} /\ list' = {} /\ asker' = m.user /\ scan' = 1
          /\ UNCHANGED <<lurk, files, said>>
      BY <2>4 DEF HandleList
    <3>2. list' \subseteq Slots \X Somebody \X Somebody /\ entry' \subseteq Slots \X Somebody
      BY <1>8, <2>1, <2>4, <3>1
    <3>3. asker' \in Slots /\ scan' \in 1..N + 1
      BY <1>8, <2>4, <3>1, SlotAssumption
    <3>4. WriterNamed'
      BY <2>1, <3>1 DEF WriterNamed
    <3>5. lurk' \in [Slots -> BOOLEAN] /\ files' \in [Wids -> Somebody]
      BY <2>1, <3>1, Zenon
    <3> QED BY <3>2, <3>3, <3>4, <3>5
  <2>5. CASE m.kind = "window" /\ HandleWindow(m)
    <3>1. UNCHANGED <<lurk, list, entry, asker, scan, said>>
      BY <2>5 DEF HandleWindow
    <3>2. files' = files \/ files' = [files EXCEPT ![m.wid] = m.by]
      BY <2>5, Zenon DEF HandleWindow
    <3>3. files' \in [Wids -> Somebody]
      BY <1>8, <2>1, <3>2 DEF Somebody
    <3>4. WriterNamed'
      BY <2>1, <3>1 DEF WriterNamed
    <3>5. /\ lurk' \in [Slots -> BOOLEAN]
          /\ list' \subseteq Slots \X Somebody \X Somebody /\ entry' \subseteq Slots \X Somebody /\ asker' \in Slots /\ scan' \in 1..N + 1
      BY <2>1, <3>1, Zenon
    <3> QED BY <3>3, <3>4, <3>5
  <2> QED BY <1>7, <2>2, <2>3, <2>4, <2>5
<1>10. TypeOK'
  BY <1>2, <1>3, <1>9, Zenon DEF IInv, TypeOK
<1> QED BY <1>5, <1>6, <1>9, <1>10 DEF IInv

LEMMA MakeListKeeps == ASSUME IInv, WriteEntry \/ ListNext \/ ListDone PROVE IInv'
<1> USE DEF IInv
<1>1. UNCHANGED <<at, slot, occupant, name, lurk, asker, files, said, lurking, pipe, queue, sent>>
  BY DEF WriteEntry, ListNext, ListDone, userVars
<1>2. /\ list' \subseteq Slots \X Somebody \X Somebody /\ entry' \subseteq Slots \X Somebody
      /\ scan' \in 1..N + 1
  <2>0. /\ list \subseteq Slots \X Somebody \X Somebody /\ entry \subseteq Slots \X Somebody
        /\ scan \in 1..N + 1 /\ name \in [Slots -> Somebody]
    BY DEF TypeOK
  <2>1. CASE WriteEntry
    <3>1. /\ list' = list \cup {<<e[1], e[2], name[e[1]]>> : e \in entry}
          /\ entry' = {} /\ scan' = scan
      BY <2>1 DEF WriteEntry
    <3>2. \A e \in entry : <<e[1], e[2], name[e[1]]>> \in Slots \X Somebody \X Somebody
      BY <2>0
    <3> QED BY <2>0, <3>1, <3>2
  <2>2. CASE ListNext
    <3>1. /\ scan <= N /\ scan' = scan + 1 /\ list' = list
          /\ entry' = {} \/ entry' = {<<scan, name[scan]>>}
      BY <2>2 DEF ListNext
    <3>2. scan \in Slots /\ scan' \in 1..N + 1
      BY <2>0, <3>1, SlotAssumption DEF Slots
    <3> QED BY <2>0, <3>1, <3>2
  <2>3. CASE ListDone
    <3>1. list' = {} /\ entry' = entry /\ scan' = scan
      BY <2>3 DEF ListDone
    <3> QED BY <2>0, <3>1
  <2> QED BY <2>1, <2>2, <2>3
<1>3. TypeOK'
  BY <1>1, <1>2 DEF TypeOK
<1>4. SlotInv' /\ NameInv' /\ WriterNamed'
  BY <1>1 DEF SlotInv, NameInv, WriterNamed
<1>5. MessageInv'
  BY <1>1 DEF MessageInv, Good
<1> QED BY <1>3, <1>4, <1>5

-----------------------------------------------------------------------------
(* The theorems *)

LEMMA StepInv == IInv /\ [Next]_vars => IInv'
<1> SUFFICES ASSUME IInv, [Next]_vars PROVE IInv'
  OBVIOUS
<1>1. CASE \E p \in People : UserStep(p) \/ ThreadStep(p) \/ Accept(p)
  BY <1>1, AcceptKeeps, ClearNameKeeps, SetNameKeeps, QuitKeeps, LogOffKeeps,
     SayKeeps, LurkKeeps, SendWindowKeeps, ReceiveKeeps DEF UserStep, ThreadStep
<1>2. CASE Handle
  BY <1>2, HandleKeeps
<1>3. CASE WriteEntry \/ ListNext \/ ListDone
  BY <1>3, MakeListKeeps
<1>4. CASE UNCHANGED vars
  BY <1>4 DEF vars, userVars, mainVars, IInv, TypeOK, SlotInv, NameInv, MessageInv, Good, WriterNamed
<1> QED BY <1>1, <1>2, <1>3, <1>4 DEF Next

\* Every variable keeps its type, however many slots and users there are
\* (server/main.c:126-474).
THEOREM CommandTypes == Spec => []TypeOK
<1>1. IInv => TypeOK
  BY DEF IInv
<1> QED BY InitInv, StepInv, <1>1, PTL DEF Spec

\* Though the main thread reads a name without the mutex, and a slot keeps the
\* name of the last user until the next has sent his, nothing is said of a user
\* who is in his slot under another's name (bc_network.c:337-340, main.c:174, 413).
THEOREM WriterIsNamed == Spec => []WriterNamed
<1>1. IInv => WriterNamed
  BY DEF IInv
<1> QED BY InitInv, StepInv, <1>1, PTL DEF Spec

-----------------------------------------------------------------------------
(* User lists.                                                             *)

\* A list being made has, or is about to have, the one who asked and every steady
\* user in a slot already looked at, each once.
ListInv ==
  /\ \A p \in steady : p \in People /\ at[p] \in {"on", "closed"}
  /\ ~Idle => \A p \in steady : slot[p] = asker \/ slot[p] < scan =>
       <<slot[p], p, p>> \in list \/ <<slot[p], p>> \in entry
  /\ \A x \in list : x[1] = asker \/ x[1] < scan
  /\ \A e \in entry : e[1] = asker \/ e[1] < scan
  /\ \A x, y \in list : x[1] = y[1] => x = y
  /\ \A x \in list, e \in entry : x[1] # e[1]
  /\ \A e, f \in entry : e = f

\* Whoever a list was made for while he was there has the slot he had.
AnswerInv == \A a \in answers : \A p \in a.steady : p \in People /\ at[p] \in Named

ListsInv == ListInv /\ AnswerInv /\ ListsAreWhole

\* The steps that touch neither a list nor anybody who is signed on.
LEMMA ListsKept ==
  ASSUME IInv, ListsInv, UNCHANGED <<list, entry, asker, scan, answers>>, steady' \subseteq steady,
         \A p \in People : at[p] \in Named => at'[p] \in Named /\ slot'[p] = slot[p],
         \A p \in steady' : at'[p] \in {"on", "closed"}
  PROVE  ListsInv'
<1>1. \A p \in steady : p \in People /\ at[p] \in Named
  BY DEF ListsInv, ListInv, Named
<1>2. ListInv'
  BY <1>1 DEF ListsInv, ListInv, Idle
<1>3. AnswerInv' /\ ListsAreWhole'
  BY DEF ListsInv, AnswerInv, ListsAreWhole
<1> QED BY <1>2, <1>3 DEF ListsInv

LEMMA UserLists ==
  ASSUME IInv, ListsInv, NEW p \in People, UserStep(p) \/ ThreadStep(p) \/ Accept(p)
  PROVE  ListsInv'
<1> USE DEF Named
<1>0. /\ at \in [People -> {"away", "slot", "cleared", "on", "closed", "gone"}]
      /\ slot \in [People -> Slots]
      /\ \A q \in steady : q \in People /\ at[q] \in {"on", "closed"}
  BY DEF IInv, TypeOK, ListsInv, ListInv
<1>1. CASE Accept(p)
  <2>1. /\ at[p] = "away" /\ at' = [at EXCEPT ![p] = "slot"] /\ UNCHANGED <<list, entry, asker, scan, answers, steady>>
        /\ \E c \in Slots : slot' = [slot EXCEPT ![p] = c]
    BY <1>1 DEF Accept, mainVars
  <2> QED BY <1>0, <2>1, ListsKept
<1>2. CASE ClearName(p) \/ SetName(p)
  <2>1. /\ at[p] \in {"slot", "cleared"} /\ \E v \in {"cleared", "on"} : at' = [at EXCEPT ![p] = v]
        /\ UNCHANGED <<list, entry, asker, scan, answers, steady, slot>>
    BY <1>2 DEF ClearName, SetName, mainVars
  <2> QED BY <1>0, <2>1, ListsKept
<1>3. CASE Quit(p)
  <2>1. at' = [at EXCEPT ![p] = "closed"] /\ UNCHANGED <<list, entry, asker, scan, answers, steady, slot>>
    BY <1>3 DEF Quit, mainVars
  <2> QED BY <1>0, <2>1, ListsKept
<1>4. CASE LogOff(p)
  <2>1. /\ at' = [at EXCEPT ![p] = "gone"] /\ steady' = steady \ {p}
        /\ UNCHANGED <<list, entry, asker, scan, answers, slot>>
    BY <1>4 DEF LogOff, mainVars
  <2> QED BY <1>0, <2>1, ListsKept
<1>5. CASE Say(p) \/ Lurk(p) \/ SendWindow(p) \/ Receive(p)
  <2>1. UNCHANGED <<at, slot, list, entry, asker, scan, answers, steady>>
    BY <1>5 DEF Say, Lurk, SendWindow, Receive, Put, userVars, mainVars
  <2> QED BY <1>0, <2>1, ListsKept
<1> QED BY <1>1, <1>2, <1>3, <1>4, <1>5 DEF UserStep, ThreadStep

LEMMA HandleLists == ASSUME IInv, ListsInv, Handle PROVE ListsInv'
<1> DEFINE m == Head(queue)
<1>1. m \in Messages
  BY TailType DEF Handle, IInv, TypeOK
<1>2. /\ UNCHANGED <<at, slot, name>>
      /\ \/ m.kind = "chat" /\ HandleChat(m)
         \/ m.kind = "lurk" /\ HandleLurk(m)
         \/ m.kind = "list" /\ HandleList(m)
         \/ m.kind = "window" /\ HandleWindow(m)
  BY DEF Handle, userVars
<1> HIDE DEF m
<1>3. CASE m.kind = "list" /\ HandleList(m)
  <2>1. /\ entry' = {<<m.user, name[m.user]>>} /\ list' = {} /\ asker' = m.user /\ scan' = 1
        /\ steady' = SignedOn /\ answers' = answers
    BY <1>3 DEF HandleList
  <2>2. \A p \in SignedOn : p \in People /\ at[p] \in {"on", "closed"} /\ name[slot[p]] = p /\ slot[p] \in Slots
    BY DEF SignedOn, IInv, NameInv, TypeOK
  <2>3. \A p \in SignedOn : ~(slot[p] < 1)
    BY <2>2, SlotAssumption DEF Slots
  <2>4. ListInv'
    BY <1>2, <2>1, <2>2, <2>3 DEF ListInv
  <2>5. AnswerInv' /\ ListsAreWhole'
    BY <1>2, <2>1 DEF ListsInv, AnswerInv, ListsAreWhole
  <2> QED BY <2>4, <2>5 DEF ListsInv
<1>4. CASE HandleChat(m) \/ HandleLurk(m) \/ HandleWindow(m)
  <2>1. UNCHANGED <<list, entry, asker, scan, answers, steady>>
    BY <1>4 DEF HandleChat, HandleLurk, HandleWindow
  <2>2. \A p \in steady' : at'[p] \in {"on", "closed"}
    BY <1>2, <2>1 DEF ListsInv, ListInv
  <2> QED BY <1>2, <2>1, <2>2, ListsKept
<1> QED BY <1>2, <1>3, <1>4

LEMMA NextNat ==
  ASSUME NEW i \in Nat, NEW j \in Nat
  PROVE  i < j + 1 <=> i = j \/ i < j
OBVIOUS

\* Who is steady is in his slot under his name.
LEMMA SteadyNamed ==
  ASSUME IInv, ListsInv, NEW p \in steady
  PROVE  /\ p \in People /\ at[p] \in {"on", "closed"} /\ slot[p] \in Slots
         /\ occupant[slot[p]] = p /\ name[slot[p]] = p /\ p # Nobody
BY PeopleAssumption DEF ListsInv, ListInv, IInv, TypeOK, SlotInv, NameInv, Here

LEMMA WriteEntryLists == ASSUME IInv, ListsInv, WriteEntry PROVE ListsInv'
<1>1. /\ entry # {} /\ entry' = {}
      /\ list' = list \cup {<<e[1], e[2], name[e[1]]>> : e \in entry}
      /\ UNCHANGED <<at, slot, asker, scan, answers, steady>>
  BY DEF WriteEntry, userVars
<1>2. ListInv
  BY DEF ListsInv
<1> DEFINE Added(e) == <<e[1], e[2], name[e[1]]>>
<1>3. \A x \in list' : x \in list \/ \E e \in entry : x = Added(e)
  BY <1>1
<1>4. \A p \in steady : slot[p] = asker \/ slot[p] < scan => <<slot[p], p, p>> \in list'
  <2> SUFFICES ASSUME NEW p \in steady, slot[p] = asker \/ slot[p] < scan
               PROVE  <<slot[p], p, p>> \in list'
    OBVIOUS
  <2>1. name[slot[p]] = p
    BY SteadyNamed
  <2>2. <<slot[p], p, p>> \in list \/ <<slot[p], p>> \in entry
    BY <1>1, <1>2 DEF ListInv, Idle
  <2>3. CASE <<slot[p], p>> \in entry
    <3> DEFINE e == <<slot[p], p>>
    <3>1. e[1] = slot[p] /\ e[2] = p /\ e \in entry
      BY <2>3
    <3>2. Added(e) = <<slot[p], p, p>>
      BY <2>1, <3>1
    <3>3. Added(e) \in list'
      BY <1>1, <3>1
    <3> QED BY <3>2, <3>3
  <2> QED BY <1>1, <2>2, <2>3
<1>5. \A x \in list' : x[1] = asker \/ x[1] < scan
  BY <1>2, <1>3 DEF ListInv
<1>6. \A x, y \in list' : x[1] = y[1] => x = y
  <2> SUFFICES ASSUME NEW x \in list', NEW y \in list', x[1] = y[1]
               PROVE  x = y
    OBVIOUS
  <2>1. CASE x \in list /\ y \in list
    BY <1>2, <2>1 DEF ListInv
  <2>2. ASSUME NEW e \in entry, x = Added(e)
        PROVE  x = y
    <3>1. x[1] = e[1] /\ y \notin list
      BY <1>2, <2>2 DEF ListInv
    <3>2. PICK f \in entry : y = Added(f)
      BY <1>3, <3>1
    <3>3. e = f
      BY <1>2 DEF ListInv
    <3> QED BY <2>2, <3>2, <3>3
  <2>3. ASSUME NEW e \in entry, y = Added(e), x \in list
        PROVE  x = y
    <3>1. y[1] = e[1]
      BY <2>3
    <3> QED BY <1>2, <2>3, <3>1 DEF ListInv
  <2> QED BY <1>3, <2>1, <2>2, <2>3
<1>7. ListInv'
  BY <1>1, <1>2, <1>4, <1>5, <1>6 DEF ListInv
<1>8. AnswerInv' /\ ListsAreWhole'
  BY <1>1 DEF ListsInv, AnswerInv, ListsAreWhole
<1> QED BY <1>7, <1>8 DEF ListsInv

LEMMA ListNextLists == ASSUME IInv, ListsInv, ListNext PROVE ListsInv'
<1>1. /\ scan \in Nat /\ scan <= N /\ scan' = scan + 1 /\ scan \in Slots /\ asker \in Slots
      /\ ~Idle /\ entry = {}
      /\ entry' = IF occupant[scan] # Nobody /\ scan # asker THEN {<<scan, name[scan]>>} ELSE {}
      /\ UNCHANGED <<at, slot, asker, answers, steady, list>>
  BY SlotAssumption DEF ListNext, IInv, TypeOK, userVars, Slots
<1>2. \A p \in steady : /\ p \in People /\ at[p] \in {"on", "closed"} /\ slot[p] \in Slots
                        /\ occupant[slot[p]] = p /\ name[slot[p]] = p /\ p # Nobody
  BY SteadyNamed
<1>3. \A c \in Slots : c \in Nat /\ 1 <= c /\ c <= N
  BY SlotAssumption DEF Slots
<1>4. /\ \A p \in steady : slot[p] = asker \/ slot[p] < scan => <<slot[p], p, p>> \in list
      /\ \A x \in list : x[1] \in Slots /\ (x[1] = asker \/ x[1] < scan)
      /\ \A x, y \in list : x[1] = y[1] => x = y
  <2>1. list \subseteq Slots \X Somebody \X Somebody /\ ListInv
    BY DEF ListsInv, IInv, TypeOK
  <2>2. \A x \in list : x[1] \in Slots
    BY <2>1
  <2> QED BY <1>1, <2>1, <2>2 DEF ListInv
<1>5. \A p \in steady : slot[p] = asker \/ slot[p] < scan + 1 =>
        <<slot[p], p, p>> \in list' \/ <<slot[p], p>> \in entry'
  <2> TAKE p \in steady
  <2>1. CASE slot[p] = scan /\ scan # asker
    BY <1>1, <1>2, <2>1
  <2>2. CASE slot[p] = asker \/ slot[p] < scan
    BY <1>1, <1>4, <2>2
  <2>3. slot[p] < scan + 1 => slot[p] = scan \/ slot[p] < scan
    <3>1. slot[p] \in Nat /\ scan \in Nat
      BY <1>1, <1>2, <1>3
    <3> QED BY <3>1, NextNat
  <2> QED BY <2>1, <2>2, <2>3
<1>6. \A x \in list' : x[1] = asker \/ x[1] < scan + 1
  <2> TAKE x \in list'
  <2>1. x[1] \in Nat /\ scan \in Nat /\ (x[1] = asker \/ x[1] < scan)
    BY <1>1, <1>3, <1>4
  <2> QED BY <2>1, NextNat
<1>7. /\ \A e \in entry' : e[1] = scan /\ scan < scan + 1
      /\ \A e, f \in entry' : e = f
      /\ \A x \in list', e \in entry' : x[1] # e[1]
  <2>1. \A e \in entry' : e = <<scan, name[scan]>> /\ scan # asker
    BY <1>1
  <2>2. scan # asker => \A x \in list' : x[1] # scan
    BY <1>1, <1>3, <1>4
  <2>3. scan < scan + 1
    BY <1>1
  <2> QED BY <2>1, <2>2, <2>3
<1>8. ListInv'
  BY <1>1, <1>2, <1>4, <1>5, <1>6, <1>7 DEF ListInv
<1>9. AnswerInv' /\ ListsAreWhole'
  BY <1>1 DEF ListsInv, AnswerInv, ListsAreWhole
<1> QED BY <1>8, <1>9 DEF ListsInv

LEMMA ListDoneLists == ASSUME IInv, ListsInv, ListDone PROVE ListsInv'
<1>1. /\ ~Idle /\ entry = {} /\ scan > N /\ scan \in Nat /\ list' = {} /\ entry' = {}
      /\ answers' = {[of |-> asker, list |-> list, steady |-> steady]}
      /\ UNCHANGED <<at, slot, asker, scan, steady>>
  BY DEF ListDone, IInv, TypeOK, userVars
<1>2. ListInv
  BY DEF ListsInv
<1>3. \A p \in steady : <<slot[p], p, p>> \in list
  <2> TAKE p \in steady
  <2>1. slot[p] \in Nat /\ slot[p] <= N /\ N \in Nat
    BY SteadyNamed, SlotAssumption DEF Slots
  <2>2. slot[p] < scan
    BY <1>1, <2>1
  <2> QED BY <1>1, <1>2, <2>2 DEF ListInv
<1>4. ListInv'
  BY <1>1, <1>2 DEF ListInv, Idle
<1>5. \A a \in answers' : a.list = list /\ a.steady = steady
  BY <1>1
<1>6. ListsAreWhole'
  BY <1>1, <1>2, <1>3, <1>5 DEF ListInv, ListsAreWhole
<1>7. AnswerInv'
  BY <1>1, <1>2, <1>5 DEF ListInv, AnswerInv, Named
<1> QED BY <1>4, <1>6, <1>7 DEF ListsInv

LEMMA StepLists == IInv /\ ListsInv /\ [Next]_vars => ListsInv'
<1> SUFFICES ASSUME IInv, ListsInv, [Next]_vars PROVE ListsInv'
  OBVIOUS
<1>1. CASE UNCHANGED vars
  BY <1>1 DEF vars, userVars, mainVars, ListsInv, ListInv, AnswerInv, ListsAreWhole, Idle
<1> QED BY <1>1, UserLists, HandleLists, WriteEntryLists, ListNextLists, ListDoneLists DEF Next

\* Made slot by slot without the mutex, while users come and go: a list has
\* everybody who was there all the time under his own name and with its length,
\* though both are read one after the other, and one line for a uid (main.c:380-387;
\* protocol.c:305-314).
THEOREM ListsHaveAll == Spec => []ListsAreWhole
<1>1. Init => ListsInv
  BY DEF Init, ListsInv, ListInv, AnswerInv, ListsAreWhole, Idle
<1>2. ListsInv => ListsAreWhole
  BY DEF ListsInv
<1> QED BY InitInv, StepInv, StepLists, <1>1, <1>2, PTL DEF Spec

-----------------------------------------------------------------------------
(* Lurk flags.                                                             *)
(*                                                                         *)
(* A lurk message turns the flag of its slot, so what the flag is to be at *)
(* each place of a sequence of messages is a function: from what it is     *)
(* before the first to what it will be after the last.                     *)

IsLurk(m, c) == m.kind = "lurk" /\ m.user = c

\* The users whose every message was understood, in a slot with the flag off.
Clean == {p \in People : dropped[p] = 0 /\ ~inherits[p]}

\* The flag of c goes from a to b over the messages, and is at each message of
\* a user in K what he wanted.
Turns(s, c, a, b, K) ==
  \E f \in [0..Len(s) -> BOOLEAN] :
    /\ f[0] <=> a
    /\ f[Len(s)] <=> b
    /\ \A i \in 1..Len(s) : f[i] <=> (IF IsLurk(s[i], c) THEN ~f[i - 1] ELSE f[i - 1])
    /\ \A i \in 1..Len(s) : IsLurk(s[i], c) /\ s[i].by \in K => (s[i].to <=> f[i])

HistoryOK == dropped \in [People -> Nat] /\ inherits \in [People -> BOOLEAN]

\* Nothing has happened to whoever has not come.
AwayInv ==
  \A p \in People : at[p] = "away" =>
    pipe[p] = <<>> /\ ~lurking[p] /\ ~inherits[p] /\ dropped[p] = 0

\* What a user sends is his.
ByInv == \A p \in People : \A i \in DOMAIN pipe[p] : pipe[p][i].by = p

QueueTurns == \A c \in Slots : Turns(queue, c, lurk[c], FlagToBe(c), Clean)

PipeTurns ==
  \A p \in People : at[p] \in Here /\ p \in Clean =>
    Turns(pipe[p], slot[p], FlagToBe(slot[p]), lurking[p], Clean)

LurkInv ==
  /\ HistoryOK /\ AwayInv /\ ByInv /\ QueueTurns /\ PipeTurns
  /\ \A s \in said : s.by \in People
  /\ LurkIsTold

\* Flags and parities
LEMMA NextOdd == ASSUME NEW n \in Nat PROVE (n + 1) % 2 = 1 <=> ~(n % 2 = 1)
OBVIOUS

LEMMA Unlike ==
  ASSUME NEW a \in BOOLEAN, NEW b \in BOOLEAN
  PROVE  (a # b) \in BOOLEAN /\ ((a # b) <=> ~(a <=> b))
OBVIOUS

Lurks(c, s) == {i \in DOMAIN s : s[i].kind = "lurk" /\ s[i].user = c}

LEMMA LurksFinite ==
  ASSUME NEW S, NEW s \in Seq(S), NEW c
  PROVE  IsFiniteSet(Lurks(c, s)) /\ LurksOf(c, s) = Cardinality(Lurks(c, s)) /\ LurksOf(c, s) \in Nat
<1>1. DOMAIN s = 1..Len(s) /\ Len(s) \in Nat
  OBVIOUS
<1>2. IsFiniteSet(DOMAIN s)
  BY <1>1, FS_Interval
<1>3. Lurks(c, s) \subseteq DOMAIN s
  BY DEF Lurks
<1>4. IsFiniteSet(Lurks(c, s))
  BY <1>2, <1>3, FS_Subset
<1> QED BY <1>4, FS_CardinalityType DEF LurksOf, Lurks

LEMMA LurksOfMore ==
  ASSUME NEW S, NEW s \in Seq(S), NEW m \in S, NEW c
  PROVE  LurksOf(c, Append(s, m)) = IF IsLurk(m, c) THEN LurksOf(c, s) + 1 ELSE LurksOf(c, s)
<1>1. /\ Append(s, m) \in Seq(S) /\ Len(s) \in Nat
      /\ DOMAIN Append(s, m) = 1..(Len(s) + 1) /\ DOMAIN s = 1..Len(s)
      /\ Append(s, m)[Len(s) + 1] = m
      /\ \A i \in 1..Len(s) : Append(s, m)[i] = s[i]
  OBVIOUS
<1>2. Lurks(c, Append(s, m)) = IF IsLurk(m, c) THEN Lurks(c, s) \cup {Len(s) + 1} ELSE Lurks(c, s)
  <2> DEFINE t == Append(s, m)
             n == Len(s)
  <2>1. /\ DOMAIN t = 1..(n + 1) /\ DOMAIN s = 1..n /\ n \in Nat
        /\ t[n + 1] = m /\ \A i \in 1..n : t[i] = s[i]
    BY <1>1
  <2> HIDE DEF t, n
  <2>2. 1..(n + 1) = 1..n \cup {n + 1}
    BY <2>1
  <2>3. Lurks(c, t) = IF IsLurk(m, c) THEN Lurks(c, s) \cup {n + 1} ELSE Lurks(c, s)
    BY <2>1, <2>2, Zenon DEF Lurks, IsLurk
  <2> QED BY <2>3 DEF t, n
<1>3. Len(s) + 1 \notin Lurks(c, s)
  BY <1>1 DEF Lurks
<1>4. IsFiniteSet(Lurks(c, s)) /\ LurksOf(c, s) = Cardinality(Lurks(c, s))
  BY LurksFinite
<1>5. LurksOf(c, Append(s, m)) = Cardinality(Lurks(c, Append(s, m)))
  BY <1>1, LurksFinite
<1>6. Cardinality(Lurks(c, s) \cup {Len(s) + 1}) = Cardinality(Lurks(c, s)) + 1
  BY <1>3, <1>4, FS_AddElement
<1> QED BY <1>2, <1>4, <1>5, <1>6

LEMMA LurksOfLess ==
  ASSUME NEW S, NEW s \in Seq(S), s # <<>>, NEW c
  PROVE  LurksOf(c, s) = IF IsLurk(Head(s), c) THEN LurksOf(c, Tail(s)) + 1 ELSE LurksOf(c, Tail(s))
<1> DEFINE A == Lurks(c, s) \ {1}
           B == Lurks(c, Tail(s))
           f == [i \in B |-> i + 1]
<1>1. /\ Tail(s) \in Seq(S) /\ Len(s) \in Nat \ {0} /\ Head(s) = s[1]
      /\ DOMAIN Tail(s) = 1..(Len(s) - 1) /\ DOMAIN s = 1..Len(s)
      /\ \A i \in 1..(Len(s) - 1) : Tail(s)[i] = s[i + 1]
  OBVIOUS
<1>2. IsFiniteSet(Lurks(c, s)) /\ IsFiniteSet(B) /\ LurksOf(c, s) = Cardinality(Lurks(c, s))
      /\ LurksOf(c, Tail(s)) = Cardinality(B) /\ LurksOf(c, s) \in Nat
  BY <1>1, LurksFinite
<1>3. \A i \in B : i \in Nat /\ i + 1 \in A
  BY <1>1 DEF Lurks
<1>4. \A j \in A : j \in Nat /\ j - 1 \in B /\ (j - 1) + 1 = j
  BY <1>1 DEF Lurks
<1> HIDE DEF A, B
<1>5. f \in Bijection(B, A)
  <2>1. f \in [B -> A]
    BY <1>3
  <2>2. \A i, j \in B : f[i] = f[j] => i = j
    BY <1>3
  <2>3. \A j \in A : \E i \in B : f[i] = j
    <3> TAKE j \in A
    <3>1. j - 1 \in B /\ f[j - 1] = j
      BY <1>4
    <3> QED BY <3>1
  <2> QED BY <2>1, <2>2, <2>3, Fun_IsBij
<1>6. Cardinality(B) = Cardinality(A)
  BY <1>2, <1>5, FS_Bijection DEF ExistsBijection
<1>7. 1 \in Lurks(c, s) <=> IsLurk(Head(s), c)
  BY <1>1 DEF Lurks, IsLurk
<1>8. Cardinality(A) = IF 1 \in Lurks(c, s) THEN Cardinality(Lurks(c, s)) - 1 ELSE Cardinality(Lurks(c, s))
  BY <1>2, FS_RemoveElement DEF A
<1> QED BY <1>2, <1>6, <1>7, <1>8

\* The flag to be is turned by what is put into the queue ...
LEMMA FlagToBeMore ==
  ASSUME lurk \in [Slots -> BOOLEAN], queue \in Seq(Messages), NEW m \in Messages, NEW c \in Slots,
         queue' = Append(queue, m), lurk' = lurk
  PROVE  FlagToBe(c)' <=> (IF IsLurk(m, c) THEN ~FlagToBe(c) ELSE FlagToBe(c))
<1> DEFINE n == LurksOf(c, queue)
           k == LurksOf(c, queue')
<1>1. n \in Nat /\ k = IF IsLurk(m, c) THEN n + 1 ELSE n
  BY LurksFinite, LurksOfMore
<1>2. lurk[c] \in BOOLEAN
  OBVIOUS
<1>3. (FlagToBe(c) <=> ~(lurk[c] <=> n % 2 = 1)) /\ (FlagToBe(c)' <=> ~(lurk[c] <=> k % 2 = 1))
  BY <1>2, Unlike DEF FlagToBe
<1> HIDE DEF n, k
<1>4. IsLurk(m, c) => (k % 2 = 1 <=> ~(n % 2 = 1))
  BY <1>1, NextOdd
<1>5. ~IsLurk(m, c) => k = n
  BY <1>1
<1> QED BY <1>3, <1>4, <1>5, Zenon

\* ... and is what it was when the first message has been handled.
LEMMA FlagToBeSame ==
  ASSUME lurk \in [Slots -> BOOLEAN], queue \in Seq(Messages), queue # <<>>, NEW c \in Slots,
         queue' = Tail(queue), lurk'[c] \in BOOLEAN,
         lurk'[c] <=> (IF IsLurk(Head(queue), c) THEN ~lurk[c] ELSE lurk[c])
  PROVE  FlagToBe(c)' <=> FlagToBe(c)
<1> DEFINE n == LurksOf(c, queue)
           k == LurksOf(c, queue')
           m == Head(queue)
<1>1. k \in Nat /\ n = IF IsLurk(m, c) THEN k + 1 ELSE k
  <2>1. Tail(queue) \in Seq(Messages)
    OBVIOUS
  <2> QED BY <2>1, LurksFinite, LurksOfLess
<1>2. lurk[c] \in BOOLEAN
  OBVIOUS
<1>3. (FlagToBe(c) <=> ~(lurk[c] <=> n % 2 = 1)) /\ (FlagToBe(c)' <=> ~(lurk'[c] <=> k % 2 = 1))
  BY <1>2, Unlike DEF FlagToBe
<1>4. lurk'[c] <=> (IF IsLurk(m, c) THEN ~lurk[c] ELSE lurk[c])
  OBVIOUS
<1> HIDE DEF n, k, m
<1>5. IsLurk(m, c) => (n % 2 = 1 <=> ~(k % 2 = 1))
  BY <1>1, NextOdd
<1>6. ~IsLurk(m, c) => k = n
  BY <1>1
<1> QED BY <1>3, <1>4, <1>5, <1>6, Zenon

\* What the flag is over a sequence, with its parts named.
Flags(f, s, c, K) ==
  /\ \A i \in 1..Len(s) : f[i] <=> (IF IsLurk(s[i], c) THEN ~f[i - 1] ELSE f[i - 1])
  /\ \A i \in 1..Len(s) : IsLurk(s[i], c) /\ s[i].by \in K => (s[i].to <=> f[i])

LEMMA TurnsMore ==
  ASSUME NEW S, NEW s \in Seq(S), NEW m \in S, NEW c, NEW K,
         NEW a \in BOOLEAN, NEW b \in BOOLEAN, NEW e \in BOOLEAN, Turns(s, c, a, b, K),
         e <=> (IF IsLurk(m, c) THEN ~b ELSE b),
         IsLurk(m, c) /\ m.by \in K => (m.to <=> e)
  PROVE  Turns(Append(s, m), c, a, e, K)
<1> DEFINE t == Append(s, m)
           n == Len(s)
<1>1. PICK f \in [0..n -> BOOLEAN] : (f[0] <=> a) /\ (f[n] <=> b) /\ Flags(f, s, c, K)
  BY Zenon DEF Turns, Flags
<1>2. n \in Nat /\ Len(t) = n + 1 /\ t[n + 1] = m /\ \A i \in 1..n : t[i] = s[i]
  OBVIOUS
<1> HIDE DEF t, n
<1> DEFINE g == [i \in 0..(n + 1) |-> IF i = n + 1 THEN e ELSE f[i]]
<1>3. g \in [0..Len(t) -> BOOLEAN]
  <2>1. \A i \in 0..(n + 1) : i # n + 1 => i \in 0..n
    BY <1>2
  <2>2. \A i \in 0..(n + 1) : (IF i = n + 1 THEN e ELSE f[i]) \in BOOLEAN
    BY <1>1, <2>1, Zenon
  <2> QED BY <1>2, <2>2, Zenon
<1>4. /\ \A i \in 0..n : i # n + 1 /\ i \in 0..(n + 1)
      /\ n + 1 \in 0..(n + 1) /\ 0 \in 0..n /\ n \in 0..n
      /\ \A i \in 1..n : i \in 0..n /\ i - 1 \in 0..n
      /\ \A i \in 1..(n + 1) : i = n + 1 \/ i \in 1..n
      /\ (n + 1) - 1 = n
  BY <1>2
<1>5. g[n + 1] = e /\ \A i \in 0..n : g[i] = f[i]
  BY <1>4, Zenon
<1> HIDE DEF g
<1>6. (g[0] <=> a) /\ (g[Len(t)] <=> e)
  BY <1>1, <1>2, <1>4, <1>5, Zenon
<1>7. ASSUME NEW i \in 1..Len(t)
      PROVE  /\ g[i] <=> (IF IsLurk(t[i], c) THEN ~g[i - 1] ELSE g[i - 1])
             /\ IsLurk(t[i], c) /\ t[i].by \in K => (t[i].to <=> g[i])
  <2>1. CASE i = n + 1
    <3>1. t[i] = m /\ g[i] = e /\ i - 1 = n
      BY <1>2, <1>4, <1>5, <2>1, Zenon
    <3>2. g[i - 1] <=> b
      BY <1>1, <1>4, <1>5, <3>1, Zenon
    <3> QED BY <3>1, <3>2, Zenon
  <2>2. CASE i \in 1..n
    <3>1. t[i] = s[i] /\ g[i] = f[i] /\ g[i - 1] = f[i - 1]
      BY <1>2, <1>4, <1>5, <2>2, Zenon
    <3>2. /\ f[i] <=> (IF IsLurk(s[i], c) THEN ~f[i - 1] ELSE f[i - 1])
          /\ IsLurk(s[i], c) /\ s[i].by \in K => (s[i].to <=> f[i])
      BY <1>1, <2>2, Zenon DEF Flags, n
    <3> QED BY <3>1, <3>2, Zenon
  <2> QED BY <1>2, <1>4, <1>7, <2>1, <2>2, Zenon
<1>8. Flags(g, t, c, K)
  BY <1>7, Zenon DEF Flags
<1>9. Turns(t, c, a, e, K)
  BY <1>3, <1>6, <1>8, Zenon DEF Turns, Flags
<1> QED BY <1>9 DEF t

\* The flag after the first k messages is where those that are left begin.
LEMMA TurnsFrom ==
  ASSUME NEW S, NEW s \in Seq(S), NEW k \in 0..Len(s), NEW c, NEW K, NEW b,
         NEW f \in [0..Len(s) -> BOOLEAN], f[Len(s)] <=> b, Flags(f, s, c, K)
  PROVE  Turns(SubSeq(s, k + 1, Len(s)), c, f[k], b, K)
<1> DEFINE t == SubSeq(s, k + 1, Len(s))
           n == Len(s)
<1>1. n \in Nat /\ Len(t) = n - k /\ \A i \in 1..(n - k) : t[i] = s[i + k]
  OBVIOUS
<1>2. k \in 0..n /\ f \in [0..n -> BOOLEAN] /\ (f[n] <=> b)
  OBVIOUS
<1>3. /\ \A i \in 1..n : f[i] <=> (IF IsLurk(s[i], c) THEN ~f[i - 1] ELSE f[i - 1])
      /\ \A i \in 1..n : IsLurk(s[i], c) /\ s[i].by \in K => (s[i].to <=> f[i])
  BY Zenon DEF Flags
<1> HIDE DEF t, n
<1> DEFINE g == [i \in 0..(n - k) |-> f[i + k]]
<1>4. /\ \A i \in 0..(n - k) : i + k \in 0..n
      /\ 0 \in 0..(n - k) /\ n - k \in 0..(n - k) /\ 0 + k = k /\ (n - k) + k = n
      /\ \A i \in 1..(n - k) : /\ i \in 0..(n - k) /\ i - 1 \in 0..(n - k)
                               /\ i + k \in 1..n /\ (i - 1) + k = (i + k) - 1
  BY <1>1, <1>2
<1>5. g \in [0..Len(t) -> BOOLEAN]
  BY <1>1, <1>2, <1>4, Zenon
<1>6. \A i \in 0..(n - k) : g[i] = f[i + k]
  BY Zenon
<1> HIDE DEF g
<1>7. (g[0] <=> f[k]) /\ (g[Len(t)] <=> b)
  BY <1>1, <1>2, <1>4, <1>6, Zenon
<1>8. ASSUME NEW i \in 1..Len(t)
      PROVE  /\ g[i] <=> (IF IsLurk(t[i], c) THEN ~g[i - 1] ELSE g[i - 1])
             /\ IsLurk(t[i], c) /\ t[i].by \in K => (t[i].to <=> g[i])
  <2>1. t[i] = s[i + k] /\ g[i] = f[i + k] /\ g[i - 1] = f[(i + k) - 1] /\ i + k \in 1..n
    BY <1>1, <1>4, <1>6, <1>8, Zenon
  <2> QED BY <1>3, <2>1, Zenon
<1>9. Turns(t, c, f[k], b, K)
  BY <1>5, <1>7, <1>8, Zenon DEF Turns
<1> QED BY <1>9 DEF t

LEMMA SameTruth ==
  ASSUME NEW a \in BOOLEAN, NEW b \in BOOLEAN, a <=> b
  PROVE  a = b
OBVIOUS

LEMMA TurnsLess ==
  ASSUME NEW S, NEW s \in Seq(S), s # <<>>, NEW c, NEW K,
         NEW a \in BOOLEAN, NEW b \in BOOLEAN, NEW e \in BOOLEAN, Turns(s, c, a, b, K),
         e <=> (IF IsLurk(Head(s), c) THEN ~a ELSE a)
  PROVE  /\ Turns(Tail(s), c, e, b, K)
         /\ IsLurk(Head(s), c) /\ Head(s).by \in K => (Head(s).to <=> e)
<1>1. PICK f \in [0..Len(s) -> BOOLEAN] : (f[0] <=> a) /\ (f[Len(s)] <=> b) /\ Flags(f, s, c, K)
  BY Zenon DEF Turns, Flags
<1>2. /\ 1 \in 1..Len(s) /\ 1 \in 0..Len(s) /\ 1 - 1 = 0 /\ Head(s) = s[1]
      /\ Tail(s) = SubSeq(s, 1 + 1, Len(s))
  OBVIOUS
<1>3. f[1] <=> e
  <2>1. f[1] <=> (IF IsLurk(s[1], c) THEN ~f[1 - 1] ELSE f[1 - 1])
    BY <1>1, <1>2, Zenon DEF Flags
  <2>2. e <=> (IF IsLurk(s[1], c) THEN ~a ELSE a)
    BY <1>2, Zenon
  <2>3. f[1 - 1] <=> a
    BY <1>1, <1>2, Zenon
  <2> QED BY <2>1, <2>2, <2>3, Zenon
<1>4. Turns(Tail(s), c, f[1], b, K)
  BY <1>1, <1>2, TurnsFrom
<1>5. f[1] = e
  <2>1. f[1] \in BOOLEAN
    BY <1>1, <1>2, Zenon
  <2> QED BY <1>3, <2>1, Zenon
<1>6. IsLurk(Head(s), c) /\ Head(s).by \in K => (Head(s).to <=> e)
  <2>1. IsLurk(s[1], c) /\ s[1].by \in K => (s[1].to <=> f[1])
    BY <1>1, <1>2, Zenon DEF Flags
  <2> QED BY <1>2, <1>3, <2>1, Zenon
<1> QED BY <1>4, <1>5, <1>6

\* The first message is taken, and those after it with no lurk message among
\* them are lost.
LEMMA TurnsRest ==
  ASSUME NEW S, NEW s \in Seq(S), NEW k \in 1..Len(s), NEW c, NEW K,
         NEW a \in BOOLEAN, NEW b \in BOOLEAN, NEW e \in BOOLEAN, Turns(s, c, a, b, K),
         e <=> (IF IsLurk(s[1], c) THEN ~a ELSE a),
         \A i \in 2..k : ~IsLurk(s[i], c)
  PROVE  /\ Turns(SubSeq(s, k + 1, Len(s)), c, e, b, K)
         /\ IsLurk(s[1], c) /\ s[1].by \in K => (s[1].to <=> e)
<1>1. PICK f \in [0..Len(s) -> BOOLEAN] : (f[0] <=> a) /\ (f[Len(s)] <=> b) /\ Flags(f, s, c, K)
  BY Zenon DEF Turns, Flags
<1>2. /\ Len(s) \in Nat /\ k \in Nat /\ 1 \in 1..Len(s) /\ 1 \in 0..Len(s) /\ k \in 0..Len(s) /\ 1 - 1 = 0
  OBVIOUS
<1>3. f[1] <=> e
  BY <1>1, <1>2, Zenon DEF Flags
<1>4. f[1] = e
  <2>1. f[1] \in BOOLEAN
    BY <1>1, <1>2, Zenon
  <2> QED BY <1>3, <2>1, Zenon
<1>5. \A i \in 2..k : f[i] = f[i - 1]
  <2> TAKE i \in 2..k
  <2>1. i \in 1..Len(s) /\ i \in 0..Len(s) /\ i - 1 \in 0..Len(s)
    BY <1>2
  <2>2. f[i] <=> f[i - 1]
    BY <1>1, <2>1, Zenon DEF Flags
  <2>3. f[i] \in BOOLEAN /\ f[i - 1] \in BOOLEAN
    BY <1>1, <2>1, Zenon
  <2> QED BY <2>2, <2>3, SameTruth
<1>6. f[k] = f[1]
  <2> DEFINE B == {i \in Nat : i \in 1..k /\ f[i] # f[1]}
  <2>1. SUFFICES ASSUME f[k] # f[1] PROVE FALSE
    OBVIOUS
  <2>2. k \in B
    BY <1>2, <2>1
  <2>3. PICK i \in B : \A j \in B : ~(j < i)
    <3>1. PICK i \in B : \A j \in B : ~(<<j, i>> \in OpToRel(<, Nat))
      BY <2>2, NatLessThanWellFounded, WFMin, Zenon
    <3>2. \A j \in B : j < i => <<j, i>> \in OpToRel(<, Nat)
      BY Zenon DEF OpToRel
    <3> QED BY <3>1, <3>2, Zenon
  <2>4. i # 1 /\ i \in 2..k /\ i - 1 \in 1..k /\ i - 1 \in Nat /\ i - 1 < i
    BY <1>2
  <2>5. f[i - 1] # f[1]
    BY <1>5, <2>3, <2>4, Zenon
  <2> QED BY <2>3, <2>4, <2>5
<1>7. Turns(SubSeq(s, k + 1, Len(s)), c, f[k], b, K)
  BY <1>1, <1>2, TurnsFrom
<1>8. IsLurk(s[1], c) /\ s[1].by \in K => (s[1].to <=> e)
  BY <1>1, <1>2, <1>3, Zenon DEF Flags
<1> QED BY <1>4, <1>6, <1>7, <1>8

\* Fewer users are promised it.
LEMMA TurnsFewer ==
  ASSUME NEW s, NEW c, NEW a, NEW b, NEW K, NEW L, L \subseteq K, Turns(s, c, a, b, K)
  PROVE  Turns(s, c, a, b, L)
BY Zenon DEF Turns

\* It is the values that count.
LEMMA TurnsSame ==
  ASSUME NEW s, NEW c, NEW a, NEW b, NEW d, NEW e, NEW K, a <=> d, b <=> e, Turns(s, c, a, b, K)
  PROVE  Turns(s, c, d, e, K)
BY Zenon DEF Turns

LEMMA TurnsNot == ASSUME NEW c, NEW a \in BOOLEAN, NEW K PROVE Turns(<<>>, c, a, a, K)
<1> DEFINE f == [i \in 0..0 |-> a]
<1>1. f \in [0..Len(<<>>) -> BOOLEAN] /\ f[0] = a /\ Len(<<>>) = 0 /\ 1..0 = {}
  OBVIOUS
<1> QED BY <1>1, Zenon DEF Turns

LEMMA FlagIsBoolean ==
  ASSUME IInv, NEW c \in Slots
  PROVE  FlagToBe(c) \in BOOLEAN /\ lurk[c] \in BOOLEAN
<1>1. lurk[c] \in BOOLEAN
  BY Zenon DEF IInv, TypeOK
<1> QED BY <1>1, Unlike DEF FlagToBe

LEMMA CleanIsClean ==
  ASSUME HistoryOK, NEW p \in People
  PROVE  p \notin Clean => dropped[p] > 0 \/ inherits[p]
BY DEF HistoryOK, Clean

LEMMA InitLurks == Init => LurkInv
<1> SUFFICES ASSUME Init PROVE LurkInv
  OBVIOUS
<1>1. HistoryOK /\ AwayInv /\ ByInv
  <2>1. inherits \in [People -> BOOLEAN] /\ \A p \in People : ~inherits[p] /\ ~lurking[p]
    BY Zenon DEF Init
  <2> QED BY <2>1 DEF Init, HistoryOK, AwayInv, ByInv
<1>2. QueueTurns
  <2> SUFFICES ASSUME NEW c \in Slots PROVE Turns(queue, c, lurk[c], FlagToBe(c), Clean)
    BY DEF QueueTurns
  <2>1. FlagToBe(c) \in BOOLEAN /\ lurk[c] \in BOOLEAN
    BY InitInv, FlagIsBoolean
  <2>2. LurksOf(c, queue) = 0
    <3>1. Lurks(c, queue) = {}
      BY DEF Init, Lurks
    <3> QED BY <3>1, FS_EmptySet DEF LurksOf, Lurks
  <2>3. FlagToBe(c) <=> lurk[c]
    <3>1. ~(LurksOf(c, queue) % 2 = 1)
      BY <2>2
    <3> QED BY <2>1, <3>1, Unlike, Zenon DEF FlagToBe
  <2>4. Turns(queue, c, lurk[c], lurk[c], Clean)
    BY <2>1, TurnsNot DEF Init
  <2>5. FlagToBe(c) = lurk[c]
    BY <2>1, <2>3, SameTruth
  <2> QED BY <2>4, <2>5
<1>3. PipeTurns
  BY DEF Init, PipeTurns, Here
<1>4. said = {}
  BY DEF Init
<1> QED BY <1>1, <1>2, <1>3, <1>4 DEF LurkInv, LurkIsTold

\* The steps that send, take and handle no message and let nobody in.
LEMMA LurkKept ==
  ASSUME IInv, LurkInv, UNCHANGED <<queue, lurk, pipe, lurking, slot, said, inherits, dropped>>,
         \A p \in People : at'[p] \in Here => at[p] \in Here,
         \A p \in People : at'[p] = "away" => at[p] = "away"
  PROVE  LurkInv'
<1>1. Clean' = Clean /\ \A c : FlagToBe(c)' = FlagToBe(c)
  BY DEF Clean, FlagToBe
<1>2. HistoryOK' /\ ByInv' /\ LurkIsTold' /\ \A s \in said' : s.by \in People
  BY Zenon DEF LurkInv, HistoryOK, ByInv, LurkIsTold
<1>3. AwayInv'
  BY Zenon DEF LurkInv, AwayInv
<1>4. QueueTurns' /\ PipeTurns'
  BY <1>1 DEF LurkInv, QueueTurns, PipeTurns
<1> QED BY <1>2, <1>3, <1>4 DEF LurkInv

LEMMA AcceptLurks == ASSUME IInv, LurkInv, NEW p \in People, Accept(p) PROVE LurkInv'
<1>1. PICK c \in Slots :
        /\ slot' = [slot EXCEPT ![p] = c]
        /\ inherits' = [inherits EXCEPT ![p] = FlagToBe(c)]
  BY DEF Accept
<1>2. at[p] = "away" /\ at' = [at EXCEPT ![p] = "slot"]
  BY DEF Accept
<1>3. UNCHANGED <<lurk, said, lurking, pipe, queue, dropped>>
  BY DEF Accept, mainVars
<1>4. FlagToBe(c) \in BOOLEAN
  BY FlagIsBoolean
<1>5. /\ slot \in [People -> Slots] /\ inherits \in [People -> BOOLEAN] /\ dropped \in [People -> Nat]
      /\ at \in [People -> {"away", "slot", "cleared", "on", "closed", "gone"}]
      /\ lurking \in [People -> BOOLEAN]
  BY Zenon DEF IInv, TypeOK, LurkInv, HistoryOK
<1>6. pipe[p] = <<>> /\ ~lurking[p] /\ ~inherits[p] /\ dropped[p] = 0
  BY <1>2 DEF LurkInv, AwayInv
<1>7. /\ inherits' \in [People -> BOOLEAN] /\ (inherits'[p] <=> FlagToBe(c))
      /\ \A q \in People : q # p => inherits'[q] = inherits[q]
  BY <1>1, <1>4, <1>5, Zenon
<1>8. Clean' \subseteq Clean
  <2> SUFFICES ASSUME NEW q \in Clean' PROVE q \in Clean
    OBVIOUS
  <2>1. q \in People /\ dropped[q] = 0 /\ ~inherits'[q]
    BY <1>3, Zenon DEF Clean
  <2> QED BY <1>6, <1>7, <2>1, Zenon DEF Clean
<1>9. \A d : FlagToBe(d)' = FlagToBe(d)
  BY <1>3 DEF FlagToBe
<1>10. HistoryOK' /\ ByInv' /\ \A s \in said' : s.by \in People
  BY <1>3, <1>5, <1>7, Zenon DEF LurkInv, HistoryOK, ByInv
<1>11. AwayInv'
  <2> SUFFICES ASSUME NEW q \in People, at'[q] = "away"
               PROVE  pipe'[q] = <<>> /\ ~lurking'[q] /\ ~inherits'[q] /\ dropped'[q] = 0
    BY DEF AwayInv
  <2>1. q # p /\ at[q] = "away"
    BY <1>2, <1>5
  <2> QED BY <1>3, <1>7, <2>1, Zenon DEF LurkInv, AwayInv
<1>12. QueueTurns'
  <2> SUFFICES ASSUME NEW d \in Slots PROVE Turns(queue, d, lurk[d], FlagToBe(d), Clean)'
    BY DEF QueueTurns
  <2>1. Turns(queue, d, lurk[d], FlagToBe(d), Clean)
    BY DEF LurkInv, QueueTurns
  <2> QED BY <1>3, <1>8, <1>9, <2>1, TurnsFewer
<1>13. PipeTurns'
  <2> SUFFICES ASSUME NEW q \in People, at'[q] \in Here, q \in Clean'
               PROVE  Turns(pipe[q], slot[q], FlagToBe(slot[q]), lurking[q], Clean)'
    BY DEF PipeTurns
  <2>1. CASE q = p
    <3>1. slot'[p] = c /\ ~inherits'[p]
      BY <1>1, <1>5, <2>1 DEF Clean
    <3>2. ~FlagToBe(c)
      BY <1>7, <3>1, Zenon
    <3>3. Turns(<<>>, c, FALSE, FALSE, Clean')
      BY TurnsNot
    <3>4. FlagToBe(c) = FALSE /\ lurking[p] = FALSE
      BY <1>4, <1>5, <1>6, <3>2, Zenon
    <3>5. pipe'[q] = <<>> /\ slot'[q] = c /\ lurking'[q] = lurking[p]
      BY <1>3, <1>6, <2>1, <3>1
    <3>6. FlagToBe(slot[q])' = FlagToBe(c)
      BY <1>3, <3>5 DEF FlagToBe
    <3> QED BY <3>3, <3>4, <3>5, <3>6
  <2>2. CASE q # p
    <3>1. slot'[q] = slot[q] /\ at'[q] = at[q] /\ q \in Clean
      BY <1>1, <1>2, <1>5, <1>8, <2>2
    <3>2. Turns(pipe[q], slot[q], FlagToBe(slot[q]), lurking[q], Clean)
      BY <3>1 DEF LurkInv, PipeTurns
    <3>3. Turns(pipe[q], slot[q], FlagToBe(slot[q]), lurking[q], Clean')
      BY <1>8, <3>2, TurnsFewer
    <3>4. FlagToBe(slot[q])' = FlagToBe(slot[q])
      BY <1>3, <3>1 DEF FlagToBe
    <3> QED BY <1>3, <3>1, <3>3, <3>4
  <2> QED BY <2>1, <2>2
<1>14. LurkIsTold'
  <2> SUFFICES ASSUME NEW s \in said', s.text = "wrong" PROVE dropped'[s.by] > 0 \/ inherits'[s.by]
    BY DEF LurkIsTold
  <2>1. s.by \in People /\ (dropped[s.by] > 0 \/ inherits[s.by])
    BY <1>3 DEF LurkInv, LurkIsTold
  <2>2. dropped[s.by] > 0 \/ s.by # p
    BY <1>6, <2>1, Zenon
  <2> QED BY <1>3, <1>7, <2>1, <2>2, Zenon
<1> QED BY <1>10, <1>11, <1>12, <1>13, <1>14 DEF LurkInv

LEMMA PutLurks ==
  ASSUME IInv, LurkInv, NEW p \in People, NEW m \in Messages, Put(p, m), m.by = p,
         lurking' \in [People -> BOOLEAN],
         \A q \in People : q # p => (lurking'[q] <=> lurking[q]),
         lurking'[p] <=> (IF m.kind = "lurk" THEN ~lurking[p] ELSE lurking[p]),
         m.kind = "lurk" => m.user = slot[p] /\ (m.to <=> lurking'[p])
  PROVE  LurkInv'
<1>1. at[p] = "on" /\ pipe' = [pipe EXCEPT ![p] = Append(@, m)]
  BY DEF Put
<1>2. UNCHANGED <<at, slot, lurk, said, queue, inherits, dropped>>
  BY DEF Put, mainVars, userVars
<1>3. /\ pipe \in [People -> Seq(Messages)] /\ pipe[p] \in Seq(Messages)
      /\ lurking \in [People -> BOOLEAN] /\ slot \in [People -> Slots]
  BY Zenon DEF IInv, TypeOK
<1>4. Clean' = Clean /\ \A c : FlagToBe(c)' = FlagToBe(c)
  BY <1>2 DEF Clean, FlagToBe
<1>5. \A q \in People : pipe'[q] = IF q = p THEN Append(pipe[p], m) ELSE pipe[q]
  BY <1>1, <1>3
<1>6. HistoryOK' /\ LurkIsTold' /\ \A s \in said' : s.by \in People
  BY <1>2, Zenon DEF LurkInv, HistoryOK, LurkIsTold
<1>7. AwayInv'
  <2> SUFFICES ASSUME NEW q \in People, at'[q] = "away"
               PROVE  pipe'[q] = <<>> /\ ~lurking'[q] /\ ~inherits'[q] /\ dropped'[q] = 0
    BY DEF AwayInv
  <2>1. q # p /\ at[q] = "away"
    BY <1>1, <1>2
  <2>2. pipe[q] = <<>> /\ ~lurking[q] /\ ~inherits[q] /\ dropped[q] = 0
    BY <2>1 DEF LurkInv, AwayInv
  <2>3. pipe'[q] = pipe[q] /\ (lurking'[q] <=> lurking[q])
    BY <1>5, <2>1, Zenon
  <2> QED BY <1>2, <2>2, <2>3, Zenon
<1>8. ByInv'
  <2>1. ASSUME NEW q \in People, NEW i \in DOMAIN pipe'[q] PROVE pipe'[q][i].by = q
    <3>1. CASE q = p
      <4> DEFINE t == Append(pipe[p], m)
      <4>1. \A j \in DOMAIN t : t[j] = m \/ (j \in DOMAIN pipe[p] /\ t[j] = pipe[p][j])
        BY <1>3, AppendType
      <4>2. \A j \in DOMAIN pipe[p] : pipe[p][j].by = p
        BY DEF LurkInv, ByInv
      <4>3. pipe'[q] = t
        BY <1>5, <3>1
      <4> HIDE DEF t
      <4> QED BY <2>1, <3>1, <4>1, <4>2, <4>3
    <3>2. CASE q # p
      BY <1>5, <2>1, <3>2 DEF LurkInv, ByInv
    <3> QED BY <3>1, <3>2
  <2> QED BY <2>1 DEF ByInv
<1>9. QueueTurns'
  BY <1>2, <1>4 DEF LurkInv, QueueTurns
<1>10. PipeTurns'
  <2> SUFFICES ASSUME NEW q \in People, at'[q] \in Here, q \in Clean'
               PROVE  Turns(pipe[q], slot[q], FlagToBe(slot[q]), lurking[q], Clean)'
    BY DEF PipeTurns
  <2>1. at[q] \in Here /\ q \in Clean /\ slot'[q] = slot[q] /\ FlagToBe(slot[q])' = FlagToBe(slot[q])
    BY <1>2, <1>4 DEF FlagToBe
  <2>2. Turns(pipe[q], slot[q], FlagToBe(slot[q]), lurking[q], Clean)
    BY <2>1 DEF LurkInv, PipeTurns
  <2>3. CASE q = p
    <3>1. FlagToBe(slot[p]) \in BOOLEAN /\ lurking[p] \in BOOLEAN /\ lurking'[p] \in BOOLEAN
      BY <1>3, FlagIsBoolean, Zenon
    <3>2. IsLurk(m, slot[p]) <=> m.kind = "lurk"
      BY DEF IsLurk
    <3> DEFINE a == FlagToBe(slot[p])
               b == lurking[p]
               e == lurking'[p]
               s == pipe[p]
    <3>3. /\ a \in BOOLEAN /\ b \in BOOLEAN /\ e \in BOOLEAN /\ s \in Seq(Messages)
          /\ Turns(s, slot[p], a, b, Clean)
      BY <1>3, <2>2, <2>3, <3>1
    <3>4. /\ e <=> (IF IsLurk(m, slot[p]) THEN ~b ELSE b)
          /\ IsLurk(m, slot[p]) /\ m.by \in Clean => (m.to <=> e)
      BY <3>2, Zenon
    <3> HIDE DEF a, b, e, s
    <3>5. Turns(Append(s, m), slot[p], a, e, Clean)
      BY <3>3, <3>4, TurnsMore
    <3>6. Turns(Append(pipe[p], m), slot[p], FlagToBe(slot[p]), lurking'[p], Clean)
      BY <3>5 DEF a, e, s
    <3> QED BY <1>4, <1>5, <2>1, <2>3, <3>6
  <2>4. CASE q # p
    <3>1. pipe'[q] = pipe[q] /\ lurking'[q] = lurking[q]
      <4>1. lurking[q] \in BOOLEAN /\ lurking'[q] \in BOOLEAN /\ (lurking'[q] <=> lurking[q])
        BY <1>3, <2>4, Zenon
      <4> QED BY <1>5, <2>4, <4>1, SameTruth
    <3> QED BY <1>4, <2>1, <2>2, <3>1
  <2> QED BY <2>3, <2>4
<1> QED BY <1>6, <1>7, <1>8, <1>9, <1>10 DEF LurkInv

LEMMA UserLurks == ASSUME IInv, LurkInv, NEW p \in People, UserStep(p) PROVE LurkInv'
<1>0. lurking \in [People -> BOOLEAN] /\ slot[p] \in Slots
  BY Zenon DEF IInv, TypeOK
<1>1. CASE Say(p)
  <2>1. PICK k \in {"chat", "list"} : Put(p, [kind |-> k, user |-> slot[p], by |-> p])
    BY <1>1 DEF Say
  <2> DEFINE m == [kind |-> k, user |-> slot[p], by |-> p]
  <2>2. m \in Messages /\ m.by = p /\ m.kind # "lurk"
    BY <1>0 DEF Messages
  <2>3. lurking' = lurking
    BY <1>1 DEF Say
  <2> HIDE DEF m
  <2>4. Put(p, m)
    BY <2>1 DEF m
  <2>5. /\ lurking' \in [People -> BOOLEAN] /\ \A q \in People : lurking'[q] <=> lurking[q]
        /\ lurking'[p] <=> (IF m.kind = "lurk" THEN ~lurking[p] ELSE lurking[p])
    BY <1>0, <2>2, <2>3, Zenon
  <2> QED BY <2>2, <2>4, <2>5, PutLurks
<1>2. CASE Lurk(p)
  <2> DEFINE m == [kind |-> "lurk", user |-> slot[p], by |-> p, to |-> ~lurking[p]]
  <2>1. (~lurking[p]) \in BOOLEAN
    BY <1>0, NotIsBoolean
  <2>2. m \in Messages /\ m.by = p /\ m.kind = "lurk" /\ m.user = slot[p]
    BY <1>0, <2>1 DEF Messages
  <2>3. m.to = ~lurking[p]
    BY Zenon
  <2>4. lurking' = [lurking EXCEPT ![p] = ~@] /\ Put(p, m)
    BY <1>2 DEF Lurk
  <2> HIDE DEF m
  <2>5. /\ lurking' \in [People -> BOOLEAN] /\ (lurking'[p] <=> ~lurking[p])
        /\ \A q \in People : q # p => (lurking'[q] <=> lurking[q])
    BY <1>0, <2>4, Zenon
  <2>6. lurking'[p] <=> (IF m.kind = "lurk" THEN ~lurking[p] ELSE lurking[p])
    BY <2>2, <2>5, Zenon
  <2>7. m.to <=> lurking'[p]
    BY <2>3, <2>5, Zenon
  <2> QED BY <2>2, <2>4, <2>5, <2>6, <2>7, PutLurks
<1>3. CASE SendWindow(p)
  <2>1. PICK w \in Wids : Put(p, [kind |-> "window", user |-> w, wid |-> w, by |-> p])
    BY <1>3 DEF SendWindow
  <2> DEFINE m == [kind |-> "window", user |-> w, wid |-> w, by |-> p]
  <2>2. m \in Messages /\ m.by = p /\ m.kind # "lurk"
    BY DEF Messages
  <2>3. lurking' = lurking
    BY <1>3 DEF SendWindow
  <2> HIDE DEF m
  <2>4. Put(p, m)
    BY <2>1 DEF m
  <2>5. /\ lurking' \in [People -> BOOLEAN] /\ \A q \in People : lurking'[q] <=> lurking[q]
        /\ lurking'[p] <=> (IF m.kind = "lurk" THEN ~lurking[p] ELSE lurking[p])
    BY <1>0, <2>2, <2>3, Zenon
  <2> QED BY <2>2, <2>4, <2>5, PutLurks
<1>4. CASE Quit(p)
  <2>1. at[p] = "on" /\ at' = [at EXCEPT ![p] = "closed"]
        /\ UNCHANGED <<queue, lurk, pipe, lurking, slot, said, inherits, dropped>>
    BY <1>4 DEF Quit, mainVars
  <2>2. \A q \in People : at'[q] \in Here => at[q] \in Here
    BY <2>1 DEF IInv, TypeOK, Here
  <2>3. \A q \in People : at'[q] = "away" => at[q] = "away"
    BY <2>1 DEF IInv, TypeOK
  <2> QED BY <2>1, <2>2, <2>3, LurkKept
<1> QED BY <1>1, <1>2, <1>3, <1>4 DEF UserStep

\* The message received is of the occupant of the slot.
LEMMA ReceiveLurks == ASSUME IInv, LurkInv, NEW p \in People, Receive(p) PROVE LurkInv'
<1>1. PICK k \in 1..Len(pipe[p]) :
        /\ queue' = Append(queue, pipe[p][1])
        /\ pipe' = [pipe EXCEPT ![p] = SubSeq(@, k + 1, Len(@))]
        /\ dropped' = [dropped EXCEPT ![p] = @ + Cardinality({i \in 2..k : pipe[p][i].kind = "lurk"})]
  BY DEF Receive
<1>2. at[p] \in {"on", "closed"} /\ UNCHANGED <<at, slot, lurk, said, lurking, inherits>>
  BY DEF Receive, mainVars, userVars
<1>3. /\ pipe \in [People -> Seq(Messages)] /\ pipe[p] \in Seq(Messages) /\ queue \in Seq(Messages)
      /\ lurking \in [People -> BOOLEAN] /\ slot \in [People -> Slots] /\ lurk \in [Slots -> BOOLEAN]
      /\ dropped \in [People -> Nat] /\ inherits \in [People -> BOOLEAN]
  BY Zenon DEF IInv, TypeOK, LurkInv, HistoryOK
<1> DEFINE m == pipe[p][1]
           rest == SubSeq(pipe[p], k + 1, Len(pipe[p]))
           lost == {i \in 2..k : pipe[p][i].kind = "lurk"}
<1>4. /\ 1 \in DOMAIN pipe[p] /\ m \in Messages /\ m.by = p /\ Good(m)
  <2>1. 1 \in DOMAIN pipe[p]
    BY <1>3
  <2> QED BY <1>3, <2>1 DEF LurkInv, ByInv, IInv, MessageInv
<1>5. m.kind = "lurk" => m.user = slot[p]
  BY <1>4 DEF Good
<1>6. IsFiniteSet(lost) /\ Cardinality(lost) \in Nat
  <2>1. IsFiniteSet(2..k)
    BY <1>1, FS_Interval
  <2> QED BY <2>1, FS_Subset, FS_CardinalityType
<1>7. /\ dropped' \in [People -> Nat] /\ dropped'[p] = dropped[p] + Cardinality(lost)
      /\ \A q \in People : q # p => dropped'[q] = dropped[q]
  BY <1>1, <1>3, <1>6
<1>8. Clean' \subseteq Clean /\ \A q \in People : dropped[q] > 0 => dropped'[q] > 0
  <2> DEFINE n == Cardinality(lost)
  <2>0. n \in Nat /\ dropped'[p] = dropped[p] + n
    BY <1>6, <1>7
  <2> HIDE DEF n
  <2>1. ASSUME NEW q \in People
        PROVE  dropped[q] \in Nat /\ dropped'[q] \in Nat /\ dropped'[q] >= dropped[q]
    <3>1. dropped[q] \in Nat /\ dropped'[q] \in Nat
      BY <1>3, <1>7
    <3>2. dropped'[q] = dropped[q] \/ dropped'[q] = dropped[q] + n
      BY <1>7, <2>0
    <3> QED BY <2>0, <3>1, <3>2
  <2>2. \A q \in People : (dropped[q] > 0 => dropped'[q] > 0) /\ (dropped'[q] = 0 => dropped[q] = 0)
    BY <2>1
  <2> QED BY <1>2, <2>2, Zenon DEF Clean
<1>9. p \in Clean' => \A i \in 2..k : pipe[p][i].kind # "lurk"
  <2> HAVE p \in Clean'
  <2>1. dropped'[p] = 0
    BY Zenon DEF Clean
  <2>2. Cardinality(lost) = 0
    BY <1>3, <1>6, <1>7, <2>1
  <2>3. lost = {}
    BY <1>6, <2>2, FS_EmptySet
  <2> QED BY <2>3
<1>10. \A q \in People : pipe'[q] = IF q = p THEN rest ELSE pipe[q]
  BY <1>1, <1>3
<1> HIDE DEF m, rest, lost
<1>11. \A c \in Slots : FlagToBe(c)' <=> (IF IsLurk(m, c) THEN ~FlagToBe(c) ELSE FlagToBe(c))
  BY <1>1, <1>2, <1>3, <1>4, FlagToBeMore DEF m
<1>12. \A c \in Slots : FlagToBe(c) \in BOOLEAN /\ lurk[c] \in BOOLEAN /\ FlagToBe(c)' \in BOOLEAN
  <2>1. \A c \in Slots : lurk'[c] \in BOOLEAN
    BY <1>2, <1>3, Zenon
  <2>2. \A c \in Slots : FlagToBe(c)' \in BOOLEAN
    BY <2>1, Unlike DEF FlagToBe
  <2> QED BY <2>2, FlagIsBoolean
<1>13. p \in Clean' =>
         /\ Turns(rest, slot[p], FlagToBe(slot[p])', lurking[p], Clean)
         /\ m.kind = "lurk" => (m.to <=> FlagToBe(slot[p])')
  <2> HAVE p \in Clean'
  <2>1. Turns(pipe[p], slot[p], FlagToBe(slot[p]), lurking[p], Clean) /\ p \in Clean
    BY <1>2, <1>8 DEF LurkInv, PipeTurns, Here
  <2>2. \A i \in 2..k : ~IsLurk(pipe[p][i], slot[p])
    BY <1>9 DEF IsLurk
  <2>3. FlagToBe(slot[p]) \in BOOLEAN /\ FlagToBe(slot[p])' \in BOOLEAN /\ lurking[p] \in BOOLEAN
    <3>1. slot[p] \in Slots /\ lurking[p] \in BOOLEAN /\ slot'[p] = slot[p]
      BY <1>2, <1>3, Zenon
    <3>2. FlagToBe(slot[p])' \in BOOLEAN
      <4>1. lurk'[slot'[p]] \in BOOLEAN
        BY <1>2, <1>3, <3>1, Zenon
      <4> QED BY <4>1, Unlike DEF FlagToBe
    <3> QED BY <1>12, <3>1, <3>2
  <2>4. FlagToBe(slot[p])' <=> (IF IsLurk(pipe[p][1], slot[p]) THEN ~FlagToBe(slot[p]) ELSE FlagToBe(slot[p]))
    <3> DEFINE c == slot[p]
    <3>1. c \in Slots /\ slot'[p] = c
      BY <1>2, <1>3
    <3>2. FlagToBe(slot[p])' <=> (lurk'[c] # (LurksOf(c, queue') % 2 = 1))
      BY <3>1 DEF FlagToBe
    <3> HIDE DEF c
    <3>3. (lurk'[c] # (LurksOf(c, queue') % 2 = 1)) <=> (IF IsLurk(m, c) THEN ~FlagToBe(c) ELSE FlagToBe(c))
      BY <1>11, <3>1 DEF FlagToBe
    <3> QED BY <3>2, <3>3 DEF c, m
  <2>5. /\ Turns(rest, slot[p], FlagToBe(slot[p])', lurking[p], Clean)
        /\ IsLurk(m, slot[p]) /\ m.by \in Clean => (m.to <=> FlagToBe(slot[p])')
    BY <1>3, <2>1, <2>2, <2>3, <2>4, TurnsRest DEF m, rest
  <2> QED BY <1>4, <1>5, <2>1, <2>5 DEF IsLurk
<1>14. HistoryOK' /\ LurkIsTold' /\ \A s \in said' : s.by \in People
  BY <1>2, <1>7, <1>8, Zenon DEF LurkInv, HistoryOK, LurkIsTold
<1>15. AwayInv'
  <2> SUFFICES ASSUME NEW q \in People, at'[q] = "away"
               PROVE  pipe'[q] = <<>> /\ ~lurking'[q] /\ ~inherits'[q] /\ dropped'[q] = 0
    BY DEF AwayInv
  <2>1. q # p /\ at[q] = "away"
    BY <1>2
  <2> QED BY <1>2, <1>7, <1>10, <2>1, Zenon DEF LurkInv, AwayInv
<1>16. ByInv'
  <2>1. ASSUME NEW q \in People, NEW i \in DOMAIN pipe'[q] PROVE pipe'[q][i].by = q
    <3>1. CASE q = p
      <4>1. \A j \in DOMAIN rest : j + k \in DOMAIN pipe[p] /\ rest[j] = pipe[p][j + k]
        BY <1>1, <1>3, RestType DEF rest
      <4> QED BY <1>10, <2>1, <3>1, <4>1 DEF LurkInv, ByInv
    <3>2. CASE q # p
      BY <1>10, <2>1, <3>2 DEF LurkInv, ByInv
    <3> QED BY <3>1, <3>2
  <2> QED BY <2>1 DEF ByInv
<1>17. QueueTurns'
  <2> SUFFICES ASSUME NEW c \in Slots PROVE Turns(queue, c, lurk[c], FlagToBe(c), Clean)'
    BY DEF QueueTurns
  <2>1. Turns(queue, c, lurk[c], FlagToBe(c), Clean)
    BY DEF LurkInv, QueueTurns
  <2>2. Turns(queue, c, lurk[c], FlagToBe(c), Clean')
    BY <1>8, <2>1, TurnsFewer
  <2>3. IsLurk(m, c) /\ m.by \in Clean' => (m.to <=> FlagToBe(c)')
    <3>1. SUFFICES ASSUME IsLurk(m, c), m.by \in Clean' PROVE m.to <=> FlagToBe(c)'
      OBVIOUS
    <3>2. c = slot[p] /\ p \in Clean' /\ m.kind = "lurk"
      BY <1>4, <1>5, <3>1 DEF IsLurk
    <3>3. FlagToBe(slot[p])' = FlagToBe(c)'
      BY <1>2, <3>2 DEF FlagToBe
    <3> QED BY <1>13, <3>2, <3>3
  <2> DEFINE a == lurk[c]
             b == FlagToBe(c)
             e == FlagToBe(c)'
             K == Clean'
  <2>4. /\ a \in BOOLEAN /\ b \in BOOLEAN /\ e \in BOOLEAN /\ Turns(queue, c, a, b, K)
        /\ e <=> (IF IsLurk(m, c) THEN ~b ELSE b)
        /\ IsLurk(m, c) /\ m.by \in K => (m.to <=> e)
    BY <1>11, <1>12, <2>2, <2>3, Zenon
  <2> HIDE DEF a, b, e, K
  <2>5. Turns(Append(queue, m), c, a, e, K)
    <3>1. queue \in Seq(Messages) /\ m \in Messages
      BY <1>3, <1>4
    <3> QED BY <2>4, <3>1, TurnsMore
  <2>6. Turns(Append(queue, m), c, lurk[c], FlagToBe(c)', Clean')
    BY <2>5 DEF a, e, K
  <2> QED BY <1>1, <1>2, <2>6 DEF m
<1>18. PipeTurns'
  <2> SUFFICES ASSUME NEW q \in People, at'[q] \in Here, q \in Clean'
               PROVE  Turns(pipe[q], slot[q], FlagToBe(slot[q]), lurking[q], Clean)'
    BY DEF PipeTurns
  <2>1. CASE q = p
    <3>1. Turns(rest, slot[p], FlagToBe(slot[p])', lurking[p], Clean')
      BY <1>8, <1>13, <2>1, TurnsFewer
    <3> QED BY <1>2, <1>10, <2>1, <3>1
  <2>2. CASE q # p
    <3>1. at[q] \in Here /\ q \in Clean /\ at[p] \in Here /\ slot[q] # slot[p] /\ slot[q] \in Slots
      BY <1>2, <1>3, <1>8, <2>2 DEF IInv, SlotInv, Here
    <3>2. ~IsLurk(m, slot[q])
      BY <1>5, <3>1 DEF IsLurk
    <3> DEFINE c == slot[q]
    <3>3. FlagToBe(slot[q])' = FlagToBe(c)'
      BY <1>2 DEF FlagToBe
    <3>4. FlagToBe(c)' = FlagToBe(c)
      <4>1. c \in Slots /\ ~IsLurk(m, c) /\ lurk'[c] = lurk[c]
        BY <1>2, <3>1, <3>2
      <4> HIDE DEF c
      <4>2. /\ (lurk'[c] # (LurksOf(c, queue') % 2 = 1)) <=> FlagToBe(c)
            /\ (lurk'[c] # (LurksOf(c, queue') % 2 = 1)) \in BOOLEAN /\ FlagToBe(c) \in BOOLEAN
        BY <1>11, <1>12, <4>1 DEF FlagToBe
      <4> QED BY <1>2, <4>2, SameTruth DEF FlagToBe, c
    <3>5. Turns(pipe[q], slot[q], FlagToBe(slot[q]), lurking[q], Clean)
      BY <3>1 DEF LurkInv, PipeTurns
    <3>6. Turns(pipe[q], slot[q], FlagToBe(slot[q]), lurking[q], Clean')
      BY <1>8, <3>5, TurnsFewer
    <3> QED BY <1>2, <1>10, <2>2, <3>3, <3>4, <3>6
  <2> QED BY <2>1, <2>2
<1> QED BY <1>14, <1>15, <1>16, <1>17, <1>18 DEF LurkInv

LEMMA ThreadLurks ==
  ASSUME IInv, LurkInv, NEW p \in People, ThreadStep(p)
  PROVE  LurkInv'
<1>1. CASE Receive(p)
  BY <1>1, ReceiveLurks
<1>2. CASE ClearName(p) \/ SetName(p) \/ LogOff(p)
  <2>1. /\ at[p] \in {"slot", "cleared", "closed"}
        /\ \E v \in {"cleared", "on", "gone"} :
             (v = "gone" => at[p] = "closed") /\ at' = [at EXCEPT ![p] = v]
        /\ UNCHANGED <<queue, lurk, pipe, lurking, slot, said, inherits, dropped>>
    BY <1>2 DEF ClearName, SetName, LogOff, mainVars
  <2>2. \A q \in People : at'[q] \in Here => at[q] \in Here
    BY <2>1 DEF IInv, TypeOK, Here
  <2>3. \A q \in People : at'[q] = "away" => at[q] = "away"
    BY <2>1 DEF IInv, TypeOK
  <2> QED BY <2>1, <2>2, <2>3, LurkKept
<1> QED BY <1>1, <1>2 DEF ThreadStep

\* The flag is turned to what the user wanted when he sent the message.
LEMMA HandleLurks == ASSUME IInv, LurkInv, Handle PROVE LurkInv'
<1> DEFINE m == Head(queue)
<1>1. /\ queue # <<>> /\ queue' = Tail(queue) /\ queue \in Seq(Messages)
      /\ m \in Messages /\ 1 \in DOMAIN queue /\ m = queue[1]
  <2>1. queue # <<>> /\ queue' = Tail(queue) /\ queue \in Seq(Messages)
    BY DEF Handle, IInv, TypeOK
  <2> QED BY <2>1, TailType
<1>2. UNCHANGED <<at, slot, pipe, lurking, inherits, dropped>>
  BY DEF Handle, userVars
<1>3. \/ m.kind = "chat" /\ HandleChat(m)
      \/ m.kind = "lurk" /\ HandleLurk(m)
      \/ m.kind = "list" /\ HandleList(m)
      \/ m.kind = "window" /\ HandleWindow(m)
  BY DEF Handle
<1>4. lurk \in [Slots -> BOOLEAN] /\ lurk' \in [Slots -> BOOLEAN]
  BY HandleKeeps, Zenon DEF IInv, TypeOK
<1>5. m.by \in People /\ (m.kind = "lurk" => m.user \in Slots /\ m.to \in BOOLEAN)
  BY <1>1 DEF Messages
<1> HIDE DEF m
<1>6. \A c \in Slots : lurk'[c] <=> (IF IsLurk(m, c) THEN ~lurk[c] ELSE lurk[c])
  <2> SUFFICES ASSUME NEW c \in Slots
               PROVE  lurk'[c] <=> (IF IsLurk(m, c) THEN ~lurk[c] ELSE lurk[c])
    OBVIOUS
  <2>1. CASE m.kind = "lurk" /\ HandleLurk(m)
    <3>1. lurk' = [lurk EXCEPT ![m.user] = ~@]
      BY <2>1 DEF HandleLurk
    <3>2. IsLurk(m, c) <=> m.user = c
      BY <2>1 DEF IsLurk
    <3> QED BY <1>4, <3>1, <3>2, Zenon
  <2>2. CASE m.kind # "lurk"
    <3>1. lurk' = lurk
      BY <1>3, <2>2 DEF HandleChat, HandleList, HandleWindow
    <3>2. ~IsLurk(m, c)
      BY <2>2 DEF IsLurk
    <3> QED BY <3>1, <3>2, Zenon
  <2> QED BY <1>3, <2>1, <2>2
<1>7. Clean' = Clean
  BY <1>2 DEF Clean
<1>8. \A c \in Slots : FlagToBe(c)' = FlagToBe(c)
  <2> SUFFICES ASSUME NEW c \in Slots PROVE FlagToBe(c)' = FlagToBe(c)
    OBVIOUS
  <2>1. FlagToBe(c)' <=> FlagToBe(c)
    <3>1. lurk'[c] \in BOOLEAN
      BY <1>4, Zenon
    <3> QED BY <1>1, <1>4, <1>6, <3>1, FlagToBeSame DEF m
  <2>2. FlagToBe(c) \in BOOLEAN /\ FlagToBe(c)' \in BOOLEAN
    <3>1. lurk'[c] \in BOOLEAN
      BY <1>4, Zenon
    <3>2. FlagToBe(c)' \in BOOLEAN
      BY <3>1, Unlike DEF FlagToBe
    <3> QED BY <3>2, FlagIsBoolean
  <2> QED BY <2>1, <2>2, SameTruth
<1>9. ASSUME NEW c \in Slots
      PROVE  /\ Turns(queue', c, lurk'[c], FlagToBe(c), Clean)
             /\ IsLurk(m, c) /\ m.by \in Clean => (m.to <=> lurk'[c])
  <2> DEFINE a == lurk[c]
             e == lurk'[c]
             b == FlagToBe(c)
             q == queue
  <2>1. /\ a \in BOOLEAN /\ b \in BOOLEAN /\ e \in BOOLEAN
        /\ e <=> (IF IsLurk(m, c) THEN ~a ELSE a)
    BY <1>4, <1>6, FlagIsBoolean, Zenon
  <2>2. Turns(q, c, a, b, Clean)
    BY DEF LurkInv, QueueTurns
  <2>3. q \in Seq(Messages) /\ q # <<>> /\ queue' = Tail(q) /\ m = Head(q)
    BY <1>1 DEF m
  <2> HIDE DEF a, b, e, q
  <2>4. Turns(Tail(q), c, e, b, Clean) /\ (IsLurk(m, c) /\ m.by \in Clean => (m.to <=> e))
    BY <2>1, <2>2, <2>3, TurnsLess
  <2> QED BY <2>3, <2>4 DEF e, b
<1>10. HistoryOK' /\ AwayInv' /\ ByInv'
  BY <1>2, Zenon DEF LurkInv, HistoryOK, AwayInv, ByInv
<1>11. QueueTurns'
  BY <1>7, <1>8, <1>9 DEF QueueTurns
<1>12. PipeTurns'
  <2> SUFFICES ASSUME NEW q \in People, at'[q] \in Here, q \in Clean'
               PROVE  Turns(pipe[q], slot[q], FlagToBe(slot[q]), lurking[q], Clean)'
    BY DEF PipeTurns
  <2>1. at[q] \in Here /\ q \in Clean /\ slot[q] \in Slots /\ slot'[q] = slot[q]
    BY <1>2, <1>7 DEF IInv, TypeOK
  <2>2. Turns(pipe[q], slot[q], FlagToBe(slot[q]), lurking[q], Clean)
    BY <2>1 DEF LurkInv, PipeTurns
  <2>3. FlagToBe(slot[q])' = FlagToBe(slot[q])
    <3> DEFINE c == slot[q]
    <3>1. FlagToBe(slot[q])' = (lurk'[c] # (LurksOf(c, queue') % 2 = 1))
      BY <2>1 DEF FlagToBe
    <3>2. c \in Slots
      BY <2>1
    <3> HIDE DEF c
    <3>3. (lurk'[c] # (LurksOf(c, queue') % 2 = 1)) = FlagToBe(c)
      BY <1>8, <3>2 DEF FlagToBe
    <3> QED BY <3>1, <3>3 DEF c
  <2> QED BY <1>2, <1>7, <2>1, <2>2, <2>3
<1>13. \A s \in said' : s.by \in People /\ (s.text = "wrong" => dropped[s.by] > 0 \/ inherits[s.by])
  <2>1. CASE m.kind = "chat" /\ HandleChat(m)
    BY <1>5, <2>1 DEF HandleChat, Announce
  <2>2. CASE m.kind = "lurk" /\ HandleLurk(m)
    <3> SUFFICES ASSUME NEW s \in said'
                 PROVE  s.by \in People /\ (s.text = "wrong" => dropped[s.by] > 0 \/ inherits[s.by])
      OBVIOUS
    <3>1. s.by = m.by /\ s.text = (IF lurk'[m.user] = m.to THEN "right" ELSE "wrong")
      BY <2>2 DEF HandleLurk, Announce
    <3>2. CASE m.by \in Clean
      <4>1. m.to <=> lurk'[m.user]
        BY <1>5, <1>9, <2>2, <3>2 DEF IsLurk
      <4>2. lurk'[m.user] \in BOOLEAN
        BY <1>4, <1>5, <2>2, Zenon
      <4>3. lurk'[m.user] = m.to
        BY <1>5, <2>2, <4>1, <4>2, SameTruth
      <4> QED BY <1>5, <3>1, <4>3
    <3>3. CASE m.by \notin Clean
      BY <1>5, <3>1, <3>3, CleanIsClean DEF LurkInv
    <3> QED BY <3>2, <3>3
  <2>3. CASE m.kind \in {"list", "window"}
    <3>1. said' = said
      BY <1>3, <2>3 DEF HandleList, HandleWindow
    <3> QED BY <3>1 DEF LurkInv, LurkIsTold
  <2> QED BY <1>3, <2>1, <2>2, <2>3
<1>14. LurkIsTold' /\ \A s \in said' : s.by \in People
  BY <1>2, <1>13 DEF LurkIsTold
<1> QED BY <1>10, <1>11, <1>12, <1>14 DEF LurkInv

LEMMA StepLurks == IInv /\ LurkInv /\ [Next]_vars => LurkInv'
<1> SUFFICES ASSUME IInv, LurkInv, [Next]_vars PROVE LurkInv'
  OBVIOUS
<1>1. CASE \E p \in People : UserStep(p) \/ ThreadStep(p) \/ Accept(p)
  BY <1>1, UserLurks, ThreadLurks, AcceptLurks
<1>2. CASE Handle
  BY <1>2, HandleLurks
<1>3. CASE WriteEntry \/ ListNext \/ ListDone \/ UNCHANGED vars
  <2>1. UNCHANGED <<at, queue, lurk, pipe, lurking, slot, said, inherits, dropped>>
    BY <1>3 DEF WriteEntry, ListNext, ListDone, vars, userVars, mainVars
  <2> QED BY <2>1, LurkKept
<1> QED BY <1>1, <1>2, <1>3 DEF Next

\* A lurk message says that the flag changed, not to what, and the flag is the
\* slot's: all are told rightly of whoever came with the flag off and was
\* understood each time, however many used the slot before him and were not
\* (main.c:412-432).
THEOREM LurkersAreTold == Spec => []LurkIsTold
<1>1. LurkInv => LurkIsTold
  BY DEF LurkInv
<1> QED BY InitInv, StepInv, InitLurks, StepLurks, <1>1, PTL DEF Spec
=============================================================================
