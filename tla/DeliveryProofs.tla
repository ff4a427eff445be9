--------------------------- MODULE DeliveryProofs ---------------------------
(***************************************************************************)
(* For any number of users, lines and requests, and however reads cut and  *)
(* join the streams: lines keep their order on the way to the server and   *)
(* on the way back, and the two together implement the chat room.          *)
(***************************************************************************)
EXTENDS Delivery, SequenceTheorems, WellFoundedInduction, TLAPS

\* What may come in front of what, towards the server and from it.
UpBefore ==
  {p \in UpCells \X UpCells :
    IsChat(p[1]) /\ IsChat(p[2]) /\ p[1].by = p[2].by => p[1].num < p[2].num}

DownBefore ==
  {p \in DownCells \X DownCells : IsChat(p[1]) /\ IsChat(p[2]) => p[1].hi < p[2].lo}

Chain(R, s) == \A i, j \in DOMAIN s : i < j => <<s[i], s[j]>> \in R
Cross(R, s, t) == \A i \in DOMAIN s, j \in DOMAIN t : <<s[i], t[j]>> \in R

-----------------------------------------------------------------------------
(* Sequences *)

LEMMA ConcatFacts ==
  ASSUME NEW T, NEW s \in Seq(T), NEW t \in Seq(T)
  PROVE  /\ s \o t \in Seq(T)
         /\ Len(s \o t) = Len(s) + Len(t)
         /\ \A i \in DOMAIN (s \o t) :
              \/ i \in DOMAIN s /\ (s \o t)[i] = s[i]
              \/ i - Len(s) \in DOMAIN t /\ i > Len(s) /\ (s \o t)[i] = t[i - Len(s)]
  OBVIOUS

LEMMA PartFacts ==
  ASSUME NEW T, NEW s \in Seq(T), NEW k \in 0..Len(s), NEW l \in 0..Len(s), k <= l
  PROVE  /\ SubSeq(s, k + 1, l) \in Seq(T)
         /\ Len(SubSeq(s, k + 1, l)) = l - k
         /\ \A i \in DOMAIN SubSeq(s, k + 1, l) :
              i + k \in DOMAIN s /\ i + k > k /\ i + k <= l /\ SubSeq(s, k + 1, l)[i] = s[i + k]
  OBVIOUS

LEMMA ChainConcat ==
  ASSUME NEW T, NEW R, NEW s \in Seq(T), NEW t \in Seq(T),
         Chain(R, s), Chain(R, t), Cross(R, s, t)
  PROVE  Chain(R, s \o t)
<1>1. SUFFICES ASSUME NEW i \in DOMAIN (s \o t), NEW j \in DOMAIN (s \o t), i < j
               PROVE  <<(s \o t)[i], (s \o t)[j]>> \in R
  BY DEF Chain
<1>2. \/ i \in DOMAIN s /\ (s \o t)[i] = s[i]
      \/ i - Len(s) \in DOMAIN t /\ i > Len(s) /\ (s \o t)[i] = t[i - Len(s)]
  BY ConcatFacts
<1>3. \/ j \in DOMAIN s /\ (s \o t)[j] = s[j]
      \/ j - Len(s) \in DOMAIN t /\ j > Len(s) /\ (s \o t)[j] = t[j - Len(s)]
  BY ConcatFacts
<1>4. i \in Int /\ j \in Int /\ Len(s) \in Nat /\ DOMAIN s = 1..Len(s)
  OBVIOUS
<1> HIDE DEF Chain, Cross
<1>5. CASE i \in DOMAIN s /\ (s \o t)[i] = s[i]
  BY <1>1, <1>3, <1>4, <1>5 DEF Chain, Cross
<1>6. CASE i - Len(s) \in DOMAIN t /\ i > Len(s) /\ (s \o t)[i] = t[i - Len(s)]
  <2>1. j - Len(s) \in DOMAIN t /\ (s \o t)[j] = t[j - Len(s)] /\ i - Len(s) < j - Len(s)
    BY <1>1, <1>3, <1>4, <1>6
  <2> QED
    BY <2>1, <1>6 DEF Chain
<1> QED
  BY <1>2, <1>5, <1>6

LEMMA CrossConcat ==
  ASSUME NEW T, NEW R, NEW s \in Seq(T), NEW t \in Seq(T), NEW u \in Seq(T)
  PROVE  /\ Cross(R, s, u) /\ Cross(R, t, u) => Cross(R, s \o t, u)
         /\ Cross(R, u, s) /\ Cross(R, u, t) => Cross(R, u, s \o t)
  BY ConcatFacts DEF Cross

LEMMA ChainPart ==
  ASSUME NEW T, NEW R, NEW s \in Seq(T), NEW k \in 0..Len(s), NEW l \in 0..Len(s), k <= l,
         Chain(R, s)
  PROVE  Chain(R, SubSeq(s, k + 1, l))
  BY PartFacts DEF Chain

LEMMA CrossPart ==
  ASSUME NEW T, NEW R, NEW s \in Seq(T), NEW k \in 0..Len(s), NEW l \in 0..Len(s), k <= l,
         NEW t \in Seq(T)
  PROVE  /\ Cross(R, s, t) => Cross(R, SubSeq(s, k + 1, l), t)
         /\ Cross(R, t, s) => Cross(R, t, SubSeq(s, k + 1, l))
<1>1. \A i \in DOMAIN SubSeq(s, k + 1, l) : i + k \in DOMAIN s /\ SubSeq(s, k + 1, l)[i] = s[i + k]
  BY PartFacts
<1> QED
  BY <1>1 DEF Cross

LEMMA CrossSplit ==
  ASSUME NEW T, NEW R, NEW s \in Seq(T), NEW k \in 0..Len(s), NEW l \in 0..Len(s), k <= l,
         Chain(R, s)
  PROVE  Cross(R, SubSeq(s, 1, k), SubSeq(s, l + 1, Len(s)))
<1>1. \A i \in DOMAIN SubSeq(s, 1, k) : i \in DOMAIN s /\ i <= k /\ SubSeq(s, 1, k)[i] = s[i]
  OBVIOUS
<1>2. \A i \in DOMAIN SubSeq(s, l + 1, Len(s)) :
        i + l \in DOMAIN s /\ i + l > l /\ SubSeq(s, l + 1, Len(s))[i] = s[i + l]
  BY PartFacts
<1> QED
  BY <1>1, <1>2 DEF Chain, Cross

LEMMA EmptyChain ==
  ASSUME NEW R
  PROVE  Chain(R, <<>>) /\ \A s : Cross(R, s, <<>>) /\ Cross(R, <<>>, s)
  BY DEF Chain, Cross

LEMMA PartOfPart ==
  ASSUME NEW T, NEW s \in Seq(T), NEW k \in 0..Len(s), NEW l \in 0..k
  PROVE  SubSeq(SubSeq(s, 1, k), 1, l) = SubSeq(s, 1, l)
  OBVIOUS

\* There is a first zero, or none.
LEMMA TextLengthFacts ==
  ASSUME NEW T, NEW s \in Seq(T)
  PROVE  /\ TextLength(s) \in 0..Len(s)
         /\ TextLength(s) < Len(s) => s[TextLength(s) + 1].kind = "zero"
<1> DEFINE Ends == {k \in Nat : k = Len(s) \/ (k < Len(s) /\ s[k + 1].kind = "zero")}
<1>1. Len(s) \in Ends
  OBVIOUS
<1>2. PICK k \in Ends : \A l \in Ends : <<l, k>> \notin OpToRel(<, Nat)
  BY <1>1, NatLessThanWellFounded, WFMin
<1>3. \A l \in Ends : ~(l < k)
  BY <1>2 DEF OpToRel
<1>4. k \in 0..Len(s) /\ (k < Len(s) => s[k + 1].kind = "zero")
  BY DEF Ends
<1>5. \A i \in 1..k : s[i].kind # "zero"
  <2>1. SUFFICES ASSUME NEW i \in 1..k, s[i].kind = "zero" PROVE FALSE
    OBVIOUS
  <2>2. i - 1 \in Ends /\ i - 1 < k
    BY <2>1, <1>4
  <2> QED
    BY <2>2, <1>3
<1> QED
  BY <1>4, <1>5 DEF TextLength

-----------------------------------------------------------------------------
(* Types *)

LEMMA ReadFacts ==
  ASSUME NEW T, NEW s \in Seq(T), NEW n, NEW k \in ReadSizes(s, n)
  PROVE  /\ k \in 1..Len(s) /\ k \in 0..Len(s) /\ 0 \in 0..Len(s) /\ Len(s) \in 0..Len(s)
         /\ SubSeq(s, 1, k) \in Seq(T) /\ Len(SubSeq(s, 1, k)) = k
         /\ s[1] \in T /\ SubSeq(s, 1, k)[1] = s[1]
         /\ Rest(s, k) \in Seq(T)
  BY DEF ReadSizes, Rest

LEMMA TextFacts ==
  ASSUME NEW T, NEW s \in Seq(T), NEW k \in 1..Len(s)
  PROVE  /\ TextLength(SubSeq(s, 1, k)) \in 0..k
         /\ TextLength(SubSeq(s, 1, k)) \in 0..Len(s)
         /\ SubSeq(SubSeq(s, 1, k), 1, TextLength(SubSeq(s, 1, k)))
              = SubSeq(s, 1, TextLength(SubSeq(s, 1, k)))
<1> DEFINE l == TextLength(SubSeq(s, 1, k))
<1>1. k \in 0..Len(s) /\ SubSeq(s, 1, k) \in Seq(T) /\ Len(SubSeq(s, 1, k)) = k
  OBVIOUS
<1>2. l \in 0..k
  BY <1>1, TextLengthFacts
<1>3. SubSeq(SubSeq(s, 1, k), 1, l) = SubSeq(s, 1, l)
  BY <1>1, <1>2, PartOfPart
<1> QED
  BY <1>1, <1>2, <1>3

LEMMA FilledFacts ==
  ASSUME NEW T, NEW m \in T, Zero \in T, NEW n \in Nat \ {0}
  PROVE  /\ Filled(m, n) \in Seq(T)
         /\ \A i \in DOMAIN Filled(m, n) : Filled(m, n)[i] \in {m, Zero}
<1>1. [i \in 1..n - 1 |-> Zero] \in Seq(T) /\ <<m>> \in Seq(T)
  OBVIOUS
<1>2. \A i \in DOMAIN [i \in 1..n - 1 |-> Zero] : [j \in 1..n - 1 |-> Zero][i] = Zero
  OBVIOUS
<1>3. <<m>> \o [i \in 1..n - 1 |-> Zero] \in Seq(T)
  BY <1>1, ConcatFacts
<1>4. \A i \in DOMAIN (<<m>> \o [j \in 1..n - 1 |-> Zero]) :
        (<<m>> \o [j \in 1..n - 1 |-> Zero])[i] \in {m, Zero}
  BY <1>1
<1> QED
  BY <1>3, <1>4 DEF Filled

LEMMA UpCellFacts ==
  ASSUME NEW m \in UpCells
  PROVE  /\ m.kind = "chat" => m.by \in Clients /\ m.known \in BOOLEAN /\ m.num \in 1..MaxSaid
         /\ m.kind = "ask" => m.by \in Clients /\ m.known \in BOOLEAN
         /\ m.kind = "status" => m.by \in Clients /\ m \in OutCells
  BY DEF UpCells, OutCells, Zero, Name

LEMMA DownCellFacts ==
  ASSUME NEW m \in DownCells
  PROVE  /\ m.kind = "chat" => m.lo \in Nat /\ m.hi \in Nat
         /\ m.kind = "status" => m.by \in Clients /\ m.num \in 1..MaxTyped
  BY DEF DownCells, OutCells, Zero, Uid, Notice, Answer

LEMMA InitType == Init => TypeOK
<1> SUFFICES ASSUME Init PROVE TypeOK
  OBVIOUS
<1>1. {open, uid, asked} \subseteq [Clients -> BOOLEAN]
  BY DEF Init
<1>2. crashed \in BOOLEAN
  BY DEF Init
<1>3. /\ up \in [Clients -> Seq(UpCells)] /\ down \in [Clients -> Seq(DownCells)]
      /\ shown \in [Clients -> Seq(DownCells)] /\ queue \in Seq([head : UpCells, text : Seq(UpCells)])
      /\ conversation \in Seq(UpCells) /\ due \in [Clients -> Seq(SUBSET Clients)]
  <2>1. Name \in UpCells
    BY DEF UpCells
  <2>2. <<Name>> \in Seq(UpCells)
    BY <2>1
  <2> QED
    BY <2>2 DEF Init
<1> QED
  BY <1>1, <1>2, <1>3, SizeAssumption, BoundAssumption DEF Init, TypeOK

\* TypeOK in three parts, of which most steps leave two alone.
Flags ==
  /\ stage \in [Clients -> {"none", "slot", "on", "out"}]
  /\ {open, uid, asked} \subseteq [Clients -> BOOLEAN]
  /\ crashed \in BOOLEAN

Streams ==
  /\ up \in [Clients -> Seq(UpCells)]
  /\ down \in [Clients -> Seq(DownCells)]
  /\ queue \in Seq([head : UpCells, text : Seq(UpCells)])
  /\ out \in OutCells \cup {Zero} /\ next \in 1..N + 1 /\ (out = Zero => next = N + 1)

Records ==
  /\ window \in [Clients -> [Clients -> 0..MaxTyped]]
  /\ shown \in [Clients -> Seq(DownCells)]
  /\ conversation \in Seq(UpCells)
  /\ due \in [Clients -> Seq(SUBSET Clients)] /\ typed \in [Clients -> 0..MaxTyped]

LEMMA Parts == TypeOK <=> Flags /\ Streams /\ Records
  BY Zenon DEF TypeOK, Flags, Streams, Records

LEMMA SendType ==
  ASSUME TypeOK, NEW c \in Clients, NEW s \in Seq(UpCells), Send(c, s)
  PROVE  up' \in [Clients -> Seq(UpCells)]
<1>1. up[c] \o s \in Seq(UpCells)
  BY ConcatFacts DEF TypeOK
<1> QED
  BY <1>1 DEF TypeOK, Send

LEMMA WriteType ==
  ASSUME TypeOK, NEW c \in Clients, NEW s \in Seq(DownCells), WriteTo(c, s)
  PROVE  down' \in [Clients -> Seq(DownCells)]
<1>1. down[c] \o s \in Seq(DownCells)
  BY ConcatFacts DEF TypeOK
<1> QED
  BY <1>1 DEF TypeOK, WriteTo

LEMMA SayType == ASSUME TypeOK, NEW c \in Clients, Say(c) PROVE TypeOK'
<1> DEFINE m == [kind |-> "chat", by |-> c, known |-> uid[c], num |-> Len(due'[c])]
<1>1. Len(due'[c]) = Len(due[c]) + 1 /\ due' \in [Clients -> Seq(SUBSET Clients)]
  BY DEF Say, TypeOK
<1>2. uid[c] \in BOOLEAN
  BY Zenon DEF TypeOK
<1>3. Len(due'[c]) \in 1..MaxSaid
  BY <1>1, BoundAssumption DEF Say, TypeOK
<1>4. m \in [kind : {"chat"}, by : Clients, known : BOOLEAN, num : 1..MaxSaid]
  BY <1>2, <1>3, Zenon
<1>5. <<m>> \in Seq(UpCells)
  BY <1>4 DEF UpCells
<1>6. up' \in [Clients -> Seq(UpCells)]
  BY <1>5, SendType, Zenon DEF Say
<1>7. Flags' /\ Streams' /\ Records'
  BY <1>1, <1>6, Parts DEF Say, Flags, Streams, Records, serverVars, clientVars
<1> QED
  BY <1>7, Parts, PTL

LEMMA TypeType == ASSUME TypeOK, NEW c \in Clients, Type(c) PROVE TypeOK'
<1> DEFINE m == [kind |-> "status", by |-> c, num |-> typed'[c]]
<1>1. typed' \in [Clients -> 0..MaxTyped] /\ typed'[c] \in 1..MaxTyped
  BY BoundAssumption DEF Type, TypeOK
<1>2. m \in UpCells /\ Zero \in UpCells
  BY <1>1 DEF UpCells
<1>3. Filled(m, Half) \in Seq(UpCells)
  BY <1>2, FilledFacts, SizeAssumption
<1>4. up' \in [Clients -> Seq(UpCells)]
  BY <1>3, SendType, Zenon DEF Type
<1>5. Flags' /\ Streams' /\ Records'
  BY <1>1, <1>4, Parts DEF Type, Flags, Streams, Records, serverVars, clientVars
<1> QED
  BY <1>5, Parts, PTL

LEMMA AskType == ASSUME TypeOK, NEW c \in Clients, Ask(c) PROVE TypeOK'
<1> DEFINE m == [kind |-> "ask", by |-> c, known |-> uid[c]]
<1>1. uid[c] \in BOOLEAN
  BY Zenon DEF TypeOK
<1>2. m \in [kind : {"ask"}, by : Clients, known : BOOLEAN]
  BY <1>1, Zenon
<1>3. <<m>> \in Seq(UpCells)
  BY <1>2 DEF UpCells
<1>4. up' \in [Clients -> Seq(UpCells)]
  BY <1>3, SendType, Zenon DEF Ask
<1>5. asked' \in [Clients -> BOOLEAN]
  BY Zenon DEF Ask, TypeOK
<1>6. Flags'
  BY <1>5, Parts, Zenon DEF Ask, Flags, serverVars, clientVars
<1>7. Streams' /\ Records'
  BY <1>4, Parts DEF Ask, Streams, Records, serverVars, clientVars
<1> QED
  BY <1>6, <1>7, Parts, PTL

\* What one read does, in terms of the whole stream.
LEMMA ReadFromServerFacts ==
  ASSUME TypeOK, NEW c \in Clients, ReadFromServer(c)
  PROVE  \E k \in 1..Len(down[c]), l \in 0..Len(down[c]) :
           /\ l <= k
           /\ down' = [down EXCEPT ![c] = SubSeq(@, k + 1, Len(@))]
           /\ \/ shown' = [shown EXCEPT ![c] = @ \o SubSeq(down[c], 1, l)]
              \/ shown' = shown
           /\ uid' = [uid EXCEPT ![c] = @ \/ down[c][1].kind = "uid"]
           /\ \/ window' = window
              \/ /\ down[c][1].kind = "status"
                 /\ window' = [window EXCEPT ![c][down[c][1].by] = down[c][1].num]
<1>1. PICK k \in ReadSizes(down[c], Half) : ReadFromServer(c)!2!(k)
  BY DEF ReadFromServer
<1> DEFINE l == TextLength(SubSeq(down[c], 1, k))
<1>2. down[c] \in Seq(DownCells)
  BY DEF TypeOK
<1>3. /\ k \in 1..Len(down[c]) /\ SubSeq(down[c], 1, k)[1] = down[c][1]
  BY <1>2, ReadFacts
<1>4. l \in 0..k /\ l \in 0..Len(down[c]) /\ SubSeq(SubSeq(down[c], 1, k), 1, l) = SubSeq(down[c], 1, l)
  BY <1>2, <1>3, TextFacts
<1>5. l <= k
  BY <1>3, <1>4
<1> HIDE DEF l
<1>6. down' = [down EXCEPT ![c] = SubSeq(@, k + 1, Len(@))]
  BY <1>1 DEF Rest
<1>7. \/ shown' = [shown EXCEPT ![c] = @ \o SubSeq(down[c], 1, l)]
      \/ shown' = shown
  BY <1>1, <1>4 DEF l
<1>8. uid' = [uid EXCEPT ![c] = @ \/ down[c][1].kind = "uid"]
  BY <1>1, <1>3, Zenon
<1>9. \/ window' = window
      \/ /\ down[c][1].kind = "status"
         /\ window' = [window EXCEPT ![c][down[c][1].by] = down[c][1].num]
  BY <1>1, <1>3
<1> QED
  BY <1>3, <1>4, <1>5, <1>6, <1>7, <1>8, <1>9, Zenon

LEMMA ReadFromServerType ==
  ASSUME TypeOK, NEW c \in Clients, ReadFromServer(c) PROVE TypeOK'
<1>1. PICK k \in 1..Len(down[c]), l \in 0..Len(down[c]) :
           /\ l <= k
           /\ down' = [down EXCEPT ![c] = SubSeq(@, k + 1, Len(@))]
           /\ \/ shown' = [shown EXCEPT ![c] = @ \o SubSeq(down[c], 1, l)]
              \/ shown' = shown
           /\ uid' = [uid EXCEPT ![c] = @ \/ down[c][1].kind = "uid"]
           /\ \/ window' = window
              \/ /\ down[c][1].kind = "status"
                 /\ window' = [window EXCEPT ![c][down[c][1].by] = down[c][1].num]
  BY ReadFromServerFacts, Zenon
<1>2. down[c] \in Seq(DownCells) /\ shown[c] \in Seq(DownCells)
  BY DEF TypeOK
<1>3. SubSeq(down[c], k + 1, Len(down[c])) \in Seq(DownCells) /\ down[c][1] \in DownCells
      /\ SubSeq(down[c], 1, l) \in Seq(DownCells)
  BY <1>2
<1>4. down' \in [Clients -> Seq(DownCells)]
  BY <1>1, <1>3 DEF TypeOK
<1>5. shown[c] \o SubSeq(down[c], 1, l) \in Seq(DownCells)
  BY <1>2, <1>3, ConcatFacts
<1>6. shown' \in [Clients -> Seq(DownCells)]
  BY <1>1, <1>5 DEF TypeOK
<1>7. uid' \in [Clients -> BOOLEAN]
  BY <1>1, Zenon DEF TypeOK
<1>8. window' \in [Clients -> [Clients -> 0..MaxTyped]]
  <2>1. CASE window' = window
    BY <2>1 DEF TypeOK
  <2>2. CASE /\ down[c][1].kind = "status"
             /\ window' = [window EXCEPT ![c][down[c][1].by] = down[c][1].num]
    <3>1. down[c][1].by \in Clients /\ down[c][1].num \in 0..MaxTyped
      BY <1>3, <2>2, DownCellFacts, BoundAssumption
    <3> QED
      BY <2>2, <3>1 DEF TypeOK
  <2> QED
    BY <1>1, <2>1, <2>2
<1>9. UNCHANGED <<serverVars, userVars, open, up>>
  BY DEF ReadFromServer
<1>10. Flags'
  BY <1>7, <1>9, Parts, Zenon DEF Flags, serverVars, userVars
<1>11. Streams' /\ Records'
  BY <1>4, <1>6, <1>8, <1>9, Parts DEF Streams, Records, serverVars, userVars
<1> QED
  BY <1>10, <1>11, Parts, PTL

LEMMA LeaveType == ASSUME TypeOK, NEW c \in Clients, Leave(c) PROVE TypeOK'
<1>1. open' \in [Clients -> BOOLEAN]
  BY Zenon DEF Leave, TypeOK
<1>2. Flags'
  BY <1>1, Parts, Zenon DEF Leave, Flags, serverVars, userVars
<1>3. Streams' /\ Records'
  <2>1. <<>> \in Seq(DownCells)
    OBVIOUS
  <2>2. down' \in [Clients -> Seq(DownCells)]
    BY <2>1 DEF Leave, TypeOK
  <2> QED
    BY <2>2, Parts DEF Leave, Streams, Records, serverVars, userVars
<1> QED
  BY <1>2, <1>3, Parts, PTL

LEMMA AcceptType == ASSUME TypeOK, NEW c \in Clients, Accept(c) PROVE TypeOK'
<1>1. Flags' /\ Streams' /\ Records'
  BY Parts DEF Accept, Flags, Streams, Records, clientVars, userVars
<1> QED
  BY <1>1, Parts, PTL

LEMMA SignOnType == ASSUME TypeOK, NEW c \in Clients, SignOn(c) PROVE TypeOK'
<1>1. PICK k \in DOMAIN up[c], cut \in BOOLEAN :
        up' = [up EXCEPT ![c] = (IF cut THEN <<Zero>> ELSE <<>>) \o Rest(@, k)]
  BY DEF SignOn
<1>2. up[c] \in Seq(UpCells) /\ Rest(up[c], k) \in Seq(UpCells)
  BY DEF TypeOK, Rest
<1>3. (IF cut THEN <<Zero>> ELSE <<>>) \in Seq(UpCells)
  <2>1. Zero \in UpCells
    BY DEF UpCells
  <2> QED
    BY <2>1
<1>4. up' \in [Clients -> Seq(UpCells)]
  <2>1. (IF cut THEN <<Zero>> ELSE <<>>) \o Rest(up[c], k) \in Seq(UpCells)
    BY <1>2, <1>3, ConcatFacts
  <2> QED
    BY <1>1, <2>1 DEF TypeOK
<1>5. <<Uid>> \in Seq(DownCells)
  BY DEF DownCells
<1>6. down' \in [Clients -> Seq(DownCells)]
  BY <1>5, WriteType, Zenon DEF SignOn
<1>7. Flags' /\ Streams' /\ Records'
  BY <1>4, <1>6, Parts DEF SignOn, Flags, Streams, Records, clientVars, userVars
<1> QED
  BY <1>7, Parts, PTL

LEMMA ReceiveFacts ==
  ASSUME TypeOK, NEW c \in Clients, Receive(c)
  PROVE  \E k \in 1..Len(up[c]), l \in 0..Len(up[c]) :
           /\ l <= k
           /\ up' = [up EXCEPT ![c] = SubSeq(@, k + 1, Len(@))]
           /\ queue' = Append(queue, [head |-> up[c][1], text |-> SubSeq(up[c], 1, l)])
<1>1. PICK k \in ReadSizes(up[c], 2 * Half) : Receive(c)!2!(k)
  BY DEF Receive
<1>2. up[c] \in Seq(UpCells)
  BY DEF TypeOK
<1>3. k \in 1..Len(up[c]) /\ SubSeq(up[c], 1, k)[1] = up[c][1]
  BY <1>2, ReadFacts
<1> DEFINE l == IF IsChat(up[c][1]) THEN TextLength(SubSeq(up[c], 1, k)) ELSE 0
<1>4. l \in 0..k /\ l \in 0..Len(up[c])
  BY <1>2, <1>3, TextFacts
<1>5. (IF IsChat(up[c][1]) THEN SubSeq(SubSeq(up[c], 1, k), 1, TextLength(SubSeq(up[c], 1, k)))
                           ELSE <<>>) = SubSeq(up[c], 1, l)
  <2>1. CASE IsChat(up[c][1])
    BY <1>2, <1>3, <2>1, TextFacts
  <2>2. CASE ~IsChat(up[c][1])
    BY <1>2, <2>2
  <2> QED
    BY <2>1, <2>2
<1>6. queue' = Append(queue, [head |-> up[c][1], text |-> SubSeq(up[c], 1, l)])
  BY <1>1, <1>3, <1>5
<1>7. up' = [up EXCEPT ![c] = SubSeq(@, k + 1, Len(@))]
  BY <1>1 DEF Rest
<1>8. l <= k
  BY <1>3, <1>4
<1> HIDE DEF l
<1> QED
  BY <1>3, <1>4, <1>6, <1>7, <1>8

LEMMA ReceiveType == ASSUME TypeOK, NEW c \in Clients, Receive(c) PROVE TypeOK'
<1>1. PICK k \in 1..Len(up[c]), l \in 0..Len(up[c]) :
           /\ l <= k
           /\ up' = [up EXCEPT ![c] = SubSeq(@, k + 1, Len(@))]
           /\ queue' = Append(queue, [head |-> up[c][1], text |-> SubSeq(up[c], 1, l)])
  BY ReceiveFacts, Zenon
<1>2. up[c] \in Seq(UpCells)
  BY DEF TypeOK
<1>3. /\ SubSeq(up[c], k + 1, Len(up[c])) \in Seq(UpCells)
      /\ SubSeq(up[c], 1, l) \in Seq(UpCells) /\ up[c][1] \in UpCells
  BY <1>2
<1>4. up' \in [Clients -> Seq(UpCells)]
  BY <1>1, <1>3 DEF TypeOK
<1>5. queue' \in Seq([head : UpCells, text : Seq(UpCells)])
  BY <1>1, <1>3 DEF TypeOK
<1>6. Flags' /\ Streams' /\ Records'
  BY <1>4, <1>5, Parts DEF Receive, Flags, Streams, Records, clientVars, userVars
<1> QED
  BY <1>6, Parts, PTL

LEMMA LogOffType == ASSUME TypeOK, NEW c \in Clients, LogOff(c) PROVE TypeOK'
<1>1. Filled(Notice, 2 * Half) \in Seq(DownCells)
  <2>1. Notice \in DownCells /\ Zero \in DownCells /\ 2 * Half \in Nat \ {0}
    BY SizeAssumption DEF DownCells
  <2> QED
    BY <2>1, FilledFacts
<1>2. \A d \in Clients : down[d] \in Seq(DownCells) /\ down[d] \o Filled(Notice, 2 * Half) \in Seq(DownCells)
  BY <1>1, ConcatFacts DEF TypeOK
<1>3. down' \in [Clients -> Seq(DownCells)]
  BY <1>2 DEF LogOff, TypeOK
<1>4. Flags' /\ Streams' /\ Records'
  BY <1>3, Parts DEF LogOff, Flags, Streams, Records, clientVars, userVars
<1> QED
  BY <1>4, Parts, PTL

LEMMA QueueFacts ==
  ASSUME TypeOK, queue # <<>>
  PROVE  /\ Head(queue) = queue[1] /\ 1 \in DOMAIN queue
         /\ Head(queue).head \in UpCells /\ Head(queue).text \in Seq(UpCells)
         /\ Tail(queue) \in Seq([head : UpCells, text : Seq(UpCells)])
         /\ \A k \in DOMAIN Tail(queue) : k + 1 \in DOMAIN queue /\ Tail(queue)[k] = queue[k + 1]
<1> DEFINE T == [head : UpCells, text : Seq(UpCells)]
<1>1. queue \in Seq(T) /\ (\A m \in T : m.head \in UpCells /\ m.text \in Seq(UpCells))
  BY DEF TypeOK
<1> HIDE DEF T
<1>2. /\ Head(queue) = queue[1] /\ 1 \in DOMAIN queue /\ queue[1] \in T
      /\ Tail(queue) \in Seq(T)
      /\ \A k \in DOMAIN Tail(queue) : k + 1 \in DOMAIN queue /\ Tail(queue)[k] = queue[k + 1]
  BY <1>1
<1> QED
  BY <1>1, <1>2 DEF T

\* The outcomes of Handle.
LEMMA HandleCases ==
  ASSUME TypeOK, Handle
  PROVE  /\ UNCHANGED <<clientVars, userVars, up, stage, lost>>
         /\ queue # <<>> /\ next = N + 1
         /\ \/ BadIndex
            \/ /\ queue' = Tail(queue)
               /\ \/ Head(queue).head.kind = "chat" /\ HandleChat(Head(queue))
                  \/ Head(queue).head.kind = "status" /\ HandleStatus(Head(queue))
                  \/ /\ Head(queue).head.by \in Clients
                     /\ Head(queue).head.kind = "ask"
                     /\ HandleAsk(Head(queue))
                  \/ Ignore
<1>1. Head(queue).head.kind = "ask" => Head(queue).head.by \in Clients
  BY QueueFacts, UpCellFacts DEF Handle
<1>2. next = N + 1
  BY SizeAssumption DEF Handle, Idle, TypeOK
<1> QED
  BY <1>1, <1>2 DEF Handle

LEMMA HandleType == ASSUME TypeOK, Handle PROVE TypeOK'
<1>1. /\ Head(queue).head \in UpCells /\ Head(queue).text \in Seq(UpCells)
      /\ Tail(queue) \in Seq([head : UpCells, text : Seq(UpCells)])
  BY HandleCases, QueueFacts
<1>2. UNCHANGED <<clientVars, userVars, up, stage, lost>>
  BY HandleCases, Zenon
<1>3. CASE BadIndex
  <2>1. Flags'
    BY <1>2, <1>3, Parts, Zenon DEF BadIndex, Flags, clientVars, userVars
  <2>2. Streams' /\ Records'
    BY <1>2, <1>3, Parts DEF BadIndex, Streams, Records, clientVars, userVars
  <2> QED
    BY <2>1, <2>2, Parts, PTL
<1>4. CASE queue' = Tail(queue) /\ HandleChat(Head(queue))
  <2>1. conversation \o Head(queue).text \in Seq(UpCells)
    BY <1>1, ConcatFacts DEF TypeOK
  <2>2. Len(conversation) + 1 \in Nat /\ Len(conversation \o Head(queue).text) \in Nat
    BY <2>1 DEF TypeOK
  <2>3. out' \in OutCells /\ out' # Zero
    BY <1>4, <2>2 DEF HandleChat, OutCells, Zero
  <2>4. 1 \in 1..N + 1
    BY SizeAssumption
  <2>5. Flags'
    BY <1>2, <1>4, Parts, Zenon DEF HandleChat, Flags, clientVars, userVars
  <2>6. Streams' /\ Records'
    BY <1>1, <1>2, <1>4, <2>1, <2>3, <2>4, Parts
    DEF HandleChat, Streams, Records, clientVars, userVars
  <2> QED
    BY <2>5, <2>6, Parts, PTL
<1>5. CASE /\ queue' = Tail(queue) /\ Head(queue).head.kind = "status"
           /\ HandleStatus(Head(queue))
  <2>1. out' \in OutCells /\ out' # Zero /\ 1 \in 1..N + 1
    BY <1>1, <1>5, UpCellFacts, SizeAssumption DEF HandleStatus, Zero
  <2>2. Flags'
    BY <1>2, <1>5, Parts, Zenon DEF HandleStatus, Flags, clientVars, userVars
  <2>3. Streams' /\ Records'
    BY <1>1, <1>2, <1>5, <2>1, Parts DEF HandleStatus, Streams, Records, clientVars, userVars
  <2> QED
    BY <2>2, <2>3, Parts, PTL
<1>6. CASE /\ queue' = Tail(queue) /\ Head(queue).head.by \in Clients
           /\ HandleAsk(Head(queue))
  <2>1. Filled(Answer, 2 * Half) \in Seq(DownCells)
    <3>1. Answer \in DownCells /\ Zero \in DownCells /\ 2 * Half \in Nat \ {0}
      BY SizeAssumption DEF DownCells
    <3> QED
      BY <3>1, FilledFacts
  <2>2. down' \in [Clients -> Seq(DownCells)]
    BY <1>6, <2>1, WriteType, Zenon DEF HandleAsk
  <2>3. Flags'
    BY <1>2, <1>6, Parts, Zenon DEF HandleAsk, Flags, clientVars, userVars
  <2>4. Streams' /\ Records'
    BY <1>1, <1>2, <1>6, <2>2, Parts DEF HandleAsk, Streams, Records, clientVars, userVars
  <2> QED
    BY <2>3, <2>4, Parts, PTL
<1>7. CASE queue' = Tail(queue) /\ Ignore
  <2>1. Flags'
    BY <1>2, <1>7, Parts, Zenon DEF Ignore, Flags, clientVars, userVars
  <2>2. Streams' /\ Records'
    BY <1>1, <1>2, <1>7, Parts DEF Ignore, Streams, Records, clientVars, userVars
  <2> QED
    BY <2>1, <2>2, Parts, PTL
<1> QED
  BY <1>3, <1>4, <1>5, <1>6, <1>7, HandleCases, Zenon

LEMMA BroadcastFacts ==
  ASSUME TypeOK, Broadcast
  PROVE  next \in Clients /\ out \in DownCells /\ next' = next + 1 /\ out' = out
<1>1. next \in 1..N + 1 /\ N \in Nat /\ next <= N
  BY SizeAssumption DEF TypeOK, Broadcast, Idle
<1>2. out \in OutCells
  BY <1>1 DEF TypeOK
<1> QED
  BY <1>1, <1>2 DEF Clients, Broadcast, DownCells

LEMMA BroadcastType == ASSUME TypeOK, Broadcast PROVE TypeOK'
<1>1. next \in Clients /\ out \in DownCells
  BY BroadcastFacts
<1>2. down[next] \in Seq(DownCells) /\ Append(down[next], out) \in Seq(DownCells)
  BY <1>1 DEF TypeOK
<1>3. down' \in [Clients -> Seq(DownCells)]
  BY <1>1, <1>2 DEF TypeOK, Broadcast
<1>4. next' \in 1..N + 1 /\ out # Zero
  BY <1>1, SizeAssumption DEF Broadcast, Clients, TypeOK
<1>5. Flags' /\ Streams' /\ Records'
  BY <1>3, <1>4, Parts DEF Broadcast, Flags, Streams, Records, clientVars, userVars
<1> QED
  BY <1>5, Parts, PTL

\* The streams, the queue and what is shown keep their types.
THEOREM DeliveryTypes == Safety => []TypeOK
<1>1. TypeOK /\ [Next]_vars => TypeOK'
  <2> SUFFICES ASSUME TypeOK, [Next]_vars PROVE TypeOK'
    OBVIOUS
  <2>1. ASSUME NEW c \in Clients, ClientStep(c) PROVE TypeOK'
    BY <2>1, SayType, TypeType, AskType, ReadFromServerType, LeaveType, Zenon DEF ClientStep
  <2>2. ASSUME NEW c \in Clients, ThreadStep(c) PROVE TypeOK'
    BY <2>2, SignOnType, ReceiveType, LogOffType, Zenon DEF ThreadStep
  <2>3. ASSUME NEW c \in Clients, Accept(c) PROVE TypeOK'
    BY <2>3, AcceptType
  <2>4. CASE MainStep
    BY <2>4, HandleType, BroadcastType, Zenon DEF MainStep
  <2>5. CASE UNCHANGED vars
    <3>1. Flags'
      BY <2>5, Parts, Zenon DEF Flags, vars, serverVars, clientVars, userVars
    <3>2. Streams' /\ Records'
      BY <2>5, Parts DEF Streams, Records, vars, serverVars, clientVars, userVars
    <3> QED
      BY <3>1, <3>2, Parts, PTL
  <2> QED
    BY <2>1, <2>2, <2>3, <2>4, <2>5, Zenon DEF Next
<1> QED
  BY <1>1, InitType, PTL DEF Safety

-----------------------------------------------------------------------------
(* From the server: what a user has seen comes before what is on its way,  *)
(* and both before what is being broadcast.                                *)

Fits(s, n) == \A i \in DOMAIN s : IsChat(s[i]) => 1 <= s[i].lo /\ s[i].hi <= n

Ordered(s, w) ==
  Chain(DownBefore, s) /\ Chain(DownBefore, w) /\ Cross(DownBefore, s, w)

Follows(m, s, w) == Cross(DownBefore, s, <<m>>) /\ Cross(DownBefore, w, <<m>>)

DownInv ==
  /\ \A d \in Clients :
       /\ Ordered(shown[d], down[d])
       /\ Fits(shown[d], Len(conversation)) /\ Fits(down[d], Len(conversation))
       /\ next <= d => Follows(out, shown[d], down[d])
  /\ IsChat(out) => 1 <= out.lo /\ out.hi <= Len(conversation)

NoChat(s) == \A i \in DOMAIN s : ~IsChat(s[i])

LEMMA NoChatFacts ==
  ASSUME NEW s \in Seq(DownCells), NEW t \in Seq(DownCells), NoChat(t)
  PROVE  Chain(DownBefore, t) /\ Cross(DownBefore, s, t) /\ Cross(DownBefore, t, s)
  BY DEF Chain, Cross, DownBefore, NoChat

LEMMA FitsFacts ==
  ASSUME NEW s \in Seq(DownCells), NEW t \in Seq(DownCells), NEW n \in Nat, Fits(s, n)
  PROVE  /\ Fits(t, n) => Fits(s \o t, n)
         /\ \A k, l \in 0..Len(s) : k <= l => Fits(SubSeq(s, k + 1, l), n)
         /\ \A m \in Nat : n <= m => Fits(s, m)
<1>1. Fits(t, n) => Fits(s \o t, n)
  BY ConcatFacts DEF Fits
<1>2. ASSUME NEW k \in 0..Len(s), NEW l \in 0..Len(s), k <= l PROVE Fits(SubSeq(s, k + 1, l), n)
  BY <1>2, PartFacts DEF Fits
<1>3. ASSUME NEW m \in Nat, n <= m PROVE Fits(s, m)
  <2>1. \A i \in DOMAIN s : IsChat(s[i]) => s[i].hi \in Nat
    BY DownCellFacts DEF IsChat
  <2> QED
    BY <1>3, <2>1 DEF Fits
<1> QED
  BY <1>1, <1>2, <1>3

LEMMA OrderedAppend ==
  ASSUME NEW s \in Seq(DownCells), NEW w \in Seq(DownCells), NEW t \in Seq(DownCells),
         Ordered(s, w), Chain(DownBefore, t), Cross(DownBefore, s, t), Cross(DownBefore, w, t)
  PROVE  Ordered(s, w \o t)
  BY ChainConcat, CrossConcat DEF Ordered

LEMMA OrderedRead ==
  ASSUME NEW s \in Seq(DownCells), NEW w \in Seq(DownCells), Ordered(s, w),
         NEW k \in 0..Len(w), NEW l \in 0..Len(w), l <= k
  PROVE  /\ Ordered(s, SubSeq(w, k + 1, Len(w)))
         /\ Ordered(s \o SubSeq(w, 1, l), SubSeq(w, k + 1, Len(w)))
<1> DEFINE a == SubSeq(w, 1, l)
           b == SubSeq(w, k + 1, Len(w))
<1>1. a \in Seq(DownCells) /\ b \in Seq(DownCells)
  OBVIOUS
<1>2. 0 \in 0..Len(w) /\ Len(w) \in 0..Len(w) /\ k <= Len(w) /\ 0 <= l /\ 0 + 1 = 1
  OBVIOUS
<1>3. Chain(DownBefore, a) /\ Chain(DownBefore, b)
  BY <1>2, ChainPart DEF Ordered
<1>4. Cross(DownBefore, s, a) /\ Cross(DownBefore, s, b)
  BY <1>2, CrossPart DEF Ordered
<1>5. Cross(DownBefore, a, b)
  BY CrossSplit DEF Ordered
<1> HIDE DEF a, b
<1>6. Chain(DownBefore, s \o a) /\ Cross(DownBefore, s \o a, b)
  BY <1>1, <1>3, <1>4, <1>5, ChainConcat, CrossConcat DEF Ordered
<1>7. Ordered(s, b) /\ Ordered(s \o a, b)
  BY <1>3, <1>4, <1>6 DEF Ordered
<1> QED
  BY <1>7 DEF a, b

\* A step that writes no line of the conversation and shows none.
LEMMA QuietStep ==
  ASSUME TypeOK, DownInv, UNCHANGED <<shown, conversation, out, next>>,
         \A d \in Clients : \/ down'[d] = down[d]
                            \/ down'[d] = <<>>
                            \/ \E t \in Seq(DownCells) : NoChat(t) /\ down'[d] = down[d] \o t
  PROVE  DownInv'
<1>1. SUFFICES ASSUME NEW d \in Clients
               PROVE  /\ Ordered(shown[d], down'[d]) /\ Fits(down'[d], Len(conversation))
                      /\ next <= d => Follows(out, shown[d], down'[d])
  BY DEF DownInv
<1>2. /\ shown[d] \in Seq(DownCells) /\ down[d] \in Seq(DownCells) /\ Len(conversation) \in Nat
      /\ Ordered(shown[d], down[d]) /\ Fits(down[d], Len(conversation))
      /\ next <= d => Follows(out, shown[d], down[d])
  BY DEF TypeOK, DownInv
<1>3. CASE down'[d] = down[d]
  BY <1>2, <1>3
<1>4. CASE down'[d] = <<>>
  <2>1. Fits(<<>>, Len(conversation))
    BY DEF Fits
  <2> QED
    BY <1>2, <1>4, <2>1, EmptyChain DEF Ordered, Follows
<1>5. ASSUME NEW t \in Seq(DownCells), NoChat(t), down'[d] = down[d] \o t
      PROVE  /\ Ordered(shown[d], down'[d]) /\ Fits(down'[d], Len(conversation))
             /\ next <= d => Follows(out, shown[d], down'[d])
  <2>1. Ordered(shown[d], down'[d])
    BY <1>2, <1>5, NoChatFacts, OrderedAppend
  <2>2. Fits(t, Len(conversation))
    BY <1>5 DEF Fits, NoChat
  <2>3. Fits(down'[d], Len(conversation))
    BY <1>2, <1>5, <2>2, FitsFacts
  <2>4. ASSUME next <= d PROVE Follows(out, shown[d], down'[d])
    <3>1. next # N + 1 /\ out \in OutCells
      BY <2>4, SizeAssumption DEF TypeOK, Clients
    <3>2. <<out>> \in Seq(DownCells)
      BY <3>1 DEF DownCells
    <3>3. Cross(DownBefore, t, <<out>>)
      BY <1>5, <3>2, NoChatFacts
    <3> QED
      BY <1>2, <1>5, <2>4, <3>2, <3>3, CrossConcat DEF Follows
  <2> QED
    BY <2>1, <2>3, <2>4
<1> QED
  BY <1>3, <1>4, <1>5

LEMMA ReadFromServerDown ==
  ASSUME TypeOK, DownInv, NEW c \in Clients, ReadFromServer(c) PROVE DownInv'
<1>1. PICK k \in 1..Len(down[c]), l \in 0..Len(down[c]) :
           /\ l <= k
           /\ down' = [down EXCEPT ![c] = SubSeq(@, k + 1, Len(@))]
           /\ \/ shown' = [shown EXCEPT ![c] = @ \o SubSeq(down[c], 1, l)]
              \/ shown' = shown
  BY ReadFromServerFacts, Zenon
<1>2. UNCHANGED <<conversation, out, next>>
  BY DEF ReadFromServer, serverVars
<1>3. SUFFICES ASSUME NEW d \in Clients
               PROVE  /\ Ordered(shown'[d], down'[d])
                      /\ Fits(shown'[d], Len(conversation)) /\ Fits(down'[d], Len(conversation))
                      /\ next <= d => Follows(out, shown'[d], down'[d])
  BY <1>2 DEF DownInv
<1>4. /\ shown[d] \in Seq(DownCells) /\ down[d] \in Seq(DownCells) /\ Len(conversation) \in Nat
      /\ Ordered(shown[d], down[d])
      /\ Fits(shown[d], Len(conversation)) /\ Fits(down[d], Len(conversation))
      /\ next <= d => Follows(out, shown[d], down[d])
  BY DEF TypeOK, DownInv
<1>5. CASE d # c
  <2>1. shown'[d] = shown[d] /\ down'[d] = down[d]
    BY <1>1, <1>5 DEF TypeOK
  <2> QED
    BY <1>4, <2>1
<1>6. CASE d = c
  <2> DEFINE a == SubSeq(down[d], 1, l)
             b == SubSeq(down[d], k + 1, Len(down[d]))
  <2>1. down'[d] = b /\ (shown'[d] = shown[d] \o a \/ shown'[d] = shown[d])
    BY <1>1, <1>6 DEF TypeOK
  <2>2. k \in 0..Len(down[d]) /\ l \in 0..Len(down[d]) /\ l <= k /\ 0 \in 0..Len(down[d])
        /\ Len(down[d]) \in 0..Len(down[d]) /\ k <= Len(down[d]) /\ 0 <= l
    BY <1>1, <1>4, <1>6
  <2>3. Ordered(shown[d], b) /\ Ordered(shown[d] \o a, b)
    BY <1>4, <2>2, OrderedRead
  <2>4. a \in Seq(DownCells) /\ b \in Seq(DownCells)
    BY <1>4, <2>2
  <2>5. Fits(SubSeq(down[d], 0 + 1, l), Len(conversation)) /\ Fits(b, Len(conversation))
    BY <1>4, <2>2, FitsFacts
  <2>6. Fits(a, Len(conversation))
    BY <2>5
  <2>7. ASSUME next <= d PROVE Follows(out, shown[d], b) /\ Follows(out, shown[d] \o a, b)
    <3>1. out \in DownCells
      BY <2>7, SizeAssumption DEF TypeOK, Clients, DownCells
    <3>2. Cross(DownBefore, down[d], <<out>>) /\ <<out>> \in Seq(DownCells)
      BY <1>4, <2>7, <3>1 DEF Follows
    <3>3. Cross(DownBefore, SubSeq(down[d], 0 + 1, l), <<out>>) /\ Cross(DownBefore, b, <<out>>)
      BY <1>4, <2>2, <3>2, CrossPart
    <3>4. Cross(DownBefore, a, <<out>>)
      BY <3>3
    <3> HIDE DEF a, b
    <3> QED
      BY <1>4, <2>4, <2>7, <3>2, <3>3, <3>4, CrossConcat DEF Follows
  <2> HIDE DEF a, b
  <2>8. Fits(shown[d] \o a, Len(conversation))
    BY <1>4, <2>4, <2>6, FitsFacts
  <2> QED
    BY <1>4, <2>1, <2>3, <2>5, <2>7, <2>8
<1> QED
  BY <1>5, <1>6

LEMMA FilledQuiet ==
  ASSUME NEW m \in {Notice, Answer}
  PROVE  Filled(m, 2 * Half) \in Seq(DownCells) /\ NoChat(Filled(m, 2 * Half))
<1>1. m \in DownCells /\ Zero \in DownCells /\ 2 * Half \in Nat \ {0}
  BY SizeAssumption DEF DownCells
<1>2. ~IsChat(m) /\ ~IsChat(Zero)
  BY DEF IsChat, Notice, Answer, Zero
<1> QED
  BY <1>1, <1>2, FilledFacts DEF NoChat

LEMMA WriteQuiet ==
  ASSUME TypeOK, NEW c \in Clients, NEW s \in Seq(DownCells), NoChat(s), WriteTo(c, s)
  PROVE  \A d \in Clients : \/ down'[d] = down[d]
                            \/ \E t \in Seq(DownCells) : NoChat(t) /\ down'[d] = down[d] \o t
  BY DEF TypeOK, WriteTo

\* A message that follows everything placed so far.
LEMMA NewIsLast ==
  ASSUME NEW s \in Seq(DownCells), NEW n \in Nat, Fits(s, n), NEW m \in DownCells,
         IsChat(m) => m.lo > n
  PROVE  Cross(DownBefore, s, <<m>>)
<1>1. ASSUME NEW i \in DOMAIN s PROVE <<s[i], m>> \in DownBefore
  <2>1. s[i] \in DownCells
    OBVIOUS
  <2>2. IsChat(s[i]) => s[i].hi \in Nat /\ s[i].hi <= n
    BY <2>1, DownCellFacts DEF IsChat, Fits
  <2>3. IsChat(m) => m.lo \in Nat
    BY DownCellFacts DEF IsChat
  <2> QED
    BY <2>1, <2>2, <2>3 DEF DownBefore
<1> QED
  BY <1>1 DEF Cross

LEMMA NewMessageDown ==
  ASSUME TypeOK, DownInv, UNCHANGED <<shown, down>>, conversation' \in Seq(UpCells),
         Len(conversation') >= Len(conversation), out' \in DownCells,
         IsChat(out') => out'.lo > Len(conversation) /\ out'.hi <= Len(conversation')
  PROVE  DownInv'
<1>1. Len(conversation) \in Nat /\ Len(conversation') \in Nat
  BY DEF TypeOK
<1>2. IsChat(out') => 1 <= out'.lo /\ out'.hi <= Len(conversation')
  BY <1>1, DownCellFacts DEF IsChat
<1>3. ASSUME NEW d \in Clients
      PROVE  /\ Ordered(shown[d], down[d])
             /\ Fits(shown[d], Len(conversation')) /\ Fits(down[d], Len(conversation'))
             /\ Follows(out', shown[d], down[d])
  <2>1. /\ shown[d] \in Seq(DownCells) /\ down[d] \in Seq(DownCells)
        /\ Ordered(shown[d], down[d])
        /\ Fits(shown[d], Len(conversation)) /\ Fits(down[d], Len(conversation))
    BY DEF TypeOK, DownInv
  <2>2. Fits(shown[d], Len(conversation')) /\ Fits(down[d], Len(conversation'))
    BY <1>1, <2>1, FitsFacts
  <2>3. Follows(out', shown[d], down[d])
    BY <1>1, <2>1, NewIsLast DEF Follows
  <2> QED
    BY <2>1, <2>2, <2>3
<1> QED
  BY <1>2, <1>3 DEF DownInv

LEMMA HandleDown == ASSUME TypeOK, DownInv, Handle PROVE DownInv'
<1>1. UNCHANGED <<clientVars, userVars, up, stage, lost>>
  BY HandleCases, Zenon
<1>2. CASE BadIndex \/ Ignore
  BY <1>1, <1>2, QuietStep DEF BadIndex, Ignore, clientVars
<1>3. CASE HandleChat(Head(queue))
  <2>1. Head(queue).text \in Seq(UpCells) /\ conversation \in Seq(UpCells)
    BY HandleCases, QueueFacts DEF TypeOK
  <2>2. conversation' \in Seq(UpCells) /\ Len(conversation') >= Len(conversation)
        /\ Len(conversation) \in Nat /\ Len(conversation') \in Nat
    BY <1>3, <2>1, ConcatFacts DEF HandleChat
  <2>3. out' = [kind |-> "chat", lo |-> Len(conversation) + 1, hi |-> Len(conversation')]
    BY <1>3 DEF HandleChat
  <2>4. out' \in DownCells /\ out'.lo > Len(conversation) /\ out'.hi <= Len(conversation')
    BY <2>2, <2>3 DEF DownCells, OutCells
  <2> QED
    BY <1>1, <1>3, <2>2, <2>4, NewMessageDown DEF HandleChat, clientVars
<1>4. CASE Head(queue).head.kind = "status" /\ HandleStatus(Head(queue))
  <2>1. out' \in DownCells /\ ~IsChat(out')
    BY <1>4, HandleCases, QueueFacts, UpCellFacts DEF HandleStatus, DownCells, IsChat
  <2>2. Len(conversation) \in Nat /\ conversation' = conversation /\ conversation \in Seq(UpCells)
    BY <1>4 DEF HandleStatus, TypeOK
  <2> QED
    BY <1>1, <1>4, <2>1, <2>2, NewMessageDown DEF HandleStatus, clientVars
<1>5. CASE Head(queue).head.by \in Clients /\ HandleAsk(Head(queue))
  <2>1. \A d \in Clients : \/ down'[d] = down[d]
                           \/ \E t \in Seq(DownCells) : NoChat(t) /\ down'[d] = down[d] \o t
    BY <1>5, FilledQuiet, WriteQuiet DEF HandleAsk
  <2> QED
    BY <1>1, <1>5, <2>1, QuietStep DEF HandleAsk, clientVars
<1> QED
  BY <1>2, <1>3, <1>4, <1>5, HandleCases, Zenon

LEMMA BroadcastDown == ASSUME TypeOK, DownInv, Broadcast PROVE DownInv'
<1>1. next \in Clients /\ out \in DownCells /\ next' = next + 1 /\ out' = out
  BY BroadcastFacts
<1>2. UNCHANGED <<shown, conversation>>
  BY DEF Broadcast, clientVars
<1>3. SUFFICES ASSUME NEW d \in Clients
               PROVE  /\ Ordered(shown[d], down'[d]) /\ Fits(down'[d], Len(conversation))
                      /\ next + 1 <= d => Follows(out, shown[d], down'[d])
  BY <1>1, <1>2 DEF DownInv
<1>4. /\ shown[d] \in Seq(DownCells) /\ down[d] \in Seq(DownCells) /\ Len(conversation) \in Nat
      /\ Ordered(shown[d], down[d]) /\ Fits(down[d], Len(conversation))
      /\ next <= d => Follows(out, shown[d], down[d])
      /\ IsChat(out) => 1 <= out.lo /\ out.hi <= Len(conversation)
  BY DEF TypeOK, DownInv
<1>5. next \in Nat /\ d \in Nat
  BY <1>1 DEF Clients
<1>6. CASE down'[d] = down[d]
  <2>1. next + 1 <= d => next <= d
    BY <1>5
  <2> QED
    BY <1>4, <1>6, <2>1
<1>7. CASE d = next /\ down'[d] = Append(down[d], out)
  <2>1. <<out>> \in Seq(DownCells) /\ Append(down[d], out) = down[d] \o <<out>>
    BY <1>1, <1>4
  <2>2. Chain(DownBefore, <<out>>) /\ Fits(<<out>>, Len(conversation))
    BY <1>4 DEF Chain, Fits
  <2>3. Cross(DownBefore, shown[d], <<out>>) /\ Cross(DownBefore, down[d], <<out>>)
    BY <1>4, <1>5, <1>7 DEF Follows
  <2>4. Ordered(shown[d], down[d] \o <<out>>)
    BY <1>4, <2>1, <2>2, <2>3, OrderedAppend
  <2>5. Fits(down[d] \o <<out>>, Len(conversation))
    BY <1>4, <2>1, <2>2, FitsFacts
  <2> QED
    BY <1>5, <1>7, <2>1, <2>4, <2>5
<1>8. down'[d] = down[d] \/ (d = next /\ down'[d] = Append(down[d], out))
  BY <1>1 DEF Broadcast, TypeOK
<1> QED
  BY <1>6, <1>7, <1>8

LEMMA InitDown == Init => DownInv
<1> SUFFICES ASSUME Init PROVE DownInv
  OBVIOUS
<1>1. ~IsChat(out) /\ next = N + 1 /\ \A d \in Clients : ~(next <= d)
  BY SizeAssumption DEF Init, IsChat, Zero, Clients
<1>2. \A n : Fits(<<>>, n)
  BY DEF Fits
<1>3. \A d \in Clients : shown[d] = <<>> /\ down[d] = <<>>
  BY DEF Init
<1> QED
  BY <1>1, <1>2, <1>3, EmptyChain DEF DownInv, Ordered

LEMMA ThreadDown ==
  ASSUME TypeOK, DownInv, NEW c \in Clients, ThreadStep(c) PROVE DownInv'
<1>1. CASE SignOn(c)
  <2>1. <<Uid>> \in Seq(DownCells) /\ NoChat(<<Uid>>)
    BY DEF DownCells, NoChat, IsChat, Uid
  <2>2. WriteTo(c, <<Uid>>)
    BY <1>1 DEF SignOn
  <2>3. \A d \in Clients : \/ down'[d] = down[d]
                           \/ \E t \in Seq(DownCells) : NoChat(t) /\ down'[d] = down[d] \o t
    BY <2>1, <2>2, WriteQuiet
  <2> QED
    BY <1>1, <2>3, QuietStep DEF SignOn, clientVars
<1>2. CASE Receive(c)
  BY <1>2, QuietStep DEF Receive, clientVars
<1>3. CASE LogOff(c)
  <2>1. \A d \in Clients : \/ down'[d] = down[d]
                           \/ down'[d] = down[d] \o Filled(Notice, 2 * Half)
    BY <1>3 DEF LogOff, TypeOK
  <2> QED
    BY <1>3, <2>1, FilledQuiet, QuietStep DEF LogOff, clientVars
<1> QED
  BY <1>1, <1>2, <1>3 DEF ThreadStep

LEMMA ClientDown ==
  ASSUME TypeOK, DownInv, NEW c \in Clients, ClientStep(c) PROVE DownInv'
<1>1. CASE Say(c) \/ Type(c) \/ Ask(c)
  BY <1>1, QuietStep DEF Say, Type, Ask, serverVars, clientVars
<1>2. CASE ReadFromServer(c)
  BY <1>2, ReadFromServerDown
<1>3. CASE Leave(c)
  <2>1. \A d \in Clients : down'[d] = down[d] \/ down'[d] = <<>>
    BY <1>3 DEF Leave, TypeOK
  <2> QED
    BY <1>3, <2>1, QuietStep DEF Leave, serverVars
<1> QED
  BY <1>1, <1>2, <1>3 DEF ClientStep

THEOREM DownIsOrdered == Safety => []DownInv
<1>1. TypeOK /\ DownInv /\ [Next]_vars => DownInv'
  <2> SUFFICES ASSUME TypeOK, DownInv, [Next]_vars PROVE DownInv'
    OBVIOUS
  <2>1. ASSUME NEW c \in Clients, Accept(c) PROVE DownInv'
    BY <2>1, QuietStep DEF Accept, clientVars
  <2>2. CASE MainStep
    BY <2>2, HandleDown, BroadcastDown DEF MainStep
  <2>3. CASE UNCHANGED vars
    BY <2>3, QuietStep DEF vars, serverVars, clientVars
  <2> QED
    BY <2>1, <2>2, <2>3, ThreadDown, ClientDown, Zenon DEF Next
<1> QED
  BY <1>1, InitDown, DeliveryTypes, PTL DEF Safety

\* Nobody sees a line twice, or two lines in another order than the server's.
THEOREM SeenOnceInOrder == Safety => []OnceInOrder
<1>1. DownInv => OnceInOrder
  BY DEF DownInv, OnceInOrder, Ordered, Chain, DownBefore
<1> QED
  BY <1>1, DownIsOrdered, PTL

-----------------------------------------------------------------------------
(* To the server: what is said comes before what is queued, what is queued *)
(* before what is on its way.                                              *)

Numbered(s, d) == \A i \in DOMAIN s : IsChat(s[i]) => s[i].num <= Len(d[s[i].by])

Own(c, s) == \A i \in DOMAIN s : IsChat(s[i]) => s[i].by = c

Behind(w) ==
  /\ Cross(UpBefore, conversation, w)
  /\ \A k \in DOMAIN queue : Cross(UpBefore, queue[k].text, w)

Told ==
  /\ Chain(UpBefore, conversation)
  /\ \A k \in DOMAIN queue :
       /\ Chain(UpBefore, queue[k].text) /\ Cross(UpBefore, conversation, queue[k].text)
       /\ \A l \in DOMAIN queue : k < l => Cross(UpBefore, queue[k].text, queue[l].text)

Counted(d) ==
  Numbered(conversation, d) /\ \A k \in DOMAIN queue : Numbered(queue[k].text, d)

Lane(c, w, d) == Chain(UpBefore, w) /\ Numbered(w, d) /\ Own(c, w) /\ Behind(w)

UpInv == Told /\ Counted(due) /\ \A c \in Clients : Lane(c, up[c], due)

LEMMA NoChatUp ==
  ASSUME NEW s \in Seq(UpCells), NEW t \in Seq(UpCells), NoChat(t)
  PROVE  Chain(UpBefore, t) /\ Cross(UpBefore, s, t) /\ Cross(UpBefore, t, s)
  BY DEF Chain, Cross, UpBefore, NoChat

\* Lines of different users may come in any order.
LEMMA OthersCross ==
  ASSUME NEW c, NEW d, c # d, NEW s \in Seq(UpCells), NEW t \in Seq(UpCells),
         Own(c, s), Own(d, t)
  PROVE  Cross(UpBefore, s, t)
  BY DEF Cross, UpBefore, Own

LEMMA QueueTexts ==
  ASSUME TypeOK, NEW k \in DOMAIN queue
  PROVE  queue[k].text \in Seq(UpCells) /\ queue[k].head \in UpCells
<1> DEFINE T == [head : UpCells, text : Seq(UpCells)]
<1>1. queue \in Seq(T) /\ (\A m \in T : m.head \in UpCells /\ m.text \in Seq(UpCells))
  BY DEF TypeOK
<1> HIDE DEF T
<1>2. queue[k] \in T
  BY <1>1
<1> QED
  BY <1>1, <1>2

LEMMA BehindFacts ==
  ASSUME TypeOK, NEW s \in Seq(UpCells), Behind(s)
  PROVE  /\ \A t \in Seq(UpCells) : Behind(t) => Behind(s \o t)
         /\ \A k, l \in 0..Len(s) : k <= l => Behind(SubSeq(s, k + 1, l))
<1>0. conversation \in Seq(UpCells)
  BY DEF TypeOK
<1>1. ASSUME NEW t \in Seq(UpCells), Behind(t) PROVE Behind(s \o t)
  <2>1. Cross(UpBefore, conversation, s \o t)
    BY <1>0, <1>1, CrossConcat DEF Behind
  <2>2. ASSUME NEW k \in DOMAIN queue PROVE Cross(UpBefore, queue[k].text, s \o t)
    BY <1>1, QueueTexts, CrossConcat DEF Behind
  <2> QED
    BY <2>1, <2>2 DEF Behind
<1>2. ASSUME NEW k \in 0..Len(s), NEW l \in 0..Len(s), k <= l
      PROVE  Behind(SubSeq(s, k + 1, l))
  <2>1. Cross(UpBefore, conversation, SubSeq(s, k + 1, l))
    BY <1>0, <1>2, CrossPart DEF Behind
  <2>2. ASSUME NEW j \in DOMAIN queue PROVE Cross(UpBefore, queue[j].text, SubSeq(s, k + 1, l))
    BY <1>2, QueueTexts, CrossPart DEF Behind
  <2> QED
    BY <2>1, <2>2 DEF Behind
<1> QED
  BY <1>1, <1>2

LEMMA LaneConcat ==
  ASSUME TypeOK, NEW c, NEW d, NEW s \in Seq(UpCells), NEW t \in Seq(UpCells),
         Lane(c, s, d), Lane(c, t, d), Cross(UpBefore, s, t)
  PROVE  Lane(c, s \o t, d)
<1>1. Chain(UpBefore, s \o t)
  BY ChainConcat DEF Lane
<1>2. Numbered(s \o t, d) /\ Own(c, s \o t)
  BY ConcatFacts DEF Lane, Numbered, Own
<1>3. Behind(s \o t)
  BY BehindFacts DEF Lane
<1> QED
  BY <1>1, <1>2, <1>3 DEF Lane

LEMMA LanePart ==
  ASSUME TypeOK, NEW c, NEW d, NEW s \in Seq(UpCells), Lane(c, s, d),
         NEW k \in 0..Len(s), NEW l \in 0..Len(s), k <= l
  PROVE  Lane(c, SubSeq(s, k + 1, l), d)
<1>1. Chain(UpBefore, SubSeq(s, k + 1, l))
  BY ChainPart DEF Lane
<1>2. Numbered(SubSeq(s, k + 1, l), d) /\ Own(c, SubSeq(s, k + 1, l))
  BY PartFacts DEF Lane, Numbered, Own
<1>3. Behind(SubSeq(s, k + 1, l))
  BY BehindFacts DEF Lane
<1> QED
  BY <1>1, <1>2, <1>3 DEF Lane

LEMMA NoChatLane ==
  ASSUME TypeOK, NEW c, NEW d, NEW t \in Seq(UpCells), NoChat(t)
  PROVE  Lane(c, t, d)
<1>1. Chain(UpBefore, t) /\ Numbered(t, d) /\ Own(c, t)
  BY NoChatUp DEF Numbered, Own, NoChat
<1>2. Cross(UpBefore, conversation, t)
  BY NoChatUp DEF TypeOK
<1>3. ASSUME NEW k \in DOMAIN queue PROVE Cross(UpBefore, queue[k].text, t)
  BY QueueTexts, NoChatUp
<1> QED
  BY <1>1, <1>2, <1>3 DEF Lane, Behind

\* A step that only changes one stream.
LEMMA LaneStep ==
  ASSUME TypeOK, UpInv, UNCHANGED <<queue, conversation>>, Counted(due'),
         \A d \in Clients : Lane(d, up'[d], due')
  PROVE  UpInv'
<1>1. Told' /\ Counted(due)'
  BY DEF Told, Counted, Numbered, UpInv
<1>2. \A d \in Clients : Lane(d, up[d], due)'
  BY DEF Lane, Behind, Numbered
<1> QED
  BY <1>1, <1>2 DEF UpInv

\* ... by dropping its beginning or by messages that are no lines.
LEMMA QuietUp ==
  ASSUME TypeOK, UpInv, UNCHANGED <<queue, conversation, due>>,
         NEW c \in Clients, NEW t \in Seq(UpCells), NoChat(t), NEW k \in 0..Len(up[c]),
         \A d \in Clients : d # c => up'[d] = up[d],
         \/ up'[c] = up[c] \o t
         \/ up'[c] = t \o SubSeq(up[c], k + 1, Len(up[c]))
  PROVE  UpInv'
<1> DEFINE r == SubSeq(up[c], k + 1, Len(up[c]))
<1>1. up[c] \in Seq(UpCells) /\ Lane(c, up[c], due)
  BY DEF TypeOK, UpInv
<1>2. Len(up[c]) \in 0..Len(up[c]) /\ k <= Len(up[c]) /\ r \in Seq(UpCells)
  BY <1>1
<1>3. Lane(c, r, due) /\ Lane(c, t, due)
  BY <1>1, <1>2, LanePart, NoChatLane
<1>4. up'[c] = up[c] \o t \/ up'[c] = t \o r
  OBVIOUS
<1> HIDE DEF r
<1>5. Cross(UpBefore, up[c], t) /\ Cross(UpBefore, t, r)
  BY <1>1, <1>2, NoChatUp
<1>6. Lane(c, up[c] \o t, due) /\ Lane(c, t \o r, due)
  BY <1>1, <1>2, <1>3, <1>5, LaneConcat
<1>7. \A d \in Clients : Lane(d, up'[d], due)
  BY <1>4, <1>6 DEF UpInv
<1>8. Counted(due) /\ due' = due
  BY DEF UpInv
<1> QED
  BY <1>7, <1>8, LaneStep

LEMMA SameUp ==
  ASSUME UpInv, UNCHANGED <<up, queue, conversation, due>>
  PROVE  UpInv'
  BY DEF UpInv, Told, Counted, Lane, Behind, Numbered

\* A line is told with a number of its own.
LEMMA SayUp == ASSUME TypeOK, UpInv, NEW c \in Clients, Say(c) PROVE UpInv'
<1> DEFINE m == [kind |-> "chat", by |-> c, known |-> uid[c], num |-> Len(due[c]) + 1]
<1>1. /\ Len(due'[c]) = Len(due[c]) + 1 /\ \A d \in Clients : d # c => due'[d] = due[d]
      /\ \A d \in Clients : Len(due[d]) \in Nat /\ Len(due[d]) <= Len(due'[d])
  BY DEF Say, TypeOK
<1>2. up'[c] = up[c] \o <<m>> /\ \A d \in Clients : d # c => up'[d] = up[d]
  BY <1>1 DEF Say, Send, TypeOK
<1>3. UNCHANGED <<queue, conversation>>
  BY DEF Say, serverVars
<1>4. m \in UpCells /\ <<m>> \in Seq(UpCells)
  <2>1. uid[c] \in BOOLEAN
    BY Zenon DEF TypeOK
  <2>2. Len(due[c]) + 1 \in 1..MaxSaid
    BY <1>1, BoundAssumption DEF Say
  <2>3. m \in [kind : {"chat"}, by : Clients, known : BOOLEAN, num : 1..MaxSaid]
    BY <2>1, <2>2, Zenon
  <2> QED
    BY <2>3 DEF UpCells
<1>5. m.by = c /\ m.num = Len(due[c]) + 1
  OBVIOUS
<1> HIDE DEF m
<1>6. ASSUME NEW s \in Seq(UpCells), Numbered(s, due)
      PROVE  Numbered(s, due') /\ Cross(UpBefore, s, <<m>>)
  <2>1. ASSUME NEW i \in DOMAIN s, IsChat(s[i])
        PROVE  /\ s[i].num <= Len(due'[s[i].by])
               /\ s[i].by = c => s[i].num < m.num
    <3>1. s[i] \in UpCells
      OBVIOUS
    <3>2. s[i].by \in Clients /\ s[i].num \in Nat
      BY <2>1, <3>1, UpCellFacts DEF IsChat
    <3>3. s[i].num <= Len(due[s[i].by])
      BY <1>6, <2>1 DEF Numbered
    <3> QED
      BY <1>1, <1>5, <3>2, <3>3
  <2>2. <<m>>[1] = m /\ DOMAIN <<m>> = {1} /\ \A i \in DOMAIN s : s[i] \in UpCells
    OBVIOUS
  <2> QED
    BY <1>4, <1>5, <2>1, <2>2 DEF Cross, UpBefore, Numbered
<1>7. Chain(UpBefore, <<m>>) /\ Own(c, <<m>>) /\ Numbered(<<m>>, due')
  BY <1>1, <1>5 DEF Chain, Own, Numbered
<1>8. conversation \in Seq(UpCells) /\ \A d \in Clients : up[d] \in Seq(UpCells)
  BY DEF TypeOK
<1>9. Counted(due')
  BY <1>6, <1>8, QueueTexts DEF UpInv, Counted
<1>10. Behind(<<m>>)
  BY <1>6, <1>8, QueueTexts DEF UpInv, Counted, Behind
<1>11. Lane(c, <<m>>, due') /\ Cross(UpBefore, up[c], <<m>>)
  BY <1>6, <1>7, <1>8, <1>10 DEF Lane, UpInv
<1>12. \A d \in Clients : Lane(d, up[d], due')
  BY <1>6, <1>8 DEF UpInv, Lane
<1>13. Lane(c, up[c] \o <<m>>, due')
  BY <1>4, <1>8, <1>11, <1>12, LaneConcat
<1>14. \A d \in Clients : Lane(d, up'[d], due')
  BY <1>2, <1>12, <1>13
<1> QED
  BY <1>3, <1>9, <1>14, LaneStep

LEMMA AppendFacts ==
  ASSUME NEW S, NEW s \in Seq(S), NEW e
  PROVE  /\ DOMAIN Append(s, e) = 1..Len(s) + 1
         /\ Append(s, e)[Len(s) + 1] = e
         /\ \A j \in DOMAIN s : Append(s, e)[j] = s[j]
OBVIOUS

\* What is read is queued behind everything, and its rest stays behind it.
LEMMA ReceiveUp == ASSUME TypeOK, UpInv, NEW c \in Clients, Receive(c) PROVE UpInv'
<1>1. PICK k \in 1..Len(up[c]), l \in 0..Len(up[c]) :
           /\ l <= k
           /\ up' = [up EXCEPT ![c] = SubSeq(@, k + 1, Len(@))]
           /\ queue' = Append(queue, [head |-> up[c][1], text |-> SubSeq(up[c], 1, l)])
  BY ReceiveFacts, Zenon
<1> DEFINE t == SubSeq(up[c], 1, l)
           r == SubSeq(up[c], k + 1, Len(up[c]))
<1>2. /\ conversation' = conversation /\ due' = due
      /\ conversation \in Seq(UpCells) /\ \A d \in Clients : up[d] \in Seq(UpCells)
  BY DEF Receive, userVars, TypeOK
<1>3. /\ k \in 0..Len(up[c]) /\ 0 \in 0..Len(up[c]) /\ Len(up[c]) \in 0..Len(up[c])
      /\ k <= Len(up[c]) /\ 0 <= l /\ l <= k /\ 0 + 1 = 1
      /\ t \in Seq(UpCells) /\ r \in Seq(UpCells)
  BY <1>1, <1>2
<1>4. \A d \in Clients : Lane(d, up[d], due)
  BY DEF UpInv
<1>5. Lane(c, t, due) /\ Lane(c, r, due)
  BY <1>2, <1>3, <1>4, LanePart
<1>6. Cross(UpBefore, t, r)
  BY <1>2, <1>3, <1>4, CrossSplit DEF Lane
<1>7. up'[c] = r /\ \A d \in Clients : d # c => up'[d] = up[d]
  BY <1>1 DEF TypeOK
<1>8. /\ DOMAIN queue = 1..Len(queue) /\ Len(queue) \in Nat
      /\ DOMAIN queue' = 1..Len(queue) + 1
      /\ queue'[Len(queue) + 1].text = t
      /\ \A j \in DOMAIN queue : queue'[j].text = queue[j].text
  <2> DEFINE m == [head |-> up[c][1], text |-> t]
  <2>1. queue' = Append(queue, m) /\ m.text = t
    BY <1>1
  <2>2. DOMAIN queue = 1..Len(queue) /\ Len(queue) \in Nat
    BY DEF TypeOK
  <2> HIDE DEF m, t
  <2>3. /\ DOMAIN queue' = 1..Len(queue) + 1
        /\ queue'[Len(queue) + 1] = m
        /\ \A j \in DOMAIN queue : queue'[j] = queue[j]
    BY <2>1, AppendFacts DEF TypeOK
  <2> QED
    BY <2>1, <2>2, <2>3
<1> HIDE DEF t, r
<1>9. \A d \in Clients : Lane(d, up'[d], due) /\ Cross(UpBefore, t, up'[d])
  BY <1>2, <1>3, <1>4, <1>5, <1>6, <1>7, OthersCross DEF Lane
<1>10. Told'
  <2>1. Told /\ Chain(UpBefore, t) /\ Behind(t)
    BY <1>5 DEF UpInv, Lane
  <2> QED
    BY <1>2, <1>8, <2>1 DEF Told, Behind
<1>11. Counted(due)'
  <2>1. Counted(due) /\ Numbered(t, due)
    BY <1>5 DEF UpInv, Lane
  <2> QED
    BY <1>2, <1>8, <2>1 DEF Counted, Numbered
<1>12. \A d \in Clients : Lane(d, up[d], due)'
  BY <1>2, <1>8, <1>9 DEF Lane, Behind, Numbered
<1> QED
  BY <1>10, <1>11, <1>12 DEF UpInv

\* What is dispatched leaves the front of the queue for the end of the conversation.
LEMMA HandleUp == ASSUME TypeOK, UpInv, Handle PROVE UpInv'
<1>1. UNCHANGED <<up, due>> /\ queue # <<>>
  BY HandleCases, Zenon DEF userVars
<1>2. CASE BadIndex
  BY <1>1, <1>2, SameUp DEF BadIndex
<1> DEFINE t == Head(queue).text
<1>3. /\ conversation \in Seq(UpCells) /\ t \in Seq(UpCells)
      /\ t = queue[1].text /\ 1 \in DOMAIN queue
      /\ \A k \in DOMAIN Tail(queue) : k + 1 \in DOMAIN queue /\ Tail(queue)[k] = queue[k + 1]
      /\ \A k \in DOMAIN queue : k \in Nat \ {0} /\ queue[k].text \in Seq(UpCells)
      /\ \A d \in Clients : up[d] \in Seq(UpCells)
      /\ DOMAIN Tail(queue) \subseteq Nat \ {0}
  BY <1>1, QueueFacts, QueueTexts DEF TypeOK
<1> HIDE DEF t
<1>4. ASSUME queue' = Tail(queue),
             conversation' = conversation \/ conversation' = conversation \o t
      PROVE  UpInv'
  <2>1. Told /\ Counted(due) /\ \A d \in Clients : Lane(d, up[d], due)
    BY DEF UpInv
  <2>2. /\ \A k \in DOMAIN Tail(queue) : 1 < k + 1
        /\ Chain(UpBefore, conversation) /\ Chain(UpBefore, t) /\ Cross(UpBefore, conversation, t)
        /\ Numbered(conversation, due) /\ Numbered(t, due)
    BY <1>3, <2>1 DEF Told, Counted
  <2>3. ASSUME NEW w \in Seq(UpCells), Cross(UpBefore, conversation, w), Cross(UpBefore, t, w)
        PROVE  Cross(UpBefore, conversation', w)
    BY <1>3, <1>4, <2>3, CrossConcat
  <2>4. Chain(UpBefore, conversation')
    BY <1>3, <1>4, <2>2, ChainConcat
  <2>5. Numbered(conversation', due)
    <3>1. Numbered(conversation \o t, due)
      BY <1>3, <2>2, ConcatFacts DEF Numbered
    <3> QED
      BY <1>4, <2>2, <3>1
  <2>6. ASSUME NEW k \in DOMAIN Tail(queue)
        PROVE  /\ Chain(UpBefore, Tail(queue)[k].text) /\ Numbered(Tail(queue)[k].text, due)
               /\ Cross(UpBefore, conversation', Tail(queue)[k].text)
    <3>1. k + 1 \in DOMAIN queue /\ Tail(queue)[k] = queue[k + 1] /\ 1 < k + 1
      BY <1>3, <2>2
    <3>2. Cross(UpBefore, conversation, queue[k + 1].text) /\ Cross(UpBefore, t, queue[k + 1].text)
      BY <1>3, <2>1, <3>1 DEF Told
    <3> QED
      BY <1>3, <2>1, <2>3, <3>1, <3>2 DEF Told, Counted
  <2>7. ASSUME NEW k \in DOMAIN Tail(queue), NEW l \in DOMAIN Tail(queue), k < l
        PROVE  Cross(UpBefore, Tail(queue)[k].text, Tail(queue)[l].text)
    <3>1. k + 1 < l + 1
      BY <1>3, <2>7
    <3> QED
      BY <1>3, <2>1, <3>1 DEF Told
  <2>8. \A d \in Clients : Lane(d, up[d], due)'
    <3>1. SUFFICES ASSUME NEW d \in Clients
                   PROVE  /\ Cross(UpBefore, conversation', up[d])
                          /\ \A k \in DOMAIN Tail(queue) : Cross(UpBefore, Tail(queue)[k].text, up[d])
      BY <1>1, <1>4, <2>1 DEF Lane, Behind, Numbered
    <3>2. Behind(up[d])
      BY <2>1 DEF Lane
    <3> QED
      BY <1>3, <2>3, <3>2 DEF Behind
  <2> QED
    BY <1>1, <1>4, <2>4, <2>5, <2>6, <2>7, <2>8 DEF UpInv, Told, Counted, Numbered
<1>5. queue' = Tail(queue) => conversation' = conversation \/ conversation' = conversation \o t
  BY HandleCases DEF HandleChat, HandleStatus, HandleAsk, Ignore, BadIndex, t
<1> QED
  BY <1>2, <1>4, <1>5, HandleCases, Zenon

LEMMA InitUp == Init => UpInv
<1> SUFFICES ASSUME Init PROVE UpInv
  OBVIOUS
<1>1. /\ Chain(UpBefore, <<Name>>) /\ Numbered(<<Name>>, due)
      /\ \A c : Own(c, <<Name>>)
  BY DEF Chain, Numbered, Own, IsChat, Name
<1>2. Numbered(<<>>, due)
  BY DEF Numbered
<1>3. conversation = <<>> /\ queue = <<>> /\ \A c \in Clients : up[c] = <<Name>>
  BY DEF Init
<1> QED
  BY <1>1, <1>2, <1>3, EmptyChain DEF UpInv, Told, Counted, Lane, Behind

LEMMA ClientUp == ASSUME TypeOK, UpInv, NEW c \in Clients, ClientStep(c) PROVE UpInv'
<1>1. Len(up[c]) \in 0..Len(up[c]) /\ 0 \in 0..Len(up[c])
  BY DEF TypeOK
<1>2. ASSUME NEW t \in Seq(UpCells), NoChat(t), Send(c, t), UNCHANGED <<queue, conversation, due>>
      PROVE  UpInv'
  <2>1. up'[c] = up[c] \o t /\ \A d \in Clients : d # c => up'[d] = up[d]
    BY <1>2 DEF Send, TypeOK
  <2> QED
    BY <1>1, <1>2, <2>1, QuietUp
<1>3. CASE Type(c)
  <2> DEFINE m == [kind |-> "status", by |-> c, num |-> typed'[c]]
  <2>1. m \in UpCells /\ Zero \in UpCells /\ ~IsChat(m) /\ ~IsChat(Zero)
    BY <1>3, BoundAssumption DEF Type, TypeOK, UpCells, IsChat, Zero
  <2>2. Filled(m, Half) \in Seq(UpCells) /\ NoChat(Filled(m, Half))
    BY <2>1, FilledFacts, SizeAssumption DEF NoChat
  <2> QED
    BY <1>2, <1>3, <2>2 DEF Type, serverVars
<1>4. CASE Ask(c)
  <2> DEFINE m == [kind |-> "ask", by |-> c, known |-> uid[c]]
  <2>1. uid[c] \in BOOLEAN
    BY Zenon DEF TypeOK
  <2>2. m \in [kind : {"ask"}, by : Clients, known : BOOLEAN] /\ ~IsChat(m)
    BY <2>1, Zenon DEF IsChat
  <2>3. <<m>> \in Seq(UpCells) /\ NoChat(<<m>>)
    BY <2>2 DEF UpCells, NoChat
  <2> QED
    BY <1>2, <1>4, <2>3 DEF Ask, serverVars
<1>5. CASE ReadFromServer(c) \/ Leave(c)
  BY <1>5, SameUp DEF ReadFromServer, Leave, serverVars, userVars
<1> QED
  BY <1>3, <1>4, <1>5, SayUp DEF ClientStep

LEMMA SignOnUp == ASSUME TypeOK, UpInv, NEW c \in Clients, SignOn(c) PROVE UpInv'
<1>1. PICK k \in DOMAIN up[c], cut \in BOOLEAN :
        up' = [up EXCEPT ![c] = (IF cut THEN <<Zero>> ELSE <<>>) \o Rest(@, k)]
  BY DEF SignOn
<1> DEFINE t == IF cut THEN <<Zero>> ELSE <<>>
<1>2. t \in Seq(UpCells) /\ NoChat(t)
  <2>1. Zero \in UpCells /\ ~IsChat(Zero)
    BY DEF UpCells, IsChat, Zero
  <2>2. <<Zero>> \in Seq(UpCells) /\ <<>> \in Seq(UpCells) /\ NoChat(<<Zero>>) /\ NoChat(<<>>)
    BY <2>1 DEF NoChat
  <2> QED
    BY <2>2
<1>3. k \in 0..Len(up[c])
  BY DEF TypeOK
<1>4. up'[c] = t \o SubSeq(up[c], k + 1, Len(up[c])) /\ \A d \in Clients : d # c => up'[d] = up[d]
  BY <1>1 DEF TypeOK, Rest
<1> HIDE DEF t
<1> QED
  BY <1>2, <1>3, <1>4, QuietUp DEF SignOn, userVars

THEOREM UpIsOrdered == Safety => []UpInv
<1>1. TypeOK /\ UpInv /\ [Next]_vars => UpInv'
  <2> SUFFICES ASSUME TypeOK, UpInv, [Next]_vars PROVE UpInv'
    OBVIOUS
  <2>1. ASSUME NEW c \in Clients, Accept(c) \/ LogOff(c) PROVE UpInv'
    BY <2>1, SameUp DEF Accept, LogOff, userVars
  <2>2. CASE Broadcast \/ UNCHANGED vars
    BY <2>2, SameUp DEF Broadcast, vars, serverVars, userVars
  <2> QED
    BY <2>1, <2>2, ClientUp, SignOnUp, ReceiveUp, HandleUp DEF Next, ThreadStep, MainStep
<1> QED
  BY <1>1, InitUp, DeliveryTypes, PTL DEF Safety

\* A user's lines are said to all in the order he wrote them, each once.
THEOREM SaidKeepsOrder == Safety => []SaidInOrder
<1>1. UpInv => SaidInOrder
  BY DEF UpInv, Told, SaidInOrder, Chain, UpBefore
<1> QED
  BY <1>1, UpIsOrdered, PTL

-----------------------------------------------------------------------------
(* The chat room *)

Lines(s) ==
  [i \in DOMAIN s |-> [by |-> s[i].by, num |-> IF IsChat(s[i]) THEN s[i].num ELSE 0]]

Ranges(s) ==
  [i \in DOMAIN s |-> IF IsChat(s[i]) THEN [lo |-> s[i].lo, hi |-> s[i].hi]
                                      ELSE [lo |-> 0, hi |-> 0]]

LEMMA LinesFacts ==
  ASSUME NEW s \in Seq(UpCells)
  PROVE  /\ DOMAIN Lines(s) = DOMAIN s /\ Len(Lines(s)) = Len(s)
         /\ \A i \in DOMAIN s : /\ Lines(s)[i].by = s[i].by
                                /\ IsChat(s[i]) => Lines(s)[i].num = s[i].num
                                /\ ~IsChat(s[i]) => Lines(s)[i].num = 0
  BY DEF Lines

LEMMA LinesExtend ==
  ASSUME NEW s \in Seq(UpCells), NEW t \in Seq(UpCells)
  PROVE  Room!Extends(Lines(s \o t), Lines(s))
<1>1. s \o t \in Seq(UpCells) /\ Len(s) <= Len(s \o t) /\ Len(s) \in Nat /\ DOMAIN s = 1..Len(s)
      /\ \A i \in DOMAIN s : i \in DOMAIN (s \o t) /\ (s \o t)[i] = s[i]
  OBVIOUS
<1> DEFINE a == Lines(s)
           b == Lines(s \o t)
           R == {[by |-> w.by, num |-> IF IsChat(w) THEN w.num ELSE 0] : w \in UpCells}
<1>2. a \in Seq(R) /\ b \in Seq(R) /\ Len(a) = Len(s) /\ Len(b) = Len(s \o t)
  <2>1. \A w \in Seq(UpCells) : Lines(w) \in Seq(R) /\ Len(Lines(w)) = Len(w)
    <3>1. SUFFICES ASSUME NEW w \in Seq(UpCells) PROVE Lines(w) \in Seq(R) /\ Len(Lines(w)) = Len(w)
      OBVIOUS
    <3>2. \A i \in DOMAIN w : w[i] \in UpCells
      OBVIOUS
    <3>3. \A i \in DOMAIN w : Lines(w)[i] \in R
      BY <3>2 DEF Lines
    <3>4. DOMAIN Lines(w) = 1..Len(w) /\ Len(w) \in Nat /\ Lines(w) = [i \in 1..Len(w) |-> Lines(w)[i]]
      BY DEF Lines
    <3> HIDE DEF R
    <3> QED
      BY <3>3, <3>4
  <2> QED
    BY <1>1, <2>1
<1>3. \A i \in 1..Len(s) : b[i] = a[i]
  BY <1>1 DEF Lines
<1> HIDE DEF a, b, R
<1>4. SubSeq(b, 1, Len(a)) = a
  BY <1>1, <1>2, <1>3
<1> QED
  BY <1>1, <1>2, <1>4 DEF Room!Extends, a, b

LEMMA RangesFacts ==
  ASSUME NEW s \in Seq(DownCells)
  PROVE  /\ DOMAIN Ranges(s) = DOMAIN s
         /\ \A i \in DOMAIN s :
              /\ IsChat(s[i]) => Ranges(s)[i].lo = s[i].lo /\ Ranges(s)[i].hi = s[i].hi
              /\ ~IsChat(s[i]) => Ranges(s)[i].lo = 0 /\ Ranges(s)[i].hi = 0
  BY DEF Ranges

LEMMA RangesExtend ==
  ASSUME NEW s \in Seq(DownCells), NEW t \in Seq(DownCells)
  PROVE  Room!Extends(Ranges(s \o t), Ranges(s))
<1>1. s \o t \in Seq(DownCells) /\ Len(s) <= Len(s \o t) /\ Len(s) \in Nat /\ DOMAIN s = 1..Len(s)
      /\ \A i \in DOMAIN s : i \in DOMAIN (s \o t) /\ (s \o t)[i] = s[i]
  OBVIOUS
<1> DEFINE a == Ranges(s)
           b == Ranges(s \o t)
           R == {IF IsChat(w) THEN [lo |-> w.lo, hi |-> w.hi] ELSE [lo |-> 0, hi |-> 0] :
                  w \in DownCells}
<1>2. a \in Seq(R) /\ b \in Seq(R) /\ Len(a) = Len(s) /\ Len(b) = Len(s \o t)
  <2>1. \A w \in Seq(DownCells) : Ranges(w) \in Seq(R) /\ Len(Ranges(w)) = Len(w)
    <3>1. SUFFICES ASSUME NEW w \in Seq(DownCells)
                   PROVE Ranges(w) \in Seq(R) /\ Len(Ranges(w)) = Len(w)
      OBVIOUS
    <3>2. \A i \in DOMAIN w : w[i] \in DownCells
      OBVIOUS
    <3>3. \A i \in DOMAIN w : Ranges(w)[i] \in R
      BY <3>2 DEF Ranges
    <3>4. DOMAIN Ranges(w) = 1..Len(w) /\ Len(w) \in Nat
          /\ Ranges(w) = [i \in 1..Len(w) |-> Ranges(w)[i]]
      BY DEF Ranges
    <3> HIDE DEF R
    <3> QED
      BY <3>3, <3>4
  <2> QED
    BY <1>1, <2>1
<1>3. \A i \in 1..Len(s) : b[i] = a[i]
  BY <1>1 DEF Ranges
<1> HIDE DEF a, b, R
<1>4. SubSeq(b, 1, Len(a)) = a
  BY <1>1, <1>2, <1>3
<1> QED
  BY <1>1, <1>2, <1>4 DEF Room!Extends, a, b

LEMMA ChainInOrder ==
  ASSUME NEW s \in Seq(UpCells), Chain(UpBefore, s)
  PROVE  Room!InOrder(Lines(s))
<1>1. SUFFICES ASSUME NEW i \in DOMAIN s, NEW j \in DOMAIN s, i < j,
                      Lines(s)[i].by = Lines(s)[j].by,
                      Lines(s)[i].num > 0, Lines(s)[j].num > 0
               PROVE  Lines(s)[i].num < Lines(s)[j].num
  BY LinesFacts DEF Room!InOrder
<1>2. IsChat(s[i]) /\ IsChat(s[j]) /\ s[i].by = s[j].by
  BY <1>1, LinesFacts
<1>3. s[i].num < s[j].num
  BY <1>1, <1>2 DEF Chain, UpBefore
<1> QED
  BY <1>2, <1>3, LinesFacts

LEMMA ChainIncreasing ==
  ASSUME NEW s \in Seq(DownCells), NEW n \in Nat, Chain(DownBefore, s), Fits(s, n)
  PROVE  Room!Increasing(Ranges(s)) /\ \A i \in DOMAIN Ranges(s) : Ranges(s)[i].hi <= n
<1>1. ASSUME NEW i \in DOMAIN s, NEW j \in DOMAIN s, i < j,
             Ranges(s)[i].lo > 0, Ranges(s)[j].lo > 0
      PROVE  Ranges(s)[i].hi < Ranges(s)[j].lo
  <2>1. IsChat(s[i]) /\ IsChat(s[j])
    BY <1>1, RangesFacts
  <2>2. s[i].hi < s[j].lo
    BY <1>1, <2>1 DEF Chain, DownBefore
  <2> QED
    BY <2>1, <2>2, RangesFacts
<1>2. ASSUME NEW i \in DOMAIN s PROVE Ranges(s)[i].hi <= n
  BY RangesFacts DEF Fits
<1> QED
  BY <1>1, <1>2, RangesFacts DEF Room!Increasing

LEMMA SpeakStep ==
  ASSUME TypeOK, UpInv', NEW t \in Seq(UpCells), conversation' = conversation \o t, shown' = shown
  PROVE  Room!Next
<1>1. conversation \in Seq(UpCells) /\ conversation' \in Seq(UpCells)
  BY ConcatFacts DEF TypeOK
<1>2. Room!Extends(Lines(conversation'), Lines(conversation))
  BY <1>1, LinesExtend
<1>3. Chain(UpBefore, conversation')
  BY DEF UpInv, Told
<1>4. Room!InOrder(Lines(conversation'))
  BY <1>1, <1>3, ChainInOrder
<1> QED
  BY <1>2, <1>4 DEF Room!Next, Room!Speak, Lines

LEMMA LookStep ==
  ASSUME TypeOK, DownInv', NEW c \in Clients, NEW a \in Seq(DownCells),
         shown' = [shown EXCEPT ![c] = @ \o a], conversation' = conversation
  PROVE  Room!Next
<1> DEFINE bar(f) == [d \in Clients |-> Ranges(f[d])]
<1>1. shown[c] \in Seq(DownCells) /\ shown'[c] = shown[c] \o a /\ shown'[c] \in Seq(DownCells)
      /\ Len(conversation) \in Nat
  BY ConcatFacts DEF TypeOK
<1>2. Room!Extends(bar(shown')[c], bar(shown)[c])
  BY <1>1, RangesExtend
<1>3. Chain(DownBefore, shown'[c]) /\ Fits(shown'[c], Len(conversation))
  BY DEF DownInv, Ordered
<1>4. /\ Room!Increasing(bar(shown')[c])
      /\ \A i \in DOMAIN bar(shown')[c] : bar(shown')[c][i].hi <= Len(conversation)
  BY <1>1, <1>3, ChainIncreasing
<1>5. bar(shown') = [bar(shown) EXCEPT ![c] = bar(shown')[c]]
  BY <1>1 DEF TypeOK
<1>6. Len(Lines(conversation)) = Len(conversation)
  BY LinesFacts DEF TypeOK
<1>7. Room!Look(c)
  BY <1>2, <1>4, <1>5, <1>6 DEF Room!Look, Lines, Ranges
<1> QED
  BY <1>7 DEF Room!Next

LEMMA RoomStep ==
  ASSUME TypeOK, UpInv', DownInv', [Next]_vars
  PROVE  [Room!Next]_(Room!roomVars)
<1>1. ASSUME UNCHANGED <<conversation, shown>> PROVE UNCHANGED Room!roomVars
  BY <1>1 DEF Room!roomVars
<1>2. ASSUME NEW c \in Clients, ReadFromServer(c) PROVE [Room!Next]_(Room!roomVars)
  <2>1. PICK l \in 0..Len(down[c]) :
             \/ shown' = [shown EXCEPT ![c] = @ \o SubSeq(down[c], 1, l)]
             \/ shown' = shown
    BY <1>2, ReadFromServerFacts
  <2>2. conversation' = conversation
    BY <1>2 DEF ReadFromServer, serverVars
  <2>3. SubSeq(down[c], 1, l) \in Seq(DownCells)
    BY DEF TypeOK
  <2> QED
    BY <1>1, <2>1, <2>2, <2>3, LookStep
<1>3. ASSUME NEW c \in Clients, ClientStep(c), ~ReadFromServer(c) PROVE UNCHANGED <<conversation, shown>>
  BY <1>3 DEF ClientStep, Say, Type, Ask, Leave, serverVars, clientVars
<1>4. ASSUME NEW c \in Clients, ThreadStep(c) \/ Accept(c) PROVE UNCHANGED <<conversation, shown>>
  BY <1>4 DEF ThreadStep, SignOn, Receive, LogOff, Accept, clientVars
<1>5. CASE Handle
  <2>1. shown' = shown /\ queue # <<>>
    BY <1>5, HandleCases, Zenon DEF clientVars
  <2>2. Head(queue).text \in Seq(UpCells)
    BY <2>1, QueueFacts
  <2>3. conversation' = conversation \/ conversation' = conversation \o Head(queue).text
    BY <1>5, HandleCases DEF HandleChat, HandleStatus, HandleAsk, Ignore, BadIndex
  <2> QED
    BY <1>1, <2>1, <2>2, <2>3, SpeakStep
<1>6. CASE Broadcast \/ UNCHANGED vars
  BY <1>1, <1>6 DEF Broadcast, vars, serverVars, clientVars
<1> QED
  BY <1>1, <1>2, <1>3, <1>4, <1>5, <1>6 DEF Next, MainStep

LEMMA RoomInit == Init => Room!Init
<1> SUFFICES ASSUME Init PROVE Room!Init
  OBVIOUS
<1>1. conversation = <<>> /\ \A c \in Clients : shown[c] = <<>>
  BY DEF Init
<1>2. [i \in DOMAIN <<>> |-> [by |-> conversation[i].by,
        num |-> IF IsChat(conversation[i]) THEN conversation[i].num ELSE 0]] = <<>>
  OBVIOUS
<1> QED
  BY <1>1, <1>2 DEF Room!Init

\* Whatever the sizes of reads, the clients and the server implement the chat room.
THEOREM RefinesChatroom == Safety => ImplementsChatroom
<1>1. Init => Room!Init
  BY RoomInit
<1>2. TypeOK /\ UpInv' /\ DownInv' /\ [Next]_vars => [Room!Next]_(Room!roomVars)
  BY RoomStep
<1> QED
  BY <1>1, <1>2, DeliveryTypes, UpIsOrdered, DownIsOrdered, PTL
  DEF Safety, ImplementsChatroom, Room!Spec
-----------------------------------------------------------------------------
(* What the server throws away and what a client misses.                   *)

SomeTyped == \E c \in Clients : typed[c] > 0
SomeGone == \E c \in Clients : stage[c] = "out"

\* Something may be on its way to d that is not a line.
Caused(d) == asked[d] \/ SomeTyped \/ SomeGone

UpCaused(m) == (m.kind = "ask" => asked[m.by]) /\ (m.kind = "status" => SomeTyped)
DownCaused(d, m) == m.kind \in {"chat", "uid"} \/ Caused(d)

CauseInv ==
  /\ \A c \in Clients : \A i \in DOMAIN up[c] : UpCaused(up[c][i])
  /\ \A i \in DOMAIN queue : UpCaused(queue[i].head)
  /\ out.kind = "status" => SomeTyped
  /\ \A d \in Clients : \A i \in DOMAIN down[d] : DownCaused(d, down[d][i])
  /\ missed = [d \in Clients |-> missed[d]]
  /\ MissesHaveCause

\* The user typed or asked, or said a line before he knew his uid.
Impatient(c) == typed[c] > 0 \/ asked[c] \/ (1 \in DOMAIN due[c] /\ c \notin due[c][1])

\* What is in the stream of a user: a zero is there because he could not wait.
Sent(c, m) ==
  /\ m.kind = "chat" => m.by = c /\ m.num \in DOMAIN due[c]
  /\ m.kind = "ask" => asked[c]
  /\ m.kind = "status" => typed[c] > 0
  /\ m.kind = "zero" => Impatient(c)

\* The server has not read the name yet.
Early == {"none", "slot"}

UpCell(c, i) ==
  /\ Sent(c, up[c][i])
  /\ up[c][i].kind = "name" => i = 1 /\ stage[c] \in Early

UidInv ==
  \A c \in Clients :
    /\ stage[c] \in Early => ~uid[c] /\ \A i \in DOMAIN down[c] : down[c][i].kind # "uid"
    /\ ~uid[c] => \A n \in DOMAIN due[c] : c \notin due[c][n]

LostOK(m) == m.by \in Clients /\ m.num \in DOMAIN due[m.by] /\ Impatient(m.by)

PatienceInv ==
  /\ \A c \in Clients : \A i \in DOMAIN up[c] : UpCell(c, i)
  /\ UidInv
  /\ \A m \in lost : LostOK(m)

\* Nothing that has been done is undone.
LEMMA DoneIsDone ==
  ASSUME TypeOK, [Next]_vars
  PROVE  \A c \in Clients :
           /\ asked[c] => asked'[c]
           /\ typed[c] > 0 => typed'[c] > 0
           /\ stage[c] = "out" => stage'[c] = "out"
           /\ \A n \in DOMAIN due[c] : n \in DOMAIN due'[c] /\ due'[c][n] = due[c][n]
<1> DEFINE Same == /\ \A c \in Clients : asked[c] => asked'[c]
                   /\ \A c \in Clients : typed[c] > 0 => typed'[c] > 0
                   /\ \A c \in Clients : stage[c] = "out" => stage'[c] = "out"
                   /\ \A c \in Clients : \A n \in DOMAIN due[c] :
                        n \in DOMAIN due'[c] /\ due'[c][n] = due[c][n]
<1>1. ASSUME NEW c \in Clients, Say(c) PROVE Same
  <2>1. due[c] \in Seq(SUBSET Clients) /\ due \in [Clients -> Seq(SUBSET Clients)]
    BY DEF TypeOK
  <2>2. due' = [due EXCEPT ![c] = Append(@, {d \in Clients : uid[d]})] /\ UNCHANGED <<asked, typed, stage>>
    BY <1>1 DEF Say, serverVars
  <2>3. \A d \in Clients : \A n \in DOMAIN due[d] : n \in DOMAIN due'[d] /\ due'[d][n] = due[d][n]
    BY <2>1, <2>2
  <2> QED
    BY <2>2, <2>3
<1>2. ASSUME NEW c \in Clients, Type(c) PROVE Same
  <2>1. typed \in [Clients -> 0..MaxTyped] /\ MaxTyped \in Nat
    BY BoundAssumption DEF TypeOK
  <2>2. typed' = [typed EXCEPT ![c] = @ + 1] /\ UNCHANGED <<asked, due, stage>>
    BY <1>2 DEF Type, serverVars
  <2> QED
    BY <2>1, <2>2
<1>3. ASSUME NEW c \in Clients, Ask(c) PROVE Same
  <2>1. asked' = [asked EXCEPT ![c] = TRUE] /\ UNCHANGED <<typed, due, stage>>
    BY <1>3 DEF Ask, serverVars
  <2>2. \A d \in Clients : asked[d] => asked'[d]
    BY <2>1, Zenon DEF TypeOK
  <2> QED
    BY <2>1, <2>2
<1>4. ASSUME NEW c \in Clients, ReadFromServer(c) \/ Leave(c) \/ Receive(c) PROVE Same
  BY <1>4 DEF ReadFromServer, Leave, Receive, serverVars, userVars
<1>5. ASSUME NEW c \in Clients, Accept(c) \/ SignOn(c) \/ LogOff(c) PROVE Same
  <2>1. stage[c] # "out" /\ (\E v \in {"slot", "on", "out"} : stage' = [stage EXCEPT ![c] = v])
        /\ UNCHANGED userVars
    BY <1>5 DEF Accept, SignOn, LogOff
  <2>2. \A d \in Clients : stage[d] = "out" => stage'[d] = "out"
    BY <2>1 DEF TypeOK
  <2> QED
    BY <2>1, <2>2 DEF userVars
<1>6. CASE Handle \/ Broadcast \/ UNCHANGED vars
  BY <1>6 DEF Handle, Broadcast, vars, serverVars, userVars
<1>7. Same
  BY <1>1, <1>2, <1>3, <1>4, <1>5, <1>6 DEF Next, ClientStep, ThreadStep, MainStep
<1> QED
  BY <1>7

LEMMA CausedStays ==
  ASSUME TypeOK, [Next]_vars
  PROVE  /\ SomeTyped => SomeTyped'
         /\ \A d \in Clients : Caused(d) => Caused(d)'
         /\ \A m \in UpCells : UpCaused(m) => UpCaused(m)'
<1>1. SomeTyped => SomeTyped'
  BY DoneIsDone DEF SomeTyped
<1>2. SomeGone => SomeGone'
  BY DoneIsDone DEF SomeGone
<1>3. \A d \in Clients : asked[d] => asked'[d]
  BY DoneIsDone
<1>4. \A d \in Clients : Caused(d) => Caused(d)'
  BY <1>1, <1>2, <1>3, Zenon DEF Caused
<1>5. \A m \in UpCells : UpCaused(m) => UpCaused(m)'
  BY <1>1, <1>3, UpCellFacts DEF UpCaused
<1> QED
  BY <1>1, <1>4, <1>5

\* A step keeps the causes if whatever it adds anywhere was there before, or is
\* caused now.
LEMMA CauseStep ==
  ASSUME TypeOK, CauseInv, [Next]_vars,
         \A c \in Clients : \A i \in DOMAIN up'[c] :
           \/ \E j \in DOMAIN up[c] : up'[c][i] = up[c][j]
           \/ up'[c][i].kind \in {"chat", "zero"}
           \/ up'[c][i].kind = "ask" /\ asked'[up'[c][i].by]
           \/ up'[c][i].kind = "status" /\ SomeTyped',
         \A i \in DOMAIN queue' :
           \/ \E j \in DOMAIN queue : queue'[i].head = queue[j].head
           \/ \E c \in Clients : \E j \in DOMAIN up[c] : queue'[i].head = up[c][j],
         out'.kind = "status" =>
           out' = out \/ \E j \in DOMAIN queue : out' = queue[j].head,
         \A d \in Clients : \A i \in DOMAIN down'[d] :
           \/ \E j \in DOMAIN down[d] : down'[d][i] = down[d][j]
           \/ down'[d][i].kind \in {"chat", "uid"}
           \/ Caused(d)',
         missed' = [d \in Clients |-> missed'[d]],
         \A d \in Clients : \A m \in missed'[d] :
           m \in missed[d] \/ m[1] = "uid" \/ Caused(d)
  PROVE  CauseInv'
<1>1. \A c \in Clients : up[c] \in Seq(UpCells) /\ \A j \in DOMAIN up[c] : up[c][j] \in UpCells /\ UpCaused(up[c][j])
  BY DEF TypeOK, CauseInv
<1>2. \A j \in DOMAIN queue : queue[j].head \in UpCells /\ UpCaused(queue[j].head)
  <2> DEFINE T == [head : UpCells, text : Seq(UpCells)]
  <2>1. queue \in Seq(T) /\ \A m \in T : m.head \in UpCells
    BY DEF TypeOK
  <2> HIDE DEF T
  <2>2. \A j \in DOMAIN queue : queue[j].head \in UpCells
    BY <2>1
  <2> QED
    BY <2>2 DEF CauseInv
<1>3. /\ SomeTyped => SomeTyped'
      /\ \A d \in Clients : Caused(d) => Caused(d)'
      /\ \A m \in UpCells : UpCaused(m) => UpCaused(m)'
  BY CausedStays
<1>4. ASSUME NEW c \in Clients, NEW i \in DOMAIN up'[c] PROVE UpCaused(up[c][i])'
  <2>1. ASSUME NEW j \in DOMAIN up[c], up'[c][i] = up[c][j] PROVE UpCaused(up[c][i])'
    <3>1. UpCaused(up[c][j]) /\ up[c][j] \in UpCells
      BY <1>1
    <3> DEFINE m == up[c][j]
    <3>2. UpCaused(m) /\ m \in UpCells /\ up'[c][i] = m
      BY <2>1, <3>1
    <3> HIDE DEF m
    <3>3. (m.kind = "ask" => asked'[m.by]) /\ (m.kind = "status" => SomeTyped')
      BY <1>3, <3>2 DEF UpCaused
    <3> QED
      BY <3>2, <3>3 DEF UpCaused
  <2>2. CASE \/ up'[c][i].kind \in {"chat", "zero"}
             \/ up'[c][i].kind = "ask" /\ asked'[up'[c][i].by]
             \/ up'[c][i].kind = "status" /\ SomeTyped'
    BY <2>2 DEF UpCaused
  <2> QED
    BY <1>4, <2>1, <2>2
<1>5. ASSUME NEW i \in DOMAIN queue' PROVE UpCaused(queue[i].head)'
  <2>1. PICK m \in UpCells : queue'[i].head = m /\ UpCaused(m)
    BY <1>1, <1>2, <1>5
  <2>2. (m.kind = "ask" => asked'[m.by]) /\ (m.kind = "status" => SomeTyped')
    BY <1>3, <2>1 DEF UpCaused
  <2> QED
    BY <2>1, <2>2 DEF UpCaused
<1>6. out'.kind = "status" => SomeTyped'
  BY <1>2, <1>3 DEF CauseInv, UpCaused
<1>7. ASSUME NEW d \in Clients, NEW i \in DOMAIN down'[d] PROVE DownCaused(d, down[d][i])'
  BY <1>3, <1>7 DEF CauseInv, DownCaused
<1>8. MissesHaveCause'
  <2>1. ASSUME NEW d \in Clients, NEW m \in missed'[d] PROVE m[1] = "uid" \/ Caused(d)'
    BY <1>3, <2>1 DEF CauseInv, MissesHaveCause, Caused, SomeTyped, SomeGone
  <2> QED
    BY <2>1 DEF MissesHaveCause, Caused, SomeTyped, SomeGone
<1> QED
  BY <1>4, <1>5, <1>6, <1>7, <1>8 DEF CauseInv

\* Where cells that are appended or left over come from.
LEMMA SendCells ==
  ASSUME TypeOK, NEW c \in Clients, NEW s \in Seq(UpCells), Send(c, s)
  PROVE  \A d \in Clients : \A i \in DOMAIN up'[d] :
           \/ i \in DOMAIN up[d] /\ up'[d][i] = up[d][i]
           \/ d = c /\ (\E j \in DOMAIN s : up'[d][i] = s[j]) /\ (up[c] # <<>> => i # 1)
<1> SUFFICES ASSUME NEW d \in Clients, NEW i \in DOMAIN up'[d]
             PROVE  \/ i \in DOMAIN up[d] /\ up'[d][i] = up[d][i]
                    \/ d = c /\ (\E j \in DOMAIN s : up'[d][i] = s[j]) /\ (up[c] # <<>> => i # 1)
  OBVIOUS
<1>1. up[c] \in Seq(UpCells) /\ up \in [Clients -> Seq(UpCells)]
  BY DEF TypeOK
<1>2. up' = [up EXCEPT ![c] = @ \o s]
  BY DEF Send
<1>3. CASE d = c
  <2> DEFINE t == up[c] \o s
  <2>1. up'[d] = t
    BY <1>1, <1>2, <1>3
  <2>2. \/ i \in DOMAIN up[c] /\ t[i] = up[c][i]
        \/ i - Len(up[c]) \in DOMAIN s /\ i > Len(up[c]) /\ t[i] = s[i - Len(up[c])]
    BY <1>1, <2>1, ConcatFacts
  <2>3. up[c] # <<>> /\ i > Len(up[c]) => i # 1
    BY <1>1
  <2> HIDE DEF t
  <2> QED
    BY <1>3, <2>1, <2>2, <2>3
<1>4. CASE d # c
  BY <1>1, <1>2, <1>4
<1> QED
  BY <1>3, <1>4

LEMMA WriteCells ==
  ASSUME TypeOK, NEW c \in Clients, NEW s \in Seq(DownCells), WriteTo(c, s)
  PROVE  \A d \in Clients : \A i \in DOMAIN down'[d] :
           \/ i \in DOMAIN down[d] /\ down'[d][i] = down[d][i]
           \/ d = c /\ \E j \in DOMAIN s : down'[d][i] = s[j]
<1> SUFFICES ASSUME NEW d \in Clients, NEW i \in DOMAIN down'[d]
             PROVE  \/ i \in DOMAIN down[d] /\ down'[d][i] = down[d][i]
                    \/ d = c /\ \E j \in DOMAIN s : down'[d][i] = s[j]
  OBVIOUS
<1>1. down[c] \in Seq(DownCells) /\ down \in [Clients -> Seq(DownCells)]
  BY DEF TypeOK
<1>2. down' = [down EXCEPT ![c] = IF open[c] THEN @ \o s ELSE @]
  BY DEF WriteTo
<1>3. CASE d = c /\ open[c]
  <2> DEFINE t == down[c] \o s
  <2>1. down'[d] = t
    BY <1>1, <1>2, <1>3
  <2>2. \/ i \in DOMAIN down[c] /\ t[i] = down[c][i]
        \/ i - Len(down[c]) \in DOMAIN s /\ t[i] = s[i - Len(down[c])]
    BY <1>1, <2>1, ConcatFacts
  <2> HIDE DEF t
  <2> QED
    BY <1>3, <2>1, <2>2
<1>4. CASE ~(d = c /\ open[c])
  <2>1. down'[d] = down[d]
    BY <1>1, <1>2, <1>4
  <2> QED
    BY <2>1
<1> QED
  BY <1>3, <1>4

LEMMA SayCauses == ASSUME TypeOK, CauseInv, NEW c \in Clients, Say(c) PROVE CauseInv'
<1> DEFINE m == [kind |-> "chat", by |-> c, known |-> uid[c], num |-> Len(due'[c])]
<1>1. Send(c, <<m>>) /\ UNCHANGED <<queue, out, down, missed>> /\ m.kind = "chat"
  BY DEF Say, serverVars, clientVars
<1>2. up' \in [Clients -> Seq(UpCells)] /\ up \in [Clients -> Seq(UpCells)]
  BY SayType DEF TypeOK
<1>3. \A d \in Clients : \A i \in DOMAIN up'[d] :
        (\E j \in DOMAIN up[d] : up'[d][i] = up[d][j]) \/ up'[d][i].kind \in {"chat", "zero"}
  <2>1. m \in UpCells
    <3>1. m \in [kind : {"chat"}, by : Clients, known : BOOLEAN, num : 1..MaxSaid]
      <4>1. Len(due'[c]) \in 1..MaxSaid
        BY BoundAssumption DEF Say, TypeOK
      <4>2. uid[c] \in BOOLEAN
        BY Zenon DEF TypeOK
      <4> QED
        BY <4>1, <4>2, Zenon
    <3> QED
      BY <3>1 DEF UpCells
  <2> HIDE DEF m
  <2> DEFINE s == <<m>>
  <2>2. s \in Seq(UpCells) /\ (\A j \in DOMAIN s : s[j] = m) /\ Send(c, s)
    BY <1>1, <2>1
  <2> HIDE DEF s
  <2>3. \A d \in Clients : \A i \in DOMAIN up'[d] :
           (i \in DOMAIN up[d] /\ up'[d][i] = up[d][i]) \/ up'[d][i] = m
    BY <2>2, SendCells
  <2> QED
    BY <1>1, <2>3
<1> HIDE DEF m
<1>4. [Next]_vars
  BY DEF Next, ClientStep
<1>missed. missed = [d \in Clients |-> missed[d]]
  BY DEF CauseInv
<1> QED
  BY <1>1, <1>3, <1>4, <1>missed, CauseStep

LEMMA TypeCauses == ASSUME TypeOK, CauseInv, NEW c \in Clients, Type(c) PROVE CauseInv'
<1> DEFINE m == [kind |-> "status", by |-> c, num |-> typed'[c]]
<1>1. Send(c, Filled(m, Half)) /\ UNCHANGED <<queue, out, down, missed>>
  BY DEF Type, serverVars, clientVars
<1>2. typed' \in [Clients -> 0..MaxTyped] /\ typed'[c] \in 1..MaxTyped
  BY BoundAssumption DEF Type, TypeOK
<1>3. m \in UpCells /\ Zero \in UpCells /\ m.kind = "status" /\ Zero.kind = "zero"
  BY <1>2 DEF UpCells, Zero
<1>4. SomeTyped'
  BY <1>2 DEF SomeTyped
<1> HIDE DEF m
<1>5. Filled(m, Half) \in Seq(UpCells) /\ \A j \in DOMAIN Filled(m, Half) : Filled(m, Half)[j] \in {m, Zero}
  BY <1>3, FilledFacts, SizeAssumption
<1>6. \A d \in Clients : \A i \in DOMAIN up'[d] :
        (i \in DOMAIN up[d] /\ up'[d][i] = up[d][i]) \/ up'[d][i] \in {m, Zero}
  BY <1>1, <1>5, SendCells
<1>7. [Next]_vars
  BY DEF Next, ClientStep
<1>8. \A d \in Clients : \A i \in DOMAIN up'[d] :
        \/ \E j \in DOMAIN up[d] : up'[d][i] = up[d][j]
        \/ up'[d][i].kind \in {"chat", "zero"}
        \/ up'[d][i].kind = "status" /\ SomeTyped'
  BY <1>3, <1>4, <1>6
<1>missed. missed = [d \in Clients |-> missed[d]]
  BY DEF CauseInv
<1> QED
  BY <1>1, <1>7, <1>8, <1>missed, CauseStep

LEMMA AskCauses == ASSUME TypeOK, CauseInv, NEW c \in Clients, Ask(c) PROVE CauseInv'
<1> DEFINE m == [kind |-> "ask", by |-> c, known |-> uid[c]]
<1>1. Send(c, <<m>>) /\ UNCHANGED <<queue, out, down, missed>> /\ m.kind = "ask" /\ m.by = c
  BY DEF Ask, serverVars, clientVars
<1>2. asked'[c]
  BY Zenon DEF Ask, TypeOK
<1>3. m \in UpCells
  <2>1. uid[c] \in BOOLEAN
    BY Zenon DEF TypeOK
  <2>2. m \in [kind : {"ask"}, by : Clients, known : BOOLEAN]
    BY <2>1, Zenon
  <2> QED
    BY <2>2 DEF UpCells
<1> HIDE DEF m
<1> DEFINE s == <<m>>
<1>4. s \in Seq(UpCells) /\ (\A j \in DOMAIN s : s[j] = m) /\ Send(c, s)
  BY <1>1, <1>3
<1> HIDE DEF s
<1>5. \A d \in Clients : \A i \in DOMAIN up'[d] :
        (i \in DOMAIN up[d] /\ up'[d][i] = up[d][i]) \/ up'[d][i] = m
  BY <1>4, SendCells
<1>6. \A d \in Clients : \A i \in DOMAIN up'[d] :
        \/ \E j \in DOMAIN up[d] : up'[d][i] = up[d][j]
        \/ up'[d][i].kind = "ask" /\ asked'[up'[d][i].by]
  BY <1>1, <1>2, <1>5
<1>7. [Next]_vars
  BY DEF Next, ClientStep
<1>missed. missed = [d \in Clients |-> missed[d]]
  BY DEF CauseInv
<1> QED
  BY <1>1, <1>6, <1>7, <1>missed, CauseStep

\* A line is missed behind a message that is no line, or behind a zero.
LEMMA ReadCauses == ASSUME TypeOK, CauseInv, NEW c \in Clients, ReadFromServer(c) PROVE CauseInv'
<1>1. PICK k \in ReadSizes(down[c], Half) : ReadFromServer(c)!2!(k)
  BY DEF ReadFromServer
<1> DEFINE s == SubSeq(down[c], 1, k)
           text == SubSeq(s, 1, TextLength(s))
           toTranscript == s[1].kind \in {"chat", "notice"}
           behind == {j \in DOMAIN s : IsChat(s[j]) /\ ~(toTranscript /\ j <= Len(text))}
<1>2. /\ down' = [down EXCEPT ![c] = Rest(@, k)]
      /\ missed' = [missed EXCEPT ![c] = @ \cup {<<s[1].kind, s[i].lo>> : i \in behind}]
  BY <1>1
<1>3. /\ down[c] \in Seq(DownCells) /\ down \in [Clients -> Seq(DownCells)]
      /\ missed = [d \in Clients |-> missed[d]]
  BY DEF TypeOK, CauseInv
<1>4. /\ s \in Seq(DownCells) /\ Len(s) = k /\ k \in 1..Len(down[c])
      /\ \A i \in DOMAIN s : i \in DOMAIN down[c] /\ s[i] = down[c][i]
  BY <1>3, ReadFacts DEF ReadSizes
<1>5. /\ TextLength(s) \in 0..Len(s) /\ Len(text) = TextLength(s)
      /\ TextLength(s) < Len(s) => s[TextLength(s) + 1].kind = "zero"
  <2> DEFINE l == TextLength(s)
  <2>1. l \in 0..Len(s) /\ (l < Len(s) => s[l + 1].kind = "zero") /\ s \in Seq(DownCells)
    BY <1>4, TextLengthFacts
  <2> HIDE DEF l, s
  <2>2. Len(SubSeq(s, 1, l)) = l
    BY <2>1
  <2> QED
    BY <2>1, <2>2 DEF l
<1>6. \A i \in DOMAIN s : DownCaused(c, s[i])
  BY <1>4 DEF CauseInv
<1>7. ASSUME NEW j \in behind PROVE s[1].kind = "uid" \/ Caused(c)
  <2>1. j \in DOMAIN s /\ IsChat(s[j]) /\ ~(toTranscript /\ j <= Len(text))
    BY <1>7
  <2> HIDE DEF s, text, behind
  <2>2. 1 \in DOMAIN s
    BY <1>4
  <2>3. CASE s[1].kind # "chat"
    BY <1>6, <2>2, <2>3 DEF DownCaused
  <2>4. CASE s[1].kind = "chat"
    <3>1. TextLength(s) < Len(s) /\ TextLength(s) + 1 \in DOMAIN s
      BY <1>4, <1>5, <2>1, <2>4
    <3>2. s[TextLength(s) + 1].kind = "zero"
      BY <1>5, <3>1
    <3> QED
      BY <1>6, <3>1, <3>2 DEF DownCaused
  <2> QED
    BY <2>3, <2>4
<1>8. \A d \in Clients : \A m \in missed'[d] : m \in missed[d] \/ m[1] = "uid" \/ Caused(d)
  <2> SUFFICES ASSUME NEW d \in Clients, NEW m \in missed'[d], m \notin missed[d]
               PROVE  m[1] = "uid" \/ Caused(d)
    OBVIOUS
  <2>1. d = c /\ m \in {<<s[1].kind, s[i].lo>> : i \in behind}
    BY <1>2, <1>3
  <2>2. PICK i \in behind : m = <<s[1].kind, s[i].lo>>
    BY <2>1
  <2> HIDE DEF s, behind
  <2>3. m[1] = s[1].kind
    BY <2>2
  <2> QED
    BY <1>7, <2>1, <2>2, <2>3
<1>9. \A d \in Clients : \A i \in DOMAIN down'[d] : \E j \in DOMAIN down[d] : down'[d][i] = down[d][j]
  <2> SUFFICES ASSUME NEW d \in Clients, NEW i \in DOMAIN down'[d]
               PROVE  \E j \in DOMAIN down[d] : down'[d][i] = down[d][j]
    OBVIOUS
  <2>1. CASE d = c
    <3>1. down'[d] = SubSeq(down[c], k + 1, Len(down[c]))
      BY <1>2, <1>3, <2>1 DEF Rest
    <3>2. i + k \in DOMAIN down[c] /\ down'[d][i] = down[c][i + k]
      BY <1>3, <1>4, <3>1
    <3> QED
      BY <2>1, <3>2
  <2>2. CASE d # c
    <3>1. down'[d] = down[d]
      BY <1>2, <1>3, <2>2
    <3> QED
      BY <3>1
  <2> QED
    BY <2>1, <2>2
<1> HIDE DEF s, text, behind
<1>10. [Next]_vars /\ UNCHANGED <<up, queue, out>>
  BY DEF Next, ClientStep, ReadFromServer, serverVars
<1>11. missed' = [d \in Clients |-> missed'[d]]
  BY <1>2, <1>3
<1> QED
  BY <1>8, <1>9, <1>10, <1>11, CauseStep

LEMMA LeaveCauses == ASSUME TypeOK, CauseInv, NEW c \in Clients, Leave(c) PROVE CauseInv'
<1>1. down' = [down EXCEPT ![c] = <<>>] /\ UNCHANGED <<up, queue, out, missed>>
  BY DEF Leave, serverVars
<1>2. \A d \in Clients : \A i \in DOMAIN down'[d] : i \in DOMAIN down[d] /\ down'[d][i] = down[d][i]
  BY <1>1 DEF TypeOK
<1>3. [Next]_vars
  BY DEF Next, ClientStep
<1>missed. missed = [d \in Clients |-> missed[d]]
  BY DEF CauseInv
<1> QED
  BY <1>1, <1>2, <1>3, <1>missed, CauseStep

LEMMA AcceptCauses == ASSUME TypeOK, CauseInv, NEW c \in Clients, Accept(c) PROVE CauseInv'
<1>1. UNCHANGED <<up, queue, out, missed, down>> /\ [Next]_vars
  BY DEF Accept, clientVars, Next
<1>missed. missed = [d \in Clients |-> missed[d]]
  BY DEF CauseInv
<1> QED
  BY <1>1, <1>missed, CauseStep

\* What the thread leaves of a stream, with a zero before it or not.
LEMMA SignOnCells ==
  ASSUME TypeOK, NEW c \in Clients, SignOn(c)
  PROVE  \E k \in DOMAIN up[c], cut \in BOOLEAN :
           /\ cut => k > 1
           /\ \A d \in Clients : \A i \in DOMAIN up'[d] :
                \/ d # c /\ i \in DOMAIN up[d] /\ up'[d][i] = up[d][i]
                \/ d = c /\ \E j \in DOMAIN up[c] : j > k /\ up'[d][i] = up[c][j]
                \/ d = c /\ cut /\ up'[d][i] = Zero
           /\ lost' = lost \cup ChatsIn(SubSeq(up[c], 1, k))
<1>1. PICK k \in DOMAIN up[c], cut \in BOOLEAN :
        /\ cut => k > 1
        /\ up' = [up EXCEPT ![c] = (IF cut THEN <<Zero>> ELSE <<>>) \o Rest(@, k)]
        /\ lost' = lost \cup ChatsIn(SubSeq(up[c], 1, k))
  BY DEF SignOn
<1>2. up[c] \in Seq(UpCells) /\ up \in [Clients -> Seq(UpCells)] /\ k \in 0..Len(up[c])
  BY DEF TypeOK
<1> DEFINE z == IF cut THEN <<Zero>> ELSE <<>>
           r == SubSeq(up[c], k + 1, Len(up[c]))
<1>3. z \in Seq(UpCells) /\ \A j \in DOMAIN z : cut /\ z[j] = Zero
  <2>1. Zero \in UpCells
    BY DEF UpCells
  <2>2. CASE cut
    BY <2>1, <2>2
  <2>3. CASE ~cut
    BY <2>3
  <2> QED
    BY <2>2, <2>3
<1>4. r \in Seq(UpCells) /\ \A j \in DOMAIN r : j + k \in DOMAIN up[c] /\ j + k > k /\ r[j] = up[c][j + k]
  BY <1>2
<1>5. \A d \in Clients : up'[d] = IF d = c THEN z \o r ELSE up[d]
  BY <1>1, <1>2 DEF Rest
<1> HIDE DEF z, r
<1>6. \A i \in DOMAIN (z \o r) :
        \/ \E j \in DOMAIN up[c] : j > k /\ (z \o r)[i] = up[c][j]
        \/ cut /\ (z \o r)[i] = Zero
  <2> SUFFICES ASSUME NEW i \in DOMAIN (z \o r)
               PROVE  \/ \E j \in DOMAIN up[c] : j > k /\ (z \o r)[i] = up[c][j]
                      \/ cut /\ (z \o r)[i] = Zero
    OBVIOUS
  <2>1. \/ i \in DOMAIN z /\ (z \o r)[i] = z[i]
        \/ i - Len(z) \in DOMAIN r /\ (z \o r)[i] = r[i - Len(z)]
    BY <1>3, <1>4, ConcatFacts
  <2> QED
    BY <1>3, <1>4, <2>1
<1>7. \A d \in Clients : \A i \in DOMAIN up'[d] :
        \/ d # c /\ i \in DOMAIN up[d] /\ up'[d][i] = up[d][i]
        \/ d = c /\ \E j \in DOMAIN up[c] : j > k /\ up'[d][i] = up[c][j]
        \/ d = c /\ cut /\ up'[d][i] = Zero
  BY <1>5, <1>6
<1> QED
  BY <1>1, <1>7, Zenon

LEMMA SignOnCauses == ASSUME TypeOK, CauseInv, NEW c \in Clients, SignOn(c) PROVE CauseInv'
<1>1. WriteTo(c, <<Uid>>) /\ UNCHANGED <<queue, out, missed>> /\ [Next]_vars
  BY DEF SignOn, clientVars, Next, ThreadStep
<1>2. \A d \in Clients : \A i \in DOMAIN up'[d] :
        (\E j \in DOMAIN up[d] : up'[d][i] = up[d][j]) \/ up'[d][i] = Zero
  BY SignOnCells
<1> DEFINE s == <<Uid>>
<1>3. s \in Seq(DownCells) /\ (\A j \in DOMAIN s : s[j] = Uid) /\ WriteTo(c, s)
  BY <1>1 DEF DownCells
<1> HIDE DEF s
<1>4. \A d \in Clients : \A i \in DOMAIN down'[d] :
        (\E j \in DOMAIN down[d] : down'[d][i] = down[d][j]) \/ down'[d][i] = Uid
  BY <1>3, WriteCells
<1>5. Uid.kind = "uid" /\ Zero.kind = "zero"
  BY DEF Uid, Zero
<1>missed. missed = [d \in Clients |-> missed[d]]
  BY DEF CauseInv
<1> QED
  BY <1>1, <1>2, <1>4, <1>5, <1>missed, CauseStep

\* One read of the server: what is left, what is understood, and what is lost
\* behind the first zero, or behind what is no line.
LEMMA ReceiveCells ==
  ASSUME TypeOK, NEW c \in Clients, Receive(c)
  PROVE  /\ \A d \in Clients : \A i \in DOMAIN up'[d] :
              \/ d # c /\ i \in DOMAIN up[d] /\ up'[d][i] = up[d][i]
              \/ d = c /\ \E j \in DOMAIN up[c] : j > 1 /\ up'[d][i] = up[c][j]
         /\ 1 \in DOMAIN up[c]
         /\ \A i \in DOMAIN queue' :
              \/ i \in DOMAIN queue /\ queue'[i] = queue[i]
              \/ queue'[i].head = up[c][1]
<1>1. PICK k \in 1..Len(up[c]), l \in 0..Len(up[c]) :
           /\ up' = [up EXCEPT ![c] = SubSeq(@, k + 1, Len(@))]
           /\ queue' = Append(queue, [head |-> up[c][1], text |-> SubSeq(up[c], 1, l)])
  BY ReceiveFacts, Zenon
<1>2. up[c] \in Seq(UpCells) /\ up \in [Clients -> Seq(UpCells)]
      /\ queue \in Seq([head : UpCells, text : Seq(UpCells)])
  BY DEF TypeOK
<1>3. ASSUME NEW d \in Clients, NEW i \in DOMAIN up'[d]
      PROVE  \/ d # c /\ i \in DOMAIN up[d] /\ up'[d][i] = up[d][i]
             \/ d = c /\ \E j \in DOMAIN up[c] : j > 1 /\ up'[d][i] = up[c][j]
  <2>1. CASE d = c
    <3>1. up'[d] = SubSeq(up[c], k + 1, Len(up[c]))
      BY <1>1, <1>2, <2>1
    <3>2. i + k \in DOMAIN up[c] /\ i + k > 1 /\ up'[d][i] = up[c][i + k]
      BY <1>2, <1>3, <3>1
    <3> QED
      BY <2>1, <3>2
  <2>2. CASE d # c
    <3>1. up'[d] = up[d]
      BY <1>1, <1>2, <2>2
    <3> QED
      BY <1>3, <2>2, <3>1
  <2> QED
    BY <2>1, <2>2
<1> DEFINE m == [head |-> up[c][1], text |-> SubSeq(up[c], 1, l)]
<1>4. m.head = up[c][1] /\ queue' = Append(queue, m)
  BY <1>1
<1> HIDE DEF m
<1>5. ASSUME NEW i \in DOMAIN queue'
      PROVE  (i \in DOMAIN queue /\ queue'[i] = queue[i]) \/ queue'[i].head = up[c][1]
  <2>1. (i \in DOMAIN queue /\ queue'[i] = queue[i]) \/ queue'[i] = m
    BY <1>2, <1>4, <1>5
  <2> QED
    BY <1>4, <2>1
<1>6. 1 \in DOMAIN up[c]
  BY <1>2
<1> QED
  BY <1>3, <1>5, <1>6

LEMMA ReceiveCauses == ASSUME TypeOK, CauseInv, NEW c \in Clients, Receive(c) PROVE CauseInv'
<1>1. UNCHANGED <<out, down, missed>> /\ [Next]_vars
  BY DEF Receive, clientVars, Next, ThreadStep
<1>2. \A d \in Clients : \A i \in DOMAIN up'[d] : \E j \in DOMAIN up[d] : up'[d][i] = up[d][j]
  BY ReceiveCells
<1>3. \A i \in DOMAIN queue' :
        \/ \E j \in DOMAIN queue : queue'[i].head = queue[j].head
        \/ \E d \in Clients : \E j \in DOMAIN up[d] : queue'[i].head = up[d][j]
  BY ReceiveCells
<1>missed. missed = [d \in Clients |-> missed[d]]
  BY DEF CauseInv
<1> QED
  BY <1>1, <1>2, <1>3, <1>missed, CauseStep

LEMMA AnswerFacts ==
  ASSUME NEW m \in DownCells
  PROVE  /\ Filled(m, 2 * Half) \in Seq(DownCells)
         /\ \A j \in DOMAIN Filled(m, 2 * Half) : Filled(m, 2 * Half)[j] \in {m, Zero}
<1>1. Zero \in DownCells /\ 2 * Half \in Nat \ {0}
  BY SizeAssumption DEF DownCells
<1> QED
  BY <1>1, FilledFacts

LEMMA LogOffCauses == ASSUME TypeOK, CauseInv, NEW c \in Clients, LogOff(c) PROVE CauseInv'
<1>1. UNCHANGED <<up, queue, out, missed>> /\ [Next]_vars
  BY DEF LogOff, clientVars, Next, ThreadStep
<1>2. SomeGone'
  <2>1. stage'[c] = "out"
    BY DEF LogOff, TypeOK
  <2> QED
    BY <2>1 DEF SomeGone
<1>3. \A d \in Clients : Caused(d)'
  BY <1>2 DEF Caused
<1>missed. missed = [d \in Clients |-> missed[d]]
  BY DEF CauseInv
<1> QED
  BY <1>1, <1>3, <1>missed, CauseStep

LEMMA HandleCauses == ASSUME TypeOK, CauseInv, Handle PROVE CauseInv'
<1>1. UNCHANGED <<up, missed, asked>> /\ [Next]_vars /\ queue # <<>>
  BY DEF Handle, clientVars, userVars, Next, MainStep
<1> DEFINE m == Head(queue)
<1>2. 1 \in DOMAIN queue /\ m = queue[1] /\ m.head \in UpCells
      /\ \A k \in DOMAIN Tail(queue) : k + 1 \in DOMAIN queue /\ Tail(queue)[k] = queue[k + 1]
  BY <1>1, QueueFacts
<1>3. \/ UNCHANGED <<queue, out, down>>
      \/ /\ queue' = Tail(queue)
         /\ \/ out'.kind = "chat" /\ down' = down
            \/ out' = m.head /\ down' = down
            \/ /\ m.head.kind = "ask" /\ m.head.by \in Clients /\ out' = out
               /\ WriteTo(m.head.by, Filled(Answer, 2 * Half))
            \/ out' = out /\ down' = down
  <2>1. CASE BadIndex
    BY <2>1 DEF BadIndex
  <2>2. CASE queue' = Tail(queue) /\ HandleChat(m)
    <3>1. out'.kind = "chat" /\ down' = down
      BY <2>2 DEF HandleChat
    <3> QED
      BY <2>2, <3>1
  <2>3. CASE queue' = Tail(queue) /\ HandleStatus(m)
    BY <2>3 DEF HandleStatus
  <2>4. CASE /\ queue' = Tail(queue) /\ m.head.kind = "ask" /\ m.head.by \in Clients
             /\ HandleAsk(m)
    BY <2>4 DEF HandleAsk
  <2>5. CASE queue' = Tail(queue) /\ Ignore
    BY <2>5 DEF Ignore
  <2>6. m.head.kind = "ask" => m.head.by \in Clients
    BY <1>2 DEF UpCells, Zero, Name
  <2> QED
    BY <2>1, <2>2, <2>3, <2>4, <2>5, <2>6, HandleCases
<1>4. UpCaused(m.head)
  BY <1>2 DEF CauseInv
<1> HIDE DEF m
<1>5. \A i \in DOMAIN queue' : \E j \in DOMAIN queue : queue'[i].head = queue[j].head
  BY <1>2, <1>3
<1>6. out'.kind = "status" => out' = out \/ \E j \in DOMAIN queue : out' = queue[j].head
  BY <1>2, <1>3
<1>7. \A d \in Clients : \A i \in DOMAIN down'[d] :
        (\E j \in DOMAIN down[d] : down'[d][i] = down[d][j]) \/ Caused(d)'
  <2>1. CASE down' = down
    BY <2>1
  <2>2. CASE /\ m.head.kind = "ask" /\ m.head.by \in Clients
             /\ WriteTo(m.head.by, Filled(Answer, 2 * Half))
    <3>1. Answer \in DownCells
      BY DEF DownCells
    <3>2. Filled(Answer, 2 * Half) \in Seq(DownCells)
      BY <3>1, AnswerFacts
    <3>3. \A d \in Clients : \A i \in DOMAIN down'[d] :
            (\E j \in DOMAIN down[d] : down'[d][i] = down[d][j]) \/ d = m.head.by
      BY <2>2, <3>2, WriteCells
    <3>4. asked'[m.head.by]
      BY <1>1, <1>4, <2>2 DEF UpCaused
    <3> QED
      BY <3>3, <3>4 DEF Caused
  <2> QED
    BY <1>3, <2>1, <2>2
<1>missed. missed = [d \in Clients |-> missed[d]]
  BY DEF CauseInv
<1> QED
  BY <1>1, <1>5, <1>6, <1>7, <1>missed, CauseStep

LEMMA BroadcastCauses == ASSUME TypeOK, CauseInv, Broadcast PROVE CauseInv'
<1>1. UNCHANGED <<up, queue, out, missed>> /\ [Next]_vars
  BY DEF Broadcast, clientVars, Next, MainStep
<1>2. next \in Clients /\ out \in OutCells
  <2>1. next \in Clients
    BY BroadcastFacts
  <2>2. next # N + 1
    BY <2>1, SizeAssumption DEF Clients
  <2> QED
    BY <2>1, <2>2 DEF TypeOK
<1>3. out.kind = "chat" \/ (out.kind = "status" /\ SomeTyped)
  BY <1>2 DEF OutCells, CauseInv
<1>4. SomeTyped => SomeTyped'
  BY <1>1, CausedStays
<1>5. ASSUME NEW d \in Clients, NEW i \in DOMAIN down'[d]
      PROVE  \/ \E j \in DOMAIN down[d] : down'[d][i] = down[d][j]
             \/ down'[d][i] = out
  <2>1. down[d] \in Seq(DownCells) /\ down \in [Clients -> Seq(DownCells)]
    BY DEF TypeOK
  <2>2. down'[d] = down[d] \/ down'[d] = Append(down[d], out)
    BY <2>1 DEF Broadcast
  <2> QED
    BY <1>5, <2>1, <2>2
<1>6. \A d \in Clients : \A i \in DOMAIN down'[d] :
        \/ \E j \in DOMAIN down[d] : down'[d][i] = down[d][j]
        \/ down'[d][i].kind \in {"chat", "uid"}
        \/ Caused(d)'
  BY <1>3, <1>4, <1>5 DEF Caused
<1>missed. missed = [d \in Clients |-> missed[d]]
  BY DEF CauseInv
<1> QED
  BY <1>1, <1>6, <1>missed, CauseStep

LEMMA CauseIsKept == ASSUME TypeOK, CauseInv, [Next]_vars PROVE CauseInv'
<1>1. ASSUME NEW c \in Clients, ClientStep(c) PROVE CauseInv'
  BY <1>1, SayCauses, TypeCauses, AskCauses, ReadCauses, LeaveCauses, Zenon DEF ClientStep
<1>2. ASSUME NEW c \in Clients, ThreadStep(c) PROVE CauseInv'
  BY <1>2, SignOnCauses, ReceiveCauses, LogOffCauses, Zenon DEF ThreadStep
<1>3. ASSUME NEW c \in Clients, Accept(c) PROVE CauseInv'
  BY <1>3, AcceptCauses
<1>4. CASE MainStep
  BY <1>4, HandleCauses, BroadcastCauses, Zenon DEF MainStep
<1>5. CASE UNCHANGED vars
  <2>1. UNCHANGED <<up, queue, out, down, missed>>
    BY <1>5 DEF vars, serverVars, clientVars
  <2>2. missed = [d \in Clients |-> missed[d]]
    BY DEF CauseInv
  <2> QED
    BY <2>1, <2>2, CauseStep
<1> QED
  BY <1>1, <1>2, <1>3, <1>4, <1>5, Zenon DEF Next

\* However reads cut the stream, a line is missed only behind the uid, an answer
\* the client asked for, somebody's typing, or somebody's leaving
\* (clientsocket.c:228-288).
THEOREM LinesAreMissedForCause == Safety => []MissesHaveCause
<1>1. Init => CauseInv
  <2> SUFFICES ASSUME Init PROVE CauseInv
    OBVIOUS
  <2>1. Name.kind = "name" /\ Zero.kind = "zero"
    BY DEF Name, Zero
  <2> QED
    BY <2>1 DEF Init, CauseInv, UpCaused, DownCaused, MissesHaveCause
<1>2. CauseInv => MissesHaveCause
  BY DEF CauseInv
<1>3. TypeOK /\ CauseInv /\ [Next]_vars => CauseInv'
  BY CauseIsKept
<1> QED
  BY <1>1, <1>2, <1>3, DeliveryTypes, PTL DEF Safety
-----------------------------------------------------------------------------
(* The user who waits.                                                     *)

LEMMA ImpatienceLasts ==
  ASSUME TypeOK, [Next]_vars, NEW c \in Clients, Impatient(c) PROVE Impatient(c)'
<1>1. CASE typed[c] > 0
  BY <1>1, DoneIsDone DEF Impatient
<1>2. CASE asked[c]
  <2>1. asked'[c]
    BY <1>2, DoneIsDone
  <2> QED
    BY <2>1 DEF Impatient
<1>3. CASE 1 \in DOMAIN due[c] /\ c \notin due[c][1]
  <2>1. 1 \in DOMAIN due'[c] /\ due'[c][1] = due[c][1]
    BY <1>3, DoneIsDone
  <2> QED
    BY <1>3, <2>1 DEF Impatient
<1> QED
  BY <1>1, <1>2, <1>3 DEF Impatient

LEMMA SentStays ==
  ASSUME TypeOK, [Next]_vars, NEW c \in Clients, NEW m \in UpCells, Sent(c, m) PROVE Sent(c, m)'
<1>1. m.kind = "chat" => m.by = c /\ m.num \in DOMAIN due'[c]
  BY DoneIsDone DEF Sent
<1>2. m.kind = "ask" => asked'[c]
  BY DoneIsDone DEF Sent
<1>3. m.kind = "status" => typed'[c] > 0
  BY DoneIsDone DEF Sent
<1>4. m.kind = "zero" => Impatient(c)'
  BY ImpatienceLasts DEF Sent
<1> QED
  BY <1>1, <1>2, <1>3, <1>4 DEF Sent

\* A step keeps the invariant if a cell that was first stays where it is unless
\* the name has been read, others move up, and what is sent is accounted for.
LEMMA PatienceStep ==
  ASSUME TypeOK, PatienceInv, [Next]_vars, UidInv',
         \A d \in Clients : \A i \in DOMAIN up'[d] :
           \/ /\ i \in DOMAIN up[d] /\ up'[d][i] = up[d][i]
              /\ stage[d] \in Early => stage'[d] \in Early
           \/ \E j \in DOMAIN up[d] : j > 1 /\ up'[d][i] = up[d][j]
           \/ \E m \in UpCells : up'[d][i] = m /\ m.kind # "name" /\ Sent(d, m)',
         \A m \in lost' : m \in lost \/ LostOK(m)'
  PROVE  PatienceInv'
<1>1. ASSUME NEW d \in Clients, NEW i \in DOMAIN up'[d] PROVE UpCell(d, i)'
  <2>1. up[d] \in Seq(UpCells)
    BY DEF TypeOK
  <2>2. CASE /\ i \in DOMAIN up[d] /\ up'[d][i] = up[d][i]
             /\ stage[d] \in Early => stage'[d] \in Early
    <3>1. up[d][i] \in UpCells
      BY <2>1, <2>2
    <3>2. Sent(d, up[d][i]) /\ (up[d][i].kind = "name" => i = 1 /\ stage[d] \in Early)
      BY <2>2 DEF PatienceInv, UpCell
    <3> DEFINE m == up[d][i]
    <3>3. m \in UpCells /\ Sent(d, m) /\ (m.kind = "name" => i = 1 /\ stage'[d] \in Early)
          /\ up'[d][i] = m
      BY <2>2, <3>1, <3>2
    <3>4. PICK x \in UpCells : Sent(d, x) /\ (x.kind = "name" => i = 1 /\ stage'[d] \in Early)
                               /\ up'[d][i] = x
      BY <3>3
    <3>5. Sent(d, x)'
      BY <3>4, SentStays
    <3> QED
      BY <3>4, <3>5 DEF UpCell
  <2>3. CASE \E j \in DOMAIN up[d] : j > 1 /\ up'[d][i] = up[d][j]
    <3>1. PICK j \in DOMAIN up[d] : j > 1 /\ up'[d][i] = up[d][j]
      BY <2>3
    <3>2. up[d][j] \in UpCells /\ j # 1
      BY <2>1, <3>1
    <3>3. Sent(d, up[d][j]) /\ up[d][j].kind # "name"
      BY <3>2 DEF PatienceInv, UpCell
    <3>4. PICK x \in UpCells : Sent(d, x) /\ x.kind # "name" /\ up'[d][i] = x
      BY <3>1, <3>2, <3>3
    <3>5. Sent(d, x)'
      BY <3>4, SentStays
    <3> QED
      BY <3>4, <3>5 DEF UpCell
  <2>4. CASE \E m \in UpCells : up'[d][i] = m /\ m.kind # "name" /\ Sent(d, m)'
    <3>1. PICK m \in UpCells : up'[d][i] = m /\ m.kind # "name" /\ Sent(d, m)'
      BY <2>4
    <3> QED
      BY <3>1 DEF UpCell
  <2> QED
    BY <1>1, <2>2, <2>3, <2>4
<1>2. ASSUME NEW m \in lost' PROVE LostOK(m)'
  <2>1. CASE m \in lost
    <3>1. m.by \in Clients /\ m.num \in DOMAIN due[m.by] /\ Impatient(m.by)
      BY <2>1 DEF PatienceInv, LostOK
    <3>2. PICK c \in Clients : c = m.by
      BY <3>1
    <3>3. Impatient(c)' /\ m.num \in DOMAIN due'[c]
      BY <3>1, <3>2, ImpatienceLasts, DoneIsDone
    <3> QED
      BY <3>2, <3>3 DEF LostOK
  <2> QED
    BY <1>2, <2>1
<1> QED
  BY <1>1, <1>2 DEF PatienceInv

\* Who knows his uid was told it by the server, which had then read his name.
LEMMA UidStep ==
  ASSUME UidInv,
         \A d \in Clients : stage'[d] \in Early =>
           /\ stage[d] \in Early
           /\ uid'[d] => uid[d]
           /\ \A i \in DOMAIN down'[d] :
                (\E j \in DOMAIN down[d] : down'[d][i] = down[d][j]) \/ down'[d][i].kind # "uid",
         \A d \in Clients : uid[d] => uid'[d],
         due' = due
  PROVE  UidInv'
  BY DEF UidInv

LEMMA SayUid == ASSUME TypeOK, UidInv, NEW c \in Clients, Say(c) PROVE UidInv'
<1>1. due[c] \in Seq(SUBSET Clients) /\ due \in [Clients -> Seq(SUBSET Clients)]
  BY DEF TypeOK
<1> DEFINE knew == {d \in Clients : uid[d]}
<1>2. knew \in SUBSET Clients /\ (c \in knew <=> uid[c])
  OBVIOUS
<1>3. due' = [due EXCEPT ![c] = Append(@, knew)] /\ UNCHANGED <<stage, uid, down>>
  BY DEF Say, serverVars, clientVars
<1> HIDE DEF knew
<1>4. ASSUME NEW d \in Clients, ~uid[d], NEW n \in DOMAIN due'[d] PROVE d \notin due'[d][n]
  <2>1. (n \in DOMAIN due[d] /\ due'[d][n] = due[d][n]) \/ (d = c /\ due'[d][n] = knew)
    BY <1>1, <1>2, <1>3, <1>4
  <2> QED
    BY <1>2, <1>4, <2>1 DEF UidInv
<1> QED
  BY <1>3, <1>4 DEF UidInv

LEMMA ReadUid == ASSUME TypeOK, UidInv, NEW c \in Clients, ReadFromServer(c) PROVE UidInv'
<1>1. PICK k \in 1..Len(down[c]), l \in 0..Len(down[c]) :
           /\ l <= k
           /\ down' = [down EXCEPT ![c] = SubSeq(@, k + 1, Len(@))]
           /\ uid' = [uid EXCEPT ![c] = @ \/ down[c][1].kind = "uid"]
  BY ReadFromServerFacts, Zenon
<1>2. UNCHANGED <<stage, due>>
  BY DEF ReadFromServer, serverVars, userVars
<1>3. down[c] \in Seq(DownCells) /\ down \in [Clients -> Seq(DownCells)] /\ 1 \in DOMAIN down[c]
  BY <1>1 DEF TypeOK
<1>4. \A d \in Clients : (uid'[d] <=> uid[d]) \/ (d = c /\ (uid'[d] <=> (uid[d] \/ down[c][1].kind = "uid")))
  BY <1>1, Zenon DEF TypeOK
<1>5. ASSUME NEW d \in Clients, NEW i \in DOMAIN down'[d]
      PROVE  \E j \in DOMAIN down[d] : down'[d][i] = down[d][j]
  <2>1. CASE d = c
    <3>1. down'[d] = SubSeq(down[c], k + 1, Len(down[c]))
      BY <1>1, <1>3, <2>1
    <3>2. i + k \in DOMAIN down[c] /\ down'[d][i] = down[c][i + k]
      BY <1>3, <1>5, <3>1
    <3> QED
      BY <2>1, <3>2
  <2>2. CASE d # c
    <3>1. down'[d] = down[d]
      BY <1>1, <1>3, <2>2
    <3> QED
      BY <1>5, <3>1
  <2> QED
    BY <2>1, <2>2
<1>6. \A d \in Clients : stage[d] \in Early => (uid'[d] => uid[d])
  BY <1>3, <1>4 DEF UidInv
<1>7. \A d \in Clients : uid[d] => uid'[d]
  BY <1>4
<1> QED
  BY <1>2, <1>5, <1>6, <1>7, UidStep

\* Steps that tell nobody his uid.
LEMMA QuietUid ==
  ASSUME TypeOK, UidInv, UNCHANGED <<uid, due>>,
         \A d \in Clients : stage'[d] \in Early => stage[d] \in Early,
         \A d \in Clients : \A i \in DOMAIN down'[d] :
           (\E j \in DOMAIN down[d] : down'[d][i] = down[d][j]) \/ down'[d][i].kind # "uid"
           \/ stage'[d] \notin Early
  PROVE  UidInv'
  BY UidStep

LEMMA LeaveUid == ASSUME TypeOK, UidInv, NEW c \in Clients, Leave(c) PROVE UidInv'
<1>1. down' = [down EXCEPT ![c] = <<>>] /\ UNCHANGED <<uid, due, stage>>
  BY DEF Leave, serverVars, userVars
<1>2. \A d \in Clients : \A i \in DOMAIN down'[d] : i \in DOMAIN down[d] /\ down'[d][i] = down[d][i]
  BY <1>1 DEF TypeOK
<1> QED
  BY <1>1, <1>2, QuietUid

LEMMA SignOnUid == ASSUME TypeOK, UidInv, NEW c \in Clients, SignOn(c) PROVE UidInv'
<1>1. WriteTo(c, <<Uid>>) /\ UNCHANGED <<uid, due>> /\ stage' = [stage EXCEPT ![c] = "on"]
  BY DEF SignOn, clientVars, userVars
<1> DEFINE s == <<Uid>>
<1>2. s \in Seq(DownCells) /\ WriteTo(c, s)
  BY <1>1 DEF DownCells
<1> HIDE DEF s
<1>3. \A d \in Clients : \A i \in DOMAIN down'[d] :
        (i \in DOMAIN down[d] /\ down'[d][i] = down[d][i]) \/ d = c
  BY <1>2, WriteCells
<1>4. \A d \in Clients : (d = c /\ stage'[d] = "on") \/ (d # c /\ stage'[d] = stage[d])
  BY <1>1 DEF TypeOK
<1>5. "on" \notin Early
  BY DEF Early
<1> QED
  BY <1>1, <1>3, <1>4, <1>5, QuietUid

LEMMA LogOffUid == ASSUME TypeOK, UidInv, NEW c \in Clients, LogOff(c) PROVE UidInv'
<1>1. UNCHANGED <<uid, due>> /\ stage' = [stage EXCEPT ![c] = "out"]
  BY DEF LogOff, clientVars, userVars
<1>2. \A d \in Clients : (d = c /\ stage'[d] = "out") \/ (d # c /\ stage'[d] = stage[d])
  BY <1>1 DEF TypeOK
<1>3. "out" \notin Early
  BY DEF Early
<1> DEFINE s == Filled(Notice, 2 * Half)
<1>4. s \in Seq(DownCells) /\ \A j \in DOMAIN s : s[j] \in {Notice, Zero}
  BY AnswerFacts DEF DownCells
<1>5. \A d \in Clients : down'[d] = down[d] \/ down'[d] = down[d] \o s
  BY DEF LogOff, TypeOK
<1> HIDE DEF s
<1>6. ASSUME NEW d \in Clients, NEW i \in DOMAIN down'[d]
      PROVE  (\E j \in DOMAIN down[d] : down'[d][i] = down[d][j]) \/ down'[d][i] \in {Notice, Zero}
  <2>1. down[d] \in Seq(DownCells)
    BY DEF TypeOK
  <2>2. CASE down'[d] = down[d]
    BY <1>6, <2>2
  <2>3. CASE down'[d] = down[d] \o s
    <3> DEFINE t == down[d] \o s
    <3>1. \/ i \in DOMAIN down[d] /\ t[i] = down[d][i]
          \/ i - Len(down[d]) \in DOMAIN s /\ t[i] = s[i - Len(down[d])]
      BY <1>4, <1>6, <2>1, <2>3, ConcatFacts
    <3>2. down'[d] = t
      BY <2>3
    <3> HIDE DEF t
    <3> QED
      BY <1>4, <3>1, <3>2
  <2> QED
    BY <1>5, <2>2, <2>3
<1>7. Notice.kind # "uid" /\ Zero.kind # "uid"
  BY DEF Notice, Zero
<1> QED
  BY <1>1, <1>2, <1>3, <1>6, <1>7, QuietUid

LEMMA HandleUid == ASSUME TypeOK, UidInv, Handle PROVE UidInv'
<1>1. UNCHANGED <<uid, due, stage>>
  BY HandleCases DEF clientVars, userVars
<1>2. Answer \in DownCells /\ Answer.kind # "uid" /\ Zero.kind # "uid"
  BY DEF DownCells, Answer, Zero
<1>3. Filled(Answer, 2 * Half) \in Seq(DownCells)
      /\ \A j \in DOMAIN Filled(Answer, 2 * Half) : Filled(Answer, 2 * Half)[j] \in {Answer, Zero}
  BY <1>2, AnswerFacts
<1>4. down' = down \/ \E d \in Clients : WriteTo(d, Filled(Answer, 2 * Half))
  BY HandleCases DEF BadIndex, HandleChat, HandleStatus, HandleAsk, Ignore
<1>5. \A d \in Clients : \A i \in DOMAIN down'[d] :
        (\E j \in DOMAIN down[d] : down'[d][i] = down[d][j]) \/ down'[d][i] \in {Answer, Zero}
  BY <1>3, <1>4, WriteCells
<1> QED
  BY <1>1, <1>2, <1>5, QuietUid

LEMMA BroadcastUid == ASSUME TypeOK, UidInv, Broadcast PROVE UidInv'
<1>1. UNCHANGED <<uid, due, stage>>
  BY DEF Broadcast, clientVars, userVars
<1>2. out.kind # "uid"
  <2>1. next \in Clients
    BY BroadcastFacts
  <2>2. next # N + 1
    BY <2>1, SizeAssumption DEF Clients
  <2>3. out \in OutCells
    BY <2>1, <2>2 DEF TypeOK
  <2> QED
    BY <2>3 DEF OutCells
<1>3. ASSUME NEW d \in Clients, NEW i \in DOMAIN down'[d]
      PROVE  (\E j \in DOMAIN down[d] : down'[d][i] = down[d][j]) \/ down'[d][i] = out
  <2>1. down[d] \in Seq(DownCells) /\ down \in [Clients -> Seq(DownCells)]
    BY DEF TypeOK
  <2>2. down'[d] = down[d] \/ down'[d] = Append(down[d], out)
    BY <2>1 DEF Broadcast
  <2> QED
    BY <1>3, <2>1, <2>2
<1> QED
  BY <1>1, <1>2, <1>3, QuietUid

LEMMA UidIsKept == ASSUME TypeOK, UidInv, [Next]_vars PROVE UidInv'
<1>1. ASSUME NEW c \in Clients, Type(c) \/ Ask(c) PROVE UNCHANGED <<uid, due, stage, down>>
  BY <1>1 DEF Type, Ask, serverVars, clientVars
<1>2. ASSUME NEW c \in Clients, Accept(c) PROVE UidInv'
  <2>1. UNCHANGED <<uid, due, down>> /\ stage[c] = "none"
        /\ stage' = [stage EXCEPT ![c] = "slot"]
    BY <1>2 DEF Accept, clientVars, userVars
  <2>2. \A d \in Clients : stage'[d] \in Early => stage[d] \in Early
    BY <2>1 DEF TypeOK, Early
  <2> QED
    BY <2>1, <2>2, QuietUid
<1>3. ASSUME NEW c \in Clients, Receive(c) PROVE UNCHANGED <<uid, due, stage, down>>
  BY <1>3 DEF Receive, clientVars, userVars
<1>4. CASE UNCHANGED <<uid, due, stage, down>>
  BY <1>4, QuietUid
<1>5. ASSUME NEW c \in Clients, ClientStep(c) PROVE UidInv'
  BY <1>1, <1>4, <1>5, SayUid, ReadUid, LeaveUid, Zenon DEF ClientStep
<1>6. ASSUME NEW c \in Clients, ThreadStep(c) PROVE UidInv'
  BY <1>3, <1>4, <1>6, SignOnUid, LogOffUid, Zenon DEF ThreadStep
<1>7. CASE MainStep
  BY <1>7, HandleUid, BroadcastUid, Zenon DEF MainStep
<1>8. UNCHANGED vars => UNCHANGED <<uid, due, stage, down>>
  BY DEF vars, serverVars, clientVars, userVars
<1> QED
  BY <1>2, <1>4, <1>5, <1>6, <1>7, <1>8, Zenon DEF Next

\* Steps that write nothing to the server and of which it reads nothing.
LEMMA QuietPatience ==
  ASSUME TypeOK, PatienceInv, [Next]_vars, UNCHANGED <<up, lost>>,
         \A d \in Clients : up[d] # <<>> /\ stage[d] \in Early => stage'[d] \in Early
  PROVE  PatienceInv'
<1>1. UidInv'
  BY UidIsKept DEF PatienceInv
<1>2. \A d \in Clients : \A i \in DOMAIN up'[d] :
        i \in DOMAIN up[d] /\ up'[d][i] = up[d][i] /\ up[d] # <<>>
  BY DEF TypeOK
<1> QED
  BY <1>1, <1>2, PatienceStep

\* Steps of a user that write to the server.
LEMMA SendPatience ==
  ASSUME TypeOK, PatienceInv, [Next]_vars, NEW c \in Clients, NEW s \in Seq(UpCells), Send(c, s),
         UNCHANGED <<lost, stage>>,
         \A j \in DOMAIN s : s[j].kind # "name" /\ \E m \in UpCells : s[j] = m /\ Sent(c, m)'
  PROVE  PatienceInv'
<1>1. UidInv'
  BY UidIsKept DEF PatienceInv
<1>2. ASSUME NEW d \in Clients, NEW i \in DOMAIN up'[d]
      PROVE  \/ i \in DOMAIN up[d] /\ up'[d][i] = up[d][i]
             \/ \E m \in UpCells : up'[d][i] = m /\ m.kind # "name" /\ Sent(d, m)'
  <2>1. \/ i \in DOMAIN up[d] /\ up'[d][i] = up[d][i]
        \/ d = c /\ (\E j \in DOMAIN s : up'[d][i] = s[j])
    BY <1>2, SendCells
  <2>2. CASE d = c /\ (\E j \in DOMAIN s : up'[d][i] = s[j])
    <3>1. PICK j \in DOMAIN s : up'[d][i] = s[j]
      BY <2>2
    <3>2. PICK m \in UpCells : s[j] = m /\ Sent(c, m)'
      BY <3>1
    <3>3. Sent(d, m)' /\ m.kind # "name"
      BY <2>2, <3>1, <3>2
    <3> QED
      BY <3>1, <3>2, <3>3
  <2> QED
    BY <2>1, <2>2
<1> QED
  BY <1>1, <1>2, PatienceStep

LEMMA SayPatience == ASSUME TypeOK, PatienceInv, NEW c \in Clients, Say(c) PROVE PatienceInv'
<1> DEFINE n == Len(due[c]) + 1
           m == [kind |-> "chat", by |-> c, known |-> uid[c], num |-> n]
<1>1. due[c] \in Seq(SUBSET Clients) /\ due \in [Clients -> Seq(SUBSET Clients)] /\ MaxSaid \in Nat
  BY BoundAssumption DEF TypeOK
<1>2. Len(due'[c]) = n /\ n \in 1..MaxSaid /\ n \in DOMAIN due'[c]
  BY <1>1 DEF Say
<1>3. Send(c, <<m>>) /\ UNCHANGED <<lost, stage>>
  BY <1>2 DEF Say, serverVars
<1>4. uid[c] \in BOOLEAN
  BY Zenon DEF TypeOK
<1> HIDE DEF n
<1>5. m \in [kind : {"chat"}, by : Clients, known : BOOLEAN, num : 1..MaxSaid]
  BY <1>2, <1>4, Zenon
<1>6. m \in UpCells
  BY <1>5 DEF UpCells
<1>7. m.kind = "chat" /\ m.by = c /\ m.num = n
  OBVIOUS
<1> HIDE DEF m
<1>8. PICK x \in UpCells : x = m
  BY <1>6
<1>9. Sent(c, x)'
  BY <1>2, <1>7, <1>8 DEF Sent
<1> DEFINE s == <<m>>
<1>10. s \in Seq(UpCells) /\ (\A j \in DOMAIN s : s[j] = m) /\ Send(c, s)
  BY <1>3, <1>6
<1> HIDE DEF s
<1>11. [Next]_vars
  BY DEF Next, ClientStep
<1> QED
  BY <1>3, <1>7, <1>8, <1>9, <1>10, <1>11, SendPatience

LEMMA TypePatience == ASSUME TypeOK, PatienceInv, NEW c \in Clients, Type(c) PROVE PatienceInv'
<1> DEFINE n == typed[c] + 1
           m == [kind |-> "status", by |-> c, num |-> n]
<1>1. typed \in [Clients -> 0..MaxTyped] /\ MaxTyped \in Nat
  BY BoundAssumption DEF TypeOK
<1>2. typed'[c] = n /\ n \in 1..MaxTyped /\ n > 0
  BY <1>1 DEF Type
<1>3. Send(c, Filled(m, Half)) /\ UNCHANGED <<lost, stage>>
  BY <1>2 DEF Type, serverVars
<1> HIDE DEF n
<1>4. m \in UpCells /\ Zero \in UpCells /\ m.kind = "status" /\ Zero.kind = "zero"
  BY <1>2 DEF UpCells, Zero
<1> HIDE DEF m
<1>5. Filled(m, Half) \in Seq(UpCells) /\ \A j \in DOMAIN Filled(m, Half) : Filled(m, Half)[j] \in {m, Zero}
  BY <1>4, FilledFacts, SizeAssumption
<1>6. typed'[c] > 0 /\ Impatient(c)'
  BY <1>2 DEF Impatient
<1>7. \A x \in UpCells : x \in {m, Zero} => Sent(c, x)'
  BY <1>4, <1>6 DEF Sent
<1>8. \A j \in DOMAIN Filled(m, Half) :
        Filled(m, Half)[j].kind # "name" /\ \E x \in UpCells : Filled(m, Half)[j] = x /\ Sent(c, x)'
  BY <1>4, <1>5, <1>7
<1>9. [Next]_vars
  BY DEF Next, ClientStep
<1> QED
  BY <1>3, <1>5, <1>8, <1>9, SendPatience

LEMMA AskPatience == ASSUME TypeOK, PatienceInv, NEW c \in Clients, Ask(c) PROVE PatienceInv'
<1> DEFINE m == [kind |-> "ask", by |-> c, known |-> uid[c]]
<1>1. Send(c, <<m>>) /\ UNCHANGED <<lost, stage>> /\ m.kind = "ask"
  BY DEF Ask, serverVars
<1>2. asked'[c]
  BY Zenon DEF Ask, TypeOK
<1>3. uid[c] \in BOOLEAN
  BY Zenon DEF TypeOK
<1>4. m \in [kind : {"ask"}, by : Clients, known : BOOLEAN]
  BY <1>3, Zenon
<1>5. m \in UpCells
  BY <1>4 DEF UpCells
<1> HIDE DEF m
<1>6. PICK x \in UpCells : x = m
  BY <1>5
<1>7. Sent(c, x)'
  BY <1>1, <1>2, <1>6 DEF Sent
<1> DEFINE s == <<m>>
<1>8. s \in Seq(UpCells) /\ (\A j \in DOMAIN s : s[j] = m) /\ Send(c, s)
  BY <1>1, <1>5
<1> HIDE DEF s
<1>9. [Next]_vars
  BY DEF Next, ClientStep
<1> QED
  BY <1>1, <1>6, <1>7, <1>8, <1>9, SendPatience

\* What stands behind the name, or comes when the name has been read.
LEMMA BehindTheName ==
  ASSUME TypeOK, PatienceInv, NEW c \in Clients, NEW i \in DOMAIN up[c],
         i > 1 \/ stage[c] \notin Early
  PROVE  /\ up[c][i].kind = "chat" \/ Impatient(c)
         /\ IsChat(up[c][i]) => up[c][i].by = c /\ up[c][i].num \in DOMAIN due[c]
<1>1. up[c][i] \in UpCells
  BY DEF TypeOK
<1>2. UpCell(c, i)
  BY DEF PatienceInv
<1>3. up[c][i].kind # "name"
  BY <1>2 DEF UpCell
<1>4. up[c][i].kind \in {"zero", "chat", "ask", "status", "name"}
  BY <1>1 DEF UpCells, Zero, Name
<1> QED
  BY <1>2, <1>3, <1>4 DEF UpCell, Sent, Impatient, IsChat

\* A line sent before the uid came makes its user one that did not wait.
LEMMA TooEarly ==
  ASSUME TypeOK, UidInv, NEW c \in Clients, stage[c] \in Early, NEW n \in DOMAIN due[c]
  PROVE  Impatient(c)
<1>1. due[c] \in Seq(SUBSET Clients)
  BY DEF TypeOK
<1>2. 1 \in DOMAIN due[c]
  BY <1>1
<1> QED
  BY <1>2 DEF UidInv, Impatient

LEMMA SignOnPatience == ASSUME TypeOK, PatienceInv, NEW c \in Clients, SignOn(c) PROVE PatienceInv'
<1>1. stage[c] \in Early /\ stage' = [stage EXCEPT ![c] = "on"] /\ [Next]_vars /\ UNCHANGED due
  BY DEF SignOn, Early, Next, ThreadStep, userVars
<1>2. PICK k \in DOMAIN up[c], cut \in BOOLEAN :
           /\ cut => k > 1
           /\ \A d \in Clients : \A i \in DOMAIN up'[d] :
                \/ d # c /\ i \in DOMAIN up[d] /\ up'[d][i] = up[d][i]
                \/ d = c /\ \E j \in DOMAIN up[c] : j > k /\ up'[d][i] = up[c][j]
                \/ d = c /\ cut /\ up'[d][i] = Zero
           /\ lost' = lost \cup ChatsIn(SubSeq(up[c], 1, k))
  BY SignOnCells, Zenon
<1>3. up[c] \in Seq(UpCells) /\ k \in 1..Len(up[c])
  BY DEF TypeOK
<1>4. UidInv' /\ UidInv
  BY <1>1, UidIsKept DEF PatienceInv
<1>5. cut => Impatient(c)
  <2>1. SUFFICES ASSUME cut PROVE Impatient(c)
    OBVIOUS
  <2>2. k > 1
    BY <1>2, <2>1
  <2>3. up[c][k].kind = "chat" => up[c][k].num \in DOMAIN due[c]
    BY <2>2, BehindTheName DEF IsChat
  <2> QED
    BY <1>1, <1>4, <2>2, <2>3, BehindTheName, TooEarly
<1>6. cut => Zero \in UpCells /\ Zero.kind # "name" /\ Sent(c, Zero)'
  <2>1. SUFFICES ASSUME cut PROVE Zero \in UpCells /\ Zero.kind # "name" /\ Sent(c, Zero)'
    OBVIOUS
  <2>2. Impatient(c)'
    BY <1>1, <1>5, <2>1, ImpatienceLasts
  <2> QED
    BY <2>2 DEF UpCells, Zero, Sent
<1>7. \A d \in Clients : d # c => stage'[d] = stage[d]
  BY <1>1 DEF TypeOK
<1>8. \A j : j \in DOMAIN up[c] /\ j > k => j > 1
  BY <1>3
<1>9. ASSUME NEW m \in lost', m \notin lost PROVE LostOK(m)'
  <2>1. PICK j \in DOMAIN SubSeq(up[c], 1, k) : m = SubSeq(up[c], 1, k)[j] /\ IsChat(SubSeq(up[c], 1, k)[j])
    BY <1>2, <1>9 DEF ChatsIn
  <2>2. j \in DOMAIN up[c] /\ m = up[c][j] /\ IsChat(m)
    BY <1>3, <2>1
  <2>3. m.by = c /\ m.num \in DOMAIN due[c]
    BY <2>2 DEF PatienceInv, UpCell, Sent, IsChat
  <2>4. Impatient(c)'
    BY <1>1, <1>4, <2>3, TooEarly, ImpatienceLasts
  <2> QED
    BY <1>1, <2>3, <2>4 DEF LostOK
<1>10. ASSUME NEW d \in Clients, NEW i \in DOMAIN up'[d]
       PROVE \/ /\ i \in DOMAIN up[d] /\ up'[d][i] = up[d][i]
                /\ stage[d] \in Early => stage'[d] \in Early
             \/ \E j \in DOMAIN up[d] : j > 1 /\ up'[d][i] = up[d][j]
             \/ \E m \in UpCells : up'[d][i] = m /\ m.kind # "name" /\ Sent(d, m)'
  <2>1. CASE d # c /\ i \in DOMAIN up[d] /\ up'[d][i] = up[d][i]
    BY <1>7, <2>1
  <2>2. CASE d = c /\ \E j \in DOMAIN up[c] : j > k /\ up'[d][i] = up[c][j]
    BY <1>8, <2>2
  <2>3. CASE d = c /\ cut /\ up'[d][i] = Zero
    <3>1. PICK m \in UpCells : m = Zero
      BY <1>6, <2>3
    <3>2. Sent(d, m)' /\ m.kind # "name"
      BY <1>6, <2>3, <3>1
    <3> QED
      BY <2>3, <3>1, <3>2
  <2> QED
    BY <1>2, <1>10, <2>1, <2>2, <2>3
<1> QED
  BY <1>1, <1>4, <1>9, <1>10, PatienceStep

\* What one read throws away stands behind a zero, or behind no line.
LEMMA ReceiveLoses ==
  ASSUME TypeOK, PatienceInv, NEW c \in Clients, Receive(c), NEW m \in lost', m \notin lost
  PROVE  m.by = c /\ m.num \in DOMAIN due[c] /\ Impatient(c)
<1>1. PICK k \in ReadSizes(up[c], 2 * Half) : Receive(c)!2!(k)
  BY DEF Receive
<1> DEFINE s == SubSeq(up[c], 1, k)
           text == IF IsChat(s[1]) THEN SubSeq(s, 1, TextLength(s)) ELSE <<>>
<1>2. lost' = lost \cup (ChatsIn(s) \ ChatsIn(text))
  BY <1>1
<1>3. up[c] \in Seq(UpCells) /\ stage[c] \notin Early
  BY DEF TypeOK, Receive, Early
<1>4. /\ s \in Seq(UpCells) /\ Len(s) = k /\ k \in 1..Len(up[c]) /\ 1 \in DOMAIN s
      /\ \A i \in DOMAIN s : i \in DOMAIN up[c] /\ s[i] = up[c][i]
  BY <1>3, ReadFacts DEF ReadSizes
<1>5. TextLength(s) \in 0..Len(s) /\ (TextLength(s) < Len(s) => s[TextLength(s) + 1].kind = "zero")
  <2> HIDE DEF s
  <2> QED
    BY <1>4, TextLengthFacts
<1>6. m \in ChatsIn(s) /\ m \notin ChatsIn(text)
  BY <1>2
<1> HIDE DEF s
<1>7. PICK j \in DOMAIN s : m = s[j] /\ IsChat(s[j])
  BY <1>6 DEF ChatsIn
<1>8. m.by = c /\ m.num \in DOMAIN due[c]
  BY <1>3, <1>4, <1>7, BehindTheName
<1>9. CASE ~IsChat(s[1])
  <2>1. 1 \in DOMAIN up[c] /\ up[c][1].kind # "chat"
    BY <1>4, <1>9 DEF IsChat
  <2> QED
    BY <1>3, <1>8, <2>1, BehindTheName
<1>10. CASE IsChat(s[1])
  <2> DEFINE l == TextLength(s)
             t == SubSeq(s, 1, l)
  <2>1. text = t
    BY <1>10
  <2>2. l < j
    <3>1. SUFFICES ASSUME ~(l < j) PROVE FALSE
      OBVIOUS
    <3>2. j \in 1..l /\ l \in 0..Len(s)
      BY <1>4, <1>5, <3>1
    <3> HIDE DEF l
    <3>3. j \in DOMAIN t /\ t[j] = s[j]
      BY <1>4, <3>2
    <3> HIDE DEF t
    <3>4. m \in ChatsIn(t)
      BY <1>7, <3>3 DEF ChatsIn
    <3> QED
      BY <1>6, <2>1, <3>4
  <2>3. l + 1 \in DOMAIN s /\ s[l + 1].kind = "zero"
    BY <1>4, <1>5, <1>7, <2>2
  <2> HIDE DEF l
  <2>4. l + 1 \in DOMAIN up[c] /\ up[c][l + 1].kind # "chat"
    BY <1>4, <2>3
  <2> QED
    BY <1>3, <1>8, <2>4, BehindTheName
<1> QED
  BY <1>9, <1>10

LEMMA ReceivePatience == ASSUME TypeOK, PatienceInv, NEW c \in Clients, Receive(c) PROVE PatienceInv'
<1>1. [Next]_vars /\ UNCHANGED <<due, stage>>
  BY DEF Receive, userVars, Next, ThreadStep
<1>2. UidInv'
  BY <1>1, UidIsKept DEF PatienceInv
<1>3. \A d \in Clients : \A i \in DOMAIN up'[d] :
        \/ d # c /\ i \in DOMAIN up[d] /\ up'[d][i] = up[d][i]
        \/ d = c /\ \E j \in DOMAIN up[c] : j > 1 /\ up'[d][i] = up[c][j]
  BY ReceiveCells
<1>4. ASSUME NEW m \in lost', m \notin lost PROVE LostOK(m)'
  <2>1. m.by = c /\ m.num \in DOMAIN due[c] /\ Impatient(c)
    BY <1>4, ReceiveLoses
  <2>2. Impatient(c)'
    BY <1>1, <2>1, ImpatienceLasts
  <2> QED
    BY <1>1, <2>1, <2>2 DEF LostOK
<1> QED
  BY <1>1, <1>2, <1>3, <1>4, PatienceStep

LEMMA PatienceIsKept == ASSUME TypeOK, PatienceInv, [Next]_vars PROVE PatienceInv'
<1>1. ASSUME NEW c \in Clients, ReadFromServer(c) \/ Leave(c) PROVE UNCHANGED <<up, lost, stage>>
  BY <1>1 DEF ReadFromServer, Leave, serverVars
<1>2. ASSUME NEW c \in Clients, Accept(c) PROVE PatienceInv'
  <2>1. UNCHANGED <<up, lost>> /\ stage' = [stage EXCEPT ![c] = "slot"]
    BY <1>2 DEF Accept
  <2>2. \A d \in Clients : stage[d] \in Early => stage'[d] \in Early
    BY <2>1 DEF TypeOK, Early
  <2> QED
    BY <2>1, <2>2, QuietPatience
<1>3. ASSUME NEW c \in Clients, LogOff(c) PROVE PatienceInv'
  <2>1. UNCHANGED <<up, lost>> /\ stage' = [stage EXCEPT ![c] = "out"] /\ up[c] = <<>>
    BY <1>3 DEF LogOff
  <2>2. \A d \in Clients : up[d] # <<>> /\ stage[d] \in Early => stage'[d] \in Early
    BY <2>1 DEF TypeOK
  <2> QED
    BY <2>1, <2>2, QuietPatience
<1>4. MainStep => UNCHANGED <<up, lost, stage>>
  BY DEF MainStep, Handle, Broadcast
<1>5. UNCHANGED vars => UNCHANGED <<up, lost, stage>>
  BY DEF vars, serverVars
<1>6. CASE UNCHANGED <<up, lost, stage>>
  BY <1>6, QuietPatience
<1>7. ASSUME NEW c \in Clients, ClientStep(c) PROVE PatienceInv'
  BY <1>1, <1>6, <1>7, SayPatience, TypePatience, AskPatience DEF ClientStep
<1>8. ASSUME NEW c \in Clients, ThreadStep(c) PROVE PatienceInv'
  BY <1>3, <1>8, SignOnPatience, ReceivePatience DEF ThreadStep
<1> QED
  BY <1>2, <1>4, <1>5, <1>6, <1>7, <1>8 DEF Next

\* A line the server throws away is one of a user who typed or asked before it,
\* or who had not waited for his uid (bc_network.c:370, main.c:168).
THEOREM PatientAreHeard == Safety => []PatientIsHeard
<1>1. Init => PatienceInv
  <2> SUFFICES ASSUME Init PROVE PatienceInv
    OBVIOUS
  <2>1. \A c \in Clients : up[c] = <<Name>> /\ stage[c] = "none" /\ down[c] = <<>> /\ due[c] = <<>> /\ ~uid[c]
    BY DEF Init
  <2>2. lost = {}
    BY DEF Init
  <2>3. UidInv
    BY <2>1 DEF UidInv
  <2>4. \A c \in Clients : \A i \in DOMAIN up[c] : UpCell(c, i)
    BY <2>1 DEF UpCell, Sent, Name, Early
  <2> QED
    BY <2>2, <2>3, <2>4 DEF PatienceInv
<1>2. TypeOK /\ PatienceInv => PatientIsHeard
  <2> SUFFICES ASSUME TypeOK, PatienceInv, NEW m \in lost
               PROVE  typed[m.by] > 0 \/ asked[m.by] \/ \E n \in 1..m.num : m.by \notin due[m.by][n]
    BY DEF PatientIsHeard
  <2>1. m.by \in Clients /\ m.num \in DOMAIN due[m.by] /\ Impatient(m.by)
    BY DEF PatienceInv, LostOK
  <2>2. due[m.by] \in Seq(SUBSET Clients)
    BY <2>1 DEF TypeOK
  <2>3. 1 \in 1..m.num
    BY <2>1, <2>2
  <2> QED
    BY <2>1, <2>3 DEF Impatient
<1>3. TypeOK /\ PatienceInv /\ [Next]_vars => PatienceInv'
  BY PatienceIsKept
<1> QED
  BY <1>1, <1>2, <1>3, DeliveryTypes, PTL DEF Safety
=============================================================================
