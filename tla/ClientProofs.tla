---------------------------- MODULE ClientProofs ----------------------------
(***************************************************************************)
(* Theorems of the client: of ClientUI, for every size of client_buffer,   *)
(* every alphabet and every set of yell messages, and of ClientLoop, for   *)
(* every choice of keys and bounds.                                        *)
(*                                                                         *)
(* ClientUI: as long as no key has left the buffer, the cursor stays at    *)
(* the end of a line with nothing behind it, the others see what is typed, *)
(* and only a line that is empty or nearly full lets a key leave it.       *)
(***************************************************************************)
EXTENDS ClientUI, ClientLoop, WellFoundedInduction, TLAPS

Lines == [Offsets -> Char \cup {NUL}]

\* m holds a text of n characters and zeros behind it.
Ended(m, n) ==
  /\ n \in 0..Size
  /\ \A i \in Offsets : (i < n => m[i] # NUL) /\ (n <= i => m[i] = NUL)

Shown == ~overrun /\ keyed /\ cursor > 0 => told = Text(line)

Inv ==
  /\ TypeOK
  /\ ~overrun => cursor \in Offsets /\ Ended(line, cursor)
  /\ keyed => uidKnown
  /\ Shown

-----------------------------------------------------------------------------
(* strlen *)

LEMMA CharIsNoNul == NUL \notin Char
  BY CharAssumption DEF NUL, STX, ETX, Blank, Char

LEMMA EndedStrLen ==
  ASSUME NEW m, NEW n, Ended(m, n)
  PROVE  StrLen(m) = n
<1>1. n \in 0..Size /\ (\A i \in 0..(n - 1) : m[i] # NUL) /\ (n = Size \/ m[n] = NUL)
  BY SizeAssumption DEF Ended, Offsets
<1>2. ASSUME NEW k \in 0..Size, \A i \in 0..(k - 1) : m[i] # NUL, k = Size \/ m[k] = NUL
      PROVE  k = n
  <2>1. CASE k < n
    BY <1>1, <1>2, <2>1, SizeAssumption
  <2>2. CASE n < k
    BY <1>1, <1>2, <2>2, SizeAssumption
  <2> QED
    BY <1>1, <2>1, <2>2, SizeAssumption
<1> QED
  BY <1>1, <1>2 DEF StrLen

LEMMA EndedText ==
  ASSUME NEW m \in Lines, NEW n, Ended(m, n)
  PROVE  Text(m) \in Seq(Char)
<1>1. StrLen(m) = n /\ n \in Nat
  BY EndedStrLen, SizeAssumption DEF Ended
<1>2. \A i \in 1..n : m[i - 1] \in Char
  BY SizeAssumption DEF Ended, Lines, Offsets
<1>3. Text(m) = [i \in 1..n |-> m[i - 1]]
  BY <1>1 DEF Text
<1> QED
  BY <1>1, <1>2, <1>3

-----------------------------------------------------------------------------
(* What the handlers leave behind *)

\* A new line with the cursor at its end keeps the invariant's line part.
LineInv(m, n) ==
  /\ line' = m /\ cursor' = n /\ overrun' = (n = Size)
  /\ m \in Lines /\ Ended(m, n)

Left == LineInv(line', cursor') \/ (overrun' /\ UNCHANGED <<line, cursor>>)

LEMMA PrintsLine ==
  ASSUME NEW m \in Lines, NEW n, Ended(m, n), NEW c \in Int, n <= c, Prints(m, c)
  PROVE  LineInv(m, n)
<1>1. StrLen(m) = n /\ n \in 0..Size
  BY EndedStrLen DEF Ended
<1>2. Clamped(c, m) = n
  BY <1>1, SizeAssumption DEF Clamped
<1> QED
  BY <1>1, <1>2 DEF Prints, Leaves, LineInv

LEMMA LeavesLine ==
  ASSUME NEW m \in Lines, NEW n, Ended(m, n), Leaves(m, n)
  PROVE  LineInv(m, n)
  BY EndedStrLen DEF Leaves, LineInv

\* An empty line is empty whatever was in it.
LEMMA ZeroedLine ==
  ASSUME NEW m \in Lines, NEW n, Ended(m, n), NEW w \in 0..n
  PROVE  Zeroed(m, w, n) \in Lines /\ Ended(Zeroed(m, w, n), w)
  BY SizeAssumption DEF Zeroed, Lines, Ended, Offsets

LEMMA EmptyLine ==
  ASSUME NEW m \in Lines
  PROVE  Zeroed(m, 0, Size - 1) \in Lines /\ Ended(Zeroed(m, 0, Size - 1), 0)
  BY SizeAssumption DEF Zeroed, Lines, Ended, Offsets

LEMMA WriteOutLine ==
  ASSUME NEW m \in Lines, NEW n, Ended(m, n), WriteOut(m, n), TypeOK
  PROVE  /\ line' \in Lines /\ cursor' \in 0..Size /\ overrun' \in BOOLEAN
         /\ Ended(line', cursor') /\ (~overrun' => cursor' \in Offsets)
         /\ overrun' = (n = Size)
         /\ chat' \in Seq(Char) \cup {None}
         /\ n > 0 => cursor' = 0
<1>1. StrLen(m) = n /\ n \in 0..Size
  BY EndedStrLen DEF Ended
<1>2. CASE n > 0
  BY <1>1, <1>2, EmptyLine, EndedText, SizeAssumption DEF WriteOut, Offsets
<1>3. CASE n = 0
  <2>1. Leaves(m, n) /\ chat' = chat
    BY <1>1, <1>3 DEF WriteOut
  <2>2. LineInv(m, n)
    BY <2>1, LeavesLine
  <2> QED
    BY <1>1, <1>3, <2>1, <2>2, SizeAssumption DEF LineInv, TypeOK, Offsets
<1> QED
  BY <1>1, <1>2, <1>3, SizeAssumption

-----------------------------------------------------------------------------
(* Facts about the line before a key *)

LEMMA LineFacts ==
  ASSUME Inv, ~overrun
  PROVE  /\ line \in Lines /\ cursor \in Offsets /\ cursor \in Nat /\ cursor < Size
         /\ Ended(line, cursor) /\ StrLen(line) = cursor
  BY EndedStrLen, SizeAssumption DEF Inv, TypeOK, Lines, Offsets

LEMMA StoreLine ==
  ASSUME Inv, ~overrun, NEW ch \in Char, Store(ch)
  PROVE  LineInv([line EXCEPT ![cursor] = ch], cursor + 1)
<1>1. /\ line \in Lines /\ cursor \in Offsets /\ cursor \in Nat /\ cursor < Size
      /\ Ended(line, cursor) /\ StrLen(line) = cursor
  BY LineFacts
<1>2. Prints([line EXCEPT ![cursor] = ch], cursor + 1)
  BY <1>1 DEF Store
<1>3. [line EXCEPT ![cursor] = ch] \in Lines
  BY <1>1 DEF Lines
<1>4. Ended([line EXCEPT ![cursor] = ch], cursor + 1)
  BY <1>1, CharIsNoNul, SizeAssumption DEF Ended, Offsets, Lines
<1> QED
  BY <1>1, <1>2, <1>3, <1>4, PrintsLine

\* The word to erase starts in the line: a set of offsets has a last one.
LEMMA WordStartInLine ==
  ASSUME NEW m, NEW n \in 0..Size, StrLen(m) = n
  PROVE  WordStart(m) \in 0..n
<1> DEFINE S == {i \in 0..StrLen(m) : /\ m[i] \in {Blank, NUL}
                                      /\ \E j \in i..StrLen(m) : m[j] \notin {Blank, NUL}}
<1> DEFINE T == {k \in Nat : n - k \in S}
<1>0. n \in Nat
  BY SizeAssumption
<1>1. WordStart(m) = IF S = {} THEN 0 ELSE CHOOSE i \in S : \A j \in S : j <= i
  BY DEF WordStart
<1>. S \subseteq 0..n
  OBVIOUS
<1> HIDE DEF S
<1>2. CASE S # {}
  <2>1. PICK s \in S : TRUE
    BY <1>2
  <2>2. n - s \in T
    BY <1>0, <2>1
  <2>3. PICK k \in T : \A l \in T : ~(<<l, k>> \in OpToRel(<, Nat))
    <3>1. T \subseteq Nat /\ T # {}
      BY <2>2
    <3> HIDE DEF T
    <3> QED
      BY <3>1, NatLessThanWellFounded, WFMin, Zenon
  <2>4. \A l \in T : k <= l
    <3>1. \A l \in T : l \in Nat /\ k \in Nat
      OBVIOUS
    <3>2. ASSUME NEW l \in T, l < k PROVE FALSE
      BY <2>3, <3>1, <3>2 DEF OpToRel
    <3> QED
      BY <3>1, <3>2
  <2>5. n - k \in S /\ \A j \in S : j <= n - k
    <3>1. \A j \in S : n - j \in T
      BY <1>0
    <3> QED
      BY <1>0, <2>4, <3>1
  <2>6. (CHOOSE i \in S : \A j \in S : j <= i) \in S
    BY <2>5
  <2> QED
    BY <1>1, <1>2, <2>6
<1>3. CASE S = {}
  BY <1>0, <1>1, <1>3
<1> QED
  BY <1>2, <1>3

-----------------------------------------------------------------------------
(* The steps *)

LEMMA InitInv == Init => Inv
<1> SUFFICES ASSUME Init PROVE Inv
  OBVIOUS
<1>1. 0 \in Offsets /\ 0 \in 0..Size
  BY SizeAssumption DEF Offsets
<1>2. line \in Lines /\ Ended(line, 0)
  BY SizeAssumption DEF Init, Lines, Ended, Offsets
<1>3. TypeOK
  BY <1>1, <1>2 DEF Init, TypeOK, Lines, Modes
<1> QED
  BY <1>1, <1>2, <1>3 DEF Init, Inv, Shown

\* What every step keeps, however it leaves the line.
LEMMA KeptLine ==
  ASSUME Inv, ~overrun, NEW m, NEW n, LineInv(m, n)
  PROVE  /\ line' \in Lines /\ cursor' \in 0..Size /\ overrun' \in BOOLEAN
         /\ Ended(line', cursor') /\ (~overrun' => cursor' \in Offsets)
         /\ overrun' = (n = Size)
<1>1. overrun' \in BOOLEAN
  BY Zenon DEF LineInv
<1>2. n \in 0..Size /\ (n # Size => n \in Offsets)
  BY SizeAssumption DEF LineInv, Ended, Offsets
<1> QED
  BY <1>1, <1>2 DEF LineInv

\* write_status leaves the last text with the others.
LEMMA StatusWritten ==
  ASSUME Inv, WriteStatus,
         line' \in Lines, cursor' \in 0..Size, overrun' \in BOOLEAN,
         ~overrun' => cursor' \in Offsets /\ Ended(line', cursor')
  PROVE  /\ told' \in Seq(Char) \cup {None}
         /\ {keyed', uidKnown'} \subseteq BOOLEAN
         /\ keyed' => uidKnown'
         /\ Shown'
<1>1. CASE overrun'
  BY <1>1 DEF WriteStatus, Inv, TypeOK, Shown
<1>2. CASE ~overrun'
  <2>1. StrLen(line') = cursor' /\ Text(line') \in Seq(Char)
    BY <1>2, EndedStrLen, EndedText
  <2> QED
    BY <1>2, <2>1 DEF WriteStatus, Inv, TypeOK, Shown
<1> QED
  BY <1>1, <1>2

\* A key of the typing line: it leaves a well-formed line or the buffer, and
\* leaves it only from an empty line or one without room for two characters.
Keyed ==
  /\ line' \in Lines /\ cursor' \in 0..Size /\ overrun' \in BOOLEAN
  /\ ~overrun' => cursor' \in Offsets /\ Ended(line', cursor')
  /\ 0 < cursor /\ cursor + 2 < Size => ~overrun'

LEMMA OverrunKeyed ==
  ASSUME Inv, ~overrun, Overruns, cursor = 0 \/ Size <= cursor + 2
  PROVE  Keyed
  BY LineFacts, SizeAssumption DEF Overruns, Keyed, Offsets

LEMMA LineKeyed ==
  ASSUME Inv, ~overrun, NEW m, NEW n, LineInv(m, n), n = Size => Size <= cursor + 2
  PROVE  Keyed
  BY KeptLine, LineFacts, SizeAssumption DEF Keyed, Offsets

LEMMA SameLineKeyed ==
  ASSUME Inv, ~overrun, UNCHANGED lineVars
  PROVE  Keyed
  BY LineFacts DEF Keyed, lineVars, Inv, TypeOK

LEMMA StoreKeyed ==
  ASSUME Inv, ~overrun, NEW ch \in Char, Store(ch)
  PROVE  Keyed
<1>1. LineInv([line EXCEPT ![cursor] = ch], cursor + 1)
  BY StoreLine
<1>2. cursor \in Nat
  BY LineFacts
<1> QED
  BY <1>1, <1>2, LineKeyed, SizeAssumption

LEMMA ZeroAtKeyed ==
  ASSUME Inv, ~overrun, NEW w \in 0..cursor, NEW c \in Int, w <= c,
         Prints(Zeroed(line, w, cursor), c)
  PROVE  Keyed
<1>1. line \in Lines /\ Ended(line, cursor) /\ cursor \in Nat /\ cursor < Size
  BY LineFacts
<1>2. LineInv(Zeroed(line, w, cursor), w)
  BY <1>1, ZeroedLine, PrintsLine
<1> QED
  BY <1>1, <1>2, LineKeyed

LEMMA GaudyKeyed ==
  ASSUME Inv, ~overrun, Gaudy
  PROVE  Keyed
<1>1. /\ line \in Lines /\ cursor \in Offsets /\ cursor \in Nat /\ cursor < Size
      /\ Ended(line, cursor) /\ StrLen(line) = cursor
  BY LineFacts
<1>2. PICK ch \in {STX, ETX} : Prints([line EXCEPT ![cursor] = ch], cursor + 1)
  BY <1>1 DEF Gaudy
<1>3. ch \in Char
  BY DEF Char
<1>4. [line EXCEPT ![cursor] = ch] \in Lines
  BY <1>1, <1>3 DEF Lines
<1>5. Ended([line EXCEPT ![cursor] = ch], cursor + 1)
  BY <1>1, <1>3, CharIsNoNul, SizeAssumption DEF Ended, Offsets, Lines
<1>6. LineInv([line EXCEPT ![cursor] = ch], cursor + 1)
  BY <1>1, <1>2, <1>4, <1>5, PrintsLine
<1> QED
  BY <1>1, <1>6, LineKeyed

\* The last character of the line, if it has one, is zeroed.
LEMMA LastKeyed ==
  ASSUME Inv, ~overrun, cursor > 0, NEW c \in Int, cursor - 1 <= c,
         Prints([line EXCEPT ![cursor - 1] = NUL], c)
  PROVE  Keyed
<1>1. line \in Lines /\ cursor \in Nat /\ cursor < Size /\ Ended(line, cursor)
  BY LineFacts
<1>2. [line EXCEPT ![cursor - 1] = NUL] \in Lines
  BY <1>1 DEF Lines
<1>3. Ended([line EXCEPT ![cursor - 1] = NUL], cursor - 1)
  BY <1>1, SizeAssumption DEF Ended, Offsets, Lines
<1>4. LineInv([line EXCEPT ![cursor - 1] = NUL], cursor - 1)
  BY <1>1, <1>2, <1>3, PrintsLine
<1> QED
  BY <1>1, <1>4, LineKeyed

LEMMA BackspaceKeyed ==
  ASSUME Inv, ~overrun, Backspace
  PROVE  Keyed
<1>1. cursor \in Offsets /\ cursor \in Nat /\ cursor < Size /\ StrLen(line) = cursor
  BY LineFacts
<1>2. CASE cursor = 0
  BY <1>1, <1>2, OverrunKeyed, SizeAssumption DEF Backspace, Delete, Offsets
<1>3. CASE cursor > 0
  <2>1. Prints([line EXCEPT ![cursor - 1] = NUL], cursor)
    BY <1>1, <1>3, SizeAssumption DEF Backspace, Delete, Offsets
  <2>2. cursor \in Int /\ cursor - 1 <= cursor
    BY <1>1
  <2> QED
    BY <1>3, <2>1, <2>2, LastKeyed
<1> QED
  BY <1>1, <1>2, <1>3

LEMMA KeyBackspaceKeyed ==
  ASSUME Inv, ~overrun, KeyBackspace
  PROVE  Keyed
<1>1. cursor \in Nat /\ StrLen(line) = cursor
  BY LineFacts
<1>2. CASE cursor = 0
  BY <1>1, <1>2, OverrunKeyed DEF KeyBackspace
<1>3. CASE cursor > 0
  <2>1. Prints([line EXCEPT ![cursor - 1] = NUL], cursor - 1)
    BY <1>1, <1>3 DEF KeyBackspace
  <2>2. cursor - 1 \in Int /\ cursor - 1 <= cursor - 1
    BY <1>1
  <2> QED
    BY <1>3, <2>1, <2>2, LastKeyed
<1> QED
  BY <1>1, <1>2, <1>3

LEMMA KillKeyed ==
  ASSUME Inv, ~overrun, Kill
  PROVE  Keyed
<1>1. /\ line \in Lines /\ cursor \in Nat /\ cursor < Size
      /\ Ended(line, cursor) /\ StrLen(line) = cursor
  BY LineFacts
<1>2. Leaves(line, cursor)
  BY <1>1 DEF Kill
<1>3. LineInv(line, cursor)
  BY <1>1, <1>2, LeavesLine
<1> QED
  BY <1>1, <1>3, LineKeyed

LEMMA EraseLineKeyed ==
  ASSUME Inv, ~overrun, EraseLine
  PROVE  Keyed
<1>1. cursor \in Nat /\ StrLen(line) = cursor
  BY LineFacts
<1>2. Prints(Zeroed(line, 0, cursor), 0)
  BY <1>1 DEF EraseLine
<1> QED
  BY <1>1, <1>2, ZeroAtKeyed

LEMMA EraseWordKeyed ==
  ASSUME Inv, ~overrun, EraseWord
  PROVE  Keyed
<1>1. cursor \in Nat /\ cursor \in 0..Size /\ StrLen(line) = cursor
  BY LineFacts DEF Ended
<1>2. WordStart(line) \in 0..cursor
  BY <1>1, WordStartInLine
<1>3. Prints(Zeroed(line, WordStart(line), cursor), cursor)
  BY <1>1 DEF EraseWord
<1> QED
  BY <1>1, <1>2, <1>3, ZeroAtKeyed

LEMMA EnterKeyed ==
  ASSUME Inv, ~overrun, Enter
  PROVE  Keyed /\ chat' \in Seq(Char) \cup {None}
<1>1. /\ line \in Lines /\ cursor \in Offsets /\ cursor \in Nat /\ cursor < Size
      /\ Ended(line, cursor) /\ TypeOK
  BY LineFacts DEF Inv
<1>2. CASE ~gaudy
  <2>1. WriteOut(line, cursor)
    BY <1>2 DEF Enter
  <2> QED
    BY <1>1, <2>1, WriteOutLine DEF Keyed
<1>3. CASE gaudy /\ cursor + 1 \notin Offsets
  <2>1. Overruns /\ chat' = chat
    BY <1>1, <1>3 DEF Enter
  <2>2. Size <= cursor + 2
    BY <1>1, <1>3, SizeAssumption DEF Offsets
  <2> QED
    BY <1>1, <2>1, <2>2, OverrunKeyed DEF TypeOK
<1>4. CASE gaudy /\ cursor + 1 \in Offsets
  <2> DEFINE m == [line EXCEPT ![cursor] = ETX, ![cursor + 1] = Blank]
  <2>1. WriteOut(m, cursor + 2)
    BY <1>1, <1>4 DEF Enter
  <2>2. m \in Lines
    BY <1>1, <1>4 DEF Lines, Char
  <2>3. ETX # NUL /\ Blank # NUL
    BY CharIsNoNul DEF Char
  <2>4. Ended(m, cursor + 2)
    BY <1>1, <1>4, <2>3, SizeAssumption DEF Ended, Offsets, Lines
  <2> HIDE DEF m
  <2> QED
    BY <1>1, <2>1, <2>2, <2>4, WriteOutLine DEF Keyed
<1> QED
  BY <1>2, <1>3, <1>4

-----------------------------------------------------------------------------
(* The invariant *)

\* The keys of the typing line write the status at the end.
LEMMA KeyInv ==
  ASSUME Inv, ~overrun, Keyed, WriteStatus,
         chat' \in Seq(Char) \cup {None}, mode' \in Modes,
         gaudy' \in BOOLEAN, running' \in BOOLEAN
  PROVE  Inv'
<1>1. /\ told' \in Seq(Char) \cup {None}
      /\ {keyed', uidKnown'} \subseteq BOOLEAN
      /\ keyed' => uidKnown'
      /\ Shown'
  BY StatusWritten DEF Keyed
<1>2. TypeOK'
  BY <1>1 DEF Keyed, TypeOK, Lines
<1> QED
  BY <1>1, <1>2 DEF Inv, Keyed

\* The other steps leave the line alone, or clear it.
LEMMA ModeInv ==
  ASSUME Inv, ~overrun, Return \/ ReceiveUid \/ (Quit /\ mode # "edit")
  PROVE  Inv'
<1>1. UNCHANGED <<line, cursor, overrun, told, keyed, chat, gaudy>>
  BY DEF Return, ReceiveUid, Quit, netVars, lineVars
<1>2. mode' \in Modes /\ running' \in BOOLEAN
  BY DEF Return, ReceiveUid, Quit, Inv, TypeOK, Modes
<1>3. uidKnown' \in BOOLEAN /\ (uidKnown => uidKnown')
  BY DEF Return, ReceiveUid, Quit, netVars, Inv, TypeOK
<1>4. TypeOK'
  BY <1>1, <1>2, <1>3 DEF Inv, TypeOK
<1>5. Shown'
  BY <1>1 DEF Inv, Shown, Text, StrLen
<1> QED
  BY <1>1, <1>3, <1>4, <1>5 DEF Inv, Ended

LEMMA YellStep ==
  ASSUME Inv, ~overrun, Yell
  PROVE  Inv' /\ ~overrun'
<1>1. PICK y \in Yells : WriteOut(Copied(y), cursor)
  BY DEF Yell
<1>2. y \in Seq(Letters) /\ Len(y) \in Nat /\ 0 < Len(y) /\ Len(y) < Size
  BY YellAssumption
<1>3. Copied(y) \in Lines
  BY <1>2, SizeAssumption DEF Copied, Lines, Char, Offsets
<1>4. \A i \in 1..Len(y) : y[i] # NUL
  BY <1>2, CharIsNoNul DEF Char
<1>5. Ended(Copied(y), Len(y))
  BY <1>2, <1>4, SizeAssumption DEF Copied, Ended, Offsets
<1>6. StrLen(Copied(y)) = Len(y) /\ Text(Copied(y)) \in Seq(Char)
  BY <1>3, <1>5, EndedStrLen, EndedText
<1>7. /\ chat' \in Seq(Char) /\ line' = Zeroed(Copied(y), 0, Size - 1)
      /\ cursor' = 0
  BY <1>1, <1>2, <1>6, SizeAssumption DEF WriteOut
<1>a. overrun' = FALSE
  <2>1. overrun' = (Len(y) = Size)
    BY <1>1, <1>2, <1>6 DEF WriteOut
  <2>2. ~(Len(y) = Size)
    BY <1>2, SizeAssumption
  <2> QED
    BY <2>1, <2>2, Zenon
<1>8. line' \in Lines /\ Ended(line', 0)
  BY <1>3, <1>7, EmptyLine
<1>9. UNCHANGED <<gaudy, running, uidKnown, told, keyed>> /\ mode' \in Modes
  BY DEF Yell, Modes
<1>10. 0 \in Offsets /\ 0 \in 0..Size
  BY SizeAssumption DEF Offsets
<1>11. TypeOK'
  BY <1>7, <1>a, <1>8, <1>9, <1>10 DEF Inv, TypeOK, Lines
<1> QED
  BY <1>7, <1>a, <1>8, <1>9, <1>10, <1>11 DEF Inv, Shown

\* Every step keeps the invariant, and leaves the buffer only from an empty
\* line or one that is nearly full.
LEMMA StepInv ==
  ASSUME Inv, [Next]_vars
  PROVE  /\ Inv'
         /\ ~overrun /\ 0 < cursor /\ cursor + 2 < Size => ~overrun'
<1>0. CASE UNCHANGED vars
  BY <1>0 DEF vars, lineVars, netVars, Inv, TypeOK, Ended, Shown, Text, StrLen
<1>1. CASE Next
  <2>0. ~overrun
    BY <1>1 DEF Next, Type, Arrow, Gaudy, Backspace, Delete, KeyBackspace, Enter, Kill,
       EraseLine, EraseWord, EnterIM, EnterLurk, EnterYell, Leave, Return, Yell, Quit,
       ReceiveUid, Pressed, Ready
  <2>1. ASSUME Keyed, WriteStatus, chat' \in Seq(Char) \cup {None}, mode' \in Modes,
               gaudy' \in BOOLEAN, running' \in BOOLEAN
        PROVE  /\ Inv'
               /\ ~overrun /\ 0 < cursor /\ cursor + 2 < Size => ~overrun'
    BY <2>0, <2>1, KeyInv DEF Keyed
  <2>2. TypeOK
    BY DEF Inv
  <2>3. CASE Type
    <3>1. PICK ch \in Letters \cup {Blank} : Store(ch) /\ WriteStatus
      BY <2>3 DEF Type
    <3>2. Keyed
      BY <2>0, <3>1, StoreKeyed DEF Char
    <3> QED
      BY <2>1, <2>2, <2>3, <3>1, <3>2 DEF Type, Pressed, Store, TypeOK
  <2>4. CASE Arrow
    <3>1. Keyed /\ UNCHANGED <<gaudy, mode>>
      <4>1. CASE \E ch \in {STX, ETX} : Store(ch)
        BY <2>0, <4>1, StoreKeyed DEF Char, Store
      <4>2. CASE UNCHANGED <<lineVars, gaudy, mode>>
        BY <2>0, <4>2, SameLineKeyed
      <4> QED
        BY <2>4, <4>1, <4>2 DEF Arrow
    <3> QED
      BY <2>1, <2>2, <2>4, <3>1 DEF Arrow, Pressed, TypeOK
  <2>5. CASE Gaudy
    <3>1. gaudy' \in BOOLEAN
      BY <2>5 DEF Gaudy
    <3> QED
      BY <2>0, <2>1, <2>2, <2>5, <3>1, GaudyKeyed DEF Gaudy, Pressed, TypeOK
  <2>6. CASE Backspace
    BY <2>0, <2>1, <2>2, <2>6, BackspaceKeyed DEF Backspace, Delete, Pressed, TypeOK
  <2>7. CASE KeyBackspace
    BY <2>0, <2>1, <2>2, <2>7, KeyBackspaceKeyed DEF KeyBackspace, Pressed, TypeOK
  <2>8. CASE Enter
    BY <2>0, <2>1, <2>2, <2>8, EnterKeyed DEF Enter, TypeOK
  <2>9. CASE Kill
    BY <2>0, <2>1, <2>2, <2>9, KillKeyed DEF Kill, Pressed, TypeOK
  <2>10. CASE EraseLine
    BY <2>0, <2>1, <2>2, <2>10, EraseLineKeyed DEF EraseLine, Pressed, TypeOK
  <2>11. CASE EraseWord
    BY <2>0, <2>1, <2>2, <2>11, EraseWordKeyed DEF EraseWord, Pressed, TypeOK
  <2>12. CASE EnterIM \/ EnterLurk \/ EnterYell
    BY <2>0, <2>1, <2>2, <2>12, SameLineKeyed
       DEF EnterIM, EnterLurk, EnterYell, Leave, Pressed, TypeOK, Modes
  <2>13. CASE Return \/ ReceiveUid \/ (Quit /\ mode # "edit")
    <3>1. UNCHANGED overrun
      BY <2>13 DEF Return, ReceiveUid, Quit, lineVars
    <3>2. Inv'
      BY <2>0, <2>13, ModeInv
    <3> QED
      BY <2>0, <3>1, <3>2
  <2>14. CASE Quit /\ mode = "edit"
    BY <2>0, <2>1, <2>2, <2>14, SameLineKeyed DEF Quit, TypeOK
  <2>15. CASE Yell
    BY <2>0, <2>15, YellStep
  <2> QED
    BY <1>1, <2>3, <2>4, <2>5, <2>6, <2>7, <2>8, <2>9, <2>10, <2>11, <2>12, <2>13,
       <2>14, <2>15 DEF Next
<1> QED
  BY <1>0, <1>1

LEMMA InvIsKept == Spec => []Inv
<1>1. Init => Inv
  BY InitInv
<1>2. Inv /\ [Next]_vars => Inv'
  BY StepInv
<1> QED
  BY <1>1, <1>2, PTL DEF Spec

\* What the invariant says of strlen and of the text.
LEMMA InvSays == Inv => TypeOK /\ CursorIsEnd /\ NothingHidden /\ StatusFollows
<1> SUFFICES ASSUME Inv PROVE TypeOK /\ CursorIsEnd /\ NothingHidden /\ StatusFollows
  OBVIOUS
<1>1. CASE overrun
  BY <1>1 DEF Inv, CursorIsEnd, NothingHidden, StatusFollows
<1>2. CASE ~overrun
  BY <1>2, LineFacts DEF Inv, CursorIsEnd, NothingHidden, StatusFollows, Ended, Shown
<1> QED
  BY <1>1, <1>2

\* The typing line keeps its shape: the types, the cursor at the end and
\* nothing behind the end (client.c:1076-1310).
THEOREM TypingLineIsKept == Spec => [](TypeOK /\ CursorIsEnd /\ NothingHidden)
  BY InvSays, InvIsKept, PTL

\* What is typed is what the others see: after every key of the typing line the
\* last status written is the line, unless that is empty (clientsocket.c:103).
THEOREM OthersSeeTheLine == Spec => []StatusFollows
  BY InvSays, InvIsKept, PTL

\* The text of a line with two characters added behind its end.
LEMMA TextOfTwoMore ==
  ASSUME NEW n \in Nat, n + 2 <= Size, line \in Lines, Ended(line, n),
         NEW a \in Char, NEW b \in Char
  PROVE  Text([line EXCEPT ![n] = a, ![n + 1] = b]) = Text(line) \o <<a, b>>
<1> DEFINE m == [line EXCEPT ![n] = a, ![n + 1] = b]
<1>1. a # NUL /\ b # NUL
  BY CharIsNoNul
<1>2. n \in Offsets /\ n + 1 \in Offsets
  BY SizeAssumption DEF Offsets
<1>3. Ended(m, n + 2)
  BY <1>1, <1>2, SizeAssumption DEF Ended, Offsets, Lines
<1>4. StrLen(m) = n + 2 /\ StrLen(line) = n
  BY <1>3, EndedStrLen
<1>5. /\ \A i \in 1..n : m[i - 1] = line[i - 1]
      /\ m[n] = a /\ m[n + 1] = b
  BY <1>2, SizeAssumption DEF Lines, Offsets
<1> HIDE DEF m
<1>6. Text(m) = [i \in 1..(n + 2) |-> m[i - 1]] /\ Text(line) = [i \in 1..n |-> line[i - 1]]
  BY <1>4 DEF Text
<1>7. Text(line) \in Seq(Char)
  BY EndedText
<1>8. DOMAIN (Text(line) \o <<a, b>>) = 1..(n + 2) /\ Len(Text(line)) = n
  BY <1>6, <1>7
<1>9. \A i \in 1..(n + 2) : Text(m)[i] = (Text(line) \o <<a, b>>)[i]
  <2> TAKE i \in 1..(n + 2)
  <2>1. CASE i \in 1..n
    <3>1. (Text(line) \o <<a, b>>)[i] = Text(line)[i]
      BY <1>7, <1>8, <2>1
    <3> QED
      BY <1>5, <1>6, <2>1, <3>1
  <2>2. CASE i = n + 1
    <3>1. (Text(line) \o <<a, b>>)[n + 1] = a
      BY <1>7, <1>8
    <3>2. Text(m)[n + 1] = m[n]
      BY <1>6
    <3> QED
      BY <1>5, <2>2, <3>1, <3>2
  <2>3. CASE i = n + 2
    <3>1. (Text(line) \o <<a, b>>)[n + 2] = b
      BY <1>7, <1>8
    <3>2. Text(m)[n + 2] = m[n + 1]
      BY <1>6
    <3> QED
      BY <1>5, <2>3, <3>1, <3>2
  <2>4. i \in 1..n \/ i = n + 1 \/ i = n + 2
    OBVIOUS
  <2> QED
    BY <2>1, <2>2, <2>3, <2>4, Zenon
<1>10. /\ Text(m) = [i \in 1..(n + 2) |-> Text(m)[i]]
       /\ Text(line) \o <<a, b>> = [i \in 1..(n + 2) |-> (Text(line) \o <<a, b>>)[i]]
  BY <1>6, <1>7, <1>8
<1> QED
  BY <1>9, <1>10 DEF m

LEMMA EnterSays ==
  ASSUME Inv, ~overrun, Enter, keyed, StrLen(line) > 0, chat' # chat
  PROVE  chat' = told \o (IF gaudy THEN <<ETX, Blank>> ELSE <<>>)
<1>1. /\ line \in Lines /\ cursor \in Offsets /\ cursor \in Nat /\ cursor < Size
      /\ Ended(line, cursor) /\ StrLen(line) = cursor /\ cursor > 0
  BY LineFacts
<1>2. told = Text(line) /\ Text(line) \in Seq(Char)
  BY <1>1, EndedText DEF Inv, Shown
<1>3. CASE ~gaudy
  <2>1. chat' = Text(line)
    BY <1>1, <1>3 DEF Enter, WriteOut
  <2> QED
    BY <1>2, <1>3, <2>1
<1>4. CASE gaudy
  <2> DEFINE m == [line EXCEPT ![cursor] = ETX, ![cursor + 1] = Blank]
  <2>1. cursor + 1 \in Offsets /\ WriteOut(m, cursor + 2)
    BY <1>1, <1>4 DEF Enter
  <2>2. chat' = Text(m)
    BY <2>1 DEF WriteOut
  <2>3. cursor + 2 <= Size /\ ETX \in Char /\ Blank \in Char
    BY <1>1, <2>1, SizeAssumption DEF Offsets, Char
  <2>4. Text(m) = Text(line) \o <<ETX, Blank>>
    BY <1>1, <2>3, TextOfTwoMore
  <2> QED
    BY <1>2, <1>4, <2>2, <2>4
<1> QED
  BY <1>3, <1>4

\* What ENTER says is what the others were shown last, with the gaudy text
\* closed, whatever was typed, deleted and yelled before (client.c:1105-1127).
THEOREM SaidIsWhatWasShown == Spec => SaidWasShown
<1>1. Inv /\ [Next]_vars
        => [mode = "edit" /\ keyed /\ StrLen(line) > 0 /\ chat' # chat
              => chat' = told \o (IF gaudy THEN <<ETX, Blank>> ELSE <<>>)]_vars
  <2> SUFFICES ASSUME Inv, Next, mode = "edit", keyed, StrLen(line) > 0, chat' # chat
               PROVE  chat' = told \o (IF gaudy THEN <<ETX, Blank>> ELSE <<>>)
    BY DEF vars, netVars
  <2>1. Enter /\ ~overrun
    BY DEF Next, Type, Arrow, Gaudy, Backspace, Delete, KeyBackspace, Enter, Kill, EraseLine,
           EraseWord, EnterIM, EnterLurk, EnterYell, Leave, Return, Yell, Quit, ReceiveUid,
           Pressed, Ready, netVars
  <2> QED
    BY <2>1, EnterSays
<1> QED
  BY <1>1, InvIsKept, PTL DEF Spec, SaidWasShown

\* Only a key on an empty line, or on one without room for two more characters,
\* can leave client_buffer (client.c:1094, 1293).
THEOREM OnlyEdgesOverrun == Spec => RoomMeansSafe
<1>1. Inv /\ [Next]_vars
        => [~overrun /\ 0 < StrLen(line) /\ StrLen(line) + 2 < Size => ~overrun']_vars
  BY StepInv, LineFacts
<1> QED
  BY <1>1, InvIsKept, PTL DEF Spec, RoomMeansSafe

-----------------------------------------------------------------------------
(* ClientLoop: where the process is, and what it still may use *)

\* Where in the loop what is the case: the terminal is in curses mode from the
\* start to the cleanup, the socket is closed before that only by a denial, and
\* the loop is left only after CTRL-Q or a denial.
LoopInv ==
  /\ pc \in {"select", "keys", "write", "server", "cleanup"} => term = "curses"
  /\ pc \in {"start", "close"} => term = "shell"
  /\ pc = "write" => left > 0
  /\ pc # "ended" => (denied <=> sock = "closed")
  /\ ~is_running => quit \/ denied
  /\ exit = "none" <=> pc # "ended"

\* What select found at the server's side is there until it is read.
ReadyInv ==
  /\ pc = "keys" /\ "keys" \in ready => typed # <<>>
  /\ pc \in {"keys", "write", "server"} /\ "server" \in ready => inbox > 0 \/ conn # "open"

IInv == LoopTypeOK /\ LoopInv /\ ReadyInv /\ ClosedNotUsed /\ EndsInOrder

LEMMA LoopStarts == LoopInit => IInv
<1> SUFFICES ASSUME LoopInit PROVE IInv
  OBVIOUS
<1>1. typed \in Seq(Keys) /\ fifo \in Seq(Keys)
  BY DEF LoopInit
<1>2. LoopTypeOK
  <2>1. left \in 0..MostWrites /\ inbox \in Nat
    BY DEF LoopInit, MostWrites
  <2>2. ready \subseteq {"keys", "server"}
    BY DEF LoopInit
  <2>3. is_running \in BOOLEAN /\ pending \in BOOLEAN /\ alarm \in BOOLEAN
        /\ quit \in BOOLEAN /\ denied \in BOOLEAN
    BY Zenon DEF LoopInit
  <2> QED BY <1>1, <2>1, <2>2, <2>3, Zenon DEF LoopInit, LoopTypeOK
<1>3. LoopInv
  BY DEF LoopInit, LoopInv
<1>5. ReadyInv
  BY DEF LoopInit, ReadyInv
<1>4. ClosedNotUsed /\ EndsInOrder
  BY DEF LoopInit, ClosedNotUsed, EndsInOrder
<1> QED BY <1>2, <1>3, <1>4, <1>5 DEF IInv

LEMMA TailType ==
  ASSUME NEW S, NEW s \in Seq(S), Len(s) > 0
  PROVE  Tail(s) \in Seq(S)
OBVIOUS

\* One key, taken from the terminal or from ncurses.
LEMMA GetchTypes ==
  ASSUME LoopTypeOK, ReadyInv, pc = "keys", "keys" \in ready, NEW k \in Keys, Getch(k)
  PROVE  typed' \in Seq(Keys) /\ fifo' \in Seq(Keys)
<1> typed \in Seq(Keys) /\ fifo \in Seq(Keys) /\ typed # <<>>
  BY DEF LoopTypeOK, ReadyInv
<1>1. CASE fifo # <<>> /\ fifo' = Tail(fifo) /\ UNCHANGED typed
  BY <1>1
<1>2. CASE fifo' = <<>> /\ typed' = Tail(typed)
  BY <1>2
<1>3. CASE Len(typed) > 1 /\ fifo' = <<typed[2]>> /\ typed' = Tail(Tail(typed))
  <2>1. typed[2] \in Keys
    BY <1>3
  <2>2. Tail(typed) \in Seq(Keys) /\ Len(Tail(typed)) > 0
    BY <1>3
  <2>3. Tail(Tail(typed)) \in Seq(Keys)
    BY <2>2, TailType
  <2>4. <<typed[2]>> \in Seq(Keys)
    BY <2>1
  <2> QED BY ONLY <1>3, <2>3, <2>4
<1> QED BY <1>1, <1>2, <1>3 DEF Getch

LEMMA KeyKeeps == ASSUME IInv, Key PROVE IInv'
<1> USE DEF IInv
<1>1. PICK k \in Keys :
        /\ Getch(k)
        /\ left' \in IF k = "text" THEN 0..MostWrites ELSE {0}
        /\ alarm' = (alarm \/ k = "scroll")
        /\ quit' = (quit \/ k = "quit")
        /\ is_running' = (is_running /\ k # "quit")
  BY DEF Key
<1>2. typed' \in Seq(Keys) /\ fifo' \in Seq(Keys)
  BY <1>1, GetchTypes DEF Key
<1>3. left' \in 0..MostWrites
  BY <1>1 DEF MostWrites
<1>4. alarm' \in BOOLEAN /\ quit' \in BOOLEAN /\ is_running' \in BOOLEAN
  BY <1>1 DEF LoopTypeOK
<1>5. ~is_running' => quit' \/ denied'
  BY <1>1 DEF LoopInv, Key, LoopTypeOK
<1>6. quit => quit'
  BY <1>1
<1> pc = "keys" /\ pc' = (IF left' > 0 THEN "write" ELSE "server")
  /\ UNCHANGED <<ready, inbox, conn, pending, sock, term, exit, denied>>
  BY DEF Key, socketVars
<1>7. LoopTypeOK'
  BY <1>2, <1>3, <1>4 DEF LoopTypeOK
<1>8. LoopInv'
  BY <1>5 DEF LoopInv
<1>9. ReadyInv' /\ ClosedNotUsed'
  BY DEF ReadyInv, ClosedNotUsed
<1>10. EndsInOrder'
  BY <1>6 DEF EndsInOrder, LoopInv
<1> QED BY <1>7, <1>8, <1>9, <1>10

LEMMA WriteKeeps == ASSUME IInv, Write \/ Killed PROVE IInv'
<1> USE DEF IInv, LoopInv, ReadyInv, ClosedNotUsed, EndsInOrder, LoopTypeOK, keyVars, socketVars, endVars
<1>1. CASE Write
  <2>1. pc = "write" /\ left \in 1..MostWrites
    BY <1>1 DEF Write, MostWrites
  <2>2. left' \in 0..MostWrites /\ pc' \in {"server", "write"} /\ (pc' = "write" => left' > 0)
    BY <1>1, <2>1 DEF Write, AfterWrite, MostWrites
  <2>3. conn' \in {"open", "eof", "reset"} /\ (conn' = "open" <=> conn = "open")
    BY <1>1 DEF Write
  <2>4. UNCHANGED <<is_running, ready, typed, fifo, inbox, sock, alarm, term, exit, quit, denied>>
    BY <1>1 DEF Write
  <2>5. pending' \in BOOLEAN
    BY <1>1 DEF Write
  <2> QED BY <2>1, <2>2, <2>3, <2>4, <2>5
<1>2. CASE Killed
  BY <1>2 DEF Killed, Ends
<1> QED BY <1>1, <1>2

LEMMA WaitKeeps == ASSUME IInv, Start \/ WaitStep \/ NoKey PROVE IInv'
<1> USE DEF IInv, LoopInv, ReadyInv, ClosedNotUsed, EndsInOrder, LoopTypeOK, keyVars, socketVars, endVars
<1>1. CASE Start
  BY <1>1 DEF Start, Ends
<1>2. CASE Select
  BY <1>2 DEF Select, Readable
<1>3. CASE Interrupted
  BY <1>3 DEF Interrupted
<1>4. CASE BadDescriptor
  BY <1>4 DEF BadDescriptor
<1>5. CASE NoKey
  BY <1>5 DEF NoKey
<1> QED BY <1>1, <1>2, <1>3, <1>4, <1>5 DEF WaitStep

LEMMA ReadKeeps == ASSUME IInv, ReadFromServer PROVE IInv'
<1> USE DEF IInv, LoopInv, ReadyInv, ClosedNotUsed, EndsInOrder, LoopTypeOK, keyVars, socketVars, endVars, Again
<1>1. CASE NothingRead
  BY <1>1 DEF NothingRead
<1>2. CASE ReadMessages
  BY <1>2 DEF ReadMessages
<1>3. CASE ReadFails
  BY <1>3 DEF ReadFails
<1>4. CASE ReadEnd
  BY <1>4 DEF ReadEnd
<1> QED BY <1>1, <1>2, <1>3, <1>4 DEF ReadFromServer

LEMMA EndKeeps == ASSUME IInv, Cleanup \/ Close PROVE IInv'
<1> USE DEF IInv, LoopInv, ReadyInv, ClosedNotUsed, EndsInOrder, LoopTypeOK, keyVars, socketVars, endVars
<1>1. CASE Cleanup
  BY <1>1 DEF Cleanup
<1>2. CASE Close
  BY <1>2 DEF Close, Ends
<1> QED BY <1>1, <1>2

LEMMA WorldKeeps ==
  ASSUME IInv, UserTypes \/ ServerWrites \/ ServerCloses \/ AlarmRings
  PROVE  IInv'
<1> USE DEF IInv, LoopInv, ReadyInv, ClosedNotUsed, EndsInOrder, LoopTypeOK, keyVars, socketVars, endVars
<1>1. CASE UserTypes
  BY <1>1 DEF UserTypes
<1>2. CASE ServerWrites
  BY <1>2 DEF ServerWrites
<1>3. CASE ServerCloses
  BY <1>3 DEF ServerCloses
<1>4. CASE AlarmRings
  BY <1>4 DEF AlarmRings
<1> QED BY <1>1, <1>2, <1>3, <1>4

LEMMA LoopKeeps == IInv /\ [LoopNext]_loopVars => IInv'
<1> SUFFICES ASSUME IInv, [LoopNext]_loopVars PROVE IInv'
  OBVIOUS
<1>1. CASE LoopNext
  BY <1>1, KeyKeeps, WriteKeeps, WaitKeeps, ReadKeeps, EndKeeps, WorldKeeps
  DEF LoopNext, Client, KeyStep
<1>2. CASE UNCHANGED loopVars
  BY <1>2
  DEF IInv, LoopInv, ReadyInv, ClosedNotUsed, EndsInOrder, LoopTypeOK, loopVars, keyVars, socketVars, endVars
<1> QED BY <1>1, <1>2

LEMMA LoopInvariant == Safety => []IInv
BY LoopStarts, LoopKeeps, PTL DEF Safety

\* The client's variables keep their types (client.c:858-1366).
THEOREM ClientTypes == Safety => []LoopTypeOK
<1>1. IInv => LoopTypeOK
  BY DEF IInv
<1> QED BY <1>1, LoopInvariant, PTL

\* The client never waits in a read that select did not promise, though a key is
\* handled between select and the read (client.c:971-1316).
THEOREM ReadsDoNotWait == Safety => []NeverStuck
<1>1. IInv => NeverStuck
  BY DEF IInv, ReadyInv, NeverStuck
<1> QED BY <1>1, LoopInvariant, PTL

\* After the server's end was read the socket is not used, and the process ends
\* through its cleanup, for the reason the user is shown; a SIGPIPE is the only
\* other way (client.c:968-981, 1353-1357, clientsocket.c:229-233, 504-521).
THEOREM ClientEnds == Safety => [](ClosedNotUsed /\ EndsInOrder)
<1>1. IInv => ClosedNotUsed /\ EndsInOrder
  BY DEF IInv
<1> QED BY <1>1, LoopInvariant, PTL
=============================================================================
