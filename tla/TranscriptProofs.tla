-------------------------- MODULE TranscriptProofs --------------------------
(***************************************************************************)
(* For every set of lines to append, in any number, and whatever fresh     *)
(* memory holds: the transcript stays inside its buffer but for the zero   *)
(* behind it, plain text with the zero; and the user who scrolls has an    *)
(* alarm pending.                                                          *)
(***************************************************************************)
EXTENDS Transcript, TLAPS

\* Plain text comes in full lines, which 5 divides, and 5 does not divide 256
\* doubled any number of times.
PlainInv ==
  plain => /\ length % 5 = 0 /\ size % 5 # 0
           /\ text % 5 = 0
           /\ ~smashed

Inv == TypeOK /\ AtMostOneOver /\ PlainInv /\ ScrollingHasAlarm

LEMMA PaddedFacts ==
  ASSUME NEW n \in Nat, NEW g \in Nat
  PROVE  /\ Padded(n, g) \in Nat
         /\ g = 0 => Padded(n, g) % 5 = 0 /\ Padded(n, g) + 1 <= n + 4 * Columns
<1>1. LinesIn(n) \in Nat /\ LinesIn(n) * 40 <= n + 39
  BY DEF LinesIn, Columns
<1>2. (LinesIn(n) * 40) % 5 = 0
  BY <1>1
<1> QED
  BY <1>1, <1>2 DEF Padded, Columns

\* No later number of lines is below zero.
LEMMA WindowFacts ==
  ASSUME NEW n \in Nat
  PROVE  LinesIn(n) \in Nat /\ FirstOfLast(n) \in Nat
<1>1. LinesIn(n) \in Nat
  BY DEF LinesIn, Columns
<1> QED
  BY <1>1, RowsAssumption DEF FirstOfLast, AtLeast0

LEMMA InitInv == Init => Inv
<1> SUFFICES ASSUME Init PROVE Inv
  OBVIOUS
<1>1. /\ length = 120 /\ size = 256 /\ text = 0
      /\ 120 % 5 = 0 /\ 256 % 5 # 0 /\ 0 % 5 = 0
  BY DEF Init, Columns, InitialSize
<1>2. TypeOK
  <2>1. {scrolling, freed, smashed, plain} \subseteq BOOLEAN
    BY DEF Init
  <2>2. /\ length \in Nat /\ size \in Nat /\ text \in Nat
        /\ top \in Int /\ shown \in Nat /\ alarm \in 0..Seconds
    <3>1. FirstOfLast(length) \in Nat
      BY <1>1, WindowFacts
    <3> QED
      BY <1>1, <3>1, RowsAssumption DEF Init
  <2>3. pc \in {"idle", "grow", "print", "page", "return"} /\ away \subseteq {"im", "overtaken", "freed"}
    BY DEF Init
  <2> QED
    BY <2>1, <2>2, <2>3 DEF TypeOK
<1>3. PlainInv
  BY <1>1 DEF Init, PlainInv
<1> QED
  BY <1>1, <1>2, <1>3 DEF Init, Inv, AtMostOneOver, ScrollingHasAlarm

LEMMA PrintView ==
  ASSUME Inv, PrintEnd
  PROVE  shown' \in Nat /\ away' = {}
  BY WindowFacts DEF Inv, TypeOK, PrintEnd

LEMMA PageView ==
  ASSUME Inv, NEW l \in Int, PageUp(l) \/ PageDown(l)
  PROVE  shown' \in Nat /\ top' \in Int
<1>1. LinesIn(length) \in Nat
  BY WindowFacts DEF Inv, TypeOK
<1> QED
  BY <1>1 DEF Inv, TypeOK, PageUp, PageDown, AtLeast0

-----------------------------------------------------------------------------
(* The steps *)

LEMMA AppendInv ==
  ASSUME Inv, Append
  PROVE  Inv'
<1>1. PICK t \in Texts : /\ text' = Padded(t[1], t[2])
                         /\ smashed' = (smashed \/ text' + 1 > t[1] + 4 * Columns)
                         /\ plain' = (plain /\ t[2] = 0)
  BY DEF Append
<1>2. t[1] \in Nat /\ t[2] \in Nat
  BY TextsAssumption
<1>3. /\ text' \in Nat
      /\ t[2] = 0 => text' % 5 = 0 /\ text' + 1 <= t[1] + 4 * Columns
  BY <1>1, <1>2, PaddedFacts
<1>4. smashed' \in BOOLEAN /\ plain' \in BOOLEAN
  BY <1>1, Zenon
<1>5. plain' => plain /\ t[2] = 0
  BY <1>1
<1>6. t[2] = 0 /\ ~smashed => ~smashed'
  <2>1. t[2] = 0 => ~(text' + 1 > t[1] + 4 * Columns)
    BY <1>2, <1>3 DEF Columns
  <2> QED
    BY <1>1, <2>1, Zenon
<1>7. UNCHANGED <<length, size, freed, viewVars, alarm>> /\ pc' = "grow"
  BY DEF Append
<1>8. TypeOK'
  BY <1>3, <1>4, <1>7 DEF Inv, TypeOK, viewVars
<1>9. PlainInv'
  BY <1>3, <1>5, <1>6, <1>7 DEF Inv, PlainInv
<1> QED
  BY <1>7, <1>8, <1>9 DEF Inv, AtMostOneOver, ScrollingHasAlarm, viewVars

LEMMA GrowInv ==
  ASSUME Inv, Grow
  PROVE  Inv'
<1>1. PICK r \in Residue : /\ length + r < 2 * size
                           /\ length' = length + r
                           /\ plain' = (plain /\ r = 0)
  BY DEF Grow, Larger
<1>2. r \in Nat
  BY ResidueAssumption
<1>3. size' = 2 * size /\ freed' = TRUE /\ UNCHANGED <<pc, text, smashed, viewVars, alarm>>
  BY DEF Grow, Larger
<1>4. plain' \in BOOLEAN /\ (plain' => plain /\ r = 0)
  BY <1>1, Zenon
<1>5. TypeOK'
  BY <1>1, <1>2, <1>3, <1>4 DEF Inv, TypeOK, viewVars
<1>6. PlainInv'
  <2>1. size \in Nat /\ (size % 5 # 0 => (2 * size) % 5 # 0)
    BY DEF Inv, TypeOK
  <2> QED
    BY <1>1, <1>2, <1>3, <1>4, <2>1 DEF Inv, TypeOK, PlainInv
<1> QED
  BY <1>1, <1>3, <1>5, <1>6, <1>2 DEF Inv, TypeOK, AtMostOneOver, ScrollingHasAlarm, viewVars

LEMMA ConcatenateInv ==
  ASSUME Inv, Concatenate
  PROVE  Inv'
<1>1. /\ length + text <= size /\ length' = length + text
      /\ pc' \in {"page", "print"}
      /\ UNCHANGED <<size, text, freed, smashed, plain, viewVars, alarm>>
  BY DEF Concatenate, NoRoom, Inv, TypeOK
<1>2. TypeOK'
  BY <1>1 DEF Inv, TypeOK, viewVars
<1>3. PlainInv'
  BY <1>1 DEF Inv, TypeOK, PlainInv
<1> QED
  BY <1>1, <1>2, <1>3 DEF Inv, AtMostOneOver, ScrollingHasAlarm, viewVars

\* The steps that leave the buffer alone, and what they may do to the window.
LEMMA ViewInv ==
  ASSUME Inv, UNCHANGED <<length, size, text, smashed, plain>>,
         freed' \in BOOLEAN, pc' \in {"idle", "grow", "print", "page", "return"},
         shown' \in Nat, top' \in Int, away' \subseteq {"im", "overtaken", "freed"},
         \/ UNCHANGED <<scrolling, alarm>>
         \/ scrolling' \in BOOLEAN /\ alarm' = Seconds
         \/ scrolling' = FALSE /\ alarm' = 0
         \/ UNCHANGED scrolling /\ alarm > 1 /\ alarm' = alarm - 1
  PROVE  Inv'
<1>0. scrolling \in BOOLEAN /\ alarm \in 0..Seconds /\ (scrolling => alarm > 0)
  BY DEF Inv, TypeOK, ScrollingHasAlarm
<1>1. scrolling' \in BOOLEAN /\ alarm' \in 0..Seconds /\ (scrolling' => alarm' > 0)
  <2>1. scrolling' \in BOOLEAN
    BY <1>0, Zenon
  <2>2. alarm' \in 0..Seconds
    BY <1>0, RowsAssumption
  <2>3. scrolling' => alarm' > 0
    <3>1. CASE UNCHANGED <<scrolling, alarm>>
      BY <1>0, <3>1
    <3>2. CASE scrolling' \in BOOLEAN /\ alarm' = Seconds
      BY <3>2, RowsAssumption
    <3>3. CASE scrolling' = FALSE /\ alarm' = 0
      BY <3>3
    <3>4. CASE UNCHANGED scrolling /\ alarm > 1 /\ alarm' = alarm - 1
      BY <1>0, <3>4
    <3> QED
      BY <3>1, <3>2, <3>3, <3>4
  <2> QED
    BY <2>1, <2>2, <2>3
<1>2. TypeOK'
  BY <1>1 DEF Inv, TypeOK
<1> QED
  BY <1>1, <1>2 DEF Inv, TypeOK, AtMostOneOver, PlainInv, ScrollingHasAlarm

LEMMA StepInv ==
  ASSUME Inv, [Next]_vars
  PROVE  Inv'
<1> USE DEF viewVars, bufferVars
<1>0. TypeOK /\ top \in Int
  BY DEF Inv, TypeOK
<1>1. CASE UNCHANGED vars
  BY <1>1, <1>0, ViewInv DEF vars, TypeOK
<1>2. CASE Append
  BY <1>2, AppendInv
<1>3. CASE Grow
  BY <1>3, GrowInv
<1>4. CASE Concatenate
  BY <1>4, ConcatenateInv
<1>5. CASE Redraw
  <2>1. shown' \in Nat /\ away' = {} /\ top' \in Int
    BY <1>5, PrintView DEF Redraw
  <2> QED
    BY <1>0, <1>5, <2>1, ViewInv DEF Redraw, TypeOK
<1>6. CASE Page
  <2>1. shown' \in Nat /\ top' \in Int
    BY <1>0, <1>6, PageView DEF Page
  <2> QED
    BY <1>0, <1>6, <2>1, ViewInv DEF Page, TypeOK
<1>7. CASE Return
  BY <1>0, <1>7, ViewInv DEF Return, TypeOK
<1>8. CASE Down
  <2>1. shown' \in Nat /\ top' \in Int
    BY <1>0, <1>8, PageView DEF Down
  <2> QED
    BY <1>0, <1>8, <2>1, ViewInv DEF Down, Idle, TypeOK
<1>9. CASE Up
  <2>1. shown' \in Nat /\ top' \in Int
    BY <1>0, <1>9, PageView DEF Up
  <2> QED
    BY <1>0, <1>9, <2>1, ViewInv DEF Up, Idle, TypeOK
<1>10. CASE Resume
  <2>1. shown' \in Nat /\ away' = {} /\ top' \in Int
    BY <1>10, PrintView DEF Resume, PrintTranscript
  <2> QED
    BY <1>0, <1>10, <2>1, ViewInv DEF Resume, Idle, TypeOK
<1>11. CASE LeaveIM
  <2>1. shown' \in Nat /\ top' \in Int
    BY <1>0, <1>11, PageView DEF LeaveIM
  <2> QED
    BY <1>0, <1>11, <2>1, ViewInv DEF LeaveIM, Idle, TypeOK
<1>12. CASE Tick
  BY <1>0, <1>12, ViewInv DEF Tick, TypeOK
<1>13. CASE ScrollEnds
  <2>1. CASE freed
    <3>1. LinesIn(length) \in Nat
      BY <1>0, WindowFacts DEF TypeOK
    <3>2. shown' \in Nat /\ top' = 0 /\ away' = away \cup {"freed"}
      BY <1>13, <2>1, <3>1 DEF ScrollEnds
    <3>3. away' \subseteq {"im", "overtaken", "freed"}
      BY <1>0, <3>2 DEF TypeOK
    <3>4. UNCHANGED bufferVars /\ scrolling' = FALSE /\ alarm' = 0
      BY <1>13 DEF ScrollEnds
    <3>5. freed' \in BOOLEAN /\ pc' \in {"idle", "grow", "print", "page", "return"}
      BY <1>0, <3>4 DEF TypeOK
    <3>6. top' \in Int
      BY <3>2
    <3> QED
      BY <3>2, <3>3, <3>4, <3>5, <3>6, ViewInv
  <2>2. CASE ~freed
    <3>1. shown' \in Nat /\ away' = {} /\ top' \in Int
      BY <1>13, <2>2, PrintView DEF ScrollEnds, PrintTranscript
    <3> QED
      BY <1>0, <1>13, <3>1, ViewInv DEF ScrollEnds, TypeOK
  <2> QED
    BY <2>1, <2>2
<1> QED
  BY <1>1, <1>2, <1>3, <1>4, <1>5, <1>6, <1>7, <1>8, <1>9, <1>10, <1>11, <1>12, <1>13
     DEF Next, AppendStep

LEMMA InvIsKept == Spec => []Inv
  BY InitInv, StepInv, PTL DEF Spec

\* No line, however long, gaudy or often appended, makes the transcript pass its
\* buffer by more than the zero at its end (client.c:779-796).
THEOREM TranscriptFits == Spec => []AtMostOneOver
<1>1. Inv => AtMostOneOver
  BY DEF Inv
<1> QED
  BY <1>1, InvIsKept, PTL

\* Plain text stays inside the buffer with its zero, and inside the memory it is
\* padded in (client.c:760-796).
THEOREM PlainTextFits == Spec => []PlainFits
<1>1. Inv => PlainFits
  <2> SUFFICES ASSUME Inv, plain PROVE length < size /\ ~smashed
    BY DEF PlainFits
  <2>1. length \in Nat /\ size \in Nat /\ length <= size /\ length % 5 = 0 /\ size % 5 # 0
    BY DEF Inv, TypeOK, AtMostOneOver, PlainInv
  <2> QED
    BY <2>1 DEF Inv, PlainInv
<1> QED
  BY <1>1, InvIsKept, PTL

\* Nobody is left scrolling without an alarm that ends it (client.c:1148, 1163).
THEOREM ScrollingEnds == Spec => [](TypeOK /\ ScrollingHasAlarm)
<1>1. Inv => TypeOK /\ ScrollingHasAlarm
  BY DEF Inv
<1> QED
  BY <1>1, InvIsKept, PTL

-----------------------------------------------------------------------------
(* The end of the transcript                                               *)

AtEnd == shown + Rows >= LinesIn(length)

\* From the redrawing of the window on, until the next line is appended.
EndInv == pc \in {"idle", "return"} /\ ~scrolling /\ away = {} => AtEnd

LEMMA PrintShowsEnd ==
  ASSUME Inv, PrintEnd, length' = length
  PROVE  AtEnd'
<1>1. LinesIn(length) \in Nat
  BY WindowFacts DEF Inv, TypeOK
<1>2. FirstOfLast(length) + Rows >= LinesIn(length)
  BY <1>1, RowsAssumption DEF FirstOfLast, AtLeast0
<1> QED
  BY <1>2 DEF PrintEnd, AtEnd

LEMMA StepEnd ==
  ASSUME Inv, EndInv, [Next]_vars
  PROVE  EndInv'
<1> USE DEF viewVars, bufferVars
<1>1. CASE Append \/ Grow \/ Concatenate
  <2>1. pc' \in {"grow", "page", "print"}
    BY <1>1 DEF Append, Grow, Concatenate
  <2> QED
    BY <2>1 DEF EndInv
<1>2. CASE Redraw
  BY <1>2, PrintShowsEnd DEF Redraw, EndInv
<1>3. CASE Page
  <2>1. scrolling' = scrolling /\ away' = IF scrolling THEN away ELSE away \cup {"overtaken"}
    BY <1>3 DEF Page
  <2> QED
    BY <2>1 DEF EndInv
<1>4. CASE Return
  <2>1. pc = "return" /\ UNCHANGED <<length, shown, scrolling, away>>
    BY <1>4 DEF Return
  <2> QED
    BY <2>1 DEF EndInv, AtEnd
<1>5. CASE Down \/ Up
  <2>1. scrolling' = TRUE
    BY <1>5 DEF Down, Up
  <2> QED
    BY <2>1 DEF EndInv
<1>6. CASE Resume
  BY <1>6, PrintShowsEnd DEF Resume, Idle, PrintTranscript, EndInv
<1>7. CASE LeaveIM
  <2>1. scrolling' = scrolling /\ away' = IF scrolling THEN away ELSE away \cup {"im"}
    BY <1>7 DEF LeaveIM
  <2> QED
    BY <2>1 DEF EndInv
<1>8. CASE ScrollEnds
  <2>1. CASE freed
    <3>1. away' = away \cup {"freed"}
      BY <1>8, <2>1 DEF ScrollEnds
    <3> QED
      BY <3>1 DEF EndInv
  <2>2. CASE ~freed
    BY <1>8, <2>2, PrintShowsEnd DEF ScrollEnds, PrintTranscript, EndInv
  <2> QED
    BY <2>1, <2>2
<1>9. CASE Tick \/ UNCHANGED vars
  <2>1. UNCHANGED <<pc, length, shown, scrolling, away>>
    BY <1>9 DEF Tick, vars
  <2> QED
    BY <2>1 DEF EndInv, AtEnd
<1> QED
  BY <1>1, <1>2, <1>3, <1>4, <1>5, <1>6, <1>7, <1>8, <1>9 DEF Next, AppendStep

\* Wherever the alarm interrupts the appending of a line, who does not scroll is
\* shown the end of the transcript, but for the three exceptions of the property
\* (client.c:776-835).
THEOREM EndIsShown == Spec => []LiveShowsEnd
<1>1. Init => EndInv
  <2> SUFFICES ASSUME Init PROVE AtEnd
    BY DEF EndInv
  <2>1. length \in Nat /\ shown = FirstOfLast(length)
    BY DEF Init, Columns
  <2>2. LinesIn(length) \in Nat
    BY <2>1, WindowFacts
  <2> QED
    BY <2>1, <2>2, RowsAssumption DEF AtEnd, FirstOfLast, AtLeast0
<1>2. EndInv => LiveShowsEnd
  BY DEF EndInv, AtEnd, LiveShowsEnd
<1>3. Inv /\ EndInv /\ [Next]_vars => EndInv'
  BY StepEnd
<1> QED
  BY <1>1, <1>2, <1>3, InvIsKept, PTL DEF Spec
=============================================================================
