----------------------------- MODULE Transcript -----------------------------
(***************************************************************************)
(* The transcript of client/client.c: the buffer that grows as lines are   *)
(* appended, the scrolling keys, and the alarm that ends scrolling.        *)
(*                                                                         *)
(* The main program appends lines and handles keys one after the other.    *)
(* The handler of SIGALRM may run between any two of its steps, therefore  *)
(* appending is divided at each point where the handler can tell.  Text is *)
(* counted, not kept: what matters is how long it is and which line the    *)
(* window begins with.  How gaudy markers shift the columns of a line is   *)
(* left out.                                                               *)
(***************************************************************************)
EXTENDS Integers

CONSTANTS
  Rows,      \* TRANSCRIPT_MAX_ROWS, 23
  Seconds,   \* the argument of alarm, 5
  Texts,     \* lines to append: <<characters, gaudy markers among them>>
  Residue,   \* characters without a zero that fresh memory may begin with
  MaxLength  \* bound: no line is appended to a longer transcript

Columns == 40
InitialSize == 256

ASSUME RowsAssumption == Rows \in Nat \ {0} /\ Seconds \in Nat \ {0}
ASSUME TextsAssumption == \A t \in Texts : t \in Nat \X Nat /\ t[2] <= t[1]
ASSUME ResidueAssumption == Residue \subseteq Nat

VARIABLES
  length,     \* strlen of the buffer
  size,       \* transcript_buffer_size
  top,        \* transcript_current_line
  shown,      \* the line the window begins with, counted from 0
  scrolling,  \* user_is_scrolling
  alarm,      \* seconds until SIGALRM, 0 for no alarm
  pc,         \* of write_to_ts_win
  text,       \* strlen of its padded text
  freed,      \* transcript_buffer still points to the buffer it has freed
  smashed,    \* the padding of a text was written beyond its memory
  plain,      \* history: no gaudy marker and no residue so far
  away        \* history: what moved the window since it was last printed

bufferVars == <<length, size, pc, text, freed, smashed, plain>>
viewVars == <<top, shown, scrolling, away>>
vars == <<bufferVars, viewVars, alarm>>

LinesIn(n) == (n + Columns - 1) \div Columns

AtLeast0(n) == IF n < 0 THEN 0 ELSE n

\* print_buffer_to_window: the last Rows lines.
FirstOfLast(n) == AtLeast0(LinesIn(n) - Rows)

\* main appends three lines of stars, 39 wide, before it reads a key.
Init ==
  /\ length = 3 * Columns /\ size = InitialSize
  /\ shown = FirstOfLast(length) /\ top = shown /\ scrolling = FALSE /\ alarm = 0
  /\ pc = "idle" /\ text = 0 /\ freed = FALSE /\ smashed = FALSE
  /\ plain = TRUE /\ away = {}

-----------------------------------------------------------------------------
(* The window *)

PrintEnd ==
  /\ shown' = FirstOfLast(length)
  /\ away' = {}

\* window_page_up, on line l: nothing is drawn when l is too small.  Line l is
\* the first to be shown, counted from 1.
PageUp(l) ==
  IF l < 1 THEN top' = 1 /\ UNCHANGED shown
           ELSE /\ top' = l
                /\ shown' = IF l <= LinesIn(length) THEN l - 1 ELSE LinesIn(length)

\* window_page_down, likewise when l is too large.
PageDown(l) ==
  IF l >= LinesIn(length) THEN top' = LinesIn(length) - 1 /\ UNCHANGED shown
                          ELSE top' = l /\ shown' = AtLeast0(l - 1)

\* print_transcript_chat_buffer: the second window is printed from
\* f_transcript_buffer, which is never written (at most 1840 bytes of it without
\* a zero), and its line replaces that of the first.
PrintTranscript == PrintEnd /\ top' = 0

-----------------------------------------------------------------------------
(* Appending a line: write_to_ts_win *)

\* The text is padded to full lines, and with a blank for each marker.
Padded(n, markers) == LinesIn(n) * Columns + markers

Append ==
  /\ pc = "idle" /\ length <= MaxLength
  /\ \E t \in Texts :
       /\ text' = Padded(t[1], t[2])
       /\ smashed' = (smashed \/ text' + 1 > t[1] + 4 * Columns)
       /\ plain' = (plain /\ t[2] = 0)
  /\ pc' = "grow"
  /\ UNCHANGED <<length, size, freed, viewVars, alarm>>

\* Fault: only the old text is compared with the size.
NoRoomYet == length >= size

NoRoom == length + text > size

\* Fault: the buffer grows by what is missing.
JustEnough == length + text

Larger == 2 * size

\* The new buffer takes the characters of the old one, not the zero behind
\* them: a residue becomes part of the text.
Grow ==
  /\ pc = "grow" /\ NoRoom
  /\ size' = Larger
  /\ \E r \in Residue :
       /\ length + r < Larger
       /\ length' = length + r
       /\ plain' = (plain /\ r = 0)
  /\ freed' = TRUE
  /\ UNCHANGED <<pc, text, smashed, viewVars, alarm>>

Concatenate ==
  /\ pc = "grow" /\ ~NoRoom
  /\ length' = length + text
  /\ pc' = IF scrolling THEN "page" ELSE "print"
  /\ UNCHANGED <<size, text, freed, smashed, plain, viewVars, alarm>>

Redraw ==
  /\ pc = "print"
  /\ PrintEnd /\ top' = shown'
  /\ pc' = "return"
  /\ UNCHANGED <<length, size, text, freed, smashed, plain, scrolling, alarm>>

\* The handler may have ended scrolling since it was looked at.
Page ==
  /\ pc = "page"
  /\ PageUp(top)
  /\ away' = IF scrolling THEN away ELSE away \cup {"overtaken"}
  /\ pc' = "return"
  /\ UNCHANGED <<length, size, text, freed, smashed, plain, scrolling, alarm>>

\* transcript_buffer is assigned.
Return ==
  /\ pc = "return"
  /\ pc' = "idle" /\ freed' = FALSE
  /\ UNCHANGED <<length, size, text, smashed, plain, viewVars, alarm>>

-----------------------------------------------------------------------------
(* Keys *)

Idle == pc = "idle" /\ UNCHANGED bufferVars

\* CTRL-N, 1147-1160.
Down ==
  /\ Idle
  /\ alarm' = Seconds /\ scrolling' = TRUE
  /\ PageDown(top + 1)
  /\ UNCHANGED away

\* Fault: the alarm is not set anew.
UpUnarmed ==
  /\ Idle
  /\ scrolling' = TRUE
  /\ PageUp(top - 1)
  /\ UNCHANGED <<away, alarm>>

\* CTRL-P, 1162-1175.
Up ==
  /\ Idle
  /\ alarm' = Seconds /\ scrolling' = TRUE
  /\ PageUp(top - 1)
  /\ UNCHANGED away

\* CTRL-], 1218-1222.
Resume ==
  /\ Idle
  /\ alarm' = 0 /\ scrolling' = FALSE
  /\ PrintTranscript

\* The key that ends instant message mode, 1027-1029, draws the transcript with
\* window_page_up whether the user scrolls or not.
LeaveIM ==
  /\ Idle
  /\ PageUp(top)
  /\ away' = IF scrolling THEN away ELSE away \cup {"im"}
  /\ UNCHANGED <<scrolling, alarm>>

-----------------------------------------------------------------------------
(* The alarm *)

Tick ==
  /\ alarm > 1 /\ alarm' = alarm - 1
  /\ UNCHANGED <<bufferVars, viewVars>>

\* Fault: the window is left as the user scrolled it.
ScrollEndsQuietly ==
  /\ alarm = 1 /\ alarm' = 0
  /\ scrolling' = FALSE
  /\ UNCHANGED <<bufferVars, top, shown, away>>

\* scroll_ended_handler.  A buffer that has been freed may hold anything.
ScrollEnds ==
  /\ alarm = 1 /\ alarm' = 0
  /\ scrolling' = FALSE
  /\ IF freed THEN /\ shown' \in 0..LinesIn(length) /\ top' = 0
                   /\ away' = away \cup {"freed"}
              ELSE PrintTranscript
  /\ UNCHANGED bufferVars

AppendStep == Grow \/ Concatenate \/ Redraw \/ Page \/ Return
Next == Append \/ AppendStep \/ Down \/ Up \/ Resume \/ LeaveIM \/ Tick \/ ScrollEnds

\* The clock goes on, and a line that is being appended gets appended.
Fairness == WF_vars(AppendStep) /\ WF_vars(Tick) /\ WF_vars(ScrollEnds)

Spec == Init /\ [][Next]_vars /\ Fairness

-----------------------------------------------------------------------------
(* Properties *)

TypeOK ==
  /\ length \in Nat /\ size \in Nat /\ text \in Nat
  /\ top \in Int /\ shown \in Nat
  /\ alarm \in 0..Seconds
  /\ pc \in {"idle", "grow", "print", "page", "return"}
  /\ {scrolling, freed, smashed, plain} \subseteq BOOLEAN
  /\ away \subseteq {"im", "overtaken", "freed"}

\* The text never passes the end of its buffer by more than the terminating
\* zero, however it grows (client.c:779-796).
AtMostOneOver == length <= size

\* Without gaudy text the zero fits too, for full lines of 40 characters never
\* make 256 doubled any number of times, and so does the padding.
PlainFits == plain => length < size /\ ~smashed

\* The user who scrolls is never left there: an alarm is pending as long as
\* user_is_scrolling is set, through keys, appended lines and the handler.
ScrollingHasAlarm == scrolling => alarm > 0

\* Who does not scroll sees the end of the transcript, whatever the handler
\* interrupted.  The exceptions, until the next line is appended: leaving instant
\* message mode draws one line too early, the handler may end scrolling between
\* the test of user_is_scrolling and the paging (client.c:797-800), and it may
\* print the buffer that was freed (client.c:789, 832).
LiveShowsEnd ==
  pc = "idle" /\ ~scrolling /\ away = {} => shown + Rows >= LinesIn(length)

\* docs/SPECS: five seconds after the last scroll key the transcript resumes.
Resumes == <>[][~Up /\ ~Down]_vars => [](scrolling => <>~scrolling)
=============================================================================
