------------------------------ MODULE Console -------------------------------
(***************************************************************************)
(* The screen (drivers/vga.c) under the thread of the command line, which  *)
(* displays texts at the cursor and echoes the line it reads (cliReadline  *)
(* in cli/cli.c), and under the threads of timer_uptime and                *)
(* cliPrintCPUVendor, which paint row 0 at any moment.                     *)
(*                                                                         *)
(* A position is an offset into video memory divided by two, and colours   *)
(* are left out.  Only one thread uses the cursor registers, so they are   *)
(* one variable.                                                           *)
(***************************************************************************)
EXTENDS Integers, Sequences

CONSTANTS
  Rows, Cols, Chars,   \* as in Terminal
  Keys,                \* characters that can be typed
  Outputs,             \* texts of prompt and commands
  MaxLen,              \* longest line that is read (77)
  Painted,             \* columns x the two other threads paint
  Overlay              \* what they paint

Blank   == " "
Newline == "\n"
Texts   == Outputs \cup {<<c>> : c \in Keys \cup {Newline}}

ASSUME ConsoleAssumption ==
  /\ Rows \in Nat \ {0, 1} /\ Cols \in Nat \ {0}
  /\ Blank \in Chars /\ Newline \notin Chars
  /\ Texts \subseteq Seq(Chars \cup {Newline})
  /\ Keys \subseteq Chars /\ Overlay \in Chars
  /\ Painted \subseteq 0 .. Cols - 1
  /\ MaxLen \in Nat /\ MaxLen <= (Rows - 1) * Cols

VARIABLES
  video,     \* video memory, as far as it is visible
  cursor,    \* cursor registers
  stage,     \* of the command line's thread
  str,       \* what is left of the text it displays
  offset,    \* local to the displaying function
  row,       \* next row that memoryCopy moves
  typed      \* what cliReadline has read, <<>> outside it

consoleVars == <<video, cursor, stage, str, offset, row, typed>>

Total == Rows * Cols
Cells == 0 .. Total - 1
Bottom == Total - Cols
RowOf(n) == n \div Cols

(* main leaves a cleared screen and sets the cursor.                       *)
ConsoleInit ==
  /\ video = [n \in Cells |-> Blank]
  /\ cursor \in Cells
  /\ stage = "command" /\ str = <<>> /\ offset = cursor /\ row = 0 /\ typed = <<>>

-----------------------------------------------------------------------------
(* displayString, console_write and console_write_color.                   *)

Begin(t) == str' = t /\ offset' = cursor

(* The prompt, or output of a command.                                     *)
Display(t) ==
  /\ stage = "command" /\ stage' = "output"
  /\ Begin(t)
  /\ UNCHANGED <<video, cursor, row, typed>>

Displaying == stage \in {"output", "echo"}

(* The text is not compared with the end of the screen; behind it the      *)
(* memory is not visible.                                                  *)
StoreChar ==
  /\ Displaying /\ str # <<>>
  /\ str' = Tail(str)
  /\ IF Head(str) = Newline
       THEN offset' = (RowOf(offset) + 1) * Cols /\ UNCHANGED video
       ELSE /\ offset' = offset + 1
            /\ video' = [n \in Cells |-> IF n = offset THEN Head(str) ELSE video[n]]
  /\ UNCHANGED <<cursor, stage, row, typed>>

(* Mutation: a text that ends with the last position does not scroll.      *)
PastEnd_OffByOne == offset > Total

PastEnd == offset >= Total

(* checkForScrolling: memoryCopy, here row by row from the top, ...        *)
MoveRow ==
  /\ Displaying /\ str = <<>> /\ PastEnd /\ row < Rows - 1
  /\ video' = [n \in Cells |-> IF RowOf(n) = row THEN video[n + Cols] ELSE video[n]]
  /\ row' = row + 1
  /\ UNCHANGED <<cursor, stage, str, offset, typed>>

(* ... and the last row.                                                   *)
BlankRow ==
  /\ Displaying /\ str = <<>> /\ PastEnd /\ row = Rows - 1
  /\ video' = [n \in Cells |-> IF RowOf(n) = row THEN Blank ELSE video[n]]
  /\ offset' = Bottom /\ row' = 0
  /\ UNCHANGED <<cursor, stage, str, typed>>

EndOfLine == typed # <<>> /\ typed[Len(typed)] = Newline

(* Back in the caller; cliReadline reads on until a newline.               *)
SetCursor ==
  /\ Displaying /\ str = <<>> /\ ~PastEnd
  /\ cursor' = offset
  /\ IF stage = "output" \/ EndOfLine THEN stage' = "command" /\ typed' = <<>>
                                      ELSE stage' = "read" /\ UNCHANGED typed
  /\ UNCHANGED <<video, str, offset, row>>

-----------------------------------------------------------------------------
(* cliReadline.                                                            *)

ReadLine ==
  /\ stage = "command" /\ stage' = "read" /\ typed' = <<>>
  /\ UNCHANGED <<video, cursor, str, offset, row>>

(* A key that is not backspace is displayed, then stored in the buffer.    *)
Type(c) ==
  /\ stage = "read" /\ Len(typed) < MaxLen /\ stage' = "echo"
  /\ Begin(<<c>>)
  /\ typed' = Append(typed, c)
  /\ UNCHANGED <<video, cursor, row>>

(* max_len has been reached.                                               *)
MaxReached ==
  /\ stage = "read" /\ Len(typed) = MaxLen
  /\ stage' = "command" /\ typed' = <<>>
  /\ UNCHANGED <<video, cursor, str, offset, row>>

(* Backspace: clearLastCharacter.                                          *)
EraseChar ==
  /\ stage = "read" /\ typed # <<>> /\ Len(typed) < MaxLen
  /\ video' = [video EXCEPT ![cursor - 1] = Blank]
  /\ cursor' = cursor - 1
  /\ typed' = SubSeq(typed, 1, Len(typed) - 1)
  /\ UNCHANGED <<stage, str, offset, row>>

(* The command clear.                                                      *)
ClearScreen ==
  /\ stage = "command"
  /\ video' = [n \in Cells |-> Blank] /\ cursor' = 0
  /\ UNCHANGED <<stage, str, offset, row, typed>>

-----------------------------------------------------------------------------
(* The other threads.                                                      *)

(* Mutation: the rows are counted from one.                                *)
At_FromOne(x, y) == (y + 1) * Cols + x

At(x, y) == y * Cols + x

(* One character of displayStringAt.                                       *)
Paint(x) ==
  /\ At(x, 0) < Total
  /\ video' = [video EXCEPT ![At(x, 0)] = Overlay]
  /\ UNCHANGED <<cursor, stage, str, offset, row, typed>>

-----------------------------------------------------------------------------
ConsoleNext ==
  \/ \E t \in Outputs : Display(t)
  \/ StoreChar \/ MoveRow \/ BlankRow \/ SetCursor
  \/ ReadLine \/ \E c \in Keys \cup {Newline} : Type(c)
  \/ MaxReached \/ EraseChar \/ ClearScreen
  \/ \E x \in Painted : Paint(x)

ConsoleSpec == ConsoleInit /\ [][ConsoleNext]_consoleVars

-----------------------------------------------------------------------------
(* The screen as it is once the rows still to be moved have been.          *)
Scrolling == Displaying /\ offset >= Total
Settled(n) ==
  IF ~Scrolling \/ RowOf(n) < row THEN video[n]
  ELSE IF n < Bottom THEN video[n + Cols] ELSE Blank

Screen == INSTANCE Terminal WITH
  picture <- [n \in Cols .. Total - 1 |-> Settled(n)],
  cursor  <- IF Scrolling THEN Bottom ELSE IF Displaying THEN offset ELSE cursor,
  text    <- str,
  moved   <- Scrolling

(* The console keeps the promise of Terminal, preempted anywhere: whatever *)
(* the other threads paint, the rows below the first show the texts.       *)
TerminalSpec == Screen!Spec

(* While a line is read it stands before the cursor as it is in the        *)
(* buffer, also across rows, after moving up and after backspaces, so what *)
(* is seen is what will be executed.  Row 0 is left out: after clear the   *)
(* line starts there and the other threads paint over it.                  *)
LineOnScreen ==
  stage = "read" =>
    /\ cursor >= Len(typed)
    /\ \A i \in 1 .. Len(typed) :
         LET n == cursor - Len(typed) + i - 1
         IN  n >= Cols => video[n] = typed[i]
=============================================================================
