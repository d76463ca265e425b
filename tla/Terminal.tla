------------------------------ MODULE Terminal ------------------------------
(***************************************************************************)
(* What the console promises to the thread of the command line: text goes  *)
(* on where the last one ended, and when it passes the end of the screen   *)
(* all rows move up by one.                                                *)
(*                                                                         *)
(* Row 0 is not promised: other threads paint it.  And a text may move the *)
(* rows only once; what follows in the same text is lost.                  *)
(***************************************************************************)
EXTENDS Integers, Sequences

CONSTANTS
  Rows, Cols,   \* of the screen (25, 80)
  Chars,        \* that have a picture
  Texts         \* strings that are displayed

Blank   == " "
Newline == "\n"

Total  == Rows * Cols           \* positions on the screen
Bottom == Total - Cols          \* the first of the last row
Owned  == Cols .. Total - 1     \* those of the promise

VARIABLES
  picture,   \* characters at the owned positions
  cursor,    \* position of the next character
  text,      \* what is left of the text being displayed
  moved      \* whether this text has moved the rows

vars == <<picture, cursor, text, moved>>

Init ==
  /\ picture = [c \in Owned |-> Blank]
  /\ cursor \in 0 .. Total - 1
  /\ text = <<>> /\ moved = FALSE

Display(t) ==
  /\ text = <<>> /\ ~moved
  /\ text' = t
  /\ UNCHANGED <<picture, cursor, moved>>

With(c) == [n \in Owned |-> IF n = cursor THEN c ELSE picture[n]]

Up(p) == [n \in Owned |-> IF n < Bottom THEN p[n + Cols] ELSE Blank]

(* The picture p, with the text going on at n.                             *)
GoesOn(p, n) ==
  IF n < Total THEN picture' = p /\ cursor' = n /\ UNCHANGED moved
               ELSE picture' = Up(p) /\ cursor' = Bottom /\ moved' = TRUE

Put ==
  /\ text # <<>> /\ ~moved
  /\ text' = Tail(text)
  /\ IF Head(text) = Newline
       THEN GoesOn(picture, (cursor \div Cols + 1) * Cols)
       ELSE GoesOn(With(Head(text)), cursor + 1)

Lose ==
  /\ text # <<>> /\ moved
  /\ text' = Tail(text)
  /\ UNCHANGED <<picture, cursor, moved>>

Return ==
  /\ text = <<>> /\ moved
  /\ moved' = FALSE
  /\ UNCHANGED <<picture, cursor, text>>

Erase ==
  /\ text = <<>> /\ ~moved /\ cursor > 0
  /\ cursor' = cursor - 1
  /\ picture' = [n \in Owned |-> IF n = cursor' THEN Blank ELSE picture[n]]
  /\ UNCHANGED <<text, moved>>

Clear ==
  /\ text = <<>> /\ ~moved
  /\ picture' = [n \in Owned |-> Blank] /\ cursor' = 0
  /\ UNCHANGED <<text, moved>>

Next == (\E t \in Texts : Display(t)) \/ Put \/ Lose \/ Return \/ Erase \/ Clear

Spec == Init /\ [][Next]_vars
=============================================================================
