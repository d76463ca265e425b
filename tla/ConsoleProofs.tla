--------------------------- MODULE ConsoleProofs ---------------------------
(***************************************************************************)
(* Theorems about Console for every size of the screen, every length of a  *)
(* line that fits on it, and whatever the other threads paint in row 0.    *)
(***************************************************************************)
EXTENDS Console, SequenceTheorems, TLAPS

Types ==
  /\ video \in [Cells -> Chars] /\ cursor \in Cells
  /\ stage \in {"command", "output", "echo", "read"}
  /\ str \in Seq(Chars \cup {Newline})
  /\ offset \in Nat /\ row \in 0 .. Rows - 1
  /\ typed \in Seq(Keys \cup {Newline}) /\ Len(typed) <= MaxLen

(* What the steps of the two functions leave to each other.                *)
Control ==
  /\ ~Displaying => str = <<>>
  /\ row # 0 => Scrolling /\ str = <<>>
  /\ stage \in {"command", "output"} => typed = <<>>
  /\ stage = "echo" => typed # <<>>
  /\ stage = "echo" /\ str # <<>> => str = <<typed[Len(typed)]>>
  /\ stage = "echo" /\ str # <<>> => ~Scrolling
  /\ stage = "read" => \A i \in 1 .. Len(typed) : typed[i] # Newline
  /\ stage = "echo" => \A i \in 1 .. Len(typed) - 1 : typed[i] # Newline

(* The position the reader of the screen takes for that of the cursor, and *)
(* how much of the line he can see.                                        *)
Seen  == IF Scrolling THEN Bottom ELSE IF Displaying THEN offset ELSE cursor
Shown == IF str = <<>> THEN Len(typed) ELSE Len(typed) - 1

(* LineOnScreen, also while a character is displayed and rows are moved.   *)
Reading == stage = "read" \/ (stage = "echo" /\ (str = <<>> => typed[Len(typed)] # Newline))

LineInv ==
  Reading =>
    /\ Seen >= Shown
    /\ \A n \in Nat : \A i \in 1 .. Shown :
         n = Seen - Shown + i - 1 /\ n >= Cols => Settled(n) = typed[i]

IInv == Types /\ Control /\ LineInv

-----------------------------------------------------------------------------
(* The screen.                                                             *)

(* What the assumptions say of the constants.                              *)
LEMMA Geometry ==
  /\ Rows \in Nat /\ Rows >= 2 /\ Cols \in Nat /\ Cols >= 1
  /\ Total \in Nat /\ Bottom \in Nat /\ Total = Bottom + Cols /\ Bottom >= Cols
  /\ Bottom = (Rows - 1) * Cols /\ MaxLen \in Nat /\ MaxLen <= Bottom
  /\ Blank \in Chars /\ Newline \notin Keys /\ Overlay \in Chars
  /\ Keys \subseteq Chars /\ Newline \notin Chars
  /\ \A x \in Painted : x \in Nat /\ x < Cols
<1>1. /\ Rows \in Nat /\ Rows >= 2 /\ Cols \in Nat /\ Cols >= 1
      /\ MaxLen \in Nat /\ MaxLen <= (Rows - 1) * Cols
  BY ConsoleAssumption DEF ConsoleAssumption
<1>2. Rows * Cols = (Rows - 1) * Cols + Cols /\ (Rows - 1) * Cols \in Nat
  BY <1>1
<1>3. (Rows - 1) * Cols >= Cols
  BY <1>1
<1>4. Bottom = (Rows - 1) * Cols /\ Total = Bottom + Cols /\ Bottom \in Nat
  BY <1>1, <1>2 DEF Total, Bottom
<1>5. /\ Blank \in Chars /\ Newline \notin Keys /\ Overlay \in Chars
      /\ Keys \subseteq Chars /\ Newline \notin Chars
      /\ \A x \in Painted : x \in Nat /\ x < Cols
  BY <1>1, ConsoleAssumption DEF ConsoleAssumption
<1> QED
  BY <1>1, <1>3, <1>4, <1>5

(* Positions and their rows.                                               *)
LEMMA RowIs ==
  ASSUME NEW n \in Nat
  PROVE  /\ RowOf(n) \in Nat
         /\ RowOf(n) < Rows - 1 <=> n < Bottom
         /\ n < Total => RowOf(n) <= Rows - 1
         /\ RowOf(n + Cols) = RowOf(n) + 1
         /\ (RowOf(n) + 1) * Cols \in Nat /\ (RowOf(n) + 1) * Cols > n
<1> DEFINE r == n \div Cols
           q == (n + Cols) \div Cols
<1>1. /\ r \in Nat /\ r * Cols <= n /\ n < r * Cols + Cols
      /\ r * Cols \in Nat /\ (r + 1) * Cols = r * Cols + Cols
  BY Geometry
<1>2. q = r + 1
  BY Geometry
<1>3. /\ Bottom = (Rows - 1) * Cols /\ Cols \in Nat /\ Cols >= 1
      /\ Rows \in Nat /\ Rows >= 2 /\ Bottom \in Nat /\ Total = Bottom + Cols
  BY Geometry
<1> HIDE DEF r, q
<1>4. r < Rows - 1 => n < Bottom
  <2> SUFFICES ASSUME r + 1 <= Rows - 1
               PROVE  n < Bottom
    BY <1>1, <1>3
  <2>1. (r + 1) * Cols <= (Rows - 1) * Cols
    BY <1>1, <1>3
  <2> QED
    BY <1>1, <1>3, <2>1
<1>5. r >= Rows - 1 => n >= Bottom
  <2> SUFFICES ASSUME r >= Rows - 1
               PROVE  n >= Bottom
    OBVIOUS
  <2>1. r * Cols >= (Rows - 1) * Cols
    BY <1>1, <1>3
  <2> QED
    BY <1>1, <1>3, <2>1
<1>6. n < Total => r <= Rows - 1
  <2> SUFFICES ASSUME n < Total, r >= Rows
               PROVE  FALSE
    BY <1>1, <1>3
  <2>1. r * Cols >= Rows * Cols
    BY <1>1, <1>3
  <2>2. Rows * Cols = Total
    BY DEF Total
  <2> QED
    BY <1>1, <1>3, <2>1, <2>2
<1> QED
  BY <1>1, <1>2, <1>3, <1>4, <1>5, <1>6 DEF RowOf, r, q

-----------------------------------------------------------------------------
(* The promise of Terminal, in the words of Console.                       *)

Owned   == Cols .. Total - 1
Picture == [n \in Owned |-> Settled(n)]

Promised == Screen!Next \/ UNCHANGED Screen!vars

(* Whether the rows move is a Boolean.                                     *)
LEMMA Moves == Scrolling \in BOOLEAN /\ Scrolling' \in BOOLEAN
BY DEF Scrolling

(* A step that shows nothing new.                                          *)
LEMMA Stutters ==
  ASSUME Picture' = Picture, Seen' = Seen, str' = str, Scrolling' = Scrolling
  PROVE  Promised
BY DEF Promised, Screen!vars, Picture, Seen, Owned

(* A text begins.                                                          *)
LEMMA Displays ==
  ASSUME NEW t \in Texts, str = <<>>, ~Scrolling, str' = t, ~Scrolling',
         Picture' = Picture, Seen' = Seen
  PROVE  Promised
BY Moves DEF Promised, Screen!Next, Screen!Display, Picture, Seen, Owned

(* The text goes on at n with the picture new, or above it at the end of   *)
(* the screen.                                                             *)
Put(new, n) ==
  IF n < Total
    THEN Picture' = new /\ Seen' = n /\ ~Scrolling'
    ELSE /\ Picture' = [k \in Owned |-> IF k < Bottom THEN new[k + Cols] ELSE Blank]
         /\ Seen' = Bottom /\ Scrolling'

(* The next character of a text, as the promise puts it.                   *)
LEMMA Puts ==
  ASSUME str # <<>>, ~Scrolling, str' = Tail(str),
         IF Head(str) = Newline
           THEN Put(Picture, (Seen \div Cols + 1) * Cols)
           ELSE Put([k \in Owned |-> IF k = Seen THEN Head(str) ELSE Picture[k]],
                    Seen + 1)
  PROVE  Promised
<1>1. Screen!Put
  BY Moves DEF Put, Screen!Put, Screen!GoesOn, Screen!With, Screen!Up, Screen!Total,
     Screen!Bottom, Screen!Owned, Screen!Blank, Screen!Newline, Picture, Seen,
     Owned, Blank, Newline, Total, Bottom
<1> QED
  BY <1>1 DEF Promised, Screen!Next

(* What follows in a text that has moved the rows.                         *)
LEMMA Loses ==
  ASSUME str # <<>>, Scrolling, str' = Tail(str), Scrolling',
         Picture' = Picture, Seen' = Seen
  PROVE  Promised
BY DEF Promised, Screen!Next, Screen!Lose, Picture, Seen, Owned

(* The rows have been moved.                                               *)
LEMMA Returns ==
  ASSUME str = <<>>, Scrolling, str' = str, ~Scrolling',
         Picture' = Picture, Seen' = Seen
  PROVE  Promised
BY DEF Promised, Screen!Next, Screen!Return, Picture, Seen, Owned

(* Backspace.                                                              *)
LEMMA Erases ==
  ASSUME str = <<>>, ~Scrolling, str' = str, ~Scrolling', Seen > 0, Seen' = Seen - 1,
         Picture' = [n \in Owned |-> IF n = Seen' THEN Blank ELSE Picture[n]]
  PROVE  Promised
<1>1. Screen!Erase
  BY Moves DEF Screen!Erase, Screen!Total, Screen!Owned, Screen!Blank,
     Picture, Seen, Owned, Blank, Total, Bottom
<1> QED
  BY <1>1 DEF Promised, Screen!Next

(* The command clear.                                                      *)
LEMMA Clears ==
  ASSUME str = <<>>, ~Scrolling, str' = str, ~Scrolling', Seen' = 0,
         Picture' = [n \in Owned |-> Blank]
  PROVE  Promised
<1>1. Screen!Clear
  BY Moves DEF Screen!Clear, Screen!Total, Screen!Owned, Screen!Blank,
     Picture, Seen, Owned, Blank, Total, Bottom
<1> QED
  BY <1>1 DEF Promised, Screen!Next

-----------------------------------------------------------------------------
(* Steps.                                                                  *)

(* Positions on the screen.                                                *)
LEMMA OnScreen ==
  /\ Owned \subseteq Cells /\ Cells \subseteq Nat /\ Owned \subseteq Nat
  /\ \A n \in Owned : n >= Cols /\ n < Total
  /\ \A n \in Owned : n < Bottom => n + Cols \in Owned
  /\ \A n \in Cells : n < Total
  /\ \A n \in Nat : n < Total => n \in Cells
BY Geometry DEF Owned, Cells

(* Before a text moves the rows, what is seen is what is stored.           *)
LEMMA SettledStill ==
  ASSUME ~Scrolling
  PROVE  \A n : Settled(n) = video[n]
BY DEF Settled

(* Where a text begins.                                                    *)
LEMMA Begins ==
  ASSUME IInv, ~Displaying, Displaying', NEW t \in Texts, Begin(t),
         UNCHANGED <<video, cursor, row>>
  PROVE  /\ Promised /\ ~Scrolling /\ ~Scrolling' /\ row' = 0
         /\ Seen = cursor /\ Seen' = cursor
         /\ \A n : Settled(n)' = Settled(n)
<1>1. /\ ~Scrolling /\ row = 0 /\ str = <<>> /\ cursor < Total /\ cursor \in Cells
      /\ str' = t /\ offset' = cursor
  BY OnScreen DEF IInv, Types, Control, Scrolling, Begin
<1>2. ~Scrolling'
  BY <1>1, OnScreen, Geometry DEF Scrolling
<1>3. Seen = cursor /\ Seen' = cursor
  BY <1>1, <1>2 DEF Seen
<1>4. \A n : Settled(n)' = Settled(n)
  BY <1>1, <1>2 DEF Settled
<1>5. Picture' = Picture
  BY <1>4 DEF Picture, Owned
<1> QED
  BY <1>1, <1>2, <1>3, <1>4, <1>5, Displays

(* The texts.                                                              *)
LEMMA TextIs ==
  /\ \A t \in Texts : t \in Seq(Chars \cup {Newline})
  /\ Outputs \subseteq Texts
  /\ \A c \in Keys \cup {Newline} : <<c>> \in Texts
BY ConsoleAssumption DEF ConsoleAssumption, Texts

(* A text of a command begins.                                             *)
LEMMA DisplayStep ==
  ASSUME IInv, NEW t \in Outputs, Display(t)
  PROVE  IInv' /\ Promised
<1>1. /\ stage = "command" /\ stage' = "output" /\ ~Displaying /\ Displaying'
      /\ t \in Texts /\ t \in Seq(Chars \cup {Newline})
      /\ UNCHANGED <<video, cursor, row, typed>> /\ typed = <<>>
      /\ str' = t /\ offset' = cursor
  BY TextIs DEF Display, Displaying, IInv, Control, Begin
<1>2. Promised /\ ~Scrolling' /\ row' = 0
  BY <1>1, Begins DEF Display
<1>3. Types'
  BY <1>1, OnScreen DEF IInv, Types
<1>4. Control' /\ LineInv'
  BY <1>1, <1>2 DEF Control, LineInv, Reading
<1> QED
  BY <1>2, <1>3, <1>4 DEF IInv

(* A key is echoed.                                                        *)
LEMMA TypeStep ==
  ASSUME IInv, NEW c \in Keys \cup {Newline}, Type(c)
  PROVE  IInv' /\ Promised
<1>1. /\ stage = "read" /\ stage' = "echo" /\ ~Displaying /\ Displaying'
      /\ <<c>> \in Texts /\ <<c>> \in Seq(Chars \cup {Newline})
      /\ UNCHANGED <<video, cursor, row>> /\ typed' = Append(typed, c)
      /\ str' = <<c>> /\ offset' = cursor /\ str = <<>>
  BY TextIs DEF Type, Displaying, IInv, Control, Begin
<1>2. /\ Promised /\ ~Scrolling /\ ~Scrolling' /\ row' = 0
      /\ Seen = cursor /\ Seen' = cursor
      /\ \A n : Settled(n)' = Settled(n)
  BY <1>1, Begins DEF Type
<1>3. /\ typed \in Seq(Keys \cup {Newline}) /\ Len(typed) < MaxLen /\ Len(typed) \in Nat
      /\ typed' \in Seq(Keys \cup {Newline})
      /\ Len(typed') = Len(typed) + 1 /\ typed'[Len(typed')] = c
      /\ \A i \in 1 .. Len(typed) : typed'[i] = typed[i]
      /\ MaxLen \in Nat
  BY <1>1, Geometry DEF Type, IInv, Types
<1>4. Types'
  BY <1>1, <1>3, OnScreen DEF IInv, Types
<1>5. str' # <<>> /\ typed' # <<>>
  <2>1. Len(<<c>>) = 1 /\ Len(<<>>) = 0
    OBVIOUS
  <2> QED
    BY <1>1, <1>3, <2>1
<1>6. Control'
  BY <1>1, <1>2, <1>3, <1>5 DEF Control, IInv
<1>7. LineInv'
  <2>1. Reading /\ Shown = Len(typed) /\ Shown' = Len(typed)
    BY <1>1, <1>3, <1>5 DEF Reading, Shown
  <2>2. /\ cursor >= Len(typed)
        /\ \A n \in Nat : \A i \in 1 .. Len(typed) :
             n = cursor - Len(typed) + i - 1 /\ n >= Cols => Settled(n) = typed[i]
    BY <1>2, <2>1 DEF IInv, LineInv
  <2>3. \A n \in Nat : \A i \in 1 .. Len(typed) :
          n = cursor - Len(typed) + i - 1 /\ n >= Cols => Settled(n)' = typed'[i]
    BY <1>2, <1>3, <2>2
  <2> QED
    BY <1>1, <1>2, <2>1, <2>2, <2>3 DEF LineInv
<1> QED
  BY <1>2, <1>4, <1>6, <1>7 DEF IInv

(* A line is begun, or is as long as it may be.                            *)
LEMMA ReadStep ==
  ASSUME IInv, ReadLine \/ MaxReached
  PROVE  IInv' /\ Promised
<1>1. /\ stage \in {"command", "read"} /\ stage' \in {"command", "read"} /\ typed' = <<>>
      /\ UNCHANGED <<video, cursor, str, offset, row>>
  BY DEF ReadLine, MaxReached
<1>2. /\ ~Displaying /\ ~Displaying' /\ ~Scrolling /\ ~Scrolling'
      /\ str = <<>> /\ row = 0
  BY <1>1 DEF Displaying, Scrolling, IInv, Control
<1>3. /\ Seen' = Seen /\ Seen = cursor
      /\ \A n : Settled(n)' = Settled(n)
      /\ cursor \in Nat
  BY <1>1, <1>2, OnScreen DEF Seen, Settled, IInv, Types
<1>4. Promised
  <2>1. Picture' = Picture
    BY <1>3 DEF Picture, Owned
  <2> QED
    BY <1>1, <1>2, <1>3, <2>1, Stutters, Moves
<1>5. typed' \in Seq(Keys \cup {Newline}) /\ Len(typed') = 0
  BY <1>1
<1>6. Types'
  BY <1>1, <1>5, Geometry DEF IInv, Types
<1>7. Control'
  BY <1>1, <1>2, <1>5 DEF Control
<1>8. LineInv'
  <2>1. Shown' = 0 /\ Seen' >= 0
    BY <1>1, <1>2, <1>3, <1>5 DEF Shown
  <2> QED
    BY <2>1 DEF LineInv
<1> QED
  BY <1>4, <1>6, <1>7, <1>8 DEF IInv

(* The command clear.                                                      *)
LEMMA ClearStep ==
  ASSUME IInv, ClearScreen
  PROVE  IInv' /\ Promised
<1>1. /\ stage = "command" /\ UNCHANGED <<stage, str, offset, row, typed>>
      /\ video' = [n \in Cells |-> Blank] /\ cursor' = 0
      /\ ~Displaying /\ ~Displaying' /\ ~Scrolling /\ ~Scrolling'
      /\ str = <<>> /\ row = 0
  BY DEF ClearScreen, Displaying, Scrolling, IInv, Control
<1>2. Promised
  <2>1. Picture' = [n \in Owned |-> Blank]
    BY <1>1, OnScreen DEF Picture, Settled, Owned
  <2>2. Seen' = 0
    BY <1>1 DEF Seen
  <2> QED
    BY <1>1, <2>1, <2>2, Clears
<1>3. 0 \in Cells
  BY Geometry DEF Cells
<1>4. Types'
  BY <1>1, <1>3, Geometry DEF IInv, Types
<1>5. Control' /\ LineInv'
  BY <1>1 DEF IInv, Control, LineInv, Reading
<1> QED
  BY <1>2, <1>4, <1>5 DEF IInv

(* Another thread paints in row 0.                                         *)
LEMMA PaintStep ==
  ASSUME IInv, NEW x \in Painted, Paint(x)
  PROVE  IInv' /\ Promised
<1>1. /\ UNCHANGED <<cursor, stage, str, offset, row, typed>>
      /\ x \in Nat /\ x < Cols
      /\ video' = [video EXCEPT ![x] = Overlay]
  <2>1. x \in Nat /\ x < Cols /\ Cols \in Nat
    BY Geometry
  <2>2. At(x, 0) = x
    BY <2>1 DEF At
  <2> QED
    BY <2>1, <2>2 DEF Paint
<1>2. /\ Scrolling' = Scrolling /\ Seen' = Seen
      /\ \A n : n # x => video'[n] = video[n]
  BY <1>1 DEF Scrolling, Displaying, Seen, IInv, Types
<1>3. \A n \in Nat : n >= Cols => Settled(n)' = Settled(n)
  <2>1. \A n \in Nat : n >= Cols => n # x /\ n + Cols # x
    BY <1>1, Geometry
  <2> QED
    BY <1>1, <1>2, <2>1 DEF Settled
<1>4. Promised
  <2>1. Picture' = Picture
    BY <1>3, OnScreen DEF Picture, Owned
  <2> QED
    BY <1>1, <1>2, <2>1, Stutters
<1>5. Types' /\ Control'
  BY <1>1, <1>2, Geometry DEF IInv, Types, Control, Displaying
<1>6. LineInv'
  <2>1. Reading' = Reading /\ Shown' = Shown
    BY <1>1 DEF Reading, Shown
  <2> QED
    BY <1>1, <1>2, <1>3, <2>1 DEF IInv, LineInv
<1> QED
  BY <1>4, <1>5, <1>6 DEF IInv

(* A character is stored, or a newline obeyed.                             *)
LEMMA StoreStep ==
  ASSUME IInv, StoreChar
  PROVE  IInv' /\ Promised
<1> DEFINE n == IF Head(str) = Newline THEN (RowOf(offset) + 1) * Cols ELSE offset + 1
<1>1. /\ Displaying /\ Displaying' /\ str # <<>> /\ str' = Tail(str) /\ offset' = n
      /\ UNCHANGED <<cursor, stage, row, typed>> /\ row = 0
      /\ offset \in Nat /\ video \in [Cells -> Chars]
  BY DEF StoreChar, Displaying, IInv, Control, Types
<1>2. /\ n \in Nat /\ n > offset
      /\ Head(str) \in Chars \cup {Newline}
      /\ str' \in Seq(Chars \cup {Newline})
  <2>1. str \in Seq(Chars \cup {Newline})
    BY DEF IInv, Types
  <2>2. Head(str) \in Chars \cup {Newline} /\ str' \in Seq(Chars \cup {Newline})
    BY <1>1, <2>1, HeadTailProperties
  <2>3. n \in Nat /\ n > offset
    BY <1>1, RowIs
  <2> QED
    BY <2>2, <2>3
<1>3. IF Head(str) = Newline
        THEN video' = video
        ELSE video' = [k \in Cells |-> IF k = offset THEN Head(str) ELSE video[k]]
  BY DEF StoreChar
<1>4. video' \in [Cells -> Chars]
  BY <1>1, <1>2, <1>3
<1>5. \A k \in Cells : video'[k] = IF k = offset /\ Head(str) # Newline
                                     THEN Head(str) ELSE video[k]
  BY <1>1, <1>3
<1> HIDE DEF n
<1>6. Types'
  BY <1>1, <1>2, <1>4 DEF IInv, Types
<1>7. \A k \in Nat : ~(RowOf(k) < 0)
  BY RowIs
<1>8. Control'
  <2>1. stage = "echo" => str' = <<>>
    <3>1. ASSUME NEW c
          PROVE  Tail(<<c>>) = <<>>
      OBVIOUS
    <3> QED
      BY <1>1, <3>1 DEF IInv, Control
  <2> QED
    BY <1>1, <2>1 DEF IInv, Control, Displaying
<1>9. CASE Scrolling
  <2>1. Scrolling' /\ Seen = Bottom /\ Seen' = Bottom
    BY <1>1, <1>2, <1>9, Geometry DEF Scrolling, Seen
  <2>2. \A k \in Cells : video'[k] = video[k]
    BY <1>1, <1>5, <1>9, OnScreen, Geometry DEF Scrolling
  <2>3. \A k \in Owned : Settled(k)' = Settled(k)
    BY <1>1, <1>7, <1>9, <2>1, <2>2, OnScreen DEF Settled
  <2>4. Picture' = Picture
    BY <2>3 DEF Picture, Owned
  <2>5. Promised
    BY <1>1, <1>9, <2>1, <2>4, Loses
  <2>6. LineInv'
    BY <1>1, <1>9 DEF IInv, Control, LineInv, Reading, Displaying
  <2> QED
    BY <1>6, <1>8, <2>5, <2>6 DEF IInv
<1>10. CASE ~Scrolling
  <2>1. Seen = offset /\ offset < Total /\ \A k : Settled(k) = video[k]
    BY <1>1, <1>10, Geometry DEF Seen, Scrolling, Settled
  <2> DEFINE new == IF Head(str) = Newline THEN Picture
                    ELSE [k \in Owned |-> IF k = Seen THEN Head(str) ELSE Picture[k]]
  <2>2. \A k \in Owned : new[k] = video'[k]
    BY <1>5, <2>1, OnScreen DEF Picture
  <2>3. \A f : f = [k \in Owned |-> f[k]] => (f = new <=> \A k \in Owned : f[k] = new[k])
    BY DEF Picture
  <2> HIDE DEF new
  <2>4. Scrolling' <=> n >= Total
    BY <1>1 DEF Scrolling
  <2>5. Put(new, n)
    <3>1. CASE n < Total
      <4>1. ~Scrolling' /\ Seen' = n
        BY <1>1, <1>2, <2>4, <3>1, Geometry DEF Seen
      <4>2. \A k : Settled(k)' = video'[k]
        BY <4>1 DEF Settled
      <4>3. Picture' = [k \in Owned |-> video'[k]]
        BY <4>2 DEF Picture, Owned
      <4>4. Picture' = new
        BY <2>2, <2>3, <4>3
      <4> QED
        BY <3>1, <4>1, <4>4 DEF Put
    <3>2. CASE ~(n < Total)
      <4>1. Scrolling' /\ Seen' = Bottom
        BY <1>1, <1>2, <2>4, <3>2, Geometry DEF Seen
      <4>2. \A k \in Owned : Settled(k)' = IF k < Bottom THEN video'[k + Cols] ELSE Blank
        BY <1>1, <1>7, <4>1, OnScreen DEF Settled
      <4>3. \A k \in Owned : Settled(k)' = IF k < Bottom THEN new[k + Cols] ELSE Blank
        BY <2>2, <4>2, OnScreen
      <4>4. Picture' = [k \in Owned |-> IF k < Bottom THEN new[k + Cols] ELSE Blank]
        BY <4>3 DEF Picture, Owned
      <4> QED
        BY <3>2, <4>1, <4>4 DEF Put
    <3> QED
      BY <3>1, <3>2
  <2>6. Promised
    <3>1. IF Head(str) = Newline
            THEN Put(Picture, (Seen \div Cols + 1) * Cols)
            ELSE Put([k \in Owned |-> IF k = Seen THEN Head(str) ELSE Picture[k]], Seen + 1)
      BY <2>1, <2>5 DEF new, n, RowOf
    <3> QED
      BY <1>1, <1>10, <3>1, Puts
  <2>7. LineInv'
    <3> SUFFICES ASSUME Reading'
                 PROVE  LineInv'
      BY DEF LineInv
    <3>0. PICK len : len = Len(typed)
      OBVIOUS
    <3>1. /\ stage = "echo" /\ str = <<typed[len]>> /\ typed # <<>> /\ str' = <<>>
          /\ Head(str) = typed[len] /\ typed[len] # Newline
      <4>1. ASSUME NEW c
            PROVE  Tail(<<c>>) = <<>> /\ Head(<<c>>) = c
        OBVIOUS
      <4>2. stage = "echo"
        BY <1>1 DEF Reading, Displaying
      <4>3. str = <<typed[len]>> /\ typed # <<>>
        BY <1>1, <3>0, <4>2 DEF IInv, Control
      <4>4. str' = <<>> /\ Head(str) = typed[len]
        BY <1>1, <4>1, <4>3
      <4> QED
        BY <1>1, <3>0, <4>2, <4>3, <4>4 DEF Reading
    <3>2. len \in Nat /\ len >= 1 /\ len <= MaxLen
      BY <3>0, <3>1 DEF IInv, Types
    <3>3. Reading /\ Shown = len - 1 /\ Shown' = len /\ n = offset + 1
      BY <1>1, <3>0, <3>1 DEF Reading, Shown, n
    <3>4. /\ offset >= len - 1
          /\ \A k \in Nat : \A i \in 1 .. len - 1 :
               k = offset - (len - 1) + i - 1 /\ k >= Cols => video[k] = typed[i]
      BY <2>1, <3>3 DEF IInv, LineInv
    <3>5. \A k \in Nat : \A i \in 1 .. len :
            k = offset - (len - 1) + i - 1 /\ k >= Cols => video'[k] = typed[i]
      <4> SUFFICES ASSUME NEW k \in Nat, NEW i \in 1 .. len,
                          k = offset - (len - 1) + i - 1, k >= Cols
                   PROVE  video'[k] = typed[i]
        OBVIOUS
      <4>1. k \in Cells
        BY <1>1, <2>1, <3>2, OnScreen, Geometry
      <4>2. CASE i = len
        BY <1>1, <1>5, <3>1, <3>2, <4>1, <4>2
      <4>3. CASE i # len
        <5>1. i \in 1 .. len - 1 /\ k # offset
          BY <1>1, <3>2, <4>3
        <5> QED
          BY <1>5, <3>4, <4>1, <5>1
      <4> QED
        BY <4>2, <4>3
    <3>6. CASE n < Total
      <4>1. Seen' = offset + 1 /\ \A k : Settled(k)' = video'[k]
        BY <1>1, <1>2, <2>4, <3>3, <3>6, Geometry DEF Seen, Settled
      <4>2. /\ offset + 1 >= len
            /\ \A k \in Nat : \A i \in 1 .. len :
                 k = (offset + 1) - len + i - 1 /\ k >= Cols => video'[k] = typed[i]
        <5>1. \A i \in 1 .. len : (offset + 1) - len + i - 1 = offset - (len - 1) + i - 1
          BY <1>1, <3>2
        <5>2. offset + 1 >= len
          BY <1>1, <3>2, <3>4
        <5> QED
          BY <3>5, <5>1, <5>2
      <4> QED
        BY <1>1, <3>3, <4>1, <4>2 DEF LineInv
    <3>7. CASE ~(n < Total)
      <4>1. n = Total /\ offset + 1 = Total
        BY <1>1, <2>1, <3>3, <3>7, Geometry
      <4>2. Scrolling' /\ Seen' = Bottom
        BY <1>1, <1>2, <2>4, <3>7, Geometry DEF Seen
      <4>3. \A k \in Nat : k < Bottom => Settled(k)' = video'[k + Cols]
        BY <1>1, <1>7, <4>2 DEF Settled
      <4>4. \A k \in Nat : \A i \in 1 .. len :
              k = Bottom - len + i - 1 /\ k >= Cols => Settled(k)' = typed[i]
        <5> SUFFICES ASSUME NEW k \in Nat, NEW i \in 1 .. len,
                            k = Bottom - len + i - 1, k >= Cols
                     PROVE  Settled(k)' = typed[i]
          OBVIOUS
        <5>1. k < Bottom /\ k + Cols \in Nat /\ k + Cols >= Cols
              /\ k + Cols = offset - (len - 1) + i - 1
          BY <1>1, <3>2, <4>1, Geometry
        <5> QED
          BY <3>5, <4>3, <5>1
      <4>5. Bottom >= len
        BY <3>2, Geometry
      <4> QED
        BY <1>1, <3>3, <4>2, <4>4, <4>5 DEF LineInv
    <3> QED
      BY <3>6, <3>7
  <2> QED
    BY <1>6, <1>8, <2>6, <2>7 DEF IInv
<1> QED
  BY <1>9, <1>10

(* A step that leaves what is seen, and the line, as they are.             *)
LEMMA LineKept ==
  ASSUME IInv, UNCHANGED <<stage, str, typed>>, Seen' = Seen,
         \A n \in Owned : Settled(n)' = Settled(n)
  PROVE  LineInv'
<1>1. Reading' = Reading /\ Shown' = Shown
  BY DEF Reading, Shown
<1>2. \A n \in Nat : \A i \in 1 .. Shown :
        n = Seen - Shown + i - 1 /\ n >= Cols => n \in Owned \/ ~Reading
  <2> SUFFICES ASSUME NEW n \in Nat, NEW i \in 1 .. Shown, Reading,
                      n = Seen - Shown + i - 1, n >= Cols
               PROVE  n \in Owned
    OBVIOUS
  <2>1. Seen \in Nat /\ Seen <= Total
    BY OnScreen, Geometry DEF Seen, Scrolling, IInv, Types
  <2>2. Shown \in Int
    BY DEF Shown, IInv, Types
  <2>3. n < Total
    BY <2>1, <2>2, Geometry
  <2> QED
    BY <2>3, Geometry DEF Owned
<1> QED
  BY <1>1, <1>2 DEF IInv, LineInv

(* One row is moved.                                                       *)
LEMMA MoveStep ==
  ASSUME IInv, MoveRow
  PROVE  IInv' /\ Promised
<1>1. /\ Scrolling /\ str = <<>> /\ row \in Nat /\ row < Rows - 1 /\ row' = row + 1
      /\ UNCHANGED <<cursor, stage, str, offset, typed>> /\ Scrolling' /\ Rows \in Nat
      /\ video \in [Cells -> Chars]
      /\ video' = [n \in Cells |-> IF RowOf(n) = row THEN video[n + Cols] ELSE video[n]]
  BY Geometry DEF MoveRow, PastEnd, Scrolling, Displaying, IInv, Types
<1>2. \A n \in Cells : /\ RowOf(n) \in Nat
                       /\ RowOf(n) < Rows - 1 <=> n < Bottom
                       /\ RowOf(n + Cols) = RowOf(n) + 1
                       /\ n < Bottom => n + Cols \in Cells
  BY RowIs, OnScreen, Geometry
<1>3. video' \in [Cells -> Chars]
  BY <1>1, <1>2
<1>4. \A n \in Owned : Settled(n)' = Settled(n)
  <2> SUFFICES ASSUME NEW n \in Owned
               PROVE  Settled(n)' = Settled(n)
    OBVIOUS
  <2>1. n \in Cells /\ RowOf(n) \in Nat
    BY <1>2, OnScreen
  <2>2. CASE RowOf(n) < row
    <3>1. RowOf(n) < row + 1 /\ video'[n] = video[n]
      BY <1>1, <2>1, <2>2
    <3> QED
      BY <1>1, <2>2, <3>1 DEF Settled
  <2>3. CASE RowOf(n) = row
    <3>1. n < Bottom /\ RowOf(n) < row + 1 /\ ~(RowOf(n) < row)
          /\ video'[n] = video[n + Cols]
      BY <1>1, <1>2, <2>1, <2>3
    <3> QED
      BY <1>1, <3>1 DEF Settled
  <2>4. CASE RowOf(n) > row
    <3>1. ~(RowOf(n) < row + 1) /\ ~(RowOf(n) < row)
      BY <1>1, <2>1, <2>4
    <3>2. n < Bottom => video'[n + Cols] = video[n + Cols]
      <4> SUFFICES ASSUME n < Bottom
                   PROVE  video'[n + Cols] = video[n + Cols]
        OBVIOUS
      <4>1. n + Cols \in Cells /\ RowOf(n + Cols) # row
        BY <1>1, <1>2, <2>1, <2>4
      <4> QED
        BY <1>1, <4>1
    <3> QED
      BY <1>1, <3>1, <3>2 DEF Settled
  <2> QED
    BY <1>1, <2>1, <2>2, <2>3, <2>4
<1>5. Seen' = Seen
  BY <1>1 DEF Seen
<1>6. Picture' = Picture
  BY <1>4 DEF Picture, Owned
<1>7. Promised
  BY <1>1, <1>5, <1>6, Stutters, Moves
<1>8. Types'
  BY <1>1, <1>3 DEF IInv, Types
<1>9. Control'
  BY <1>1 DEF IInv, Control, Displaying
<1> QED
  BY <1>1, <1>4, <1>5, <1>7, <1>8, <1>9, LineKept DEF IInv

(* The last row is cleared.                                                *)
LEMMA BlankStep ==
  ASSUME IInv, BlankRow
  PROVE  IInv' /\ Promised
<1>1. /\ Displaying /\ Displaying' /\ Scrolling /\ str = <<>> /\ row = Rows - 1
      /\ row' = 0 /\ offset' = Bottom
      /\ UNCHANGED <<cursor, stage, str, typed>> /\ Rows \in Nat /\ Rows >= 2
      /\ video \in [Cells -> Chars]
      /\ video' = [n \in Cells |-> IF RowOf(n) = row THEN Blank ELSE video[n]]
  BY Geometry DEF BlankRow, PastEnd, Scrolling, Displaying, IInv, Types
<1>2. ~Scrolling'
  BY <1>1, Geometry DEF Scrolling
<1>3. video' \in [Cells -> Chars]
  BY <1>1, Geometry
<1>4. \A n \in Owned : Settled(n)' = Settled(n)
  <2> SUFFICES ASSUME NEW n \in Owned
               PROVE  Settled(n)' = Settled(n)
    OBVIOUS
  <2>1. /\ n \in Cells /\ RowOf(n) \in Nat /\ RowOf(n) <= Rows - 1
        /\ RowOf(n) < Rows - 1 <=> n < Bottom
    BY RowIs, OnScreen
  <2>2. Settled(n)' = video'[n]
    BY <1>2 DEF Settled
  <2>3. CASE RowOf(n) < row
    <3>1. video'[n] = video[n]
      BY <1>1, <2>1, <2>3
    <3> QED
      BY <1>1, <2>2, <2>3, <3>1 DEF Settled
  <2>4. CASE RowOf(n) = row
    <3>1. video'[n] = Blank /\ ~(RowOf(n) < row) /\ ~(n < Bottom)
      BY <1>1, <2>1, <2>4
    <3> QED
      BY <1>1, <2>2, <3>1 DEF Settled
  <2> QED
    BY <1>1, <2>1, <2>3, <2>4
<1>5. Seen' = Seen
  BY <1>1, <1>2 DEF Seen
<1>6. Picture' = Picture
  BY <1>4 DEF Picture, Owned
<1>7. Promised
  BY <1>1, <1>2, <1>5, <1>6, Returns
<1>8. Types'
  BY <1>1, <1>3, Geometry DEF IInv, Types
<1>9. Control'
  BY <1>1, <1>2 DEF IInv, Control, Displaying
<1> QED
  BY <1>1, <1>4, <1>5, <1>7, <1>8, <1>9, LineKept DEF IInv

(* The displaying function returns.                                        *)
LEMMA SetCursorStep ==
  ASSUME IInv, SetCursor
  PROVE  IInv' /\ Promised
<1>1. /\ Displaying /\ str = <<>> /\ offset < Total /\ offset \in Nat
      /\ cursor' = offset /\ UNCHANGED <<video, str, offset, row>> /\ ~Scrolling
      /\ row = 0
  BY Geometry DEF SetCursor, PastEnd, Scrolling, IInv, Types, Control
<1>2. \/ stage' = "command" /\ typed' = <<>>
      \/ stage' = "read" /\ typed' = typed /\ stage = "echo" /\ ~EndOfLine
  BY <1>1 DEF SetCursor, Displaying
<1>3. ~Displaying' /\ ~Scrolling'
  BY <1>2 DEF Displaying, Scrolling
<1>4. Seen = offset /\ Seen' = offset /\ \A n : Settled(n)' = Settled(n)
  BY <1>1, <1>3 DEF Seen, Settled
<1>5. Promised
  <2>1. Picture' = Picture
    BY <1>4 DEF Picture, Owned
  <2> QED
    BY <1>1, <1>3, <1>4, <2>1, Stutters, Moves
<1>6. <<>> \in Seq(Keys \cup {Newline}) /\ Len(<<>>) = 0
  OBVIOUS
<1>7. Types'
  <2>1. offset \in Cells
    BY <1>1, OnScreen, Geometry
  <2>2. typed' \in Seq(Keys \cup {Newline}) /\ Len(typed') <= MaxLen
    <3>1. typed \in Seq(Keys \cup {Newline}) /\ Len(typed) <= MaxLen
      BY DEF IInv, Types
    <3>2. 0 <= MaxLen
      BY Geometry
    <3>3. typed' = <<>> \/ typed' = typed
      BY <1>2
    <3>4. CASE typed' = typed
      BY <3>1, <3>4, Zenon
    <3>5. CASE typed' = <<>>
      BY <1>6, <3>2, <3>5
    <3> QED
      BY <3>3, <3>4, <3>5
  <2>3. stage' \in {"command", "output", "echo", "read"}
    BY <1>2
  <2> QED
    BY <1>1, <2>1, <2>2, <2>3 DEF IInv, Types
<1>8. stage' = "read" => \A i \in 1 .. Len(typed) : typed[i] # Newline
  <2> SUFFICES ASSUME stage' = "read"
               PROVE  \A i \in 1 .. Len(typed) : typed[i] # Newline
    OBVIOUS
  <2>1. typed[Len(typed)] # Newline /\ \A i \in 1 .. Len(typed) - 1 : typed[i] # Newline
    BY <1>2 DEF EndOfLine, IInv, Control
  <2>2. Len(typed) \in Nat
    BY DEF IInv, Types
  <2> QED
    BY <2>1, <2>2
<1>9. Control'
  BY <1>1, <1>2, <1>3, <1>8 DEF Control
<1>10. LineInv'
  <2>1. CASE stage' = "command"
    BY <2>1 DEF LineInv, Reading
  <2>2. CASE stage' = "read"
    <3>1. Reading /\ Shown = Len(typed) /\ Shown' = Len(typed) /\ typed' = typed
      BY <1>1, <1>2, <2>2 DEF Reading, Shown, EndOfLine, IInv, Control
    <3> QED
      BY <1>4, <3>1 DEF IInv, LineInv
  <2> QED
    BY <1>2, <2>1, <2>2
<1> QED
  BY <1>5, <1>7, <1>9, <1>10 DEF IInv

(* Backspace.                                                              *)
LEMMA EraseStep ==
  ASSUME IInv, EraseChar
  PROVE  IInv' /\ Promised
<1>1. /\ stage = "read" /\ typed # <<>> /\ UNCHANGED <<stage, str, offset, row>>
      /\ video' = [video EXCEPT ![cursor - 1] = Blank] /\ cursor' = cursor - 1
      /\ typed' = SubSeq(typed, 1, Len(typed) - 1)
      /\ typed \in Seq(Keys \cup {Newline}) /\ Len(typed) \in Nat /\ Len(typed) >= 1
      /\ Len(typed) <= MaxLen /\ video \in [Cells -> Chars]
  BY DEF EraseChar, IInv, Types
<1>2. /\ ~Displaying /\ ~Displaying' /\ ~Scrolling /\ ~Scrolling'
      /\ str = <<>> /\ row = 0
  BY <1>1 DEF Displaying, Scrolling, IInv, Control
<1>3. /\ Seen = cursor /\ Seen' = cursor - 1 /\ cursor \in Cells /\ cursor \in Nat
      /\ \A n : Settled(n) = video[n] /\ Settled(n)' = video'[n]
  BY <1>1, <1>2, OnScreen DEF Seen, Settled, IInv, Types
<1>4. /\ typed' \in Seq(Keys \cup {Newline}) /\ Len(typed') = Len(typed) - 1
      /\ \A i \in 1 .. Len(typed) - 1 : typed'[i] = typed[i]
  <2>1. /\ Len(typed) - 1 \in Int /\ 1 \in Int
        /\ \A i \in 1 .. Len(typed) - 1 : i \in 1 .. Len(typed)
    BY <1>1
  <2>2. \A i \in 1 .. Len(typed) - 1 : typed[i] \in Keys \cup {Newline}
    BY <1>1, <2>1
  <2>3. /\ typed' \in Seq(Keys \cup {Newline})
        /\ Len(typed') = IF 1 <= Len(typed) - 1 THEN Len(typed) - 1 - 1 + 1 ELSE 0
        /\ \A i \in 1 .. Len(typed) - 1 - 1 + 1 : typed'[i] = typed[1 + i - 1]
    BY <1>1, <2>1, <2>2, SubSeqProperties
  <2>4. PICK k \in Nat : k = Len(typed)
    BY <1>1
  <2>5. Len(typed') = Len(typed) - 1
    BY <1>1, <2>3, <2>4
  <2>6. \A i \in 1 .. Len(typed) - 1 : i \in 1 .. Len(typed) - 1 - 1 + 1 /\ 1 + i - 1 = i
    BY <2>4
  <2> QED
    BY <2>3, <2>5, <2>6
<1>5. Reading /\ Shown = Len(typed) /\ Shown' = Len(typed) - 1
  BY <1>1, <1>2, <1>4 DEF Reading, Shown
<1>6. /\ cursor >= Len(typed)
      /\ \A n \in Nat : \A i \in 1 .. Len(typed) :
           n = cursor - Len(typed) + i - 1 /\ n >= Cols => video[n] = typed[i]
  BY <1>3, <1>5 DEF IInv, LineInv
<1>7. cursor - 1 \in Cells
  BY <1>1, <1>3, <1>6, Geometry DEF Cells
<1>8. \A n \in Cells : video'[n] = IF n = cursor - 1 THEN Blank ELSE video[n]
  BY <1>1, <1>7
<1>9. Promised
  <2>1. Picture' = [n \in Owned |-> IF n = Seen' THEN Blank ELSE Picture[n]]
    BY <1>3, <1>8, OnScreen DEF Picture, Owned
  <2>2. Seen > 0
    BY <1>1, <1>3, <1>6
  <2> QED
    BY <1>1, <1>2, <1>3, <2>1, <2>2, Erases
<1>10. Types'
  BY <1>1, <1>4, <1>7, Geometry DEF IInv, Types
<1>11. Control'
  BY <1>1, <1>2, <1>4 DEF IInv, Control
<1>12. LineInv'
  <2>1. \A n \in Nat : \A i \in 1 .. Len(typed) - 1 :
          n = (cursor - 1) - (Len(typed) - 1) + i - 1 /\ n >= Cols => Settled(n)' = typed'[i]
    <3> SUFFICES ASSUME NEW n \in Nat, NEW i \in 1 .. Len(typed) - 1,
                        n = (cursor - 1) - (Len(typed) - 1) + i - 1, n >= Cols
                 PROVE  Settled(n)' = typed'[i]
      OBVIOUS
    <3>1. /\ i \in 1 .. Len(typed) /\ n = cursor - Len(typed) + i - 1 /\ n < cursor - 1
          /\ n < Total
      BY <1>1, <1>3, <1>6, OnScreen, Geometry
    <3> QED
      BY <1>3, <1>4, <1>6, <1>8, <3>1, OnScreen
  <2>2. cursor - 1 >= Len(typed) - 1
    BY <1>1, <1>3, <1>6
  <2> QED
    BY <1>3, <1>5, <2>1, <2>2 DEF LineInv
<1> QED
  BY <1>9, <1>10, <1>11, <1>12 DEF IInv

-----------------------------------------------------------------------------
(* Theorems.                                                               *)

(* The first state is one of Terminal.                                     *)
LEMMA Starts ==
  ASSUME ConsoleInit
  PROVE  IInv /\ Screen!Init
<1>1. /\ video = [n \in Cells |-> Blank] /\ cursor \in Cells /\ stage = "command"
      /\ str = <<>> /\ offset = cursor /\ row = 0 /\ typed = <<>> /\ Len(<<>>) = 0
      /\ ~Displaying /\ ~Scrolling
  BY DEF ConsoleInit, Displaying, Scrolling
<1>2. IInv
  BY <1>1, OnScreen, Geometry DEF IInv, Types, Control, LineInv, Reading
<1>3. Screen!Init
  <2>1. [n \in Owned |-> Settled(n)] = [n \in Owned |-> Blank]
    BY <1>1, OnScreen DEF Settled
  <2>2. cursor \in 0 .. Total - 1
    BY <1>1 DEF Cells
  <2> QED
    BY <1>1, <2>1, <2>2, Moves DEF Screen!Init, Screen!Owned, Screen!Total, Screen!Blank,
       Owned, Total, Blank
<1> QED
  BY <1>2, <1>3

(* Every step is one of Terminal, or shows nothing new.                    *)
LEMMA Steps ==
  ASSUME IInv, [ConsoleNext]_consoleVars
  PROVE  IInv' /\ Promised
<1>1. CASE \E t \in Outputs : Display(t)
  BY <1>1, DisplayStep
<1>2. CASE \E c \in Keys \cup {Newline} : Type(c)
  BY <1>2, TypeStep
<1>3. CASE StoreChar
  BY <1>3, StoreStep
<1>4. CASE MoveRow
  BY <1>4, MoveStep
<1>5. CASE BlankRow
  BY <1>5, BlankStep
<1>6. CASE SetCursor
  BY <1>6, SetCursorStep
<1>7. CASE ReadLine \/ MaxReached
  BY <1>7, ReadStep
<1>8. CASE EraseChar
  BY <1>8, EraseStep
<1>9. CASE ClearScreen
  BY <1>9, ClearStep
<1>10. CASE \E x \in Painted : Paint(x)
  BY <1>10, PaintStep
<1>11. CASE UNCHANGED consoleVars
  <2>1. UNCHANGED <<video, cursor, stage, str, offset, row, typed>>
    BY <1>11 DEF consoleVars
  <2>2. Scrolling' = Scrolling /\ Seen' = Seen /\ Displaying' = Displaying
        /\ \A n : Settled(n)' = Settled(n)
    BY <2>1 DEF Scrolling, Displaying, Seen, Settled
  <2>3. Promised
    BY <2>1, <2>2, Stutters DEF Picture, Owned
  <2>4. Types' /\ Control'
    BY <2>1, <2>2 DEF IInv, Types, Control
  <2> QED
    BY <2>1, <2>2, <2>3, <2>4, LineKept DEF IInv
<1> QED
  BY <1>1, <1>2, <1>3, <1>4, <1>5, <1>6, <1>7, <1>8, <1>9, <1>10, <1>11 DEF ConsoleNext

(* The inductive invariant of the console.                                 *)
THEOREM Invariance == ConsoleSpec => []IInv
<1>1. ConsoleInit => IInv
  BY Starts
<1>2. IInv /\ [ConsoleNext]_consoleVars => IInv'
  BY Steps
<1> QED
  BY <1>1, <1>2, PTL DEF ConsoleSpec

(* The line that is being read stands before the cursor as it is in the    *)
(* buffer, whatever has been typed, erased, moved up and painted over.     *)
THEOREM LineIsSeen == ConsoleSpec => []LineOnScreen
<1>1. ASSUME IInv PROVE LineOnScreen
  <2> SUFFICES ASSUME stage = "read"
               PROVE  /\ cursor >= Len(typed)
                      /\ \A i \in 1 .. Len(typed) :
                           cursor - Len(typed) + i - 1 >= Cols =>
                             video[cursor - Len(typed) + i - 1] = typed[i]
    BY DEF LineOnScreen
  <2>1. str = <<>> /\ ~Displaying /\ ~Scrolling
    BY <1>1 DEF IInv, Control, Displaying, Scrolling
  <2>2. Seen = cursor /\ Shown = Len(typed) /\ Reading /\ \A n : Settled(n) = video[n]
    BY <2>1 DEF Seen, Shown, Reading, Settled
  <2>3. /\ cursor >= Len(typed)
        /\ \A n \in Nat : \A i \in 1 .. Len(typed) :
             n = cursor - Len(typed) + i - 1 /\ n >= Cols => video[n] = typed[i]
    BY <1>1, <2>2 DEF IInv, LineInv
  <2>4. cursor \in Nat /\ Len(typed) \in Nat
    BY <1>1, OnScreen DEF IInv, Types
  <2>5. \A i \in 1 .. Len(typed) : cursor - Len(typed) + i - 1 \in Nat
    BY <2>3, <2>4
  <2> QED
    BY <2>3, <2>5
<1> QED
  BY <1>1, Invariance, PTL

(* The console implements Terminal: the rows below the first show the      *)
(* texts of the command line, also while they are being moved.             *)
THEOREM Refinement == ConsoleSpec => TerminalSpec
<1>1. ConsoleInit => Screen!Init
  BY Starts
<1>2. IInv /\ [ConsoleNext]_consoleVars => [Screen!Next]_Screen!vars
  BY Steps DEF Promised
<1> QED
  BY <1>1, <1>2, Invariance, PTL DEF ConsoleSpec, TerminalSpec, Screen!Spec
=============================================================================
