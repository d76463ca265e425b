------------------------------- MODULE Formats ------------------------------
(***************************************************************************)
(* Names, numbers and dates as text (utils/strings.c and parseDate), and   *)
(* an entry or a line that one of them is written to.  A text is a         *)
(* sequence of characters; loops over texts are recursive functions.       *)
(***************************************************************************)
EXTENDS Integers, SequencesExt

CONSTANTS
  BaseSize, ExtSize,   \* characters of a name and its extension (8, 3)
  Names,               \* what users call files
  Numbers,             \* what they call sectors
  HexDigits,           \* of an unsigned int (8)
  Days, Months, Years  \* of the dates that others store in entries

VARIABLES
  meant,     \* what was to be written last, and as what
  written    \* what was written

formatVars == <<meant, written>>

Padding == " "
Dot   == "."

-----------------------------------------------------------------------------
(* Names of files.                                                         *)

(* Position of a character in a text, or the one behind its end.           *)
FirstAt(c, text) ==
  CHOOSE i \in 1 .. Len(text) + 1 :
    /\ i <= Len(text) => text[i] = c
    /\ \A k \in 1 .. i - 1 : text[k] # c

Base(name)      == SubSeq(name, 1, FirstAt(Dot, name) - 1)
Extension(name) == SubSeq(name, FirstAt(Dot, name) + 1, Len(name))

Padded(text, size) ==
  text \o [i \in 1 .. IF Len(text) < size THEN size - Len(text) ELSE 0 |-> Padding]

(* Mutation: the name is not padded before the extension.                  *)
formatFat16FileName_Packed(name) ==
  Padded(Base(name) \o Extension(name), BaseSize + ExtSize + 1)

(* All that it stores, from the first byte of the entry on: it does not    *)
(* look at sizes, and its last space falls behind the extension.           *)
formatFat16FileName(name) ==
  Padded(Padded(Base(name), BaseSize) \o Extension(name), BaseSize + ExtSize + 1)

(* What findFirstFreeEntry makes of it: attributes are stored after it, at *)
(* its last space; what goes beyond them stays in dates and other entries. *)
Stored(name) ==
  LET bytes == formatFat16FileName(name)
  IN  [filename |-> SubSeq(bytes, 1, BaseSize),
       ext      |-> SubSeq(bytes, BaseSize + 1, BaseSize + ExtSize),
       beyond   |-> Len(bytes) > BaseSize + ExtSize + 1]

NoSpaces(text) ==
  LET kept[i \in 0 .. Len(text)] ==
        IF i = 0 THEN <<>>
        ELSE IF text[i] = Padding THEN kept[i - 1] ELSE Append(kept[i - 1], text[i])
  IN  kept[Len(text)]

(* The name that is listed and compared.                                   *)
stringFat16Format(entry) ==
  NoSpaces(entry.filename) \o
    (IF entry.ext[1] = Padding THEN <<>> ELSE <<Dot>> \o NoSpaces(entry.ext))

(* 8.3, with something behind the dot if there is one, and no spaces.      *)
Fits(name) ==
  /\ Len(Base(name)) <= BaseSize
  /\ Len(Extension(name)) <= ExtSize
  /\ FirstAt(Dot, name) # Len(name)
  /\ NoSpaces(name) = name

-----------------------------------------------------------------------------
(* Numbers.  Both cases of a digit are one here.                           *)

Digits == <<"0", "1", "2", "3", "4", "5", "6", "7", "8", "9",
            "a", "b", "c", "d", "e", "f">>

ValueOf(c) == (CHOOSE i \in DOMAIN Digits : Digits[i] = c) - 1
IsDigit(c, base) == \E i \in 1 .. base : Digits[i] = c

(* One more than the greatest unsigned int.                                *)
Unsigned ==
  LET power[i \in 0 .. HexDigits] == IF i = 0 THEN 1 ELSE 16 * power[i - 1]
  IN  power[HexDigits]

(* The kernel writes nothing for zero.                                     *)
unsignedIntToString(n) ==
  LET text[k \in 0 .. n] ==
        IF k = 0 THEN <<>> ELSE Append(text[k \div 10], Digits[(k % 10) + 1])
  IN  text[n]

(* What is not a digit is skipped.  The int is given by its bits, as the   *)
(* disk driver takes it; compiled without optimization it wraps around.    *)
stringToInt(text) ==
  LET num[i \in 0 .. Len(text)] ==
        IF i = 0 THEN 0
        ELSE IF IsDigit(text[i], 10)
          THEN (num[i - 1] * 10 + ValueOf(text[i])) % Unsigned
          ELSE num[i - 1]
  IN  num[Len(text)]

(* The first character that is not a digit ends it, as the end does.       *)
stringToHex(text) ==
  LET first == IF IsPrefix(<<"0", "x">>, text) THEN 2 ELSE 0
      val[i \in 0 .. Len(text)] ==
        IF i <= first THEN 0
        ELSE IF \A k \in first + 1 .. i : IsDigit(text[k], 16)
               THEN ((val[i - 1] * 16) % Unsigned) + ValueOf(text[i])
               ELSE val[i - 1]
  IN  val[Len(text)]

(* The addresses of hexdump: the first digit is shifted furthest.          *)
printAddrInHex(addr) ==
  LET shifted[i \in 0 .. HexDigits] ==
        IF i = 0 THEN addr ELSE shifted[i - 1] \div 16
  IN  [i \in 1 .. HexDigits |-> Digits[(shifted[HexDigits - i] % 16) + 1]]

(* The sector of the commands read and wr.                                 *)
SectorOf(param) ==
  IF \E i \in DOMAIN param : param[i] = "x" THEN stringToHex(param)
                                            ELSE stringToInt(param)

parseDate(date) ==
  [day |-> date % 32, month |-> (date \div 32) % 16,
   year |-> 1980 + ((date \div 512) % 128)]

ASSUME FormatsAssumption ==
  /\ BaseSize \in Nat /\ ExtSize \in Nat \ {0} /\ HexDigits \in Nat
  /\ Names \subseteq Seq(STRING) /\ Numbers \subseteq 0 .. Unsigned - 1
  /\ Days \subseteq 1 .. 31 /\ Months \subseteq 1 .. 12 /\ Years \subseteq 1980 .. 2107

-----------------------------------------------------------------------------
(* One thing is written after the other.                                   *)

Nothing == [as |-> "nothing", value |-> 0]

FormatsInit == meant = Nothing /\ written = <<>>

(* touch, write and create, where the entry is free (findFirstFreeEntry).  *)
WriteName(name) ==
  meant' = [as |-> "name", value |-> name] /\ written' = Stored(name)

(* stat, and the others that print numbers.                                *)
WriteDecimal(n) ==
  meant' = [as |-> "decimal", value |-> n] /\ written' = unsignedIntToString(n)

(* hexdump; the user types the digits behind "0x".                         *)
WriteAddress(n) ==
  /\ meant' = [as |-> "address", value |-> n]
  /\ written' = <<"0", "x">> \o printAddrInHex(n)

(* Another system stores a date in an entry.                               *)
WriteDate(date) ==
  /\ meant' = [as |-> "date", value |-> date]
  /\ written' = (date.year - 1980) * 512 + date.month * 32 + date.day

(* The entry is freed, the line has scrolled away.                         *)
Erase == meant # Nothing /\ meant' = Nothing /\ written' = <<>>

Write ==
  \/ \E name \in Names : WriteName(name)
  \/ \E n \in Numbers : WriteDecimal(n) \/ WriteAddress(n)
  \/ \E day \in Days, month \in Months, year \in Years :
       WriteDate([day |-> day, month |-> month, year |-> year])

FormatsNext == (meant = Nothing /\ Write) \/ Erase

FormatsSpec == FormatsInit /\ [][FormatsNext]_formatVars

-----------------------------------------------------------------------------
(* What is written can be read: a file is listed under the name it was     *)
(* created with if and only if the name fits, so that it can be found      *)
(* again, and then nothing behind its name is overwritten; a sector that   *)
(* is typed as the kernel writes numbers (in decimal, an int, or as the    *)
(* addresses of hexdump) is the sector meant; dates are those of FAT.      *)
ReadsBack ==
  LET value == meant.value
  IN  CASE meant.as = "name" ->
             /\ (stringFat16Format(written) = value) <=> Fits(value)
             /\ Fits(value) => ~written.beyond
        [] meant.as = "decimal" -> 2 * value < Unsigned => SectorOf(written) = value
        [] meant.as = "address" -> SectorOf(written) = value
        [] meant.as = "date"    -> parseDate(written) = value
        [] OTHER -> written = <<>>
=============================================================================
