-------------------------------- MODULE Cli ---------------------------------
(***************************************************************************)
(* The command line (cli/cli.c): read a line, split it at spaces, execute  *)
(* it, for ever.  stringSplit keeps its place in the line in a static      *)
(* variable, which outlives the line when the parser stops early.          *)
(*                                                                         *)
(* Characters are letters (all that are no more than themselves), space,   *)
(* backspace and enter.  What a command does is another component.         *)
(***************************************************************************)
EXTENDS Integers, SequencesExt

CONSTANTS Letters,
          MaxLine,     \* max_len of cliReadline (77)
          TokenSize,   \* of the buffer of cliParse, and of its strings (64)
          ParamSlots   \* params in a Command (16)

Space     == " "
Backspace == "backspace"
Enter     == "enter"

ASSUME CliAssumption ==
  /\ {Space, Backspace, Enter} \cap Letters = {}
  /\ MaxLine \in Nat \ {0}
  /\ TokenSize \in Nat \ {0}
  /\ ParamSlots \in Nat

VARIABLES
  pc,              \* read, name, params (in cliParse), execute, or overrun
  line,            \* BUFFER of cliLoop, up to its end
  nextTokenIndex,  \* static in stringSplit
  cmd,             \* currentCommand
  tidy             \* ghost: no line so far had an empty token

vars == <<pc, line, nextTokenIndex, cmd, tidy>>

Text == Seq(Letters \cup {Space})
Word == Seq(Letters)

NoCommand == [name |-> <<>>, params |-> <<>>]

(* An empty token: a space that begins the line or follows another one.    *)
HasEmptyToken(s) ==
  \E i \in DOMAIN s : s[i] = Space /\ (i = 1 \/ s[i - 1] = Space)

Init ==
  /\ pc = "read" /\ line = <<>>
  /\ nextTokenIndex = 0
  /\ cmd = NoCommand
  /\ tidy = TRUE

-----------------------------------------------------------------------------
(* cliReadline.                                                            *)

LineFull == Len(line) >= MaxLine

(* The line ends as it is, with text for its content.                      *)
EndLine(text) ==
  /\ line' = text
  /\ pc' = "name"
  /\ tidy' = (tidy /\ ~HasEmptyToken(text))
  /\ UNCHANGED <<nextTokenIndex, cmd>>

ReadCharacter ==
  /\ pc = "read" /\ ~LineFull
  /\ \E c \in Letters \cup {Space} : line' = Append(line, c)
  /\ UNCHANGED <<pc, nextTokenIndex, cmd, tidy>>

(* Nothing happens at the beginning of the line.                           *)
ReadBackspace ==
  /\ pc = "read" /\ ~LineFull /\ line # <<>>
  /\ line' = Front(line)
  /\ UNCHANGED <<pc, nextTokenIndex, cmd, tidy>>

ReadEnter ==
  /\ pc = "read" /\ ~LineFull
  /\ EndLine(line)

(* The terminating zero replaces the last character; what is typed after   *)
(* it belongs to the next line.                                            *)
CutLine ==
  /\ pc = "read" /\ LineFull
  /\ EndLine(Front(line))

-----------------------------------------------------------------------------
(* stringSplit, with ' ' for separator.                                    *)

AtEnd == nextTokenIndex >= Len(line)

(* The index of the first separator from nextTokenIndex on, or the length. *)
TokenEnd ==
  Min({i \in nextTokenIndex .. Len(line) : i = Len(line) \/ line[i + 1] = Space})

Token == SubSeq(line, nextTokenIndex + 1, TokenEnd)

(* Mutation: the separator is skipped with the character after it.         *)
AfterToken_Skips == IF TokenEnd = Len(line) THEN TokenEnd ELSE TokenEnd + 2

AfterToken == IF TokenEnd = Len(line) THEN TokenEnd ELSE TokenEnd + 1

(* Mutation: the index is not set back at the end of the line.             *)
SplitFails_KeepsIndex ==
  \/ AtEnd /\ UNCHANGED nextTokenIndex
  \/ ~AtEnd /\ Token = <<>> /\ nextTokenIndex' = AfterToken

(* The result is -1: at the end, where the index is set back, and at an    *)
(* empty token, where it is not.                                           *)
SplitFails ==
  \/ AtEnd /\ nextTokenIndex' = 0
  \/ ~AtEnd /\ Token = <<>> /\ nextTokenIndex' = AfterToken

(* There is a token, which fits into a buffer.                             *)
SplitFinds ==
  /\ ~AtEnd
  /\ Len(Token) \in 1 .. TokenSize - 1
  /\ nextTokenIndex' = AfterToken

(* A token that does not fit is written beyond the buffer of cliParse.     *)
TokenTooLong == ~AtEnd /\ Len(Token) >= TokenSize

-----------------------------------------------------------------------------
(* cliParse.                                                               *)

ParseNothing ==
  /\ pc = "name" /\ SplitFails
  /\ cmd' = NoCommand
  /\ pc' = "execute"
  /\ UNCHANGED <<line, tidy>>

ParseName ==
  /\ pc = "name" /\ SplitFinds
  /\ cmd' = [NoCommand EXCEPT !.name = Token]
  /\ pc' = "params"
  /\ UNCHANGED <<line, tidy>>

(* Mutation: paramIndex is not incremented.                                *)
ParseParam_SameSlot ==
  /\ pc = "params" /\ SplitFinds
  /\ Len(cmd.params) < ParamSlots
  /\ cmd' = [cmd EXCEPT !.params = <<Token>>]
  /\ UNCHANGED <<pc, line, tidy>>

ParseParam ==
  /\ pc = "params" /\ SplitFinds
  /\ Len(cmd.params) < ParamSlots
  /\ cmd' = [cmd EXCEPT !.params = Append(@, Token)]
  /\ UNCHANGED <<pc, line, tidy>>

ParseEnds ==
  /\ pc = "params" /\ SplitFails
  /\ pc' = "execute"
  /\ UNCHANGED <<line, cmd, tidy>>

(* A store outside an array on the stack: nothing is promised after it.    *)
StoreOutside ==
  /\ \/ pc \in {"name", "params"} /\ TokenTooLong
     \/ pc = "params" /\ SplitFinds /\ Len(cmd.params) = ParamSlots
  /\ pc' = "overrun"
  /\ nextTokenIndex' = AfterToken
  /\ UNCHANGED <<line, cmd, tidy>>

-----------------------------------------------------------------------------
(* cliExecuteCommand, and the top of the loop of cliLoop.                  *)
Execute ==
  /\ pc = "execute"
  /\ pc' = "read"
  /\ line' = <<>>
  /\ cmd' = NoCommand
  /\ UNCHANGED <<nextTokenIndex, tidy>>

Next ==
  \/ ReadCharacter \/ ReadBackspace \/ ReadEnter \/ CutLine
  \/ ParseNothing \/ ParseName \/ ParseParam \/ ParseEnds \/ StoreOutside
  \/ Execute

Spec == Init /\ [][Next]_vars

-----------------------------------------------------------------------------
(* The words of a text from a position on: what a command line is          *)
(* understood to consist of.                                               *)
WordStarts(s, from) ==
  {i \in from .. Len(s) : s[i] # Space /\ (i = from \/ s[i - 1] = Space)}

WordAt(s, i) ==
  SubSeq(s, i, Max({j \in i .. Len(s) : \A k \in i .. j : s[k] # Space}))

(* The n-th number of a set.                                               *)
Nth(S, n) == CHOOSE i \in S : Cardinality({k \in S : k <= i}) = n

Words(s, from) ==
  LET starts == WordStarts(s, from)
  IN  [n \in 1 .. Cardinality(starts) |-> WordAt(s, Nth(starts, n))]

Executed == <<cmd.name>> \o cmd.params

(* No line is longer than the caller of cliReadline allows, no command has *)
(* more parameters or longer names than a Command can hold.                *)
TypeOK ==
  /\ pc \in {"read", "name", "params", "execute", "overrun"}
  /\ line \in Text /\ Len(line) <= MaxLine
  /\ nextTokenIndex \in 0 .. MaxLine
  /\ cmd.name \in Word /\ Len(cmd.name) < TokenSize
  /\ cmd.params \in Seq(Word) /\ Len(cmd.params) <= ParamSlots
  /\ tidy \in BOOLEAN

(* As long as no line had an empty token, what is executed is what was     *)
(* typed: its words, all of them, and nothing of the lines before.         *)
CommandIsLine ==
  (tidy /\ pc = "execute") =>
    IF line = <<>> THEN cmd = NoCommand ELSE Executed = Words(line, 1)

(* Whatever the index left behind by other lines, a command consists of    *)
(* consecutive words of a tail of its own line.                            *)
NothingInvented ==
  (pc = "execute" /\ cmd.name # <<>>) =>
    \E i \in 1 .. Len(line) : IsPrefix(Executed, Words(line, i))

(* The index outlives a line only behind a separator of it, the one where  *)
(* the parser stopped at an empty token.                                   *)
IndexLeftAtSeparator ==
  (pc = "execute" /\ nextTokenIndex # 0) =>
    nextTokenIndex <= Len(line) /\ line[nextTokenIndex] = Space
=============================================================================
