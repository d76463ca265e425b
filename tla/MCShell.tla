------------------------------ MODULE MCShell -------------------------------
(***************************************************************************)
(* The kernel's shell for TLC: the line as it is read and parsed (Cli), as *)
(* it stands on the screen (Console), the names and numbers that are       *)
(* printed and typed (Formats), and the paths of the commands (Paths).     *)
(*                                                                         *)
(* The four share no variable.  They take turns in one run: one of them    *)
(* moves while the others stand where they begin.                          *)
(***************************************************************************)
EXTENDS Cli, Console, Formats, MCPaths

CONSTANTS a, b

(* Short lines, tokens and commands, so that all of them become full.      *)
MCLetters == {a, b}

(* A screen of three rows of three, one painted column, and outputs that   *)
(* end before, at and beyond the end of the screen.                        *)
MCChars   == {Blank, "a", "b", "o"}
MCKeys    == {"a", "b"}
MCOutputs == {<<"a", "b">>, <<"b", Newline>>, <<Newline, "a", "b", Newline, "a">>}

(* All short names, base names and extensions of two characters, and all   *)
(* numbers of three hexadecimal digits.                                    *)
MCNames   == UNION {[1 .. k -> {"x", "y", ".", " "}] : k \in 1 .. 6}
MCNumbers == 0 .. 4095
MCDays    == 1 .. 31
MCMonths  == 1 .. 12
MCYears   == 1980 .. 2107

(* Paths of up to five characters.                                         *)
ShellNames == {<<"x">>, <<"x", "y">>}
ShellTrees == MCTrees(ShellNames)
ShellLines == Strings({"/", "x", "y"}, 5)

ASSUME ShellAssumption ==
  (\A tree \in ShellTrees : Ranked(tree)) /\ \A path \in ShellLines : NoDots(path)

CliRests     == Init
ConsoleRests == ConsoleInit /\ cursor = 0
FormatsRests == FormatsInit
PathsRests   == disk = EmptyTree /\ currentDir = AtRoot

CliMoves     == Next /\ UNCHANGED <<consoleVars, formatVars, pathVars>>
ConsoleMoves == ConsoleNext /\ UNCHANGED <<vars, formatVars, pathVars>>
FormatsMove  == FormatsNext /\ UNCHANGED <<vars, consoleVars, pathVars>>
PathsMove    == ShellNext /\ UNCHANGED <<vars, consoleVars, formatVars>>

MCInit ==
  /\ Init /\ ConsoleInit /\ FormatsInit /\ PathsInit
  /\ ConsoleRests \/ PathsRests

MCNext ==
  \/ ConsoleRests /\ FormatsRests /\ PathsRests /\ CliMoves
  \/ CliRests /\ FormatsRests /\ PathsRests /\ ConsoleMoves
  \/ CliRests /\ ConsoleRests /\ PathsRests /\ FormatsMove
  \/ CliRests /\ ConsoleRests /\ FormatsRests /\ PathsMove

MCSpec == MCInit /\ [][MCNext]_<<vars, consoleVars, formatVars, pathVars>>
=============================================================================
