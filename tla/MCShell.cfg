SPECIFICATION MCSpec
CONSTANTS
  a = a
  b = b
  Letters <- MCLetters
  MaxLine = 7
  TokenSize = 5
  ParamSlots = 2
  Rows = 3
  Cols = 3
  Chars <- MCChars
  Keys <- MCKeys
  Outputs <- MCOutputs
  MaxLen = 6
  Painted = {1}
  Overlay = "o"
  BaseSize = 2
  ExtSize = 2
  HexDigits = 3
  Names <- MCNames
  Numbers <- MCNumbers
  Days <- MCDays
  Months <- MCMonths
  Years <- MCYears
  Same <- SameText
  Characters <- MCCharacters
  Trees <- ShellTrees
  Lines <- ShellLines
  NewNames <- ShellNames
  MaxEntries = 4
  Depth = 4
INVARIANTS
  CommandIsLine
  NothingInvented
  IndexLeftAtSeparator
  LineOnScreen
  ReadsBack
  ShellFindsPaths
  PromptIsPath
  TreeShowsAll
PROPERTIES
  TerminalSpec
CHECK_DEADLOCK FALSE
