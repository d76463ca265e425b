SPECIFICATION FairSpec
CONSTANTS
  KBD_BUFFER_SIZE = 3
  Keys <- MCKeys
INVARIANTS
  ReaderKeepsSlot
  ModifiersFollowKeys
  EofBelongsToChar
PROPERTIES
  FifoSpec
  NoLostWakeup
