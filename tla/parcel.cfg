CONSTANTS
  Base = 2
  Letters <- SmallLetters
  Highs <- SmallHighs
  Low = 3
  Bad = Bad
  NULL = NULL
  Skipped = Skipped
  Bytes <- SmallBytes
  Ints <- SmallInts
  Texts <- SmallTexts
  MaxItems = 2
  MaxReads = 3
SPECIFICATION Spec
CHECK_DEADLOCK FALSE
INVARIANTS
  CursorInPacket
  RoundTrip
  CutIsNoticed
