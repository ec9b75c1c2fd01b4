SPECIFICATION Spec
CONSTANTS
  WordBits = 6
  ByteBits = 3
  TopClear = 3
  DigitBits = 2
  LowClear = 2
  Keys <- KeysVal
  Chunks <- ChunksVal
  MaxUpdates = 3
  Junk = {7}
INVARIANTS TagCorrect ContextFollows
CHECK_DEADLOCK FALSE
