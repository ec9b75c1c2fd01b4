SPECIFICATION FairSpec
CONSTANTS
  Chars = {"a"}
  MaxChars = 2
  TxDepth = 2
  RxDepth = 2
  Links <- LinksVal
  Digits = 2
  DigitBits = 1
  Inputs <- InputsVal
  Leds = 2
  Channels = 2
  NumPwm = 3
  Counter = 1
  FullBrightness = 2
  Times = 3
INVARIANTS TypeOK OutputNotMixed InterruptsReachHandler
PROPERTIES ColourChangesDim TickPrinted CharsTaken
