SPECIFICATION FairSpec
CONSTANTS
  NumBits <- MCNumBits
  ToggleCount <- MCToggleCount
  Depth <- MCDepth
  Payloads <- MCPayloads
  MaxCalls <- MCMaxCalls
INVARIANTS
  TypeOK
  TakenAsSent
  ReceivedAsDriven
PROPERTIES
  PinsMoveWhenQuiet
  CallsReturn
