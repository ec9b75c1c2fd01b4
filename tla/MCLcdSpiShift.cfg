SPECIFICATION Spec
CONSTANTS
  NumBits <- MCNumBits
  ToggleCount <- MCToggleCount
  Depth <- MCDepth
  Payloads <- MCPayloads
  MaxCalls <- MCMaxCalls
PROPERTY
  ShiftedOutOnRisingEdge
