SPECIFICATION FifoSpec
CONSTANTS
  Depth <- MCDepth
  Data <- MCData
  Zero <- MCZero
INVARIANTS
  FifoTypeOK
  PointersOrdered
  FlagsAgree
PROPERTY
  ImplementsQueue
