CONSTANTS
  DataWidth <- MCDataWidth
  Increment <- MCIncrement
  Delays <- MCDelays
  MaxStall <- MCMaxStall
  MaxTime <- MCMaxTime
SPECIFICATION Spec
INVARIANTS TypeOK TicksNotEarly SleeperWillWake DelayNotLong
\* mtime stops at MaxTime, and the model with it.
CHECK_DEADLOCK FALSE
