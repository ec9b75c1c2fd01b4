SPECIFICATION FairSpec
CONSTANTS
  NumBits <- MCNumBits
  ClocksPerBaud <- MCClocksPerBaud
  RxFifoDepth <- MCRxFifoDepth
  BitTimes <- MCBitTimes
  MinGap <- MCMinGap
  GlitchCycles <- MCGlitchCycles
  MaxFrames <- MCMaxFrames
INVARIANTS
  TypeOK
  OnlySentBytes
  ReadOnceInOrder
PROPERTY
  FramesArrive
