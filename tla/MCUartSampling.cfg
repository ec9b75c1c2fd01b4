SPECIFICATION Spec
CONSTANTS
  NumBits <- MCNumBits
  ClocksPerBaud <- MCClocksPerBaud
  RxFifoDepth <- MCRxFifoDepth
  BitTimes <- MCBitTimes
  MinGap <- MCMinGap
  GlitchCycles <- MCGlitchCycles
  MaxFrames <- MCMaxFrames
INVARIANT
  SampledInTheMiddle
