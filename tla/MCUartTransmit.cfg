SPECIFICATION FairSpec
CONSTANTS
  NumBits <- MCNumBits
  ClocksPerBaud <- MCClocksPerBaud
  TxFifoDepth <- MCTxFifoDepth
  MaxBytes <- MCMaxBytes
INVARIANTS
  TypeOK
  HeardAsWritten
PROPERTIES
  EveryByteHeard
  CallsReturn
