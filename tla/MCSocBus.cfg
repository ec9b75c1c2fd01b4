SPECIFICATION FairSpec
CONSTANTS
  NrHosts = 2
  NrDevices = 3
  Word <- MCWord
  Hits <- MCHits
  BeIdxWidth = 2
  NrBytes = 20
  SbSettings <- MCSettings
  SbAddresses <- MCAddresses
  Ram = 0
  DbgDev = 2
  Present <- MCPresent
  ErrWords <- MCErrWords
  Ops <- MCOps
  Fetches <- MCFetches
  IdleAddrs <- MCIdle
  Ahead = 2
INVARIANTS
  TypeOK
  LoadsTakeOwnAnswers
  SbaTakesOwnAnswer
  NoStrayResponse
  FetchTakesOwnWord
PROPERTIES
  DebuggerServed
  FetchServed
