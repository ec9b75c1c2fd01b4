SPECIFICATION Spec
CONSTANTS
  NrHosts = 2
  NrDevices = 4
  Word <- MCWord
  Hits <- MCHitsSim
  BeIdxWidth = 2
  NrBytes = 20
  SbSettings <- MCSettings
  SbAddresses <- MCAddresses
  Ram = 0
  DbgDev = 2
  Present <- MCPresent
  ErrWords <- MCErrWords
  Ops <- MCOps
  Fetches <- MCFetches
  IdleAddrs <- MCIdle
  Ahead = 2
INVARIANT NextCycleResponse
