SPECIFICATION FairSpec
CONSTANTS
  c1 = c1
  c2 = c2
  c3 = c3
  NoConn = NoConn
  Server = Server
  Conns <- ThreeConns
  Unborn <- Second
INVARIANTS NoUseAfterFree ShutdownIsClean AssertNotReached ArgOutlivesUse
PROPERTIES UninitReturns KeepsAccepting CreateReturns
