SPECIFICATION FairSpec
CONSTANTS
  d1 = d1
  d2 = d2
  d3 = d3
  Devices <- ThreeDevices
  Document <- ThreeDocuments
  Hosts <- TheirHosts
  Calls = 1
INVARIANTS DeviceOutlivesAction ListedAsDescribed
PROPERTIES UninitReturns StackUsedLive
CHECK_DEADLOCK FALSE
