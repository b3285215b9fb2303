SPECIFICATION FairSpec
CONSTANTS
  Count = 2
  Services <- TheServices
  r1 = r1
  r2 = r2
  Requests <- TwoRequests
  Owner = Owner
  Loop = Loop
  None = None
INVARIANTS AnnouncedIsServed SoundOnceRegistered NoUseAfterFree
PROPERTIES UninitReturns
CHECK_DEADLOCK FALSE
