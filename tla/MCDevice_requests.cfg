SPECIFICATION FairSpec
CONSTANTS
  s1 = s1
  s2 = s2
  d1 = d1
  d2 = d2
  a1 = a1
  f1 = f1
  Owner = Owner
  None = None
  Subscribers <- TwoSubscribers
  Hasty <- FirstSubscriber
  Unreachable <- Nobody
  Sluggish <- SluggishRequests
  Droppers <- OneDropper
  Actions <- OneAction
  Files <- OneFile
INVARIANTS NoUseAfterFree ServiceOutlivesUse
PROPERTIES Served InitialEvent UninitReturns
CHECK_DEADLOCK FALSE
