SPECIFICATION CacheFairSpec
CONSTANTS
  dev = dev
  dirA = dirA
  dirB = dirB
  fileA = fileA
  fileB = fileB
  item = item
  dirTitle = dirTitle
  fileTitle = fileTitle
  itemTitle = itemTitle
  hiddenName = hiddenName
  Devices <- OneDevice
  Objects <- TheObjects
  Parent <- TheParents
  Title <- TheTitles
  PathOf <- ThePathOf
  Containers <- TheContainers
  Playable <- TheFiles
  Hidden <- TheHidden
  Asked <- ThePaths
  CacheSize = 1
INVARIANTS CacheSound
PROPERTIES ExactIfUnchanged OperationsReturn
CHECK_DEADLOCK FALSE
