SPECIFICATION CatalogSpec
CONSTANTS
  root = root
  a = a
  b = b
  x = x
  m = m
  q = q
  Root = root
  Entries <- FiveEntries
  Parent <- TheirParents
  Kind <- TheirKinds
  Rank <- TheRank
  Unstorable = {q}
  Mirrors = TRUE
  Base = 2
  Pages <- ThePages
  Changes = 1
INVARIANTS CatalogSound BrowseExact SearchRight
CHECK_DEADLOCK FALSE
