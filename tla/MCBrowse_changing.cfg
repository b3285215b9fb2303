SPECIFICATION BrowseSpec
CONSTANTS
  folder = folder
  t1 = t1
  t2 = t2
  t3 = t3
  movie = movie
  Entries <- FiveEntries
  Type <- TheirTypes
  Title <- TheirTitles
  Unspeakable = {1}
  Requested = 2
  Changes = 2
INVARIANTS ExactIfUnchanged EachOnce
