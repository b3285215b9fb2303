SPECIFICATION Spec
CONSTANTS
  Size = 4
  Most = 2
  Reads = 3
  Window = 2
  Header = 3
INVARIANTS DataRight ShortOnlyAtEnd
