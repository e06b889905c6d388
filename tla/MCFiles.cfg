SPECIFICATION Spec
CONSTANTS
  Lbas <- MCLbas
  Garbage <- MCGarbage
  MaxLate = 1
  Disks <- MCDisks
  BYTES = 8
  ENTRIES_PER_SECTOR = 5
  LAST = 8
  Typed <- MCTyped
  Texts = {"t"}
  toupper <- MCToupper
  MaxDepth = 3
INVARIANTS
  FilesTypeOK
  TimelyIsRight
  PathLeadsHere
  FilesKept
  EntriesKept
PROPERTIES
  ListedCanBeOpened
