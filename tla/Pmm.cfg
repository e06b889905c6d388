CONSTANTS
  PageCount = 9
  LowPages = 2
  MemPages = 8
SPECIFICATION Spec
INVARIANTS TypeOK Accounting OnlyRealMemory
PROPERTY ImplementsContract
