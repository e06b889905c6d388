SPECIFICATION VmmSpec
CONSTANTS
  PageCount = 16
  LowPages = 2
  MemPages = 6
  Entries = 4
  VirtPages <- MCVirtPages
  PhysPages <- MCPhysPages
  Flags = {1, 2}
  ClientMax = 4
INVARIANTS
  VmmTypeOK
  TablesOwned
  FaultsOnlyBeyondIdentity
PROPERTY
  ImplementsAddressSpace
\* A page fault halts the kernel in isr_handler.
CHECK_DEADLOCK FALSE
