SPECIFICATION FairSpec
CONSTANTS
  Devices <- MCDevices
  Maskable <- MCMaskable
  Faults <- MCFaults
  Found <- MCFound
  MaxRequests = 1
  MaxSpurious = 1
INVARIANTS
  IrqTypeOK
  InterruptLeavesNoTrace
  CalledOnlyOnRequest
  MasksAsAsked
PROPERTIES
  ReturnsWhereInterrupted
  EveryRequestServed
\* After isr_handler the processor may stand still.
CHECK_DEADLOCK FALSE
