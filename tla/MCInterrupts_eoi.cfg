SPECIFICATION Spec
CONSTANTS
  Devices <- MCDevices
  Maskable <- MCMaskable
  Faults <- MCFaults
  Found <- MCFound
  MaxRequests = 1
  MaxSpurious = 0
INVARIANT EveryIrqGetsItsEoi
\* After isr_handler the processor may stand still.
CHECK_DEADLOCK FALSE
