SPECIFICATION Spec
CONSTANTS
  MAX_TASKS = 2
  StackWords = 20
PROPERTY
  FirstReturnIsEntry
