SPECIFICATION Spec
CONSTANTS
  VGA_WIDTH = 4
  VGA_HEIGHT = 2
  MAX_TERMINALS = 2
  Letters <- MCLetters
  small <- MCSmall
  big <- MCBig
  CMD_MAX = 4
  MAX_HISTORY = 2
  ClearWord <- MCClear
  MaxKeys = 5
PROPERTY
  RecallWorks
CHECK_DEADLOCK FALSE
