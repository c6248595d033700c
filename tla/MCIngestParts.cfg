\* A writer that flushes in the middle of a line.
SPECIFICATION Spec
CONSTANTS
  Attachments <- MCFileOnly
  File = file
  Stdin = stdin
  Shapes <- MCParts
  Chunks <- MCNoChunks
  ChanCap = 1
  FileOps = {}
  MaxBytes = 2
  MaxSize = 4
  MaxCuts = 1
  MaxRewinds = 1
  MaxPushed = 0
INVARIANT ReadOnce
\* Everything may have been read and everybody may have returned.
CHECK_DEADLOCK FALSE
