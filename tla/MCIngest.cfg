\* A truncated or moved file and a pipe that brings lines in parts.
SPECIFICATION Spec
CONSTANTS
  Attachments <- MCOneEach
  File = file
  Stdin = stdin
  Shapes <- MCWhole
  Chunks <- MCChunks
  ChanCap = 1
  FileOps = {"truncate", "rotate"}
  MaxBytes = 2
  MaxSize = 3
  MaxCuts = 1
  MaxRewinds = 1
  MaxPushed = 3
INVARIANTS ReadOnce FollowsFile JoinsParts EndsDrained
PROPERTIES ArrivesInTheEnd NoticesTruncation SourcesReturn
\* Everything may have been read and everybody may have returned.
CHECK_DEADLOCK FALSE
