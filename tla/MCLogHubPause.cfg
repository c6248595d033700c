\* Pausing and resuming against a running publisher.
SPECIFICATION Spec
CONSTANTS
  error = error
  info = info
  Gone = Gone
  NoSub = NoSub
  Subs = {s1}
  Kinds = {info}
  Filters <- MCPlain
  FromSeqs = {0, 1}
  Cap = 2
  ChanCap = 1
  BatchSize = 1
  HistoryN = 0
  Ops = {"pause", "resume"}
  MaxLines = 3
INVARIANTS OnlyExposedRowsVanish OnlyExposedRowsJump
\* The ingester may have read its last line.
CHECK_DEADLOCK FALSE
