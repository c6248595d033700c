\* Resume races a publish.
SPECIFICATION Spec
CONSTANTS
  error = error
  info = info
  Gone = Gone
  NoSub = NoSub
  Subs = {s1, s2}
  Kinds = {info}
  Filters <- MCPlain
  FromSeqs = {0}
  Cap = 4
  ChanCap = 3
  BatchSize = 1
  HistoryN = 0
  Ops = {"pause", "resume"}
  MaxLines = 3
SYMMETRY Symmetry
INVARIANTS NoSilentDrop
CHECK_DEADLOCK FALSE
