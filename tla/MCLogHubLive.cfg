\* The live tail without pausing: filter updates, backlog frames, cancellation.
SPECIFICATION Spec
CONSTANTS
  error = error
  info = info
  Gone = Gone
  NoSub = NoSub
  Subs = {s1}
  Kinds = {error, info}
  Filters <- MCFilters
  FromSeqs = {0}
  Cap = 2
  ChanCap = 2
  BatchSize = 1
  HistoryN = 2
  Ops = {"filter", "unsubscribe"}
  MaxLines = 4
INVARIANTS TypeOK LiveOrder NoSilentDrop BacklogSeam
PROPERTIES TailSpec
\* The ingester may have read its last line.
CHECK_DEADLOCK FALSE
