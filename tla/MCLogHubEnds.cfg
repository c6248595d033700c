\* Progress of publisher and pump, cancellation and shutdown.
SPECIFICATION FairSpec
CONSTANTS
  error = error
  info = info
  Gone = Gone
  NoSub = NoSub
  Subs = {s1}
  Kinds = {info}
  Filters <- MCPlain
  FromSeqs = {0}
  Cap = 2
  ChanCap = 1
  BatchSize = 2
  HistoryN = 0
  Ops = {"unsubscribe", "shutdown"}
  MaxLines = 3
PROPERTIES PublishReturns QueuedIsSent PumpsEnd
\* The ingester may have read its last line.
CHECK_DEADLOCK FALSE
