\* Rows kept, promoted, overwritten and queried, with hash collisions.
SPECIFICATION Spec
CONSTANTS
  warn = warn
  error = error
  odd = odd
  five = five
  obj = obj
  red = red
  none = none
  None = none
  Extra = {"k"}
  Values <- MCValues
  Literals = {obj}
  Bytes <- MCBytes
  Printed <- MCPrinted
  Large = {odd}
  Blobs = {red}
  Hashes = {1, 2, 3, 4}
  Hash <- MCHash
  JsonRows <- MCJsonRows
  TextRows <- MCTextRows
  Asked <- MCAsked
  Classified <- MCClassified
  Cap = 2
  MaxDict = 1
  SeqWidth = 8
  PromoteRows = 2
  PromoteCount = 2
  PromoteMax = 1
  MaxRows = 5
INVARIANTS RefsExact ReadBack QueryExact
\* The bound on rows is reached.
CHECK_DEADLOCK FALSE
