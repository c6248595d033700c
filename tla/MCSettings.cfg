\* Two requests at a time, three in all, beside the ingester and the ticker.
SPECIFICATION Spec
CONSTANTS
  h1 = h1
  h2 = h2
  none = none
  zero = zero
  shipped = shipped
  found = found
  v1 = v1
  v2 = v2
  v3 = v3
  Name <- MCName
  ByteOrder <- MCByteOrder
  Resolve <- MCResolve
  Priorities <- MCPriorities
  DistinctCap = 3
  MinDistinct = 2
  MaxLength = 120
  MaxDepth = 2
  TopK = 4
  Handlers = {h1, h2}
  Sids <- MCSids
  Key <- MCKey
  Keys = {"app"}
  Names = {"default", "errors"}
  Fields = {"theme", "default_profile"}
  DefaultProfile = "default_profile"
  Builtin = "default"
  Absent = none
  Zero = zero
  Shipped = shipped
  Written <- MCWritten
  Kinds <- MCKinds
  Scenarios <- MCScenarios
SYMMETRY MCSymmetry
INVARIANTS EditsKept PinsStand RestartShowsTheSame ColumnsSteady
\* Requests run out.
CHECK_DEADLOCK FALSE
