CONSTANTS
  w1 = w1
  LastCommit = 1
  Revision <- OneEach
  Scripted = {1}
  Service = "service"
  Operators = {}
  Databases = {"source", "target"}
  Source = "source"
  Target = "target"
  MaxFaults = 1
  Writes = {w1}
  Sessions = {"s1"}
SPECIFICATION Spec
INVARIANT OriginalKept
