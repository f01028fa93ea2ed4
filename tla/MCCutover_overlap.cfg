CONSTANTS
  w1 = w1
  LastCommit = 2
  Revision <- OneEach
  Scripted = {1, 2}
  Service = "service"
  Operators = {"operator"}
  Databases = {"source", "target"}
  Source = "source"
  Target = "target"
  MaxFaults = 0
  Writes = {}
  Sessions = {}
SPECIFICATION Spec
PROPERTY MarkedRuns
