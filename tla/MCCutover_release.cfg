CONSTANTS
  w1 = w1
  LastCommit = 2
  Revision <- OneEach
  Scripted = {1, 2}
  Service = "service"
  Operators = {"operator"}
  Databases = {"source", "target"}
  Source = "source"
  Target = "target"
  MaxFaults = 1
  Writes = {w1}
  Sessions = {"s1"}
SPECIFICATION LiveSpec
INVARIANTS
  TypeOK
  SchemaReady
PROPERTIES
  TagOfRunning
  StoreSpec
  ReleaseArrives
