\* Two clients and every resource type, with faults and lost answers.
CONSTANTS
  Procs = {p1, p2}
  Ids = {i1, i2, i3}
  First = i1
  NoId = NoId
  Absent = Absent
  Values = {v1}
  Default = Default
  Empty = Empty
  Bad = Bad
  NoObject = NoObject
  NoRequest = NoRequest
  Env = {"fault", "prerequisite", "loss"}
  Offered <- AllTypes
SYMMETRY Symmetry
\* A command ends.
CHECK_DEADLOCK FALSE
SPECIFICATION ServicesSpec
INVARIANTS
  ServicesTypeOK
  NotFoundIsTrue
  StepsInOrder
  CreateTold
PROPERTIES
  OnlyGivenChange
  CreateFindsOwn
