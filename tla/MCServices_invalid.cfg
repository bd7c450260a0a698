\* Updates of a mailbox.
CONSTANTS
  Procs = {p1, p2}
  Ids = {i1, i2, i3}
  First = i1
  NoId = NoId
  Absent = Absent
  Values = {v1}
  Default = Default
  Empty = Empty
  Bad = Bad
  NoObject = NoObject
  NoRequest = NoRequest
  Env = {}
  Offered <- MailOnly
SYMMETRY Symmetry
\* A command ends.
CHECK_DEADLOCK FALSE
SPECIFICATION ServicesSpec
INVARIANTS
  InvalidSendsNothing
