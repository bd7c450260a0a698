\* Three runs of kascli beside each other, any of them killed or failing.
CONSTANTS
  Procs = {p1, p2, p3}
  Names = {n1, n2}
  NoName = NoName
  Fields = {"login"}
  Values = {v1}
  Unset = Unset
  NoContext = NoContext
  Required = "login"
  NoFile = NoFile
  Torn = Torn
  Alone = FALSE
  Env = {"kill", "io", "input"}
  Offered <- OnOneName
SYMMETRY Symmetry
\* A run of kascli ends.
CHECK_DEADLOCK FALSE
SPECIFICATION ConfigSpec
INVARIANTS
  ConfigTypeOK
  FileIsSound
  NoLitter
  LookSucceeds
