\* Two runs, one after the other: the promise of ConfigStore.
CONSTANTS
  Procs = {p1, p2}
  Names = {n1, n2}
  NoName = NoName
  Fields = {"login", "password"}
  Values = {v1}
  Unset = Unset
  NoContext = NoContext
  Required = "login"
  NoFile = NoFile
  Torn = Torn
  Alone = TRUE
  Env = {"kill", "io", "stuck", "unreadable", "input", "chmod"}
  Offered <- AllKinds
SYMMETRY Symmetry
\* A run of kascli ends.
CHECK_DEADLOCK FALSE
SPECIFICATION ConfigSpec
PROPERTIES
  StoreSpec
