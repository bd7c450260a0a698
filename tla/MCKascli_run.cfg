\* Every command, with every way to supply the credentials, and every input.
CONSTANTS
  Offered <- AllCommands
  Pins = 3
  MaxFloodRetries = 2
  Env = {"config", "fault", "flood", "expiry", "loss"}
SPECIFICATION RunSpec
INVARIANTS
  KascliTypeOK
  PinOnce
  InputsInPlace
  ReadsBeforeSends
  PinNotWasted
PROPERTIES
  RunWearsOut
  RunEnds
CHECK_DEADLOCK FALSE
