\* Three calls, the account for themselves, every answer read: windows and latency as long as half a session.
CONSTANTS
  Calls = {c1, c2, c3}
  Tokens = {t1, t2}
  NoToken = NoToken
  NoCall = NoCall
  NoMsg = NoMsg
  Original = Original
  Delays = {0, 1, 3}
  Lifetime = 4
  HttpTimeout = 1
  Minute = 2
  DefaultDelay = 2
  BackoffUnit = 2
  MaxFloodRetries = 1
  Env = {"fault", "otp"}
  Offer <- ExecOrLogout
SYMMETRY Symmetry
SPECIFICATION Spec
INVARIANTS
  NeverFlooded
  ExpiryNeverSurfaces
