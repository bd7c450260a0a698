\* The margin of the code: as long as the timeout of the HTTP client, not two of them and a window (MarginSuffices).
CONSTANTS
  Calls = {c1, c2}
  Tokens = {t1, t2, t3}
  NoToken = NoToken
  NoCall = NoCall
  NoMsg = NoMsg
  Original = Original
  Delays = {1}
  Lifetime = 5
  HttpTimeout = 2
  Minute = 2
  DefaultDelay = 1
  BackoffUnit = 1
  MaxFloodRetries = 1
  Env = {}
  Offer <- ExecOnly
SYMMETRY Symmetry
SPECIFICATION Spec
INVARIANTS
  TokenAlive
