\* Two calls change the password at the same time.
CONSTANTS
  Calls = {c1, c2}
  Tokens = {t1, t2, t3}
  NoToken = NoToken
  NoCall = NoCall
  NoMsg = NoMsg
  Original = Original
  Delays = {1}
  Lifetime = 2
  HttpTimeout = 1
  Minute = 1
  DefaultDelay = 1
  BackoffUnit = 1
  MaxFloodRetries = 1
  Env = {}
  Offer <- AnyCall
SYMMETRY Symmetry
SPECIFICATION Spec
INVARIANTS
  PasswordSettled
