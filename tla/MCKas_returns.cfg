\* One call changes the password, another one runs beside it.
CONSTANTS
  Calls = {c1, c2}
  Tokens = {t1, t2, t3}
  NoToken = NoToken
  NoCall = NoCall
  NoMsg = NoMsg
  Original = Original
  Delays = {1}
  Lifetime = 1
  HttpTimeout = 1
  Minute = 1
  DefaultDelay = 1
  BackoffUnit = 1
  MaxFloodRetries = 1
  Env = {"cancel", "loss", "revoke", "others", "fault"}
  Offer <- OneChanger
SPECIFICATION FairSpec
INVARIANTS
  PasswordSettled
PROPERTIES
  EveryCallReturns
