\* Two calls of any kind, everything that can go wrong.
CONSTANTS
  Calls = {c1, c2}
  Tokens = {t1, t2, t3}
  NoToken = NoToken
  NoCall = NoCall
  NoMsg = NoMsg
  Original = Original
  Delays = {1}
  Lifetime = 1
  HttpTimeout = 1
  Minute = 1
  DefaultDelay = 1
  BackoffUnit = 1
  MaxFloodRetries = 1
  Env = {"cancel", "loss", "revoke", "others", "fault", "garbage", "otp", "pause"}
  Offer <- AnyCall
SYMMETRY Symmetry
SPECIFICATION Spec
INVARIANTS
  IInv
  OneOpenRequest
  AtMostOnce
  OkMeansPerformed
  CleanFailure
PROPERTIES
  RemoteCallSpec
  BadLoginIsFinal
  LogoutEnds
  CallsWearOut
