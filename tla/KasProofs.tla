------------------------------ MODULE KasProofs ------------------------------
(***************************************************************************)
(* The turn, the at-most-once promise and the meaning of results, for every *)
(* number of calls, every delay, lifetime and timeout, and all trouble.     *)
(***************************************************************************)
EXTENDS KasSystem, TLAPS

(* sessionTTL never exceeds the lifetime, and is positive. *)
LEMMA TTLRange == SessionTTL \in 1 .. Lifetime
  <1>1. Lifetime \in Nat \ {0} /\ Minute \in Nat \ {0}
    BY ProtocolAssumption, ClientAssumption
  <1>2. CASE Lifetime <= 2 * Minute
    BY <1>1, <1>2 DEF SessionTTL, Margin
  <1>3. CASE ~(Lifetime <= 2 * Minute)
    BY <1>1, <1>3 DEF SessionTTL, Margin
  <1>4. QED
    BY <1>2, <1>3

(* What a call may return when execLocked failed with r. *)
LEMMA LogoutResultType ==
  ASSUME NEW r \in Errors
  PROVE  LogoutResult(r) \in Errors \cup {"ok"}
  BY DEF LogoutResult

LEMMA InitIInv == Init => IInv
  BY ProtocolAssumption, ClientAssumption
  DEF Init, ProtocolInit, ClientInit, ServerInit, IInv, TypeOK, ProtocolTypeOK, ClientTypeOK,
      ServerTypeOK, TurnHolder, HasToken, CallInv, Passwords, Places, Locked, Windows, Awaits, CleanErrors, Faults, SessionCodes

(* A step leaves the calls it does not touch as they are. *)
LEMMA Frame ==
  ASSUME NEW d \in Calls, CallInv(d),
         pc'[d] = pc[d], result'[d] = result[d], op'[d] = op[d],
         request'[d] = request[d], answer'[d] = answer[d], performed'[d] = performed[d]
  PROVE  CallInv(d)'
  BY DEF CallInv

(* The outcomes of Settle: the call goes round once more, which it does     *)
(* only after a fault, or it returns.                                       *)
Round(c) == pc' = [pc EXCEPT ![c] = "session"] /\ UNCHANGED <<sem, result>>

LEMMA SettleOutcome ==
  ASSUME TypeOK, NEW c \in Calls, NEW code \in Errors, NEW handshake \in BOOLEAN,
         Settle(c, code, handshake)
  PROVE  /\ token' \in {token, NoToken}
         /\ backoff' \in Nat
         /\ reauthed' \in [Calls -> BOOLEAN]
         /\ flood' \in [Calls -> 0 .. MaxFloodRetries]
         /\ \/ Round(c) /\ code \in Faults
            \/ Return(c, "cancelled") /\ code \in Faults
            \/ Return(c, IF op[c] = "logout" THEN LogoutResult(code) ELSE code)
  <1> DEFINE kind == IF op[c] = "logout" THEN "none" ELSE RetryOf(code, handshake)
  <1>1. kind # "none" => code \in Faults
    BY DEF RetryOf, Faults
  <1>2. CASE kind = "session" /\ RetrySession(c)
    <2>1. UNCHANGED <<flood, backoff>> /\ token' = NoToken
      BY <1>2 DEF RetrySession
    <2>2. reauthed' \in [Calls -> BOOLEAN]
      BY <1>2 DEF RetrySession, TypeOK, ClientTypeOK
    <2>3. Round(c) \/ Return(c, "cancelled")
      BY <1>2 DEF RetrySession, TryAgain, Goto, Round
    <2>4. QED
      BY <1>1, <1>2, <2>1, <2>2, <2>3 DEF TypeOK, ClientTypeOK
  <1>3. CASE kind = "flood" /\ RetryFlood(c)
    <2>1. UNCHANGED <<reauthed, token>>
      BY <1>3 DEF RetryFlood
    <2>2. flood' \in [Calls -> 0 .. MaxFloodRetries] /\ backoff' \in Nat
      BY <1>3, ClientAssumption DEF RetryFlood, TypeOK, ClientTypeOK
    <2>3. Round(c) \/ Return(c, "cancelled")
      BY <1>3 DEF RetryFlood, TryAgain, Goto, Round
    <2>4. QED
      BY <1>1, <1>3, <2>1, <2>2, <2>3 DEF TypeOK, ClientTypeOK
  <1>4. CASE Fail(c, code) /\ UNCHANGED <<reauthed, flood, backoff>>
    BY <1>4 DEF Fail, TypeOK, ClientTypeOK
  <1>5. QED
    BY <1>2, <1>3, <1>4 DEF Settle

-----------------------------------------------------------------------------
(* One lemma for each action: it preserves IInv. *)

LEMMA CallStep ==
  ASSUME IInv, NEW c \in Calls, Call(c), UNCHANGED serverVars
  PROVE  IInv'
  <1>a. PICK o \in Offer[c] : op' = [op EXCEPT ![c] = o]
    BY DEF Call
  <1>b. o \in Ops
    BY <1>a, ClientAssumption
  <1>1. TypeOK'
    <2>1. ProtocolTypeOK'
      BY <1>a, <1>b DEF IInv, TypeOK, ProtocolTypeOK, Call, wireVars
    <2>2. ClientTypeOK'
      BY DEF IInv, TypeOK, ClientTypeOK, Call, Goto, Places, Errors
    <2>3. ServerTypeOK'
      BY DEF IInv, TypeOK, ServerTypeOK, serverVars
    <2>4. QED
      BY <2>1, <2>2, <2>3 DEF TypeOK
  <1>2. (TurnHolder /\ HasToken)'
    BY <1>1 DEF IInv, TypeOK, ClientTypeOK, TurnHolder, HasToken, Call, Goto, Locked, Windows, Awaits
  <1>3. CallInv(c)'
    BY <1>a, <1>b DEF IInv, TypeOK, ProtocolTypeOK, ClientTypeOK, ServerTypeOK, CallInv, Call, Goto, wireVars,
       serverVars, Ops, Awaits, CleanErrors, Faults, SessionCodes
  <1>4. ASSUME NEW d \in Calls \ {c} PROVE CallInv(d)'
    BY <1>a, Frame DEF IInv, TypeOK, ProtocolTypeOK, ClientTypeOK, Call, Goto, wireVars, serverVars
  <1>5. QED
    BY <1>1, <1>2, <1>3, <1>4 DEF IInv

LEMMA AcquireStep ==
  ASSUME IInv, NEW c \in Calls, Acquire(c), UNCHANGED serverVars
  PROVE  IInv'
  <1> USE DEF IInv, Acquire, Goto, wireVars, serverVars
  <1>1. TypeOK'
    BY ProtocolAssumption, ClientAssumption DEF TypeOK, ProtocolTypeOK, ClientTypeOK, ServerTypeOK, Places, Locked, Windows, Awaits,
       Errors, Codes, MapCodes, Faults, SessionCodes, Request, Passwords, HasToken
  <1>2. (TurnHolder /\ HasToken)'
    BY ClientAssumption DEF TypeOK, ClientTypeOK, TurnHolder, HasToken, Locked, Windows, Awaits
  <1>3. CallInv(c)'
    BY DEF TypeOK, ProtocolTypeOK, ClientTypeOK, ServerTypeOK, CallInv, Windows, Awaits, CleanErrors, Faults, SessionCodes
  <1>4. ASSUME NEW d \in Calls \ {c} PROVE CallInv(d)'
    BY Frame DEF TypeOK, ProtocolTypeOK, ClientTypeOK, ServerTypeOK
  <1>5. QED
    BY <1>1, <1>2, <1>3, <1>4

LEMMA GiveUpStep ==
  ASSUME IInv, NEW c \in Calls, GiveUp(c), UNCHANGED serverVars
  PROVE  IInv'
  <1> USE DEF IInv, GiveUp, Goto, wireVars, serverVars
  <1>1. TypeOK'
    BY ProtocolAssumption, ClientAssumption DEF TypeOK, ProtocolTypeOK, ClientTypeOK, ServerTypeOK, Places, Locked, Windows, Awaits,
       Errors, Codes, MapCodes, Faults, SessionCodes, Request, Passwords, HasToken
  <1>2. (TurnHolder /\ HasToken)'
    BY ClientAssumption DEF TypeOK, ClientTypeOK, TurnHolder, HasToken, Locked, Windows, Awaits
  <1>3. CallInv(c)'
    BY DEF TypeOK, ProtocolTypeOK, ClientTypeOK, ServerTypeOK, CallInv, Windows, Awaits, CleanErrors, Faults, SessionCodes
  <1>4. ASSUME NEW d \in Calls \ {c} PROVE CallInv(d)'
    BY Frame DEF TypeOK, ProtocolTypeOK, ClientTypeOK, ServerTypeOK
  <1>5. QED
    BY <1>1, <1>2, <1>3, <1>4

LEMMA CheckLogoutStep ==
  ASSUME IInv, NEW c \in Calls, CheckLogout(c), UNCHANGED serverVars
  PROVE  IInv'
  <1> USE DEF IInv, CheckLogout, Goto, Return, SessionUsable, wireVars, serverVars
  <1>1. TypeOK'
    BY ProtocolAssumption, ClientAssumption DEF TypeOK, ProtocolTypeOK, ClientTypeOK, ServerTypeOK, Places, Locked, Windows, Awaits,
       Errors, Codes, MapCodes, Faults, SessionCodes, Request, Passwords, HasToken
  <1>2. (TurnHolder /\ HasToken)'
    BY ClientAssumption DEF TypeOK, ClientTypeOK, TurnHolder, HasToken, Locked, Windows, Awaits
  <1>3. CallInv(c)'
    BY DEF TypeOK, ProtocolTypeOK, ClientTypeOK, ServerTypeOK, CallInv, Windows, Awaits, CleanErrors, Faults, SessionCodes
  <1>4. ASSUME NEW d \in Calls \ {c} PROVE CallInv(d)'
    BY Frame DEF TypeOK, ProtocolTypeOK, ClientTypeOK, ServerTypeOK
  <1>5. QED
    BY <1>1, <1>2, <1>3, <1>4

LEMMA EnsureSessionStep ==
  ASSUME IInv, NEW c \in Calls, EnsureSession(c), UNCHANGED serverVars
  PROVE  IInv'
  <1> USE DEF IInv, EnsureSession, Goto, Return, Fail, LogoutResult, SessionUsable, wireVars, serverVars
  <1>1. TypeOK'
    BY ProtocolAssumption, ClientAssumption DEF TypeOK, ProtocolTypeOK, ClientTypeOK, ServerTypeOK, Places, Locked, Windows, Awaits,
       Errors, Codes, MapCodes, Faults, SessionCodes, Request, Passwords, HasToken
  <1>2. (TurnHolder /\ HasToken)'
    BY ClientAssumption DEF TypeOK, ClientTypeOK, TurnHolder, HasToken, Locked, Windows, Awaits
  <1>3. CallInv(c)'
    BY DEF TypeOK, ProtocolTypeOK, ClientTypeOK, ServerTypeOK, CallInv, Windows, Awaits, CleanErrors, Faults, SessionCodes
  <1>4. ASSUME NEW d \in Calls \ {c} PROVE CallInv(d)'
    BY Frame DEF TypeOK, ProtocolTypeOK, ClientTypeOK, ServerTypeOK
  <1>5. QED
    BY <1>1, <1>2, <1>3, <1>4

LEMMA AbortWindowStep ==
  ASSUME IInv, NEW c \in Calls, AbortWindow(c), UNCHANGED serverVars
  PROVE  IInv'
  <1> USE DEF IInv, AbortWindow, Goto, Return, Fail, LogoutResult, wireVars, serverVars
  <1>1. TypeOK'
    BY ProtocolAssumption, ClientAssumption DEF TypeOK, ProtocolTypeOK, ClientTypeOK, ServerTypeOK, Places, Locked, Windows, Awaits,
       Errors, Codes, MapCodes, Faults, SessionCodes, Request, Passwords, HasToken
  <1>2. (TurnHolder /\ HasToken)'
    BY ClientAssumption DEF TypeOK, ClientTypeOK, TurnHolder, HasToken, Locked, Windows, Awaits
  <1>3. CallInv(c)'
    BY DEF TypeOK, ProtocolTypeOK, ClientTypeOK, ServerTypeOK, CallInv, Windows, Awaits, CleanErrors, Faults, SessionCodes
  <1>4. ASSUME NEW d \in Calls \ {c} PROVE CallInv(d)'
    BY Frame DEF TypeOK, ProtocolTypeOK, ClientTypeOK, ServerTypeOK
  <1>5. QED
    BY <1>1, <1>2, <1>3, <1>4

LEMMA SendLoginStep ==
  ASSUME IInv, NEW c \in Calls, SendLogin(c), UNCHANGED serverVars
  PROVE  IInv'
  <1> USE DEF IInv, SendLogin, Goto, Send, wireVars, serverVars
  <1>1. TypeOK'
    BY ProtocolAssumption, ClientAssumption DEF TypeOK, ProtocolTypeOK, ClientTypeOK, ServerTypeOK, Places, Locked, Windows, Awaits,
       Errors, Codes, MapCodes, Faults, SessionCodes, Request, Passwords, HasToken
  <1>2. (TurnHolder /\ HasToken)'
    BY ClientAssumption DEF TypeOK, ClientTypeOK, TurnHolder, HasToken, Locked, Windows, Awaits
  <1>3. CallInv(c)'
    BY DEF TypeOK, ProtocolTypeOK, ClientTypeOK, ServerTypeOK, CallInv, Windows, Awaits, CleanErrors, Faults, SessionCodes
  <1>4. ASSUME NEW d \in Calls \ {c} PROVE CallInv(d)'
    BY Frame DEF TypeOK, ProtocolTypeOK, ClientTypeOK, ServerTypeOK
  <1>5. QED
    BY <1>1, <1>2, <1>3, <1>4

LEMMA SendActionStep ==
  ASSUME IInv, NEW c \in Calls, SendAction(c), UNCHANGED serverVars
  PROVE  IInv'
  <1> USE DEF IInv, SendAction, Goto, Send, wireVars, serverVars
  <1>1. TypeOK'
    BY ProtocolAssumption, ClientAssumption DEF TypeOK, ProtocolTypeOK, ClientTypeOK, ServerTypeOK, Places, Locked, Windows, Awaits,
       Errors, Codes, MapCodes, Faults, SessionCodes, Request, Passwords, HasToken
  <1>2. (TurnHolder /\ HasToken)'
    BY ClientAssumption DEF TypeOK, ClientTypeOK, TurnHolder, HasToken, Locked, Windows, Awaits
  <1>3. CallInv(c)'
    BY DEF TypeOK, ProtocolTypeOK, ClientTypeOK, ServerTypeOK, CallInv, Windows, Awaits, CleanErrors, Faults, SessionCodes
  <1>4. ASSUME NEW d \in Calls \ {c} PROVE CallInv(d)'
    BY Frame DEF TypeOK, ProtocolTypeOK, ClientTypeOK, ServerTypeOK
  <1>5. QED
    BY <1>1, <1>2, <1>3, <1>4

LEMMA StorePasswordStep ==
  ASSUME IInv, NEW c \in Calls, StorePassword(c), UNCHANGED serverVars
  PROVE  IInv'
  <1> USE DEF IInv, StorePassword, Goto, wireVars, serverVars
  <1>1. TypeOK'
    BY ProtocolAssumption, ClientAssumption DEF TypeOK, ProtocolTypeOK, ClientTypeOK, ServerTypeOK, Places, Locked, Windows, Awaits,
       Errors, Codes, MapCodes, Faults, SessionCodes, Request, Passwords, HasToken
  <1>2. (TurnHolder /\ HasToken)'
    BY ClientAssumption DEF TypeOK, ClientTypeOK, TurnHolder, HasToken, Locked, Windows, Awaits
  <1>3. CallInv(c)'
    BY DEF TypeOK, ProtocolTypeOK, ClientTypeOK, ServerTypeOK, CallInv, Windows, Awaits, CleanErrors, Faults, SessionCodes
  <1>4. ASSUME NEW d \in Calls \ {c} PROVE CallInv(d)'
    BY Frame DEF TypeOK, ProtocolTypeOK, ClientTypeOK, ServerTypeOK
  <1>5. QED
    BY <1>1, <1>2, <1>3, <1>4

LEMMA CtxEndStep ==
  ASSUME IInv, NEW c \in Calls, CtxEnd(c), UNCHANGED serverVars
  PROVE  IInv'
  <1> USE DEF IInv, CtxEnd, wireVars, serverVars
  <1>1. TypeOK'
    BY ProtocolAssumption, ClientAssumption DEF TypeOK, ProtocolTypeOK, ClientTypeOK, ServerTypeOK, Places, Locked, Windows, Awaits,
       Errors, Codes, MapCodes, Faults, SessionCodes, Request, Passwords, HasToken
  <1>2. (TurnHolder /\ HasToken)'
    BY ClientAssumption DEF TypeOK, ClientTypeOK, TurnHolder, HasToken, Locked, Windows, Awaits
  <1>3. CallInv(c)'
    BY DEF TypeOK, ProtocolTypeOK, ClientTypeOK, ServerTypeOK, CallInv, Windows, Awaits, CleanErrors, Faults, SessionCodes
  <1>4. ASSUME NEW d \in Calls \ {c} PROVE CallInv(d)'
    BY Frame DEF TypeOK, ProtocolTypeOK, ClientTypeOK, ServerTypeOK
  <1>5. QED
    BY <1>1, <1>2, <1>3, <1>4

(* The answers. *)
LEMMA RecvLoginStep ==
  ASSUME IInv, NEW c \in Calls, RecvLogin(c), UNCHANGED serverVars
  PROVE  IInv'
  <1> USE DEF IInv, RecvLogin, Receive, Goto, Return, Fail, LogoutResult, serverVars
  <1>1. answer[c] \in Answer /\ pc[c] = "login"
    BY DEF TypeOK, ProtocolTypeOK
  <1>2. TypeOK'
    <2>1. ProtocolTypeOK'
      BY <1>1, ProtocolAssumption DEF TypeOK, ProtocolTypeOK
    <2>2. ClientTypeOK'
      BY <1>1, TTLRange, ProtocolAssumption, ClientAssumption DEF TypeOK, ClientTypeOK, Answer, Places, Locked, Windows,
         Errors, Codes, MapCodes, Faults, SessionCodes
    <2>3. ServerTypeOK'
      BY DEF TypeOK, ServerTypeOK
    <2>4. QED
      BY <2>1, <2>2, <2>3 DEF TypeOK
  <1>3. (TurnHolder /\ HasToken)'
    BY <1>1, ClientAssumption DEF TypeOK, ClientTypeOK, TurnHolder, HasToken, Locked, Windows, Awaits
  <1>4. CallInv(c)'
    BY <1>1 DEF TypeOK, ProtocolTypeOK, ClientTypeOK, ServerTypeOK, CallInv, Awaits, CleanErrors, Faults, SessionCodes
  <1>5. ASSUME NEW d \in Calls \ {c} PROVE CallInv(d)'
    BY Frame DEF TypeOK, ProtocolTypeOK, ClientTypeOK, ServerTypeOK
  <1>6. QED
    BY <1>2, <1>3, <1>4, <1>5

LEMMA RecvOkStep ==
  ASSUME IInv, NEW c \in Calls, RecvOk(c), UNCHANGED serverVars
  PROVE  IInv'
  <1> USE DEF IInv, RecvOk, Receive, Goto, Return, FloodDelay, serverVars
  <1>1. answer[c] \in Answer /\ pc[c] = "api"
    BY DEF TypeOK, ProtocolTypeOK
  <1>2. TypeOK'
    <2>1. ProtocolTypeOK'
      BY <1>1, ProtocolAssumption DEF TypeOK, ProtocolTypeOK
    <2>2. ClientTypeOK'
      BY <1>1, TTLRange, ProtocolAssumption, ClientAssumption DEF TypeOK, ClientTypeOK, Answer, Places, Locked, Windows,
         Errors, Codes, MapCodes, Faults, SessionCodes
    <2>3. ServerTypeOK'
      BY DEF TypeOK, ServerTypeOK
    <2>4. QED
      BY <2>1, <2>2, <2>3 DEF TypeOK
  <1>3. (TurnHolder /\ HasToken)'
    BY <1>1, ClientAssumption DEF TypeOK, ClientTypeOK, TurnHolder, HasToken, Locked, Windows, Awaits
  <1>4. CallInv(c)'
    BY <1>1 DEF TypeOK, ProtocolTypeOK, ClientTypeOK, ServerTypeOK, CallInv, Awaits, CleanErrors, Faults, SessionCodes
  <1>5. ASSUME NEW d \in Calls \ {c} PROVE CallInv(d)'
    BY Frame DEF TypeOK, ProtocolTypeOK, ClientTypeOK, ServerTypeOK
  <1>6. QED
    BY <1>2, <1>3, <1>4, <1>5

LEMMA RecvOddStep ==
  ASSUME IInv, NEW c \in Calls, RecvOdd(c), UNCHANGED serverVars
  PROVE  IInv'
  <1> USE DEF IInv, RecvOdd, Receive, Goto, Return, Fail, LogoutResult, FloodDelay, serverVars
  <1>1. answer[c] \in Answer /\ pc[c] = "api"
    BY DEF TypeOK, ProtocolTypeOK
  <1>2. TypeOK'
    <2>1. ProtocolTypeOK'
      BY <1>1, ProtocolAssumption DEF TypeOK, ProtocolTypeOK
    <2>2. ClientTypeOK'
      BY <1>1, TTLRange, ProtocolAssumption, ClientAssumption DEF TypeOK, ClientTypeOK, Answer, Places, Locked, Windows,
         Errors, Codes, MapCodes, Faults, SessionCodes
    <2>3. ServerTypeOK'
      BY DEF TypeOK, ServerTypeOK
    <2>4. QED
      BY <2>1, <2>2, <2>3 DEF TypeOK
  <1>3. (TurnHolder /\ HasToken)'
    BY <1>1, ClientAssumption DEF TypeOK, ClientTypeOK, TurnHolder, HasToken, Locked, Windows, Awaits
  <1>4. CallInv(c)'
    BY <1>1 DEF TypeOK, ProtocolTypeOK, ClientTypeOK, ServerTypeOK, CallInv, Awaits, CleanErrors, Faults, SessionCodes
  <1>5. ASSUME NEW d \in Calls \ {c} PROVE CallInv(d)'
    BY Frame DEF TypeOK, ProtocolTypeOK, ClientTypeOK, ServerTypeOK
  <1>6. QED
    BY <1>2, <1>3, <1>4, <1>5

LEMMA RecvLoginFaultStep ==
  ASSUME IInv, NEW c \in Calls, RecvLoginFault(c), UNCHANGED serverVars
  PROVE  IInv'
  <1> USE DEF IInv, RecvLoginFault, Receive, serverVars
  <1> DEFINE code == answer[c].code
             Said == IF op[c] = "logout" THEN LogoutResult(code) ELSE code
  <1>1. pc[c] = "login" /\ sem = c /\ code \in Errors
    BY DEF TypeOK, ProtocolTypeOK, ClientTypeOK, ServerTypeOK, Errors, Codes, Faults, SessionCodes, MapCodes, TurnHolder, Locked, Awaits
  <1>2. /\ token' \in {token, NoToken}
        /\ backoff' \in Nat
        /\ reauthed' \in [Calls -> BOOLEAN]
        /\ flood' \in [Calls -> 0 .. MaxFloodRetries]
        /\ \/ Round(c) /\ code \in Faults
           \/ Return(c, "cancelled") /\ code \in Faults
           \/ Return(c, Said)
    BY <1>1, SettleOutcome
  <1>3. Said \in Errors \cup {"ok"} /\ (Said = "ok" => op[c] = "logout")
    BY <1>1, LogoutResultType DEF LogoutResult, Errors, Codes, Faults, SessionCodes, MapCodes
  <1>4. TypeOK'
    <2>1. ProtocolTypeOK'
      BY ProtocolAssumption DEF TypeOK, ProtocolTypeOK, Request
    <2>2. ClientTypeOK'
      BY <1>2, <1>3 DEF TypeOK, ClientTypeOK, Round, Return, Goto, Places, Locked, Errors
    <2>3. ServerTypeOK'
      BY DEF TypeOK, ServerTypeOK
    <2>4. QED
      BY <2>1, <2>2, <2>3 DEF TypeOK
  <1>5. (TurnHolder /\ HasToken)'
    BY <1>1, <1>2, ClientAssumption DEF TypeOK, ClientTypeOK, TurnHolder, HasToken, Round, Return, Goto, Locked, Windows, Awaits
  <1>6. CallInv(c)'
    BY <1>1, <1>2, <1>3 DEF TypeOK, ProtocolTypeOK, ClientTypeOK, ServerTypeOK, CallInv, Round, Return, Goto, LogoutResult, Awaits, CleanErrors, Faults, SessionCodes, Errors
  <1>7. ASSUME NEW d \in Calls \ {c} PROVE CallInv(d)'
    BY <1>2, Frame DEF TypeOK, ProtocolTypeOK, ClientTypeOK, ServerTypeOK, Round, Return, Goto
  <1>8. QED
    BY <1>4, <1>5, <1>6, <1>7

LEMMA RecvFaultStep ==
  ASSUME IInv, NEW c \in Calls, RecvFault(c), UNCHANGED serverVars
  PROVE  IInv'
  <1> USE DEF IInv, RecvFault, Receive, serverVars
  <1> DEFINE code == answer[c].code
             Said == IF op[c] = "logout" THEN LogoutResult(code) ELSE code
  <1>1. pc[c] = "api" /\ sem = c /\ code \in Errors
    BY DEF TypeOK, ProtocolTypeOK, ClientTypeOK, ServerTypeOK, Errors, Codes, Faults, SessionCodes, MapCodes, TurnHolder, Locked, Awaits
  <1>2. /\ token' \in {token, NoToken}
        /\ backoff' \in Nat
        /\ reauthed' \in [Calls -> BOOLEAN]
        /\ flood' \in [Calls -> 0 .. MaxFloodRetries]
        /\ \/ Round(c) /\ code \in Faults
           \/ Return(c, "cancelled") /\ code \in Faults
           \/ Return(c, Said)
    BY <1>1, SettleOutcome
  <1>3. Said \in Errors \cup {"ok"} /\ (Said = "ok" => op[c] = "logout")
    BY <1>1, LogoutResultType DEF LogoutResult, Errors, Codes, Faults, SessionCodes, MapCodes
  <1>4. TypeOK'
    <2>1. ProtocolTypeOK'
      BY ProtocolAssumption DEF TypeOK, ProtocolTypeOK, Request
    <2>2. ClientTypeOK'
      BY <1>2, <1>3 DEF TypeOK, ClientTypeOK, Round, Return, Goto, Places, Locked, Errors
    <2>3. ServerTypeOK'
      BY DEF TypeOK, ServerTypeOK
    <2>4. QED
      BY <2>1, <2>2, <2>3 DEF TypeOK
  <1>5. (TurnHolder /\ HasToken)'
    BY <1>1, <1>2, ClientAssumption DEF TypeOK, ClientTypeOK, TurnHolder, HasToken, Round, Return, Goto, Locked, Windows, Awaits
  <1>6. CallInv(c)'
    BY <1>1, <1>2, <1>3 DEF TypeOK, ProtocolTypeOK, ClientTypeOK, ServerTypeOK, CallInv, Round, Return, Goto, LogoutResult, Awaits, CleanErrors, Faults, SessionCodes, Errors
  <1>7. ASSUME NEW d \in Calls \ {c} PROVE CallInv(d)'
    BY <1>2, Frame DEF TypeOK, ProtocolTypeOK, ClientTypeOK, ServerTypeOK, Round, Return, Goto
  <1>8. QED
    BY <1>4, <1>5, <1>6, <1>7

LEMMA BreakStep ==
  ASSUME IInv, NEW c \in Calls, Break(c), UNCHANGED serverVars
  PROVE  IInv'
  <1> USE DEF IInv, Break, serverVars
  <1> DEFINE code == "transport"
             Said == IF op[c] = "logout" THEN LogoutResult(code) ELSE code
  <1>1. pc[c] \in Awaits /\ sem = c /\ code \in Errors
    BY DEF TypeOK, ProtocolTypeOK, ClientTypeOK, ServerTypeOK, Errors, Codes, Faults, SessionCodes, MapCodes, TurnHolder, Locked, Awaits
  <1>2. /\ token' \in {token, NoToken}
        /\ backoff' \in Nat
        /\ reauthed' \in [Calls -> BOOLEAN]
        /\ flood' \in [Calls -> 0 .. MaxFloodRetries]
        /\ \/ Round(c) /\ code \in Faults
           \/ Return(c, "cancelled") /\ code \in Faults
           \/ Return(c, Said)
    BY <1>1, SettleOutcome
  <1>3. Said \in Errors \cup {"ok"} /\ (Said = "ok" => op[c] = "logout")
    BY <1>1, LogoutResultType DEF LogoutResult, Errors, Codes, Faults, SessionCodes, MapCodes
  <1>4. TypeOK'
    <2>0. request[c] # NoMsg => [request[c] EXCEPT !.open = FALSE] \in Request
      <3>1. CASE request[c] \in [method: {"KasAuth"}, kas_auth_data: Passwords, open: BOOLEAN]
        BY <3>1 DEF Request
      <3>2. CASE request[c] \in [method: {"KasApi"}, kas_auth_data: Tokens, open: BOOLEAN]
        BY <3>2 DEF Request
      <3>3. QED
        BY <3>1, <3>2 DEF TypeOK, ProtocolTypeOK, Request
    <2>1. ProtocolTypeOK'
      BY <2>0, ProtocolAssumption DEF TypeOK, ProtocolTypeOK
    <2>2. ClientTypeOK'
      BY <1>2, <1>3 DEF TypeOK, ClientTypeOK, Round, Return, Goto, Places, Locked, Errors
    <2>3. ServerTypeOK'
      BY DEF TypeOK, ServerTypeOK
    <2>4. QED
      BY <2>1, <2>2, <2>3 DEF TypeOK
  <1>5. (TurnHolder /\ HasToken)'
    BY <1>1, <1>2, ClientAssumption DEF TypeOK, ClientTypeOK, TurnHolder, HasToken, Round, Return, Goto, Locked, Windows, Awaits
  <1>6. CallInv(c)'
    BY <1>1, <1>2, <1>3 DEF TypeOK, ProtocolTypeOK, ClientTypeOK, ServerTypeOK, CallInv, Round, Return, Goto, LogoutResult, Awaits, CleanErrors, Faults, SessionCodes, Errors
  <1>7. ASSUME NEW d \in Calls \ {c} PROVE CallInv(d)'
    BY <1>2, Frame DEF TypeOK, ProtocolTypeOK, ClientTypeOK, ServerTypeOK, Round, Return, Goto
  <1>8. QED
    BY <1>4, <1>5, <1>6, <1>7

(* KAS, other people and time. *)
LEMMA ServeFloodStep ==
  ASSUME IInv, NEW c \in Calls, ServeFlood(c), UNCHANGED <<op, clientVars>>
  PROVE  IInv'
  <1> USE DEF IInv, ServeFlood, Reply, Fault, clientVars, serverVars
  <1>1. request[c] \in Request /\ request[c] # NoMsg
    BY DEF TypeOK, ProtocolTypeOK
  <1>2. TypeOK'
    <2>1. ProtocolTypeOK'
      BY <1>1, ProtocolAssumption DEF TypeOK, ProtocolTypeOK, Answer, Codes, MapCodes, Faults, SessionCodes
    <2>2. ClientTypeOK'
      BY DEF TypeOK, ClientTypeOK
    <2>3. ServerTypeOK'
      BY <1>1, ProtocolAssumption DEF TypeOK, ServerTypeOK, Passwords
    <2>4. QED
      BY <2>1, <2>2, <2>3 DEF TypeOK
  <1>3. (TurnHolder /\ HasToken)'
    BY DEF TurnHolder, HasToken
  <1>4. CallInv(c)'
    BY <1>1 DEF TypeOK, ProtocolTypeOK, ClientTypeOK, ServerTypeOK, CallInv, Awaits, CleanErrors, Codes, MapCodes, Faults, SessionCodes
  <1>5. ASSUME NEW d \in Calls \ {c} PROVE CallInv(d)'
    BY Frame DEF TypeOK, ProtocolTypeOK, ClientTypeOK, ServerTypeOK
  <1>6. QED
    BY <1>2, <1>3, <1>4, <1>5

LEMMA ServeLoginStep ==
  ASSUME IInv, NEW c \in Calls, NEW t \in Tokens, ServeLogin(c, t), UNCHANGED <<op, clientVars>>
  PROVE  IInv'
  <1> USE DEF IInv, ServeLogin, Asks, Reply, clientVars, serverVars
  <1>1. request[c] \in Request /\ request[c] # NoMsg
    BY DEF TypeOK, ProtocolTypeOK
  <1>2. TypeOK'
    <2>1. ProtocolTypeOK'
      BY <1>1, ProtocolAssumption DEF TypeOK, ProtocolTypeOK, Answer, Codes, MapCodes, Faults, SessionCodes
    <2>2. ClientTypeOK'
      BY DEF TypeOK, ClientTypeOK
    <2>3. ServerTypeOK'
      BY <1>1, ProtocolAssumption DEF TypeOK, ServerTypeOK, Passwords
    <2>4. QED
      BY <2>1, <2>2, <2>3 DEF TypeOK
  <1>3. (TurnHolder /\ HasToken)'
    BY DEF TurnHolder, HasToken
  <1>4. CallInv(c)'
    BY <1>1 DEF TypeOK, ProtocolTypeOK, ClientTypeOK, ServerTypeOK, CallInv, Awaits, CleanErrors, Codes, MapCodes, Faults, SessionCodes
  <1>5. ASSUME NEW d \in Calls \ {c} PROVE CallInv(d)'
    BY Frame DEF TypeOK, ProtocolTypeOK, ClientTypeOK, ServerTypeOK
  <1>6. QED
    BY <1>2, <1>3, <1>4, <1>5

LEMMA ServeBadLoginStep ==
  ASSUME IInv, NEW c \in Calls, ServeBadLogin(c), UNCHANGED <<op, clientVars>>
  PROVE  IInv'
  <1> USE DEF IInv, ServeBadLogin, Asks, Reply, Fault, clientVars, serverVars
  <1>1. request[c] \in Request /\ request[c] # NoMsg
    BY DEF TypeOK, ProtocolTypeOK
  <1>2. TypeOK'
    <2>1. ProtocolTypeOK'
      BY <1>1, ProtocolAssumption DEF TypeOK, ProtocolTypeOK, Answer, Codes, MapCodes, Faults, SessionCodes
    <2>2. ClientTypeOK'
      BY DEF TypeOK, ClientTypeOK
    <2>3. ServerTypeOK'
      BY <1>1, ProtocolAssumption DEF TypeOK, ServerTypeOK, Passwords
    <2>4. QED
      BY <2>1, <2>2, <2>3 DEF TypeOK
  <1>3. (TurnHolder /\ HasToken)'
    BY DEF TurnHolder, HasToken
  <1>4. CallInv(c)'
    BY <1>1 DEF TypeOK, ProtocolTypeOK, ClientTypeOK, ServerTypeOK, CallInv, Awaits, CleanErrors, Codes, MapCodes, Faults, SessionCodes
  <1>5. ASSUME NEW d \in Calls \ {c} PROVE CallInv(d)'
    BY Frame DEF TypeOK, ProtocolTypeOK, ClientTypeOK, ServerTypeOK
  <1>6. QED
    BY <1>2, <1>3, <1>4, <1>5

LEMMA ServeActionStep ==
  ASSUME IInv, NEW c \in Calls, ServeAction(c), UNCHANGED <<op, clientVars>>
  PROVE  IInv'
  <1> USE DEF IInv, ServeAction, Asks, Reply, clientVars, serverVars
  <1>1. request[c] \in Request /\ request[c] # NoMsg
    BY DEF TypeOK, ProtocolTypeOK
  <1>2. TypeOK'
    <2>1. ProtocolTypeOK'
      BY <1>1, ProtocolAssumption DEF TypeOK, ProtocolTypeOK, Answer, Codes, MapCodes, Faults, SessionCodes
    <2>2. ClientTypeOK'
      BY DEF TypeOK, ClientTypeOK
    <2>3. ServerTypeOK'
      <3>1. session' \in [Tokens -> 0 .. Lifetime]
        <4> DEFINE left == IF op[c] = "logout" THEN 0 ELSE Lifetime
        <4>1. session' = [session EXCEPT ![request[c].kas_auth_data] = left]
          OBVIOUS
        <4>2. left \in 0 .. Lifetime
          BY ProtocolAssumption
        <4>3. session \in [Tokens -> 0 .. Lifetime]
          BY DEF TypeOK, ServerTypeOK
        <4> HIDE DEF left
        <4>4. QED
          BY <4>1, <4>2, <4>3
      <3>2. srvWindow' \in Nat
        BY ProtocolAssumption
      <3>3. performed' \in [Calls -> Nat] /\ srvPassword' \in Passwords
        BY DEF TypeOK, ServerTypeOK, Passwords
      <3>4. QED
        BY <3>1, <3>2, <3>3 DEF ServerTypeOK
    <2>4. QED
      BY <2>1, <2>2, <2>3 DEF TypeOK
  <1>3. (TurnHolder /\ HasToken)'
    BY DEF TurnHolder, HasToken
  <1>4. CallInv(c)'
    BY <1>1 DEF TypeOK, ProtocolTypeOK, ClientTypeOK, ServerTypeOK, CallInv, Awaits, CleanErrors, Codes, MapCodes, Faults, SessionCodes
  <1>5. ASSUME NEW d \in Calls \ {c} PROVE CallInv(d)'
    BY Frame DEF TypeOK, ProtocolTypeOK, ClientTypeOK, ServerTypeOK
  <1>6. QED
    BY <1>2, <1>3, <1>4, <1>5

LEMMA ServeRefusalStep ==
  ASSUME IInv, NEW c \in Calls, ServeRefusal(c), UNCHANGED <<op, clientVars>>
  PROVE  IInv'
  <1> USE DEF IInv, ServeRefusal, Asks, Reply, Fault, clientVars, serverVars
  <1>1. request[c] \in Request /\ request[c] # NoMsg
    BY DEF TypeOK, ProtocolTypeOK
  <1>2. TypeOK'
    <2>1. ProtocolTypeOK'
      BY <1>1, ProtocolAssumption DEF TypeOK, ProtocolTypeOK, Answer, Codes, MapCodes, Faults, SessionCodes
    <2>2. ClientTypeOK'
      BY DEF TypeOK, ClientTypeOK
    <2>3. ServerTypeOK'
      BY <1>1, ProtocolAssumption DEF TypeOK, ServerTypeOK, Passwords
    <2>4. QED
      BY <2>1, <2>2, <2>3 DEF TypeOK
  <1>3. (TurnHolder /\ HasToken)'
    BY DEF TurnHolder, HasToken
  <1>4. CallInv(c)'
    BY <1>1 DEF TypeOK, ProtocolTypeOK, ClientTypeOK, ServerTypeOK, CallInv, Awaits, CleanErrors, Codes, MapCodes, Faults, SessionCodes
  <1>5. ASSUME NEW d \in Calls \ {c} PROVE CallInv(d)'
    BY Frame DEF TypeOK, ProtocolTypeOK, ClientTypeOK, ServerTypeOK
  <1>6. QED
    BY <1>2, <1>3, <1>4, <1>5

LEMMA ServeDeadTokenStep ==
  ASSUME IInv, NEW c \in Calls, ServeDeadToken(c), UNCHANGED <<op, clientVars>>
  PROVE  IInv'
  <1> USE DEF IInv, ServeDeadToken, Asks, Reply, Fault, clientVars, serverVars
  <1>1. request[c] \in Request /\ request[c] # NoMsg
    BY DEF TypeOK, ProtocolTypeOK
  <1>2. TypeOK'
    <2>1. ProtocolTypeOK'
      BY <1>1, ProtocolAssumption DEF TypeOK, ProtocolTypeOK, Answer, Codes, MapCodes, Faults, SessionCodes
    <2>2. ClientTypeOK'
      BY DEF TypeOK, ClientTypeOK
    <2>3. ServerTypeOK'
      BY <1>1, ProtocolAssumption DEF TypeOK, ServerTypeOK, Passwords
    <2>4. QED
      BY <2>1, <2>2, <2>3 DEF TypeOK
  <1>3. (TurnHolder /\ HasToken)'
    BY DEF TurnHolder, HasToken
  <1>4. CallInv(c)'
    BY <1>1 DEF TypeOK, ProtocolTypeOK, ClientTypeOK, ServerTypeOK, CallInv, Awaits, CleanErrors, Codes, MapCodes, Faults, SessionCodes
  <1>5. ASSUME NEW d \in Calls \ {c} PROVE CallInv(d)'
    BY Frame DEF TypeOK, ProtocolTypeOK, ClientTypeOK, ServerTypeOK
  <1>6. QED
    BY <1>2, <1>3, <1>4, <1>5

LEMMA ElsewhereStep ==
  ASSUME IInv, Elsewhere
  PROVE  IInv'
  <1>1. ProtocolTypeOK' /\ ClientTypeOK'
    BY DEF IInv, TypeOK, ProtocolTypeOK, ClientTypeOK, Elsewhere, wireVars, clientVars
  <1>2. ServerTypeOK' /\ UNCHANGED performed
    <2>1. CASE OtherClient
      BY <2>1, ProtocolAssumption DEF IInv, TypeOK, ServerTypeOK, OtherClient
    <2>2. CASE \E t \in Tokens : Revoke(t)
      BY <2>2, ProtocolAssumption DEF IInv, TypeOK, ServerTypeOK, Revoke
    <2>3. QED
      BY <2>1, <2>2 DEF Elsewhere
  <1>3. (TurnHolder /\ HasToken)'
    BY DEF IInv, TurnHolder, HasToken, Elsewhere, clientVars
  <1>4. ASSUME NEW d \in Calls PROVE CallInv(d)'
    BY <1>2, Frame DEF IInv, Elsewhere, wireVars, clientVars
  <1>5. QED
    BY <1>1, <1>2, <1>3, <1>4 DEF IInv, TypeOK

LEMMA TickStep ==
  ASSUME IInv, Tick
  PROVE  IInv'
  <1>1. TypeOK'
    BY ProtocolAssumption DEF IInv, TypeOK, ProtocolTypeOK, ClientTypeOK, ServerTypeOK, Tick, Down
  <1>2. (TurnHolder /\ HasToken)'
    BY DEF IInv, TurnHolder, HasToken, Tick
  <1>3. ASSUME NEW d \in Calls PROVE CallInv(d)'
    BY Frame DEF IInv, Tick
  <1>4. QED
    BY <1>1, <1>2, <1>3 DEF IInv

LEMMA StutterStep ==
  ASSUME IInv, UNCHANGED vars
  PROVE  IInv'
  <1>1. TypeOK'
    BY DEF IInv, TypeOK, ProtocolTypeOK, ClientTypeOK, ServerTypeOK, vars, wireVars, clientVars, serverVars
  <1>2. (TurnHolder /\ HasToken)'
    BY DEF IInv, TurnHolder, HasToken, vars, clientVars
  <1>3. ASSUME NEW d \in Calls PROVE CallInv(d)'
    BY Frame DEF IInv, vars, wireVars, clientVars, serverVars
  <1>4. QED
    BY <1>1, <1>2, <1>3 DEF IInv

(* IInv holds in every state of every instance. *)
THEOREM Invariance == Spec => []IInv
  <1>1. ASSUME IInv, [Next]_vars PROVE IInv'
    <2>1. ASSUME NEW c \in Calls, ClientStep(c) PROVE IInv'
      BY <1>1, <2>1, CallStep, AcquireStep, GiveUpStep, CheckLogoutStep, EnsureSessionStep, AbortWindowStep,
         SendLoginStep, SendActionStep, StorePasswordStep, CtxEndStep, RecvLoginStep, RecvOkStep,
         RecvOddStep, RecvLoginFaultStep, RecvFaultStep, BreakStep DEF ClientStep, Step
    <2>2. ASSUME NEW c \in Calls, ServerStep(c) PROVE IInv'
      BY <1>1, <2>2, ServeFloodStep, ServeLoginStep, ServeBadLoginStep, ServeActionStep,
         ServeRefusalStep, ServeDeadTokenStep DEF ServerStep, Serve
    <2>3. QED
      BY <1>1, <2>1, <2>2, ElsewhereStep, TickStep, StutterStep DEF Next
  <1>2. QED
    BY InitIInv, <1>1, PTL DEF Spec

(* The variables keep their types: no step of a handler stores a foreign    *)
(* value.                                                                   *)
THEOREM TypeCorrect == Spec => []TypeOK
  <1>1. IInv => TypeOK
    BY DEF IInv
  <1>2. QED
    BY Invariance, <1>1, PTL

(* The turn is exclusive: at most one goroutine is between lock and unlock. *)
THEOREM TurnIsExclusive == Spec => []TurnHolder
  <1>1. IInv => TurnHolder
    BY DEF IInv
  <1>2. QED
    BY Invariance, <1>1, PTL

(* Requests are serialized: no two callers wait for KAS at the same time.   *)
THEOREM Serialized == Spec => []OneOpenRequest
  <1>1. IInv => OneOpenRequest
    BY DEF IInv, TurnHolder, CallInv, OneOpenRequest, Open, Locked
  <1>2. QED
    BY Invariance, <1>1, PTL

(* No retry of Exec repeats an action (client.go:257-278).                  *)
THEOREM NeverTwice == Spec => []AtMostOnce
  <1>1. IInv => AtMostOnce
    BY DEF IInv, CallInv, AtMostOnce
  <1>2. QED
    BY Invariance, <1>1, PTL

(* Success means that the action was carried out.                           *)
THEOREM SuccessIsTrue == Spec => []OkMeansPerformed
  <1>1. IInv => OkMeansPerformed
    BY DEF IInv, CallInv, OkMeansPerformed
  <1>2. QED
    BY Invariance, <1>1, PTL

(* A fault or a wait given up means that the action was not carried out,    *)
(* and never will be.                                                       *)
THEOREM RefusalIsTrue == Spec => []CleanFailure
  <1>1. IInv => CleanFailure
    BY DEF IInv, CallInv, CleanFailure
  <1>2. QED
    BY Invariance, <1>1, PTL

-----------------------------------------------------------------------------
(* Passwords *)

(* The handler of c keeps its hands off the passwords: it goes on, or it    *)
(* returns.                                                                 *)
Handles(c) ==
  /\ UNCHANGED <<op, password>>
  /\ \A d \in Calls \ {c} : pc'[d] = pc[d] /\ result'[d] = result[d]
  /\ pc[c] \notin {"idle", "done"}
  /\ pc'[c] = "store" => op[c] = "newpassword"
  /\ result'[c] = "ok" => result[c] = "ok" \/ op[c] # "newpassword"

LEMMA ReturnHandles ==
  ASSUME TypeOK, NEW c \in Calls, NEW r \in Errors, pc[c] \notin {"idle", "done"},
         Fail(c, r) \/ Return(c, r), UNCHANGED <<op, password>>
  PROVE  Handles(c)
  <1>1. "ok" \notin Errors
    BY DEF Errors, Codes, MapCodes, Faults, SessionCodes
  <1>2. PICK s \in Errors \cup {"ok"} : Return(c, s) /\ (s = "ok" => op[c] # "newpassword")
    BY <1>1, LogoutResultType DEF Fail
  <1>3. pc' = [pc EXCEPT ![c] = "done"] /\ result' = [result EXCEPT ![c] = s]
    BY <1>2 DEF Return, Goto
  <1>4. QED
    BY <1>2, <1>3 DEF Handles, TypeOK, ClientTypeOK

LEMMA SettleHandles ==
  ASSUME TypeOK, NEW c \in Calls, NEW code \in Errors, NEW handshake \in BOOLEAN,
         Settle(c, code, handshake), pc[c] \notin {"idle", "done"}, UNCHANGED <<op, password>>
  PROVE  Handles(c)
  <1>1. CASE Round(c)
    BY <1>1 DEF Round, Handles, TypeOK, ClientTypeOK
  <1>2. CASE ~Round(c)
    <2>1. Return(c, "cancelled") \/ Fail(c, code)
      BY <1>2, SettleOutcome DEF Settle, RetrySession, RetryFlood, TryAgain, Round, Goto
    <2>2. "cancelled" \in Errors
      BY DEF Errors
    <2>3. QED
      BY <2>1, <2>2, ReturnHandles
  <1>3. QED
    BY <1>1, <1>2

LEMMA StepHandles ==
  ASSUME IInv, NEW c \in Calls, Acquire(c) \/ Step(c)
  PROVE  Handles(c)
  <1> USE DEF IInv, TypeOK, ClientTypeOK
  <1>1. CASE Acquire(c) \/ GiveUp(c) \/ SendLogin(c) \/ SendAction(c)
    BY <1>1 DEF Acquire, GiveUp, SendLogin, SendAction, Send, Goto, Handles
  <1>2. CASE CheckLogout(c)
    BY <1>2 DEF CheckLogout, Return, Goto, Handles, CallInv
  <1>3. CASE EnsureSession(c) \/ AbortWindow(c)
    <2>1. "otp" \in Errors /\ "cancelled" \in Errors
      BY DEF Errors
    <2>2. CASE Fail(c, "otp") \/ Fail(c, "cancelled")
      BY <1>3, <2>1, <2>2, ReturnHandles DEF EnsureSession, AbortWindow, Windows
    <2>3. CASE ~Fail(c, "otp") /\ ~Fail(c, "cancelled")
      BY <1>3, <2>3 DEF EnsureSession, AbortWindow, Goto, Handles
    <2>4. QED
      BY <2>2, <2>3
  <1>4. CASE RecvLogin(c)
    <2>1. CASE Fail(c, "no_token")
      BY <1>4, <2>1, ReturnHandles DEF RecvLogin, Receive, Errors
    <2>2. CASE ~Fail(c, "no_token")
      BY <1>4, <2>2 DEF RecvLogin, Receive, Goto, Handles
    <2>3. QED
      BY <2>1, <2>2
  <1>5. CASE RecvOk(c)
    BY <1>5 DEF RecvOk, Receive, Return, Goto, Handles
  <1>6. CASE RecvOdd(c)
    <2>1. answer[c].code \in Errors
      BY <1>6 DEF RecvOdd, Errors, Codes, MapCodes
    <2>2. QED
      BY <1>6, <2>1, ReturnHandles DEF RecvOdd, Receive
  <1>7. CASE RecvLoginFault(c) \/ RecvFault(c)
    <2>1. answer[c].code \in Errors
      BY <1>7 DEF RecvLoginFault, RecvFault, Errors, Codes, Faults, SessionCodes
    <2>2. QED
      BY <1>7, <2>1, SettleHandles DEF RecvLoginFault, RecvFault, Receive
  <1>8. CASE Break(c)
    BY <1>8, SettleHandles DEF Break, Awaits, Errors
  <1>9. QED
    BY <1>1, <1>2, <1>3, <1>4, <1>5, <1>6, <1>7, <1>8 DEF Step

-----------------------------------------------------------------------------
(* The password *)

(* KAS has the password of the one call that changed it, and the client the *)
(* password of the one that reported success.                               *)
PasswordInv ==
  /\ srvPassword # Original => op[srvPassword] = "newpassword" /\ performed[srvPassword] = 1
  /\ password # Original => op[password] = "newpassword" /\ result[password] = "ok"
  /\ \A c \in Calls :
       /\ op[c] # "none" => op[c] \in Offer[c]
       /\ pc[c] = "store" => op[c] = "newpassword"
       /\ op[c] = "newpassword" /\ performed[c] = 1 => srvPassword = c
       /\ op[c] = "newpassword" /\ result[c] = "ok" => password = c

(* At most one call asks for a new password. *)
OneChanges == \A c, d \in Calls : "newpassword" \in Offer[c] \cap Offer[d] => c = d

LEMMA PasswordClient ==
  ASSUME IInv, OneChanges, PasswordInv, NEW c \in Calls, ClientStep(c)
  PROVE  PasswordInv'
  <1> USE DEF IInv, TypeOK, ProtocolTypeOK, ClientTypeOK, PasswordInv
  <1>1. CASE Call(c)
    <2>1. PICK o \in Offer[c] : op' = [op EXCEPT ![c] = o]
      BY <1>1 DEF Call
    <2>2. op[c] = "none" /\ performed[c] = 0
      BY <1>1 DEF Call, CallInv
    <2>3. /\ UNCHANGED <<password, srvPassword, performed>>
          /\ pc' = [pc EXCEPT ![c] = "done"] \/ pc' = [pc EXCEPT ![c] = "queued"]
          /\ result' = result \/ result' = [result EXCEPT ![c] = "cancelled"]
      BY <1>1 DEF Call, Goto, ClientStep, serverVars
    <2>4. result[c] = "none"
      BY <1>1 DEF Call, CallInv
    <2>5. QED
      BY <2>1, <2>2, <2>3, <2>4, ProtocolAssumption DEF ServerTypeOK, Passwords
  <1>2. CASE StorePassword(c)
    <2>1. UNCHANGED <<op, srvPassword, performed>> /\ password' = c
          /\ pc' = [pc EXCEPT ![c] = "done"] /\ result' = [result EXCEPT ![c] = "ok"]
          /\ op[c] = "newpassword"
      BY <1>2 DEF StorePassword, Goto, ClientStep, serverVars
    <2>2. \A d \in Calls : op[d] = "newpassword" => d = c
      BY <2>1, ClientAssumption DEF OneChanges
    <2>3. QED
      BY <2>1, <2>2
  <1>3. CASE CtxEnd(c)
    BY <1>3 DEF CtxEnd, ClientStep, serverVars
  <1>4. CASE Acquire(c) \/ Step(c)
    <2>1. Handles(c) /\ UNCHANGED <<srvPassword, performed>>
      BY <1>4, StepHandles DEF ClientStep, serverVars
    <2>2. result[c] = "none"
      BY <2>1 DEF Handles, CallInv
    <2>3. QED
      BY <2>1, <2>2, ProtocolAssumption DEF Handles, Passwords
  <1>5. QED
    BY <1>1, <1>2, <1>3, <1>4 DEF ClientStep

LEMMA PasswordServer ==
  ASSUME IInv, OneChanges, PasswordInv, NEW c \in Calls, ServerStep(c)
  PROVE  PasswordInv'
  <1> USE DEF IInv, PasswordInv
  <1>1. UNCHANGED <<op, pc, result, password>>
    BY DEF ServerStep, clientVars
  <1>2. CASE ServeAction(c)
    <2>1. performed[c] = 0 /\ performed' = [performed EXCEPT ![c] = @ + 1]
          /\ srvPassword' = IF op[c] = "newpassword" THEN c ELSE srvPassword
      BY <1>2 DEF ServeAction, Asks, CallInv
    <2>2. performed'[c] = 1 /\ \A d \in Calls \ {c} : performed'[d] = performed[d]
      BY <2>1 DEF TypeOK, ServerTypeOK
    <2>3. op[c] = "newpassword" => \A d \in Calls : op[d] = "newpassword" => d = c
      BY ClientAssumption DEF OneChanges
    <2>4. QED
      BY <1>1, <2>1, <2>2, <2>3, ProtocolAssumption DEF TypeOK, ServerTypeOK, Passwords
  <1>3. CASE ~ServeAction(c)
    <2>1. UNCHANGED <<srvPassword, performed>>
      BY <1>3 DEF ServerStep, Serve, ServeFlood, ServeLogin, ServeBadLogin, ServeRefusal,
         ServeDeadToken, serverVars
    <2>2. QED
      BY <1>1, <2>1
  <1>4. QED
    BY <1>2, <1>3

LEMMA PasswordStep ==
  ASSUME IInv, OneChanges, PasswordInv, [Next]_vars
  PROVE  PasswordInv'
  <1>1. CASE Elsewhere \/ Tick \/ UNCHANGED vars
    <2>1. UNCHANGED <<op, pc, result, password, srvPassword, performed>>
      BY <1>1 DEF Elsewhere, OtherClient, Revoke, Tick, vars, wireVars, clientVars, serverVars
    <2>2. QED
      BY <2>1 DEF PasswordInv
  <1>2. QED
    BY <1>1, PasswordClient, PasswordServer DEF Next

LEMMA PasswordInvariance ==
  ASSUME OneChanges
  PROVE  Spec => []PasswordInv
  <1>1. Init => PasswordInv
    BY ProtocolAssumption, ClientAssumption
    DEF Init, ProtocolInit, ClientInit, ServerInit, PasswordInv, Passwords
  <1>2. IInv /\ PasswordInv /\ [Next]_vars => PasswordInv'
    BY PasswordStep
  <1>3. QED
    BY Invariance, <1>1, <1>2, PTL DEF Spec

(* "The client logs in with the new password from then on"                  *)
(* (account.go:514-515), whatever is lost, late or refused, as long as only *)
(* one call changes it.                                                     *)
THEOREM PasswordIsSettled ==
  ASSUME OneChanges
  PROVE  Spec => []PasswordSettled
  <1>1. ASSUME IInv, PasswordInv PROVE PasswordSettled
    <2> SUFFICES ASSUME \A c \in Calls : op[c] = "newpassword" =>
                          pc[c] = "queued" \/ result[c] = "ok" \/ result[c] \in CleanErrors
                 PROVE  password = srvPassword
      BY DEF PasswordSettled
    <2>1. password \in Calls \cup {Original} /\ srvPassword \in Calls \cup {Original}
      BY <1>1 DEF IInv, TypeOK, ClientTypeOK, ServerTypeOK, Passwords
    <2>2. \A c \in Calls : /\ pc[c] = "queued" \/ result[c] \in CleanErrors => performed[c] = 0
                           /\ result[c] = "ok" /\ op[c] = "newpassword" => performed[c] = 1
      BY <1>1 DEF IInv, CallInv, Awaits
    <2>3. CASE srvPassword = Original
      BY <1>1, <2>1, <2>2, <2>3, ProtocolAssumption DEF PasswordInv
    <2>4. CASE srvPassword # Original
      BY <1>1, <2>1, <2>2, <2>4 DEF PasswordInv
    <2>5. QED
      BY <2>3, <2>4
  <1>2. QED
    BY Invariance, PasswordInvariance, <1>1, PTL

-----------------------------------------------------------------------------
(* Retries *)

LEMMA DistanceRange == \A place \in Places : Distance(place) \in 0 .. 9
  BY DEF Distance, Places, Locked, Windows, Awaits

(* A call that has not changed its place has not changed at all, one that   *)
(* has is nearer to its end or has used up a retry.                         *)
Wears(c) ==
  /\ \A d \in Calls \ {c} : pc'[d] = pc[d] /\ flood'[d] = flood[d] /\ reauthed'[d] = reauthed[d]
  /\ \/ UNCHANGED <<flood, reauthed>> /\ (pc'[c] # pc[c] => Distance(pc'[c]) < Distance(pc[c]))
     \/ ~reauthed[c] /\ reauthed'[c] /\ flood'[c] = flood[c] 
     \/ flood'[c] = flood[c] + 1 /\ reauthed'[c] = reauthed[c]

LEMMA WearsOut ==
  ASSUME TypeOK, TypeOK', NEW c \in Calls, Wears(c), NEW d \in Calls
  PROVE  Left(d)' <= Left(d) /\ (pc'[d] # pc[d] => Left(d)' < Left(d))
  <1>1. /\ flood[d] \in 0 .. MaxFloodRetries /\ flood'[d] \in 0 .. MaxFloodRetries
        /\ reauthed[d] \in BOOLEAN /\ reauthed'[d] \in BOOLEAN
        /\ Distance(pc[d]) \in 0 .. 9 /\ Distance(pc'[d]) \in 0 .. 9
    BY DistanceRange DEF TypeOK, ClientTypeOK
  <1>2. MaxFloodRetries \in Nat
    BY ClientAssumption
  <1>3. /\ RetriesLeft(d) = MaxFloodRetries - flood[d] + IF reauthed[d] THEN 0 ELSE 1
        /\ RetriesLeft(d)' = MaxFloodRetries - flood'[d] + IF reauthed'[d] THEN 0 ELSE 1
        /\ Left(d) = 10 * RetriesLeft(d) + Distance(pc[d])
        /\ Left(d)' = 10 * RetriesLeft(d)' + Distance(pc'[d])
    BY DEF RetriesLeft, Left
  <1>4. RetriesLeft(d) \in Nat /\ RetriesLeft(d)' \in Nat
    BY <1>1, <1>2, <1>3
  <1>5. \/ RetriesLeft(d)' = RetriesLeft(d) /\ (pc'[d] # pc[d] => Distance(pc'[d]) < Distance(pc[d]))
        \/ RetriesLeft(d)' < RetriesLeft(d)
    <2>1. CASE d # c
      BY <1>3, <2>1 DEF Wears
    <2>2. CASE /\ d = c /\ UNCHANGED <<flood, reauthed>>
               /\ pc'[c] # pc[c] => Distance(pc'[c]) < Distance(pc[c])
      BY <1>3, <2>2
    <2>3. CASE d = c /\ ~reauthed[c] /\ reauthed'[c] /\ flood'[c] = flood[c]
      <3>1. RetriesLeft(d) = MaxFloodRetries - flood[d] + 1 /\ RetriesLeft(d)' = MaxFloodRetries - flood[d]
        BY <1>1, <1>2, <1>3, <2>3
      <3>2. QED
        BY <1>1, <1>2, <3>1
    <2>4. CASE d = c /\ flood'[c] = flood[c] + 1 /\ reauthed'[c] = reauthed[c]
      <3>1. CASE reauthed[c]
        BY <1>1, <1>2, <1>3, <2>4, <3>1
      <3>2. CASE ~reauthed[c]
        BY <1>1, <1>2, <1>3, <2>4, <3>2
      <3>3. QED
        BY <3>1, <3>2
    <2>5. QED
      BY <2>1, <2>2, <2>3, <2>4 DEF Wears
  <1>6. CASE pc'[d] = pc[d]
    BY <1>1, <1>3, <1>4, <1>5, <1>6
  <1>7. CASE pc'[d] # pc[d]
    BY <1>1, <1>3, <1>4, <1>5, <1>7
  <1>8. QED
    BY <1>6, <1>7

LEMMA SettleWears ==
  ASSUME TypeOK, NEW c \in Calls, NEW code \in Errors, NEW handshake \in BOOLEAN,
         Settle(c, code, handshake), pc[c] \in Awaits
  PROVE  Wears(c)
  <1> USE DEF TypeOK, ClientTypeOK
  <1>1. CASE RetrySession(c)
    BY <1>1 DEF RetrySession, TryAgain, Return, Goto, Wears
  <1>2. CASE RetryFlood(c)
    BY <1>2 DEF RetryFlood, TryAgain, Return, Goto, Wears
  <1>3. CASE Fail(c, code) /\ UNCHANGED <<reauthed, flood>>
    BY <1>3 DEF Fail, Return, Goto, Wears, Distance, Awaits
  <1>4. QED
    BY <1>1, <1>2, <1>3 DEF Settle

LEMMA ClientWears ==
  ASSUME IInv, NEW c \in Calls, ClientStep(c)
  PROVE  Wears(c)
  <1> USE DEF IInv, TypeOK, ClientTypeOK
  <1>1. CASE Call(c) \/ Acquire(c) \/ StorePassword(c) \/ CtxEnd(c) \/ GiveUp(c)
    BY <1>1 DEF Call, Acquire, StorePassword, CtxEnd, GiveUp, Goto, Wears, Distance
  <1>2. CASE CheckLogout(c) \/ EnsureSession(c) \/ AbortWindow(c)
    BY <1>2 DEF CheckLogout, EnsureSession, AbortWindow, Windows, Fail, Return, Goto, Wears, Distance
  <1>3. CASE SendLogin(c) \/ SendAction(c) \/ RecvLogin(c) \/ RecvOk(c) \/ RecvOdd(c)
    BY <1>3 DEF SendLogin, SendAction, Send, RecvLogin, RecvOk, RecvOdd, Receive, Fail, Return, Goto, Wears, Distance
  <1>4. CASE RecvLoginFault(c) \/ RecvFault(c)
    <2>1. answer[c].code \in Errors
      BY <1>4 DEF RecvLoginFault, RecvFault, Errors, Codes, Faults, SessionCodes
    <2>2. QED
      BY <1>4, <2>1, SettleWears DEF RecvLoginFault, RecvFault, Receive, Awaits
  <1>5. CASE Break(c)
    BY <1>5, SettleWears DEF Break, Awaits, Errors
  <1>6. QED
    BY <1>1, <1>2, <1>3, <1>4, <1>5 DEF ClientStep, Step

(* No call goes round for ever, whatever KAS answers and however the        *)
(* network behaves (client.go:246-278): it makes at most                    *)
(* 10 * (MaxFloodRetries + 1) + 9 moves, and nobody else can make it more.  *)
THEOREM CallsAreBounded == Spec => CallsWearOut
  <1> DEFINE Step1 == \A c \in Calls : Left(c)' <= Left(c) /\ (pc'[c] # pc[c] => Left(c)' < Left(c))
  <1>1. ASSUME IInv, IInv', [Next]_vars PROVE Step1 \/ UNCHANGED vars
    <2>1. ASSUME NEW c \in Calls, ClientStep(c) PROVE Step1
      BY <1>1, <2>1, ClientWears, WearsOut DEF IInv
    <2>2. CASE UNCHANGED <<pc, flood, reauthed>>
      <3>1. ASSUME NEW c \in Calls PROVE Left(c)' = Left(c) /\ Left(c) \in Nat
        <4>1. MaxFloodRetries \in Nat /\ flood[c] \in 0 .. MaxFloodRetries /\ Distance(pc[c]) \in Nat
          BY <1>1, DistanceRange, ClientAssumption DEF IInv, TypeOK, ClientTypeOK
        <4>2. RetriesLeft(c) \in Nat
          BY <4>1 DEF RetriesLeft
        <4>3. QED
          BY <2>2, <4>1, <4>2 DEF Left, RetriesLeft
      <3>2. QED
        BY <2>2, <3>1
    <2>3. CASE (\E c \in Calls : ServerStep(c)) \/ Elsewhere \/ Tick
      BY <2>2, <2>3 DEF ServerStep, Elsewhere, Tick, clientVars
    <2>4. QED
      BY <1>1, <2>1, <2>3 DEF Next
  <1>2. QED
    BY <1>1, Invariance, PTL DEF Spec, CallsWearOut
=============================================================================
