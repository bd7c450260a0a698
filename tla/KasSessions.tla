----------------------------- MODULE KasSessions -----------------------------
(***************************************************************************)
(* What the client knows of KAS, for every instance: what Logout reports,   *)
(* when a request falls into a flood window, when the end of a session is   *)
(* seen by a caller, and when a token arrives too late.                     *)
(***************************************************************************)
EXTENDS KasProofs

-----------------------------------------------------------------------------
(* Sessions that are ended: however late other requests are served, a       *)
(* Logout that succeeds has ended its session.                              *)

Ended == {"TRUE", "unknown_session"} \cup SessionCodes

(* The request of the call in flight has the token of the client, and an    *)
(* answer that ends the session of a Logout is true.                        *)
Ending(c) ==
  pc[c] = "api" =>
    /\ token \in Tokens
    /\ request[c] # NoMsg => request[c].kas_auth_data = token
    /\ op[c] = "logout" /\ answer[c] # NoMsg /\ answer[c].code \in Ended => session[token] = 0

LInv == IInv /\ \A c \in Calls : Ending(c)

(* A session that is over stays so, as KAS gives no token twice that the    *)
(* client refers to.                                                        *)
LEMMA OverStaysOver ==
  ASSUME IInv, [Next]_vars, token \in Tokens, session[token] = 0
  PROVE  session'[token] = 0
  <1>1. session \in [Tokens -> Nat]
    BY ProtocolAssumption DEF IInv, TypeOK, ServerTypeOK
  <1>2. ASSUME NEW c \in Calls, ServerStep(c) PROVE session'[token] = 0
    <2>1. ASSUME NEW t \in Tokens \ {token}, ServeLogin(c, t) PROVE session'[token] = 0
      BY <1>1, <2>1 DEF ServeLogin
    <2>2. CASE ServeAction(c)
      BY <1>1, <2>2 DEF ServeAction
    <2>3. QED
      BY <1>2, <2>1, <2>2 DEF ServerStep, Serve, ServeFlood, ServeBadLogin, ServeRefusal,
         ServeDeadToken, serverVars
  <1>3. CASE Elsewhere
    BY <1>1, <1>3 DEF Elsewhere, OtherClient, Revoke
  <1>4. CASE Tick
    BY <1>1, <1>4 DEF Tick, Down
  <1>5. QED
    BY <1>2, <1>3, <1>4 DEF Next, ClientStep, vars, serverVars

(* While a call waits for KAS, nobody else changes the token.               *)
LEMMA OthersLeave ==
  ASSUME IInv, NEW c \in Calls, pc[c] = "api", NEW d \in Calls \ {c}, ClientStep(d)
  PROVE  /\ token' = token /\ pc'[c] = pc[c] /\ op'[c] = op[c]
         /\ request'[c] = request[c] /\ answer'[c] = answer[c] /\ session' = session
  <1>1. pc[d] \notin Locked
    BY DEF IInv, TurnHolder, Locked, Awaits
  <1>2. Call(d) \/ GiveUp(d) \/ StorePassword(d) \/ CtxEnd(d) \/ Acquire(d)
    BY <1>1 DEF ClientStep, Step, CheckLogout, EnsureSession, AbortWindow, SendLogin, SendAction,
       RecvLogin, RecvLoginFault, RecvOk, RecvOdd, RecvFault, Receive, Break, Locked, Windows, Awaits
  <1>3. QED
    BY <1>2 DEF ClientStep, Call, GiveUp, StorePassword, CtxEnd, Acquire, Goto, wireVars, serverVars,
       IInv, TypeOK, ClientTypeOK, ProtocolTypeOK

(* A call begins to wait for KasApi with nothing on the way but its request. *)
LEMMA OwnStepEnding ==
  ASSUME LInv, IInv', NEW c \in Calls, ClientStep(c)
  PROVE  Ending(c)'
  <1> USE DEF LInv, IInv, TypeOK, ProtocolTypeOK, ClientTypeOK
  <1>1. CASE SendAction(c)
    <2>1. answer[c] = NoMsg /\ token \in Tokens
      BY <1>1 DEF SendAction, HasToken, CallInv, Awaits
    <2>2. request'[c] = [method |-> "KasApi", kas_auth_data |-> token, open |-> TRUE]
          /\ UNCHANGED <<token, answer>>
      BY <1>1 DEF SendAction, Send
    <2>3. QED
      BY <2>1, <2>2 DEF Ending
  <1>2. CASE pc'[c] # "api"
    BY <1>2 DEF Ending
  <1>3. CASE pc'[c] = "api" /\ ~SendAction(c)
    <2>1. CASE CtxEnd(c)
      BY <2>1 DEF ClientStep, CtxEnd, Ending, wireVars, serverVars
    <2>2. CASE ~CtxEnd(c)
      <3>1. ~Call(c) /\ ~Acquire(c) /\ ~StorePassword(c) /\ ~GiveUp(c) /\ ~CheckLogout(c)
            /\ ~EnsureSession(c) /\ ~AbortWindow(c) /\ ~SendLogin(c)
        BY <1>3 DEF Call, Acquire, StorePassword, GiveUp, CheckLogout, EnsureSession, AbortWindow,
           SendLogin, Fail, Return, Goto
      <3>2. ~RecvLogin(c) /\ ~RecvOk(c) /\ ~RecvOdd(c)
        BY <1>3 DEF RecvLogin, RecvOk, RecvOdd, Fail, Return, Goto
      <3>3. ~RecvLoginFault(c) /\ ~RecvFault(c) /\ ~Break(c)
        BY <1>3 DEF RecvLoginFault, RecvFault, Break, Settle, RetrySession, RetryFlood, TryAgain,
           Fail, Return, Goto
      <3>4. QED
        BY <1>3, <2>2, <3>1, <3>2, <3>3 DEF ClientStep, Step
    <2>3. QED
      BY <2>1, <2>2
  <1>4. QED
    BY <1>1, <1>2, <1>3

(* What KAS answers a Logout ends the session, or says that it was over.    *)
LEMMA OwnServeEnding ==
  ASSUME LInv, NEW c \in Calls, ServerStep(c), pc[c] = "api"
  PROVE  Ending(c)'
  <1> USE DEF LInv, IInv, TypeOK, ProtocolTypeOK, ClientTypeOK, ServerTypeOK
  <1>1. /\ UNCHANGED <<op, pc, token>> /\ token \in Tokens
        /\ request[c] # NoMsg => request[c].method = "KasApi" /\ request[c].kas_auth_data = token
    BY DEF ServerStep, clientVars, Ending, CallInv
  <1>2. request[c] # NoMsg /\ request'[c] = NoMsg
    BY DEF ServerStep, Serve, ServeFlood, ServeLogin, ServeBadLogin, ServeAction, ServeRefusal,
       ServeDeadToken, Asks, Reply
  <1>3. CASE ServeFlood(c) \/ ServeRefusal(c)
    <2>1. answer'[c] = NoMsg \/ answer'[c].code \in {"flood_protection", "refused"}
      BY <1>3 DEF ServeFlood, ServeRefusal, Reply, Fault
    <2>2. QED
      BY <1>1, <1>2, <2>1 DEF Ending, Ended, SessionCodes
  <1>4. CASE ServeAction(c)
    <2>1. op[c] = "logout" => session'[token] = 0
      BY <1>1, <1>2, <1>4 DEF ServeAction
    <2>2. QED
      BY <1>1, <1>2, <2>1 DEF Ending
  <1>5. CASE ServeDeadToken(c)
    <2>1. session'[token] = 0
      BY <1>1, <1>2, <1>5 DEF ServeDeadToken, serverVars
    <2>2. QED
      BY <1>1, <1>2, <2>1 DEF Ending
  <1>6. CASE ServeBadLogin(c) \/ \E t \in Tokens \ {token} : ServeLogin(c, t)
    BY <1>1, <1>2, <1>6 DEF ServeBadLogin, ServeLogin, Asks
  <1>7. QED
    BY <1>3, <1>4, <1>5, <1>6 DEF ServerStep, Serve

LEMMA EndingStep ==
  ASSUME LInv, IInv', [Next]_vars, NEW c \in Calls
  PROVE  Ending(c)'
  <1>1. CASE ClientStep(c)
    BY <1>1, OwnStepEnding
  <1>2. ASSUME NEW d \in Calls \ {c}, ClientStep(d) PROVE Ending(c)'
    <2>1. pc'[c] = "api" => pc[c] = "api"
      BY <1>2 DEF LInv, IInv, TypeOK, ClientTypeOK, ClientStep, Step, Call, Acquire, StorePassword,
         CtxEnd, GiveUp, CheckLogout, EnsureSession, AbortWindow, SendLogin, SendAction, RecvLogin,
         RecvLoginFault, RecvOk, RecvOdd, RecvFault, Break, Settle, RetrySession, RetryFlood,
         TryAgain, Fail, Return, Goto
    <2>2. QED
      BY <1>2, <2>1, OthersLeave DEF LInv, Ending
  <1>3. CASE ServerStep(c)
    BY <1>3, OwnServeEnding DEF LInv, ServerStep, clientVars, Ending
  <1>4. CASE \/ \E d \in Calls \ {c} : ServerStep(d)
             \/ Elsewhere \/ Tick \/ UNCHANGED vars
    <2>1. UNCHANGED <<op, pc, token>> /\ request'[c] = request[c] /\ answer'[c] = answer[c]
      <3>1. ASSUME NEW d \in Calls \ {c}, ServerStep(d)
            PROVE  request'[c] = request[c] /\ answer'[c] = answer[c]
        BY <3>1 DEF LInv, IInv, TypeOK, ProtocolTypeOK, ServerStep, Serve, ServeFlood, ServeLogin,
           ServeBadLogin, ServeAction, ServeRefusal, ServeDeadToken, Asks, Reply
      <3>2. QED
        BY <1>4, <3>1 DEF ServerStep, Elsewhere, Tick, vars, wireVars, clientVars
    <2>2. token \in Tokens /\ session[token] = 0 => session'[token] = 0
      BY OverStaysOver DEF LInv
    <2>3. QED
      BY <2>1, <2>2 DEF LInv, Ending
  <1>5. QED
    BY <1>1, <1>2, <1>3, <1>4 DEF Next

THEOREM EndingInvariance == Spec => []LInv
  <1>1. Init => LInv
    BY InitIInv DEF LInv, Ending, Init, ClientInit
  <1>2. LInv /\ IInv' /\ [Next]_vars => LInv'
    BY EndingStep DEF LInv
  <1>3. QED
    BY Invariance, <1>1, <1>2, PTL DEF Spec

(* "Logout ends the open KAS session (delete_session)" (auth.go:122): when  *)
(* it reports success for an answer of KAS, the session is over.            *)
THEOREM LogoutIsTrue == Spec => LogoutEnds
  <1>1. ASSUME LInv, [Next]_vars, NEW c \in Calls, op[c] = "logout", pc[c] = "api",
               token \in Tokens, pc'[c] = "done", result'[c] = "ok"
        PROVE  session[token] = 0
    <2> USE <1>1 DEF LInv, IInv, TypeOK, ProtocolTypeOK, ClientTypeOK
    <2>1. ClientStep(c)
      <3>1. ASSUME NEW d \in Calls \ {c}, ClientStep(d) PROVE FALSE
        BY <3>1, OthersLeave
      <3>2. QED
        BY <3>1 DEF Next, ServerStep, Elsewhere, Tick, vars, clientVars
    <2>2. RecvOk(c) \/ RecvOdd(c) \/ RecvFault(c) \/ Break(c)
      BY <2>1 DEF ClientStep, Step, Call, Acquire, StorePassword, CtxEnd, GiveUp, CheckLogout,
         EnsureSession, AbortWindow, SendLogin, SendAction, RecvLogin, RecvLoginFault, Receive,
         Windows
    <2>3. CASE RecvOk(c)
      BY <2>3 DEF RecvOk, Receive, Ending, Ended
    <2>4. CASE RecvOdd(c)
      BY <2>4 DEF RecvOdd, Fail, LogoutResult, Return, SessionCodes
    <2>5. CASE RecvFault(c)
      <3>1. answer[c] # NoMsg /\ Fail(c, answer[c].code)
        BY <2>5 DEF RecvFault, Receive, Settle
      <3>2. answer[c].code \in SessionCodes \cup {"unknown_session"}
        BY <3>1, <2>5 DEF Fail, LogoutResult, Return, RecvFault, Faults
      <3>3. QED
        BY <3>1, <3>2 DEF Ending, Ended
    <2>6. CASE Break(c)
      BY <2>6 DEF Break, Settle, Fail, LogoutResult, Return, SessionCodes
    <2>7. QED
      BY <2>2, <2>3, <2>4, <2>5, <2>6
  <1>2. ASSUME LInv, [Next]_vars
        PROVE  [\A c \in Calls :
                  /\ op[c] = "logout" /\ pc[c] = "api" /\ token \in Tokens
                  /\ pc'[c] = "done" /\ result'[c] = "ok"
                  => session[token] = 0]_vars
    BY <1>1, <1>2
  <1>3. QED
    BY <1>2, EndingInvariance, PTL DEF Spec, LogoutEnds

(* The call for which something is on its way, to KAS or back, has the turn. *)
LEMMA OnItsWay ==
  ASSUME IInv, NEW c \in Calls, answer[c] # NoMsg \/ Open(c) \/ pc[c] \in Locked
  PROVE  sem = c
  BY DEF IInv, TurnHolder, CallInv, Open, Locked

-----------------------------------------------------------------------------
(* Windows *)

(* A client that reads every answer and has the account for itself. *)
Undisturbed == Env \subseteq {"revoke", "fault", "otp", "pause"}

(* KAS' window is open while a request is on its way; the answer that says  *)
(* how long it is closed is on its way, or the client holds back as long.   *)
OnTheWayBack(c) ==
  answer[c] # NoMsg =>
    /\ answer[c].code \in {"TRUE"} \cup (Faults \ {"flood_protection"})
    /\ IF pc[c] = "api" /\ answer[c].code = "TRUE" THEN srvWindow <= answer[c].delay
                                                   ELSE srvWindow = 0

HeldBack ==
  /\ \A c \in Calls : ~ctxDone[c]
  /\ \A c \in Calls : request[c] # NoMsg => request[c].open /\ srvWindow = 0
  /\ \A c \in Calls : OnTheWayBack(c)
  /\ (\A c \in Calls : answer[c] = NoMsg) => srvWindow <= backoff

LEMMA DelaysAreNat == \A a \in Answer : a.delay \in Nat
  <1> SUFFICES ASSUME NEW a \in Answer PROVE a.delay \in Nat
    OBVIOUS
  <1>1. a.delay \in Delays \cup {0}
    BY DEF Answer
  <1>2. CASE a.delay \in Delays
    BY <1>2, ProtocolAssumption
  <1>3. CASE a.delay = 0
    BY <1>3
  <1>4. QED
    BY <1>1, <1>2, <1>3

LEMMA InitHeldBack == Init => HeldBack
  BY DEF Init, ProtocolInit, ClientInit, ServerInit, HeldBack, OnTheWayBack

(* Without trouble nobody gives up waiting. *)
LEMMA NobodyLeaves ==
  ASSUME Undisturbed, HeldBack, NEW c \in Calls
  PROVE  ~CtxEnd(c) /\ ~Break(c) /\ ~AbortWindow(c) /\ ~GiveUp(c)
  BY DEF Undisturbed, HeldBack, CtxEnd, Break, AbortWindow, GiveUp

LEMMA FaultSettles ==
  ASSUME HeldBack, NEW c \in Calls, NEW handshake \in BOOLEAN,
         answer[c] # NoMsg, Settle(c, answer[c].code, handshake)
  PROVE  UNCHANGED backoff
  <1>1. answer[c].code # "flood_protection"
    BY DEF HeldBack, OnTheWayBack
  <1>2. RetryOf(answer[c].code, handshake) # "flood"
    BY <1>1 DEF RetryOf
  <1>3. QED
    BY <1>2 DEF Settle, RetrySession, Fail

LEMMA HeldBackClient ==
  ASSUME IInv, IInv', Undisturbed, HeldBack, NEW c \in Calls, ClientStep(c)
  PROVE  HeldBack'
  <1> USE DEF IInv, TypeOK, ProtocolTypeOK, ClientTypeOK, ServerTypeOK
  <1>1. UNCHANGED srvWindow /\ srvWindow \in Nat /\ backoff \in Nat /\ backoff' \in Nat
    BY DEF ClientStep, serverVars
  <1>2. CASE Call(c) \/ Acquire(c) \/ StorePassword(c) \/ CheckLogout(c) \/ EnsureSession(c)
    <2>1. UNCHANGED <<ctxDone, request, answer, backoff>>
      BY <1>2 DEF Call, Acquire, StorePassword, CheckLogout, EnsureSession, wireVars
    <2>2. \A d \in Calls : answer[d] # NoMsg => pc'[d] = pc[d]
      <3>1. answer[c] = NoMsg
        BY <1>2 DEF Call, Acquire, StorePassword, CheckLogout, EnsureSession, CallInv, Awaits
      <3>2. \A d \in Calls \ {c} : pc'[d] = pc[d]
        BY <1>2 DEF Call, Acquire, StorePassword, CheckLogout, EnsureSession, Fail, Return, Goto
      <3>3. QED
        BY <3>1, <3>2
    <2>3. QED
      BY <1>1, <2>1, <2>2 DEF HeldBack, OnTheWayBack
  <1>3. CASE SendLogin(c) \/ SendAction(c)
    <2>1. UNCHANGED <<ctxDone, answer, backoff>> /\ backoff = 0 /\ pc[c] \in Windows
      BY <1>3 DEF SendLogin, SendAction, Send, Windows
    <2>2. \A d \in Calls : answer[d] = NoMsg
      <3>1. sem = c
        BY <2>1, OnItsWay DEF Locked
      <3>2. \A d \in Calls : answer[d] # NoMsg => d = c
        BY <3>1, OnItsWay
      <3>3. QED
        BY <2>1, <3>2 DEF CallInv, Windows, Awaits
    <2>3. srvWindow = 0
      BY <1>1, <2>1, <2>2 DEF HeldBack
    <2>4. \A d \in Calls : request'[d] = request[d] \/ request'[d].open
      BY <1>3 DEF SendLogin, SendAction, Send
    <2>5. QED
      BY <1>1, <2>1, <2>2, <2>3, <2>4 DEF HeldBack, OnTheWayBack
  <1>4. CASE RecvLogin(c) \/ RecvLoginFault(c) \/ RecvOk(c) \/ RecvOdd(c) \/ RecvFault(c)
    <2>1. /\ answer[c] # NoMsg /\ answer' = [answer EXCEPT ![c] = NoMsg]
          /\ UNCHANGED <<request, ctxDone>>
      BY <1>4 DEF RecvLogin, RecvLoginFault, RecvOk, RecvOdd, RecvFault, Receive
    <2>2. \A d \in Calls : answer'[d] = NoMsg
      BY <2>1, OnItsWay
    <2>3. srvWindow <= backoff'
      <3>1. answer[c] \in Answer /\ OnTheWayBack(c)
        BY <2>1 DEF HeldBack
      <3>2. CASE RecvOk(c)
        BY <1>1, <2>1, <3>1, <3>2, ProtocolAssumption, ClientAssumption
        DEF RecvOk, Receive, OnTheWayBack, FloodDelay, Answer
      <3>3. CASE RecvOdd(c)
        BY <2>1, <3>1, <3>3 DEF RecvOdd, OnTheWayBack, Faults, SessionCodes
      <3>4. CASE RecvLogin(c)
        BY <1>1, <2>1, <3>1, <3>4 DEF RecvLogin, Receive, OnTheWayBack
      <3>5. CASE RecvLoginFault(c) \/ RecvFault(c)
        <4>1. UNCHANGED backoff
          BY <2>1, <3>5, FaultSettles DEF RecvLoginFault, RecvFault
        <4>2. srvWindow = 0
          BY <2>1, <3>1, <3>5 DEF OnTheWayBack, RecvLoginFault, RecvFault, Faults, SessionCodes
        <4>3. QED
          BY <1>1, <4>1, <4>2
      <3>6. QED
        BY <1>4, <3>2, <3>3, <3>4, <3>5
    <2>4. QED
      BY <1>1, <2>1, <2>2, <2>3 DEF HeldBack, OnTheWayBack
  <1>5. QED
    BY <1>2, <1>3, <1>4, NobodyLeaves DEF ClientStep, Step

LEMMA HeldBackServer ==
  ASSUME IInv, IInv', Undisturbed, HeldBack, NEW c \in Calls, ServerStep(c)
  PROVE  HeldBack'
  <1> USE DEF IInv, TypeOK, ProtocolTypeOK, ClientTypeOK, ServerTypeOK
  <1>1. /\ UNCHANGED <<pc, ctxDone, backoff>>
        /\ request[c] # NoMsg /\ Open(c) /\ srvWindow = 0
        /\ pc[c] \in Awaits
    BY DEF ServerStep, clientVars, HeldBack, Open, CallInv, Serve, ServeFlood, ServeLogin, ServeBadLogin,
       ServeAction, ServeRefusal, ServeDeadToken, Asks
  <1>2. \A d \in Calls \ {c} : request[d] = NoMsg /\ answer[d] = NoMsg
    <2>1. sem = c
      BY <1>1, OnItsWay
    <2>2. \A d \in Calls \ {c} : ~Open(d) /\ answer[d] = NoMsg
      BY <2>1, OnItsWay
    <2>3. QED
      BY <2>2 DEF HeldBack, Open
  <1>3. \A a : Reply(c, a) => /\ request' = [request EXCEPT ![c] = NoMsg]
                              /\ answer' = [answer EXCEPT ![c] = a]
    BY <1>1 DEF Reply, Open
  <1>4. ~ServeFlood(c)
    BY <1>1 DEF ServeFlood
  <1>5. ASSUME NEW a \in Answer, Reply(c, a),
               \/ UNCHANGED srvWindow /\ a.code \in {"TRUE"} \cup (Faults \ {"flood_protection"})
               \/ srvWindow' = a.delay /\ a.code = "TRUE" /\ pc[c] = "api" /\ srvWindow' \in Nat
        PROVE  HeldBack'
    <2>1. /\ \A d \in Calls : request'[d] = NoMsg
          /\ \A d \in Calls \ {c} : answer'[d] = NoMsg
          /\ answer'[c] = a /\ a # NoMsg
      BY <1>2, <1>3, <1>5, MessageAssumption
    <2>2. OnTheWayBack(c)'
      BY <1>1, <1>5, <2>1, DelaysAreNat DEF OnTheWayBack
    <2>3. \A d \in Calls : OnTheWayBack(d)'
      BY <2>1, <2>2 DEF OnTheWayBack
    <2>4. QED
      BY <1>1, <2>1, <2>3 DEF HeldBack
  <1>6. CASE ServeAction(c)
    <2>1. "garbage" \notin Env
      BY DEF Undisturbed
    <2>2. PICK d \in Delays : /\ srvWindow' = d
                              /\ Reply(c, [code |-> "TRUE", token |-> NoToken, delay |-> d])
      BY <1>6, <2>1 DEF ServeAction
    <2>3. [code |-> "TRUE", token |-> NoToken, delay |-> d] \in Answer
      BY DEF Answer, Codes, MapCodes
    <2>4. pc[c] = "api"
      BY <1>1, <1>6 DEF ServeAction, Asks, CallInv, Awaits
    <2>5. QED
      BY <1>5, <2>2, <2>3, <2>4, ProtocolAssumption
  <1>7. ASSUME NEW t \in Tokens, ServeLogin(c, t) PROVE HeldBack'
    <2>1. PICK u \in Tokens \cup {NoToken} : Reply(c, [code |-> "TRUE", token |-> u, delay |-> 0])
      BY <1>7 DEF ServeLogin
    <2>2. [code |-> "TRUE", token |-> u, delay |-> 0] \in Answer
      BY DEF Answer, Codes, MapCodes
    <2>3. QED
      BY <1>5, <1>7, <2>1, <2>2 DEF ServeLogin
  <1>8. CASE ServeBadLogin(c) \/ ServeRefusal(c) \/ ServeDeadToken(c)
    <2>1. PICK code \in Faults \ {"flood_protection"} : Reply(c, Fault(code))
      BY <1>8 DEF ServeBadLogin, ServeRefusal, ServeDeadToken, Faults, SessionCodes
    <2>2. Fault(code) \in Answer /\ Fault(code).code = code
      BY DEF Fault, Answer, Codes
    <2>3. UNCHANGED srvWindow
      BY <1>8 DEF ServeBadLogin, ServeRefusal, ServeDeadToken, serverVars
    <2>4. QED
      BY <1>5, <2>1, <2>2, <2>3
  <1>9. QED
    BY <1>4, <1>6, <1>7, <1>8 DEF ServerStep, Serve

LEMMA HeldBackStep ==
  ASSUME IInv, IInv', Undisturbed, HeldBack, [Next]_vars
  PROVE  HeldBack'
  <1>1. CASE Elsewhere
    <2>1. UNCHANGED <<srvWindow, request, answer, pc, ctxDone, backoff>>
      BY <1>1 DEF Undisturbed, Elsewhere, OtherClient, Revoke, wireVars, clientVars
    <2>2. QED
      BY <2>1 DEF HeldBack, OnTheWayBack
  <1>2. CASE Tick
    <2>1. /\ UNCHANGED <<request, answer, pc, ctxDone>>
          /\ srvWindow' = Down(srvWindow) /\ backoff' = Down(backoff)
          /\ srvWindow \in Nat /\ backoff \in Nat
      BY <1>2 DEF Tick, IInv, TypeOK, ClientTypeOK, ServerTypeOK
    <2>2. ASSUME NEW c \in Calls PROVE OnTheWayBack(c)'
      <3>1. answer[c] # NoMsg => answer[c].delay \in Nat
        BY DelaysAreNat DEF IInv, TypeOK, ProtocolTypeOK
      <3>2. QED
        BY <2>1, <3>1 DEF HeldBack, OnTheWayBack, Down
    <2>3. QED
      BY <2>1, <2>2 DEF HeldBack, Down
  <1>3. CASE UNCHANGED vars
    BY <1>3 DEF vars, wireVars, clientVars, serverVars, HeldBack, OnTheWayBack
  <1>4. QED
    BY <1>1, <1>2, <1>3, HeldBackClient, HeldBackServer DEF Next

LEMMA HeldBackInvariance ==
  ASSUME Undisturbed
  PROVE  Spec => []HeldBack
  <1>1. IInv /\ IInv' /\ HeldBack /\ [Next]_vars => HeldBack'
    BY HeldBackStep
  <1>2. QED
    BY Invariance, InitHeldBack, <1>1, PTL DEF Spec

(* A client that reads every answer and has the account for itself never    *)
(* runs into flood protection (flood.go:11-13), whatever the delays are,    *)
(* whenever sessions end, and however long the program stands still.        *)
THEOREM WindowsAreKept ==
  ASSUME Undisturbed
  PROVE  Spec => []NeverFlooded
  <1>1. HeldBack => NeverFlooded
    BY DEF HeldBack, OnTheWayBack, NeverFlooded
  <1>2. QED
    BY HeldBackInvariance, <1>1, PTL

-----------------------------------------------------------------------------
(* Sessions that run out *)

(* On a healthy network KAS answers within the timeout, nobody else touches *)
(* the account, and a session lasts longer than a handshake and a request.  *)
Healthy ==
  /\ Env \subseteq {"fault", "otp"}
  /\ 2 * HttpTimeout < Lifetime
  /\ \A c \in Calls : "newpassword" \notin Offer[c]

(* A handshake is accepted, and leaves no window behind; after it the token *)
(* goes out at once, and is as old as the two requests take.                *)
LoggingIn(c) ==
  pc[c] = "login" =>
    /\ backoff = 0
    /\ request[c] # NoMsg => request[c].kas_auth_data = Original
    /\ answer[c] # NoMsg => answer[c].code = "TRUE"
    /\ answer[c] # NoMsg /\ answer[c].token # NoToken => session[answer[c].token] + waited >= Lifetime

Renewed(c) ==
  reauthed[c] =>
    /\ pc[c] \notin {"idle", "queued", "logout"}
    /\ pc[c] = "session" => token = NoToken
    /\ pc[c] = "api_window" => backoff = 0 /\ session[token] + HttpTimeout >= Lifetime
    /\ pc[c] = "api" /\ request[c] # NoMsg => session[token] + HttpTimeout + waited >= Lifetime
    /\ pc[c] = "api" /\ answer[c] # NoMsg => answer[c].code \notin SessionCodes

Surfaced(c) == result[c] \in SessionCodes \cup {"flood_protection"}

Fresh == \A c \in Calls : LoggingIn(c) /\ Renewed(c) /\ ~Surfaced(c)

(* While a call has the turn, another one changes nothing of the client.    *)
LEMMA Bystander ==
  ASSUME IInv, NEW c \in Calls, pc[c] \in Locked, NEW d \in Calls \ {c}, ClientStep(d)
  PROVE  /\ UNCHANGED <<token, trust, backoff, waited, session>>
         /\ pc'[c] = pc[c] /\ op'[c] = op[c] /\ reauthed'[c] = reauthed[c]
         /\ request'[c] = request[c] /\ answer'[c] = answer[c] /\ result'[c] = result[c]
  <1>1. pc[d] \notin Locked /\ sem = c
    BY DEF IInv, TurnHolder
  <1>2. Call(d) \/ GiveUp(d) \/ StorePassword(d) \/ CtxEnd(d) \/ Acquire(d)
    BY <1>1 DEF ClientStep, Step, CheckLogout, EnsureSession, AbortWindow, SendLogin, SendAction,
       RecvLogin, RecvLoginFault, RecvOk, RecvOdd, RecvFault, Receive, Break, Locked, Windows, Awaits
  <1>3. QED
    BY <1>2 DEF ClientStep, Call, GiveUp, StorePassword, CtxEnd, Acquire, Goto, wireVars, serverVars,
       IInv, TypeOK, ClientTypeOK, ProtocolTypeOK

(* A call without the turn owes nothing. *)
LEMMA Outside ==
  ASSUME IInv, Fresh, NEW c \in Calls, NEW d \in Calls \ {c}, ClientStep(c)
  PROVE  LoggingIn(d)' /\ Renewed(d)' /\ ~Surfaced(d)'
  <1>1. CASE pc[d] \in Locked
    BY <1>1, Bystander DEF Fresh, LoggingIn, Renewed, Surfaced
  <1>2. CASE pc[d] \notin Locked
    <2>1. pc'[d] = pc[d] /\ reauthed'[d] = reauthed[d] /\ result'[d] = result[d]
      BY DEF IInv, TypeOK, ClientTypeOK, ClientStep, Step, Call, Acquire, StorePassword, CtxEnd, GiveUp,
         CheckLogout, EnsureSession, AbortWindow, SendLogin, SendAction, Send, RecvLogin,
         RecvLoginFault, RecvOk, RecvOdd, RecvFault, Break, Settle, RetrySession, RetryFlood,
         TryAgain, Fail, Return, Goto
    <2>2. QED
      BY <1>2, <2>1 DEF Fresh, LoggingIn, Renewed, Surfaced, Locked, Awaits, Windows
  <1>3. QED
    BY <1>1, <1>2

LEMMA FreshClient ==
  ASSUME LInv, IInv', Healthy, HeldBack, Fresh, PasswordInv, NEW c \in Calls, ClientStep(c)
  PROVE  LoggingIn(c)' /\ Renewed(c)' /\ ~Surfaced(c)'
  <1> USE DEF LInv, IInv, TypeOK, ProtocolTypeOK, ClientTypeOK, ServerTypeOK
  <1>1. UNCHANGED session /\ Undisturbed /\ password = Original
    BY ClientAssumption DEF ClientStep, serverVars, Healthy, Undisturbed, PasswordInv, Passwords
  <1>2. LoggingIn(c) /\ Renewed(c) /\ ~Surfaced(c)
    BY DEF Fresh
  <1>3. CASE Call(c) \/ Acquire(c) \/ StorePassword(c) \/ CheckLogout(c)
    BY <1>2, <1>3 DEF Call, Acquire, StorePassword, CheckLogout, Return, Goto, LoggingIn, Renewed,
       Surfaced, SessionCodes
  <1>4. CASE EnsureSession(c)
    BY <1>2, <1>4 DEF EnsureSession, SessionUsable, Fail, LogoutResult, Return, Goto, LoggingIn,
       Renewed, Surfaced, SessionCodes
  <1>5. CASE SendLogin(c)
    <2>1. answer[c] = NoMsg
      BY <1>5 DEF SendLogin, CallInv, Awaits
    <2>2. QED
      BY <1>1, <1>2, <1>5, <2>1 DEF SendLogin, Send, Goto, LoggingIn, Renewed, Surfaced
  <1>6. CASE SendAction(c)
    <2>1. answer[c] = NoMsg
      BY <1>6 DEF SendAction, CallInv, Awaits
    <2>2. /\ pc[c] = "api_window" /\ pc'[c] = "api" /\ answer'[c] = NoMsg /\ waited' = 0
          /\ UNCHANGED <<token, reauthed, result>>
      BY <1>6, <2>1 DEF SendAction, Send, Goto
    <2>3. LoggingIn(c)' /\ ~Surfaced(c)'
      BY <1>2, <2>2 DEF LoggingIn, Surfaced
    <2>4. token \in Tokens /\ session[token] \in Nat
      BY <2>2, ProtocolAssumption DEF HasToken
    <2>5. reauthed[c] => session'[token'] + HttpTimeout + waited' >= Lifetime
      BY <1>1, <1>2, <2>2, <2>4, ProtocolAssumption DEF Renewed
    <2>6. QED
      BY <2>2, <2>3, <2>5 DEF Renewed
  <1>7. CASE RecvLogin(c)
    BY <1>1, <1>2, <1>7, ProtocolAssumption DEF RecvLogin, Receive, Fail, LogoutResult, Return, Goto, LoggingIn,
       Renewed, Surfaced, SessionCodes, Answer
  <1>8. CASE RecvLoginFault(c)
    BY <1>2, <1>8 DEF RecvLoginFault, Receive, LoggingIn, Faults, SessionCodes
  <1>9. CASE RecvOk(c) \/ RecvOdd(c)
    BY <1>2, <1>9 DEF RecvOk, RecvOdd, Fail, LogoutResult, Return, Goto, LoggingIn, Renewed, Surfaced,
       SessionCodes
  <1>10. CASE RecvFault(c)
    <2>1. /\ pc[c] = "api" /\ answer[c] # NoMsg /\ answer[c].code \in Faults \ {"flood_protection"}
          /\ Settle(c, answer[c].code, FALSE) /\ answer'[c] = NoMsg
      BY <1>10 DEF RecvFault, Receive, HeldBack, OnTheWayBack
    <2>2. CASE RetrySession(c)
      BY <1>2, <2>1, <2>2 DEF RetrySession, TryAgain, Return, Goto, HeldBack, LoggingIn, Renewed,
         Surfaced
    <2>3. CASE ~RetrySession(c)
      <3>1. RetryOf(answer[c].code, FALSE) # "flood"
        BY <2>1 DEF RetryOf
      <3>2. Fail(c, answer[c].code) /\ UNCHANGED reauthed
        BY <2>1, <2>3, <3>1 DEF Settle
      <3>3. op[c] # "logout" => answer[c].code \notin SessionCodes
        BY <1>2, <2>1, <2>3, <3>1 DEF Settle, Renewed, RetryOf
      <3>4. pc'[c] = "done" /\ result'[c] = IF op[c] = "logout" THEN LogoutResult(answer[c].code)
                                                               ELSE answer[c].code
        BY <3>2 DEF Fail, Return, Goto
      <3>5. result'[c] \notin SessionCodes \cup {"flood_protection"}
        BY <2>1, <3>3, <3>4 DEF LogoutResult, SessionCodes
      <3>6. QED
        BY <3>4, <3>5 DEF LoggingIn, Renewed, Surfaced
    <2>4. QED
      BY <2>2, <2>3
  <1>11. QED
    BY <1>1, <1>3, <1>4, <1>5, <1>6, <1>7, <1>8, <1>9, <1>10, NobodyLeaves DEF ClientStep, Step

LEMMA FreshServer ==
  ASSUME LInv, IInv', Healthy, HeldBack, Fresh, PasswordInv, NEW c \in Calls, ServerStep(c)
  PROVE  Fresh'
  <1> USE DEF LInv, IInv, TypeOK, ProtocolTypeOK, ClientTypeOK, ServerTypeOK
  <1>1. /\ UNCHANGED <<pc, backoff, token, reauthed, result, waited>>
        /\ request[c] # NoMsg /\ Open(c) /\ srvWindow = 0 /\ pc[c] \in Awaits
        /\ srvPassword = Original
    BY ClientAssumption DEF ServerStep, clientVars, HeldBack, Open, CallInv, Serve, ServeFlood,
       ServeLogin, ServeBadLogin, ServeAction, ServeRefusal, ServeDeadToken, Asks, Reply, Healthy,
       PasswordInv, Passwords
  <1>2. \A d \in Calls \ {c} : pc[d] \notin Locked
    BY <1>1, OnItsWay
  <1>3. ASSUME NEW d \in Calls \ {c} PROVE LoggingIn(d)' /\ Renewed(d)' /\ ~Surfaced(d)'
    BY <1>1, <1>2 DEF Fresh, LoggingIn, Renewed, Surfaced, Locked, Awaits, Windows
  <1>4. \A a : Reply(c, a) => request'[c] = NoMsg /\ answer'[c] = a
    BY <1>1 DEF Reply, Open
  <1>5. LoggingIn(c) /\ Renewed(c) /\ ~Surfaced(c)
    BY DEF Fresh
  <1>6. CASE pc[c] = "login"
    <2>1. request[c].method = "KasAuth" /\ request[c].kas_auth_data = srvPassword
      BY <1>1, <1>5, <1>6 DEF CallInv, LoggingIn
    <2>2. PICK t \in Tokens : ServeLogin(c, t)
      BY <1>1, <2>1 DEF ServerStep, Serve, ServeFlood, ServeBadLogin, ServeAction, ServeRefusal,
         ServeDeadToken, Asks
    <2>3. session'[t] = Lifetime
      BY <2>2 DEF ServeLogin
    <2>4. /\ request'[c] = NoMsg /\ answer'[c].code = "TRUE" /\ answer'[c].token \in {t, NoToken}
      BY <1>4, <2>2 DEF ServeLogin
    <2>5. LoggingIn(c)'
      BY <1>1, <1>5, <1>6, <2>3, <2>4, ProtocolAssumption DEF LoggingIn
    <2>6. QED
      BY <1>1, <1>3, <1>5, <1>6, <2>5 DEF Fresh, Renewed, Surfaced
  <1>7. CASE pc[c] = "api"
    <2>1. request[c].method = "KasApi" /\ request[c].kas_auth_data = token /\ token \in Tokens
      BY <1>1, <1>7 DEF CallInv, Ending
    <2>2. reauthed[c] => session[token] > 0
      BY <1>1, <1>5, <1>7, <2>1, ProtocolAssumption DEF Renewed, Healthy
    <2>3. CASE ServeDeadToken(c)
      <3>1. ~reauthed[c]
        BY <2>1, <2>2, <2>3 DEF ServeDeadToken
      <3>2. QED
        BY <1>1, <1>3, <1>5, <1>7, <3>1 DEF Fresh, LoggingIn, Renewed, Surfaced
    <2>4. CASE ServeAction(c) \/ ServeRefusal(c)
      <3>1. /\ request'[c] = NoMsg
            /\ answer'[c].code \in {"refused"} \cup MapCodes \cup {"scalar"}
        <4>1. CASE ServeRefusal(c)
          BY <1>4, <4>1 DEF ServeRefusal, Fault
        <4>2. CASE ServeAction(c)
          <5>1. PICK d \in Delays :
                  \E code \in IF "garbage" \in Env THEN MapCodes \cup {"scalar"} ELSE {"TRUE"} :
                    Reply(c, [code |-> code, token |-> NoToken,
                              delay |-> IF code = "malformed" THEN 0 ELSE d])
            BY <4>2 DEF ServeAction
          <5>2. PICK code \in MapCodes \cup {"scalar"} :
                  Reply(c, [code |-> code, token |-> NoToken,
                            delay |-> IF code = "malformed" THEN 0 ELSE d])
            BY <5>1 DEF MapCodes
          <5>3. QED
            BY <1>4, <5>2
        <4>3. QED
          BY <2>4, <4>1, <4>2
      <3>2. QED
        BY <1>1, <1>3, <1>5, <1>7, <3>1 DEF Fresh, LoggingIn, Renewed, Surfaced, SessionCodes, MapCodes
    <2>5. QED
      BY <1>1, <2>1, <2>3, <2>4 DEF ServerStep, Serve, ServeFlood, ServeBadLogin, ServeLogin, Asks
  <1>8. QED
    BY <1>1, <1>6, <1>7 DEF Awaits

LEMMA FreshTick ==
  ASSUME LInv, IInv', Healthy, HeldBack, Fresh, Tick
  PROVE  Fresh'
  <1> USE DEF LInv, IInv, TypeOK, ProtocolTypeOK, ClientTypeOK, ServerTypeOK
  <1> SUFFICES ASSUME NEW c \in Calls PROVE LoggingIn(c)' /\ Renewed(c)' /\ ~Surfaced(c)'
    BY DEF Fresh
  <1>1. /\ UNCHANGED <<request, answer, pc, token, reauthed, result>>
        /\ backoff' = Down(backoff)
        /\ \A t \in Tokens : session[t] \in Nat /\ session'[t] \in Nat /\ session'[t] + 1 >= session[t]
        /\ pc[c] \in Awaits => waited' = waited + 1
        /\ waited \in Nat /\ HttpTimeout \in Nat /\ Lifetime \in Nat
    BY ProtocolAssumption DEF Tick, Down, Awaiting
  <1>2. pc[c] = "api_window" => backoff > 0
    BY DEF Tick, Waits, Healthy, Locked, Windows, Awaits
  <1>3. pc[c] = "session" => FALSE
    BY DEF Tick, Waits, Healthy, Locked, Windows, Awaits
  <1>4. LoggingIn(c)'
    BY <1>1 DEF Fresh, LoggingIn, Down, Awaits, Answer
  <1>5. Renewed(c)'
    BY <1>1, <1>2, <1>3 DEF Fresh, Renewed, Ending, Awaits
  <1>6. QED
    BY <1>1, <1>4, <1>5 DEF Fresh, Surfaced

(* "Expired sessions trigger one transparent re-authentication"             *)
(* (client.go:224-225): on a healthy network no session that runs out, and  *)
(* no window, ever surfaces as the error of a call, however many calls      *)
(* share the client.                                                        *)
THEOREM ExpiryIsHidden ==
  ASSUME Healthy
  PROVE  Spec => []ExpiryNeverSurfaces
  <1>1. Undisturbed /\ OneChanges
    BY DEF Healthy, Undisturbed, OneChanges
  <1>2. Init => Fresh
    BY DEF Init, ProtocolInit, ClientInit, ServerInit, Fresh, LoggingIn, Renewed, Surfaced, SessionCodes
  <1>3. ASSUME LInv, IInv', HeldBack, PasswordInv, Fresh, [Next]_vars PROVE Fresh'
    <2>1. ASSUME NEW c \in Calls, ClientStep(c) PROVE Fresh'
      <3>1. IInv
        BY <1>3 DEF LInv
      <3>2. QED
        BY <1>3, <2>1, <3>1, FreshClient, Outside DEF Fresh
    <2>2. ASSUME NEW c \in Calls, ServerStep(c) PROVE Fresh'
      BY <1>3, <2>2, FreshServer
    <2>3. CASE Elsewhere
      BY <2>3 DEF Healthy, Elsewhere, OtherClient, Revoke
    <2>4. CASE UNCHANGED vars
      BY <1>3, <2>4 DEF vars, wireVars, clientVars, serverVars, Fresh, LoggingIn, Renewed, Surfaced
    <2>5. QED
      BY <1>3, <2>1, <2>2, <2>3, <2>4, FreshTick DEF Next
  <1>4. Fresh => ExpiryNeverSurfaces
    BY DEF Fresh, Surfaced, ExpiryNeverSurfaces
  <1>5. QED
    BY <1>1, <1>2, <1>3, <1>4, Invariance, EndingInvariance, HeldBackInvariance, PasswordInvariance, PTL DEF Spec

-----------------------------------------------------------------------------
(* Tokens in time *)

(* No flood window holds the client back for longer than b. *)
WaitsAtMost(b) ==
  /\ \A d \in Delays : d <= b
  /\ DefaultDelay <= b
  /\ \A n \in 1 .. MaxFloodRetries : n * BackoffUnit <= b

(* KAS ends no session early, the code between two waits takes no time, and *)
(* the margin covers a handshake, a window and a request.                   *)
MarginCovers(b) ==
  /\ Env \cap {"revoke", "pause"} = {}
  /\ WaitsAtMost(b)
  /\ 2 * HttpTimeout + b <= Margin

EndsItself == \E c \in Calls : pc[c] = "api" /\ op[c] = "logout"

(* A token is trusted for a margin less than its session lasts, but for the *)
(* time its answer took; unless a Logout is about to end it.                *)
Trusted ==
  token # NoToken /\ trust > 0 /\ ~EndsItself => session[token] + HttpTimeout >= trust + Margin

(* From then on the session of a call loses no more than its waits take.    *)
InTime(b, c) ==
  /\ pc[c] = "login" /\ answer[c] # NoMsg /\ answer[c].token # NoToken =>
       session[answer[c].token] + waited >= Lifetime
  /\ pc[c] = "api_window" => session[token] + HttpTimeout + b >= 1 + Margin + backoff
  /\ pc[c] = "api" /\ request[c] # NoMsg => session[token] + HttpTimeout + b + waited >= 1 + Margin
  /\ pc[c] = "api" /\ answer[c] # NoMsg /\ answer[c].code = "TRUE" /\ op[c] # "logout" =>
       session[token] + waited >= Lifetime

(* A Logout that gave up waiting has made the client forget the token it    *)
(* may still end.                                                           *)
Disowned(c) ==
  op[c] = "logout" /\ pc[c] # "api" /\ request[c] # NoMsg /\ request[c].method = "KasApi" =>
    /\ request[c].kas_auth_data # token
    /\ \A d \in Calls : answer[d] # NoMsg => answer[d].token # request[c].kas_auth_data

Punctual(b) ==
  /\ trust <= SessionTTL
  /\ backoff <= b
  /\ Trusted
  /\ \A c \in Calls : InTime(b, c) /\ Disowned(c)

LEMMA MarginFacts ==
  /\ Margin \in Nat /\ SessionTTL \in Nat /\ SessionTTL > 0
  /\ Margin + 1 <= Lifetime /\ SessionTTL + Margin = Lifetime
  <1>1. Margin \in Nat /\ Margin + 1 <= Lifetime
    BY ProtocolAssumption, ClientAssumption DEF Margin
  <1>2. QED
    BY <1>1, ProtocolAssumption DEF SessionTTL

(* What a step of a client can do to the token and to what is on its way.   *)
LEMMA ClientMoves ==
  ASSUME IInv, NEW c \in Calls, ClientStep(c)
  PROVE  /\ UNCHANGED session
         /\ \/ token' \in {token, NoToken}
            \/ answer[c] # NoMsg /\ token' = answer[c].token
         /\ \A d \in Calls : answer'[d] \in {answer[d], NoMsg}
         /\ \A d \in Calls \ {c} : /\ request'[d] = request[d] /\ pc'[d] = pc[d]
                                   /\ op'[d] = op[d] /\ answer'[d] = answer[d]
  <1> USE DEF IInv, TypeOK, ProtocolTypeOK, ClientTypeOK
  <1>1. UNCHANGED session
    BY DEF ClientStep, serverVars
  <1>2. \/ token' \in {token, NoToken}
        \/ answer[c] # NoMsg /\ token' = answer[c].token
    BY DEF ClientStep, Step, Call, Acquire, StorePassword, CtxEnd, GiveUp, CheckLogout, EnsureSession,
       AbortWindow, SendLogin, SendAction, Send, RecvLogin, Receive, RecvLoginFault, RecvOk, RecvOdd,
       RecvFault, Break, Settle, RetrySession, RetryFlood, Fail
  <1>3. /\ \A d \in Calls : answer'[d] \in {answer[d], NoMsg}
        /\ \A d \in Calls \ {c} : answer'[d] = answer[d] /\ request'[d] = request[d] /\ op'[d] = op[d]
    BY DEF ClientStep, Step, Call, Acquire, StorePassword, CtxEnd, GiveUp, CheckLogout, EnsureSession,
       AbortWindow, SendLogin, SendAction, Send, RecvLogin, Receive, RecvLoginFault, RecvOk, RecvOdd,
       RecvFault, Break, wireVars
  <1>4. \A d \in Calls \ {c} : pc'[d] = pc[d]
    BY DEF ClientStep, Step, Call, Acquire, StorePassword, CtxEnd, GiveUp, CheckLogout, EnsureSession,
       AbortWindow, SendLogin, SendAction, RecvLogin, RecvLoginFault, RecvOk, RecvOdd,
       RecvFault, Break, Settle, RetrySession, RetryFlood, TryAgain, Fail, Return, Goto
  <1>5. QED
    BY <1>1, <1>2, <1>3, <1>4

(* A Logout that gives up takes the token with it. *)
LEMMA GivenUp ==
  ASSUME LInv, IInv', NEW c \in Calls, ClientStep(c), Disowned(c)
  PROVE  Disowned(c)'
  <1> USE DEF LInv, IInv, TypeOK, ProtocolTypeOK, ClientTypeOK
  <1> SUFFICES ASSUME op'[c] = "logout", pc'[c] # "api", request'[c] # NoMsg,
                      request'[c].method = "KasApi"
               PROVE  /\ request'[c].kas_auth_data # token'
                      /\ \A d \in Calls : answer'[d] # NoMsg =>
                            answer'[d].token # request'[c].kas_auth_data
    BY DEF Disowned
  <1>1. CASE Break(c)
    <2>1. pc[c] \in Awaits /\ answer' = [answer EXCEPT ![c] = NoMsg] /\ op[c] = "logout"
          /\ request[c] # NoMsg /\ request'[c] = [request[c] EXCEPT !.open = FALSE]
      BY <1>1 DEF Break
    <2>2. request[c] \in Request /\ request[c].method = "KasApi"
          /\ request'[c].kas_auth_data = request[c].kas_auth_data
      BY <2>1 DEF Request
    <2>3. token' = NoToken
      BY <1>1, <2>1 DEF Break, Settle, Fail
    <2>4. request[c].kas_auth_data \in Tokens
      BY <2>2 DEF Request
    <2>5. \A d \in Calls : answer'[d] = NoMsg
      BY <2>1, OnItsWay DEF Locked
    <2>6. QED
      BY <2>2, <2>3, <2>4, <2>5, ProtocolAssumption
  <1>2. CASE SendLogin(c)
    BY <1>2 DEF SendLogin, Send
  <1>3. CASE SendAction(c)
    BY <1>3 DEF SendAction, Goto
  <1>4. CASE ~Break(c) /\ ~SendLogin(c) /\ ~SendAction(c)
    <2>1. request'[c] = request[c] /\ pc[c] # "done"
      BY <1>4 DEF ClientStep, Step, Call, Acquire, StorePassword, CtxEnd, GiveUp, CheckLogout,
         EnsureSession, AbortWindow, RecvLogin, Receive, RecvLoginFault, RecvOk, RecvOdd, RecvFault,
         wireVars, Windows
    <2>2. pc[c] \in Awaits
      BY <2>1 DEF CallInv
    <2>3. pc[c] = "api"
      BY <2>1, <2>2 DEF CallInv, Awaits
    <2>4. answer[c] = NoMsg
      BY <2>1 DEF CallInv
    <2>5. CtxEnd(c)
      BY <1>4, <2>3, <2>4 DEF ClientStep, Step, Call, Acquire, StorePassword, GiveUp, CheckLogout,
         EnsureSession, AbortWindow, RecvLogin, Receive, RecvLoginFault, RecvOk, RecvOdd, RecvFault, Windows
    <2>6. QED
      BY <2>3, <2>5 DEF CtxEnd
  <1>5. QED
    BY <1>1, <1>2, <1>3, <1>4

LEMMA ClientBackoff ==
  ASSUME IInv, IInv', NEW b \in Nat, WaitsAtMost(b), backoff <= b, NEW c \in Calls, ClientStep(c)
  PROVE  backoff' <= b
  <1> USE DEF IInv, TypeOK, ProtocolTypeOK, ClientTypeOK
  <1>1. CASE UNCHANGED backoff
    BY <1>1
  <1>2. ASSUME answer[c] # NoMsg, backoff' = FloodDelay(answer[c]) PROVE backoff' <= b
    <2>1. answer[c].delay \in Delays \cup {0}
      BY <1>2 DEF Answer
    <2>2. QED
      BY <1>2, <2>1 DEF FloodDelay, WaitsAtMost
  <1>3. ASSUME RetryFlood(c) PROVE backoff' <= b
    <2>1. flood[c] + 1 \in 1 .. MaxFloodRetries
      BY <1>3, ClientAssumption DEF RetryFlood
    <2>2. QED
      BY <1>3, <2>1 DEF RetryFlood, WaitsAtMost
  <1>4. QED
    BY <1>1, <1>2, <1>3 DEF ClientStep, Step, Call, Acquire, StorePassword, CtxEnd, GiveUp, CheckLogout,
       EnsureSession, AbortWindow, SendLogin, SendAction, Send, RecvLogin, Receive, RecvLoginFault,
       RecvOk, RecvOdd, RecvFault, Break, Settle, RetrySession

(* An answer that comes in time, or a token trusted, lets the call go on.   *)
LEMMA OwnTime ==
  ASSUME LInv, IInv', NEW b \in Nat, Punctual(b), backoff' <= b, NEW c \in Calls, ClientStep(c)
  PROVE  InTime(b, c)'
  <1> USE DEF LInv, IInv, TypeOK, ProtocolTypeOK, ClientTypeOK, ServerTypeOK
  <1>1. /\ InTime(b, c) /\ UNCHANGED session
        /\ \A t \in Tokens : session[t] \in Nat
        /\ backoff \in Nat /\ waited \in Nat /\ trust \in Nat /\ HttpTimeout \in Nat /\ Lifetime \in Nat
    BY ProtocolAssumption DEF Punctual, ClientStep, serverVars
  <1>2. CASE EnsureSession(c) /\ pc'[c] = "api_window"
    <2>1. /\ SessionUsable /\ UNCHANGED <<token, backoff>> /\ answer[c] = NoMsg /\ pc[c] \in Locked
          /\ pc[c] = "session"
      BY <1>2 DEF EnsureSession, Fail, Return, Goto, Locked, CallInv, Awaits
    <2>2. ~EndsItself
      BY <2>1, OnItsWay DEF EndsItself, Locked, Awaits
    <2>3. session[token] + HttpTimeout >= trust + Margin /\ trust > 0 /\ token \in Tokens
      BY <2>1, <2>2 DEF SessionUsable, Punctual, Trusted
    <2>4. session'[token'] + HttpTimeout + b >= 1 + Margin + backoff'
      BY <1>1, <2>1, <2>3, MarginFacts DEF Punctual
    <2>5. QED
      BY <1>2, <2>4 DEF InTime
  <1>3. CASE RecvLogin(c) /\ pc'[c] = "api_window"
    <2>1. /\ pc[c] = "login" /\ answer[c] # NoMsg /\ answer[c].token # NoToken
          /\ token' = answer[c].token /\ UNCHANGED backoff /\ answer[c] \in Answer
      BY <1>3 DEF RecvLogin, Receive, Fail, Return, Goto
    <2>2. token' \in Tokens /\ waited <= HttpTimeout
      BY <2>1 DEF Answer
    <2>3. session'[token'] + HttpTimeout + b >= 1 + Margin + backoff'
      BY <1>1, <2>1, <2>2, MarginFacts DEF InTime, Punctual
    <2>4. QED
      BY <1>3, <2>3 DEF InTime
  <1>4. CASE SendAction(c)
    <2>1. /\ pc[c] = "api_window" /\ pc'[c] = "api" /\ backoff = 0 /\ waited' = 0
          /\ UNCHANGED <<token, answer>> /\ answer[c] = NoMsg
      BY <1>4 DEF SendAction, Send, Goto, CallInv, Awaits
    <2>2. token \in Tokens
      BY <2>1 DEF HasToken
    <2>3. session'[token'] + HttpTimeout + b + waited' >= 1 + Margin
      BY <1>1, <2>1, <2>2, MarginFacts DEF InTime
    <2>4. QED
      BY <2>1, <2>3 DEF InTime
  <1>5. CASE SendLogin(c)
    <2>1. pc'[c] = "login" /\ answer'[c] = NoMsg
      BY <1>5 DEF SendLogin, Send, Goto, CallInv, Awaits, Windows
    <2>2. QED
      BY <2>1 DEF InTime
  <1>6. CASE CtxEnd(c)
    BY <1>1, <1>6 DEF CtxEnd, InTime, wireVars
  <1>7. CASE ~CtxEnd(c) /\ ~SendAction(c) /\ ~SendLogin(c) /\ pc'[c] \in {"login", "api_window", "api"}
    <2>1. EnsureSession(c) \/ RecvLogin(c)
      <3>1. ~Call(c) /\ ~Acquire(c) /\ ~StorePassword(c) /\ ~GiveUp(c) /\ ~CheckLogout(c) /\ ~AbortWindow(c)
        BY <1>7 DEF Call, Acquire, StorePassword, GiveUp, CheckLogout, AbortWindow, Fail, Return, Goto
      <3>2. ~RecvOk(c) /\ ~RecvOdd(c)
        BY <1>7 DEF RecvOk, RecvOdd, Fail, Return, Goto
      <3>3. ~RecvLoginFault(c) /\ ~RecvFault(c) /\ ~Break(c)
        <4>1. \A code, handshake : Settle(c, code, handshake) => pc'[c] \in {"session", "done"}
          BY DEF Settle, RetrySession, RetryFlood, TryAgain, Fail, Return, Goto
        <4>2. QED
          BY <1>7, <4>1 DEF RecvLoginFault, RecvFault, Break
      <3>4. QED
        BY <1>7, <3>1, <3>2, <3>3 DEF ClientStep, Step
    <2>2. pc'[c] \notin {"login", "api"}
      BY <2>1 DEF EnsureSession, RecvLogin, Fail, Return, Goto
    <2>3. QED
      BY <1>2, <1>3, <1>7, <2>1, <2>2
  <1>8. QED
    BY <1>4, <1>5, <1>6, <1>7 DEF InTime

(* What the client trusts it has just been told, or trusted before.         *)
LEMMA OwnTrust ==
  ASSUME LInv, IInv', NEW b \in Nat, Punctual(b), NEW c \in Calls, ClientStep(c)
  PROVE  trust' <= SessionTTL /\ Trusted'
  <1> USE DEF LInv, IInv, TypeOK, ProtocolTypeOK, ClientTypeOK, ServerTypeOK
  <1>1. /\ UNCHANGED session /\ \A t \in Tokens : session[t] \in Nat
        /\ trust \in Nat /\ waited \in Nat /\ HttpTimeout \in Nat /\ trust <= SessionTTL
        /\ waited <= HttpTimeout
    BY ProtocolAssumption DEF Punctual, ClientStep, serverVars
  <1>2. CASE RecvLogin(c)
    <2>1. CASE answer[c].token = NoToken
      <3>1. UNCHANGED trust /\ token' \in {token, NoToken} /\ pc[c] = "login"
        BY <1>2, <2>1 DEF RecvLogin, Receive, Fail
      <3>2. ~EndsItself
        BY <3>1, OnItsWay DEF EndsItself, Locked, Awaits
      <3>3. QED
        BY <1>1, <3>1, <3>2 DEF Punctual, Trusted
    <2>2. CASE answer[c].token # NoToken
      <3>1. /\ trust' = SessionTTL /\ token' = answer[c].token /\ token' \in Tokens
            /\ session[answer[c].token] + waited >= Lifetime
        BY <1>2, <2>2 DEF RecvLogin, Receive, Answer, Punctual, InTime
      <3>2. QED
        BY <1>1, <3>1, MarginFacts DEF Trusted
    <2>3. QED
      BY <2>1, <2>2
  <1>3. CASE RecvOk(c)
    <2>1. /\ trust' = SessionTTL /\ token' = IF op[c] = "logout" THEN NoToken ELSE token
          /\ pc[c] = "api" /\ answer[c] # NoMsg /\ answer[c].code = "TRUE" /\ token \in Tokens
      BY <1>3 DEF RecvOk, Receive, Ending
    <2>2. CASE op[c] = "logout"
      BY <1>1, <2>1, <2>2, MarginFacts DEF Trusted
    <2>3. CASE op[c] # "logout"
      <3>1. session[token] + waited >= Lifetime
        BY <2>1, <2>3 DEF Punctual, InTime
      <3>2. QED
        BY <1>1, <2>1, <2>3, <3>1, MarginFacts DEF Trusted
    <2>4. QED
      BY <2>2, <2>3
  <1>4. CASE ~RecvLogin(c) /\ ~RecvOk(c)
    <2>1. UNCHANGED trust /\ token' \in {token, NoToken}
      BY <1>4 DEF ClientStep, Step, Call, Acquire, StorePassword, CtxEnd, GiveUp, CheckLogout,
         EnsureSession, AbortWindow, SendLogin, SendAction, Send, RecvLoginFault, RecvOdd, RecvFault,
         Break, Settle, RetrySession, RetryFlood, Fail
    <2>2. ASSUME EndsItself, ~EndsItself' PROVE token' = NoToken
      <3>1. PICK d \in Calls : pc[d] = "api" /\ op[d] = "logout"
        BY <2>2 DEF EndsItself
      <3>2. d = c
        BY <2>2, <3>1, ClientMoves DEF EndsItself
      <3>3. RecvOdd(c) \/ RecvFault(c) \/ Break(c)
        BY <1>4, <2>2, <3>1, <3>2 DEF EndsItself, ClientStep, Step, Call, Acquire, StorePassword,
           CtxEnd, GiveUp, CheckLogout, EnsureSession, AbortWindow, SendLogin, SendAction,
           RecvLoginFault, Receive, Windows
      <3>4. QED
        BY <3>1, <3>2, <3>3 DEF RecvOdd, RecvFault, Break, Settle, Fail
    <2>3. QED
      BY <1>1, <2>1, <2>2 DEF Punctual, Trusted
  <1>5. QED
    BY <1>2, <1>3, <1>4

LEMMA PunctualClient ==
  ASSUME LInv, IInv', NEW b \in Nat, WaitsAtMost(b), Punctual(b), NEW c \in Calls, ClientStep(c)
  PROVE  Punctual(b)'
  <1>1. IInv /\ backoff <= b
    BY DEF LInv, Punctual
  <1>2. backoff' <= b
    BY <1>1, ClientBackoff
  <1>3. trust' <= SessionTTL' /\ Trusted'
    BY OwnTrust DEF SessionTTL, Margin
  <1>4. ASSUME NEW d \in Calls \ {c} PROVE InTime(b, d)'
    <2>1. CASE pc[d] \in Locked
      BY <1>1, <2>1, Bystander DEF Punctual, InTime
    <2>2. CASE pc[d] \notin Locked
      BY <1>1, <2>2, ClientMoves DEF InTime, Locked, Awaits, Windows
    <2>3. QED
      BY <2>1, <2>2
  <1>5. ASSUME NEW d \in Calls \ {c} PROVE Disowned(d)'
    <2>1. SUFFICES ASSUME op[d] = "logout", pc[d] # "api", request[d] # NoMsg, request[d].method = "KasApi"
                   PROVE  /\ request[d].kas_auth_data # token'
                          /\ \A e \in Calls : answer'[e] # NoMsg =>
                                answer'[e].token # request[d].kas_auth_data
      BY <1>1, ClientMoves DEF Disowned
    <2>2. /\ request[d].kas_auth_data # token
          /\ \A e \in Calls : answer[e] # NoMsg => answer[e].token # request[d].kas_auth_data
      BY <2>1 DEF Punctual, Disowned
    <2>3. request[d].kas_auth_data \in Tokens
      BY <1>1, <2>1 DEF IInv, TypeOK, ProtocolTypeOK, Request
    <2>4. QED
      BY <1>1, <2>2, <2>3, ClientMoves, ProtocolAssumption
  <1>6. InTime(b, c)' /\ Disowned(c)'
    BY <1>2, OwnTime, GivenUp DEF Punctual
  <1>7. QED
    BY <1>2, <1>3, <1>4, <1>5, <1>6 DEF Punctual

(* What serving a request does to the sessions and to what is on its way.   *)
LEMMA ServerMoves ==
  ASSUME IInv, IInv', NEW c \in Calls, ServerStep(c)
  PROVE  /\ UNCHANGED <<pc, op, token, trust, backoff, waited>>
         /\ request[c] # NoMsg /\ request'[c] = NoMsg
         /\ \A d \in Calls \ {c} : request'[d] = request[d] /\ answer'[d] = answer[d]
         /\ ~request[c].open => answer'[c] = NoMsg
         /\ \A t \in Tokens :
              \/ session'[t] \in {session[t], Lifetime}
              \/ op[c] = "logout" /\ request[c].method = "KasApi" /\ request[c].kas_auth_data = t
         /\ answer'[c] # NoMsg /\ answer'[c].token # NoToken =>
              /\ session'[answer'[c].token] = Lifetime
              /\ \A d \in Calls : request[d] # NoMsg => request[d].kas_auth_data # answer'[c].token
         /\ answer'[c] # NoMsg /\ answer'[c].code = "TRUE" /\ request[c].method = "KasApi" /\ op[c] # "logout" =>
              session'[request[c].kas_auth_data] = Lifetime
  <1> USE DEF IInv, TypeOK, ProtocolTypeOK, ServerTypeOK
  <1>1. /\ UNCHANGED <<pc, op, token, trust, backoff>> /\ request[c] # NoMsg
        /\ \E a : Reply(c, a)
    BY DEF ServerStep, clientVars, Serve, ServeFlood, ServeLogin, ServeBadLogin, ServeAction, ServeRefusal,
       ServeDeadToken, Asks
  <1>2. /\ UNCHANGED waited /\ request'[c] = NoMsg
        /\ \A d \in Calls \ {c} : request'[d] = request[d] /\ answer'[d] = answer[d]
        /\ ~request[c].open => answer'[c] = NoMsg
    BY <1>1 DEF Reply
  <1>3. \A a : Reply(c, a) => answer'[c] \in {a, NoMsg}
    BY DEF Reply
  <1>4. CASE ServeFlood(c) \/ ServeBadLogin(c) \/ ServeRefusal(c) \/ ServeDeadToken(c)
    <2>1. UNCHANGED session
      BY <1>4 DEF ServeFlood, ServeBadLogin, ServeRefusal, ServeDeadToken, serverVars
    <2>2. answer'[c] # NoMsg => answer'[c].token = NoToken /\ answer'[c].code # "TRUE"
      <3>1. PICK code \in Faults : Reply(c, Fault(code))
        BY <1>4 DEF ServeFlood, ServeBadLogin, ServeRefusal, ServeDeadToken, Faults, SessionCodes
      <3>2. Fault(code).token = NoToken /\ Fault(code).code # "TRUE"
        BY DEF Fault, Faults, SessionCodes
      <3>3. QED
        BY <1>3, <3>1, <3>2
    <2>3. QED
      BY <1>1, <1>2, <2>1, <2>2
  <1>5. ASSUME NEW t \in Tokens, ServeLogin(c, t)
        PROVE  /\ \A s \in Tokens : session'[s] \in {session[s], Lifetime}
               /\ request[c].method = "KasAuth"
               /\ session'[t] = Lifetime
               /\ \A d \in Calls : request[d] # NoMsg => request[d].kas_auth_data # t
               /\ answer'[c] # NoMsg => answer'[c].token \in {t, NoToken}
    BY <1>3, <1>5 DEF ServeLogin, Asks
  <1>6. CASE ServeAction(c)
    <2>1. /\ request[c].method = "KasApi" /\ request[c].kas_auth_data \in Tokens
          /\ session' = [session EXCEPT ![request[c].kas_auth_data] = IF op[c] = "logout" THEN 0 ELSE Lifetime]
      BY <1>6 DEF ServeAction, Asks, Request
    <2>2. answer'[c] # NoMsg => answer'[c].token = NoToken
      BY <1>3, <1>6 DEF ServeAction
    <2>3. QED
      BY <1>1, <1>2, <2>1, <2>2
  <1>7. QED
    BY <1>1, <1>2, <1>4, <1>5, <1>6 DEF ServerStep, Serve

LEMMA PunctualServer ==
  ASSUME LInv, IInv', NEW b \in Nat, Punctual(b), NEW c \in Calls, ServerStep(c)
  PROVE  Punctual(b)'
  <1> USE DEF LInv, IInv, TypeOK, ProtocolTypeOK, ClientTypeOK, ServerTypeOK
  <1>1. \A d \in Calls \ {c} : Disowned(d)'
    <2>1. SUFFICES ASSUME NEW d \in Calls \ {c}, op[d] = "logout", pc[d] # "api", request[d] # NoMsg,
                          request[d].method = "KasApi"
                   PROVE  /\ request[d].kas_auth_data # token
                          /\ \A e \in Calls : answer'[e] # NoMsg => answer'[e].token # request[d].kas_auth_data
      BY ServerMoves DEF Disowned
    <2>2. request[d].kas_auth_data \in Tokens
      BY <2>1 DEF Request
    <2>3. QED
      BY <2>1, <2>2, ServerMoves, ProtocolAssumption DEF Punctual, Disowned
  <1>2. Disowned(c)' /\ UNCHANGED <<EndsItself, trust, backoff>>
    BY ServerMoves DEF Disowned, EndsItself
  <1>3. /\ \A t \in Tokens : session[t] \in Nat /\ session'[t] \in Nat /\ session[t] <= Lifetime
        /\ trust \in Nat /\ waited \in Nat /\ HttpTimeout \in Nat /\ backoff \in Nat
        /\ backoff <= b /\ trust <= SessionTTL /\ waited' = waited /\ Lifetime \in Nat
    BY ServerMoves, ProtocolAssumption DEF Punctual
  <1>4. CASE op[c] = "logout" /\ request[c].method = "KasApi" /\ pc[c] = "api"
    <2>1. EndsItself
      BY <1>4 DEF EndsItself
    <2>2. \A d \in Calls \ {c} : pc[d] \notin Locked
      BY <1>4, OnItsWay DEF Locked, Awaits
    <2>3. \A d \in Calls : InTime(b, d)'
      BY <1>4, <2>2, ServerMoves DEF InTime, Locked, Awaits, Windows
    <2>4. QED
      BY <1>1, <1>2, <1>3, <2>1, <2>3 DEF Punctual, Trusted, SessionTTL, Margin
  <1>5. CASE ~(op[c] = "logout" /\ request[c].method = "KasApi" /\ pc[c] = "api")
    <2>1. ASSUME NEW t \in Tokens, t = token \/ \E d \in Calls : answer[d] # NoMsg /\ answer[d].token = t
          PROVE  session'[t] \in {session[t], Lifetime}
      <3>1. ~(op[c] = "logout" /\ request[c].method = "KasApi" /\ request[c].kas_auth_data = t)
        BY <1>5, <2>1, ServerMoves DEF Punctual, Disowned
      <3>2. QED
        BY <3>1, ServerMoves
    <2>2. Trusted'
      <3>1. ASSUME token \in Tokens, trust > 0, ~EndsItself PROVE session'[token] + HttpTimeout >= trust + Margin
        <4>1. session[token] + HttpTimeout >= trust + Margin
          BY <3>1, ProtocolAssumption DEF Punctual, Trusted
        <4>2. QED
          BY <1>3, <2>1, <3>1, <4>1, MarginFacts
      <3>2. QED
        BY <1>2, <3>1, ServerMoves DEF Trusted
    <2>3. ASSUME NEW d \in Calls PROVE InTime(b, d)'
      <3>1. /\ answer'[d] # NoMsg /\ answer'[d].token # NoToken /\ pc[d] = "login" =>
                 session'[answer'[d].token] + waited >= Lifetime
        <4>1. CASE d = c
          BY <1>3, <4>1, ServerMoves
        <4>2. CASE d # c
          <5>1. answer'[d] = answer[d]
            BY <4>2, ServerMoves
          <5>2. answer[d] # NoMsg /\ answer[d].token # NoToken => answer[d].token \in Tokens
            BY DEF Answer
          <5>3. pc[d] = "login" /\ answer[d] # NoMsg /\ answer[d].token # NoToken =>
                  session[answer[d].token] + waited >= Lifetime
            BY DEF Punctual, InTime
          <5>4. answer[d] # NoMsg /\ answer[d].token # NoToken =>
                  session'[answer[d].token] \in {session[answer[d].token], Lifetime}
            BY <2>1, <5>2
          <5>5. QED
            BY <1>3, <5>1, <5>3, <5>4
        <4>3. QED
          BY <4>1, <4>2
      <3>2. pc[d] = "api_window" => session'[token] + HttpTimeout + b >= 1 + Margin + backoff
        <4>1. SUFFICES ASSUME pc[d] = "api_window"
                       PROVE  session'[token] + HttpTimeout + b >= 1 + Margin + backoff
          OBVIOUS
        <4>2. token \in Tokens /\ session[token] + HttpTimeout + b >= 1 + Margin + backoff
          BY <4>1 DEF HasToken, Punctual, InTime
        <4>3. QED
          BY <1>3, <2>1, <4>2, MarginFacts
      <3>3. pc[d] = "api" /\ request'[d] # NoMsg => session'[token] + HttpTimeout + b + waited >= 1 + Margin
        <4>1. SUFFICES ASSUME pc[d] = "api", request'[d] # NoMsg
                       PROVE  session'[token] + HttpTimeout + b + waited >= 1 + Margin
          OBVIOUS
        <4>2. token \in Tokens /\ session[token] + HttpTimeout + b + waited >= 1 + Margin
          BY <4>1, ServerMoves DEF Ending, Punctual, InTime
        <4>3. QED
          BY <1>3, <2>1, <4>2, MarginFacts
      <3>4. pc[d] = "api" /\ answer'[d] # NoMsg /\ answer'[d].code = "TRUE" /\ op[d] # "logout" =>
              session'[token] + waited >= Lifetime
        <4>1. SUFFICES ASSUME pc[d] = "api", answer'[d] # NoMsg, answer'[d].code = "TRUE", op[d] # "logout"
                       PROVE  session'[token] + waited >= Lifetime
          OBVIOUS
        <4>2. token \in Tokens
          BY <4>1 DEF Ending
        <4>3. CASE d = c
          <5>1. request[c].method = "KasApi" /\ request[c].kas_auth_data = token
            BY <4>1, <4>3, ServerMoves DEF CallInv, Ending
          <5>2. QED
            BY <1>3, <4>1, <4>3, <5>1, ServerMoves
        <4>4. CASE d # c
          BY <1>3, <2>1, <4>1, <4>2, <4>4, ServerMoves DEF Punctual, InTime
        <4>5. QED
          BY <4>3, <4>4
      <3>5. QED
        BY <3>1, <3>2, <3>3, <3>4, ServerMoves DEF InTime
    <2>4. QED
      BY <1>1, <1>2, <1>3, <2>2, <2>3 DEF Punctual, SessionTTL, Margin
  <1>6. QED
    BY <1>4, <1>5

LEMMA PunctualTick ==
  ASSUME LInv, IInv', NEW b \in Nat, Punctual(b), "pause" \notin Env, Tick
  PROVE  Punctual(b)'
  <1> USE DEF LInv, IInv, TypeOK, ProtocolTypeOK, ClientTypeOK, ServerTypeOK
  <1>1. /\ UNCHANGED <<op, request, answer, pc, token>>
        /\ backoff' = Down(backoff) /\ trust' = Down(trust)
        /\ \A t \in Tokens : session[t] \in Nat /\ session'[t] \in Nat /\ session'[t] + 1 >= session[t]
        /\ \A c \in Calls : pc[c] \in Awaits => waited' = waited + 1
        /\ waited \in Nat /\ HttpTimeout \in Nat /\ Lifetime \in Nat /\ trust \in Nat /\ backoff \in Nat
    BY ProtocolAssumption DEF Tick, Down, Awaiting
  <1>2. Trusted'
    BY <1>1, MarginFacts DEF Punctual, Trusted, EndsItself, Down
  <1>3. ASSUME NEW c \in Calls PROVE InTime(b, c)'
    <2>1. pc[c] = "api_window" => backoff > 0 /\ token \in Tokens
      BY DEF Tick, Waits, Locked, Windows, Awaits, HasToken
    <2>2. pc[c] = "api" => token \in Tokens
      BY DEF Ending
    <2>3. answer[c] # NoMsg /\ answer[c].token # NoToken => answer[c].token \in Tokens
      BY DEF Answer
    <2>4. InTime(b, c)
      BY DEF Punctual
    <2>5. QED
      BY <1>1, <2>1, <2>2, <2>3, <2>4, MarginFacts DEF InTime, Down, Awaits
  <1>4. ASSUME NEW c \in Calls PROVE Disowned(c)'
    BY <1>1 DEF Punctual, Disowned
  <1>5. trust' <= SessionTTL /\ backoff' <= b
    BY <1>1, MarginFacts DEF Punctual, Down
  <1>6. QED
    BY <1>2, <1>3, <1>4, <1>5 DEF Punctual, SessionTTL, Margin

(* "The client never races the server's expiry" (auth.go:96-97), if the     *)
(* margin is as long as two timeouts of the HTTP client and the longest     *)
(* wait for a window: then KAS finds every token live, with lost requests,  *)
(* other users of the account and any number of callers.                    *)
THEOREM MarginSuffices ==
  ASSUME NEW b \in Nat, MarginCovers(b)
  PROVE  Spec => []TokenAlive
  <1>1. Init => Punctual(b)
    BY MarginFacts DEF Init, ProtocolInit, ClientInit, ServerInit, Punctual, Trusted, InTime, Disowned
  <1>2. ASSUME LInv, IInv', Punctual(b), [Next]_vars PROVE Punctual(b)'
    <2>1. CASE Elsewhere
      BY <1>2, <2>1 DEF MarginCovers, Elsewhere, OtherClient, Revoke, wireVars, clientVars, Punctual,
         Trusted, EndsItself, InTime, Disowned, SessionTTL, Margin
    <2>2. CASE UNCHANGED vars
      BY <1>2, <2>2 DEF vars, wireVars, clientVars, serverVars, Punctual, Trusted, EndsItself, InTime,
         Disowned, SessionTTL, Margin
    <2>3. QED
      BY <1>2, <2>1, <2>2, PunctualClient, PunctualServer, PunctualTick DEF Next, MarginCovers
  <1>3. LInv /\ Punctual(b) => TokenAlive
    <2>1. SUFFICES ASSUME LInv, Punctual(b), NEW c \in Calls, Open(c), request[c].method = "KasApi"
                   PROVE  session[request[c].kas_auth_data] > 0
      BY DEF TokenAlive
    <2>2. pc[c] = "api" /\ request[c] # NoMsg
      BY <2>1 DEF LInv, IInv, CallInv, Open, Awaits
    <2>3. request[c].kas_auth_data = token /\ token \in Tokens
      BY <2>1, <2>2 DEF LInv, Ending
    <2>4. session[token] + HttpTimeout + b + waited >= 1 + Margin
      BY <2>1, <2>2 DEF Punctual, InTime
    <2>5. session[token] \in Nat /\ waited \in Nat /\ waited <= HttpTimeout
      BY <2>1, <2>3, ProtocolAssumption DEF LInv, IInv, TypeOK, ServerTypeOK, ProtocolTypeOK
    <2>6. QED
      BY <2>3, <2>4, <2>5, MarginFacts, ProtocolAssumption DEF MarginCovers
  <1>4. QED
    BY <1>1, <1>2, <1>3, Invariance, EndingInvariance, PTL DEF Spec
=============================================================================
