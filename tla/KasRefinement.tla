---------------------------- MODULE KasRefinement ----------------------------
(***************************************************************************)
(* The client and KAS together implement RemoteCall, for every instance:    *)
(* every step of Spec is a step of one call of RemoteCall, or is invisible. *)
(***************************************************************************)
EXTENDS KasProofs

LEMMA InitRemote == Init => Remote!RemoteInit
  BY DEF Init, ProtocolInit, ClientInit, ServerInit, Remote!RemoteInit, Ask, Status

(* Nothing a caller of Exec can see has changed. *)
LEMMA Invisible ==
  ASSUME \A d \in Calls : Ask(d)' = Ask(d) /\ Status(d)' = Status(d), UNCHANGED performed
  PROVE  UNCHANGED Remote!rvars
  BY DEF Remote!rvars

(* What one call does changes what the caller of that call can see. *)
LEMMA StatusOfOne ==
  ASSUME NEW c \in Calls,
         \A d \in Calls \ {c} : pc'[d] = pc[d] /\ result'[d] = result[d]
  PROVE  [d \in Calls |-> Status(d)]' = [[d \in Calls |-> Status(d)] EXCEPT ![c] = Status(c)']
  <1>1. \A d \in Calls \ {c} : Status(d)' = Status(d)
    BY DEF Status
  <1>2. QED
    BY <1>1

(* A call goes on without returning. *)
Moves(c) ==
  /\ pc[c] \in Places \ {"idle", "done"}
  /\ \E place \in Places \ {"idle", "done"} : pc' = [pc EXCEPT ![c] = place]
  /\ UNCHANGED <<op, result, performed>>

LEMMA MoveStep ==
  ASSUME TypeOK, NEW c \in Calls, Moves(c)
  PROVE  UNCHANGED Remote!rvars
  <1>1. ASSUME NEW d \in Calls PROVE Ask(d)' = Ask(d) /\ Status(d)' = Status(d)
    BY <1>1 DEF Moves, Ask, Status, TypeOK, ClientTypeOK
  <1>2. QED
    BY <1>1, Invisible DEF Moves

(* A call returns: what it returns, its caller may conclude. *)
Returns(c) ==
  /\ pc[c] \in Places \ {"idle", "done"}
  /\ pc' = [pc EXCEPT ![c] = "done"]
  /\ \E r \in Errors \cup {"ok"} : result' = [result EXCEPT ![c] = r]
  /\ UNCHANGED <<op, performed>>

LEMMA ReturnStep ==
  ASSUME IInv, IInv', NEW c \in Calls, Returns(c)
  PROVE  Remote!RemoteNext
  <1> DEFINE status == [d \in Calls |-> Status(d)]
             ask == [d \in Calls |-> Ask(d)]
  <1>1. PICK r \in Errors \cup {"ok"} : result' = [result EXCEPT ![c] = r]
    BY DEF Returns
  <1>2. result'[c] = r /\ pc'[c] = "done" /\ status[c] = "open"
    BY <1>1 DEF Returns, IInv, TypeOK, ClientTypeOK, Status
  <1>3. ask' = ask
    BY DEF Returns, Ask
  <1>4. status' = [status EXCEPT ![c] = Status(c)']
    BY <1>1, StatusOfOne DEF Returns, IInv, TypeOK, ClientTypeOK
  <1>5. Remote!Conclude(c, Status(c)')
    BY <1>2, <1>3, <1>4 DEF Remote!Conclude, Returns
  <1>6. CASE r = "ok"
    <2>1. Status(c)' = "ok"
      BY <1>2, <1>6 DEF Status, CleanErrors, Faults, SessionCodes
    <2>2. performed[c] = 1 \/ ask[c] = "gone"
      <3>1. op[c] = "logout" => ask[c] = "gone"
        BY DEF Ask
      <3>2. op[c] # "logout" => performed[c] = 1
        BY <1>2, <1>6 DEF IInv, CallInv, Returns
      <3>3. QED
        BY <3>1, <3>2
    <2>3. QED
      BY <1>5, <2>1, <2>2 DEF Remote!Succeed, Remote!RemoteNext
  <1>7. CASE r \in CleanErrors
    <2>1. Status(c)' = "refused"
      BY <1>2, <1>7 DEF Status, CleanErrors, Faults, SessionCodes
    <2>2. performed[c] = 0
      BY <1>2, <1>7 DEF IInv, CallInv, Returns
    <2>3. QED
      BY <1>5, <2>1, <2>2 DEF Remote!Refuse, Remote!RemoteNext
  <1>8. CASE r \notin CleanErrors \cup {"ok"}
    <2>1. Status(c)' = "unclear"
      BY <1>2, <1>8 DEF Status
    <2>2. QED
      BY <1>5, <2>1 DEF Remote!LoseTrack, Remote!RemoteNext
  <1>9. QED
    BY <1>6, <1>7, <1>8

LEMMA CallRemote ==
  ASSUME IInv, NEW c \in Calls, Call(c), UNCHANGED serverVars
  PROVE  Remote!RemoteNext
  <1> DEFINE status == [d \in Calls |-> Status(d)]
             ask == [d \in Calls |-> Ask(d)]
  <1>1. PICK o \in Ops : op' = [op EXCEPT ![c] = o]
    BY ClientAssumption DEF Call
  <1>2. pc[c] = "idle" /\ status[c] = "unused" /\ UNCHANGED performed
    BY DEF Call, Status, serverVars
  <1>3. ask' = [ask EXCEPT ![c] = Ask(c)'] /\ Ask(c)' \in {"once", "gone"}
    BY <1>1 DEF Ask, Ops, IInv, TypeOK, ProtocolTypeOK
  <1>4. Status(c)' \in {"open", "refused"}
    BY <1>2 DEF Call, Goto, Status, CleanErrors, IInv, TypeOK, ClientTypeOK
  <1>5. status' = [status EXCEPT ![c] = Status(c)']
    BY StatusOfOne DEF Call, Goto, IInv, TypeOK, ClientTypeOK
  <1>6. Remote!Ask(c)
    BY <1>2, <1>3, <1>4, <1>5 DEF Remote!Ask
  <1>7. QED
    BY <1>6 DEF Remote!RemoteNext

(* The outcomes of Settle are a move or a return. *)
LEMMA SettleRemote ==
  ASSUME IInv, NEW c \in Calls, NEW code \in Errors, NEW handshake \in BOOLEAN,
         Settle(c, code, handshake), pc[c] \in Awaits, UNCHANGED <<op, performed>>
  PROVE  Moves(c) \/ Returns(c)
  <1>1. LogoutResult(code) \in Errors \cup {"ok"}
    BY LogoutResultType
  <1>2. pc[c] \in Places \ {"idle", "done"} /\ TypeOK
    BY DEF Awaits, Places, Locked, IInv
  <1>3. CASE Round(c)
    BY <1>2, <1>3 DEF Round, Moves, Places, Locked
  <1>4. CASE Return(c, "cancelled") \/ Return(c, IF op[c] = "logout" THEN LogoutResult(code) ELSE code)
    BY <1>1, <1>2, <1>4 DEF Return, Goto, Returns, Errors
  <1>5. QED
    BY <1>2, <1>3, <1>4, SettleOutcome

(* A client step after the call was made is a move or a return. *)
LEMMA StepRemote ==
  ASSUME IInv, NEW c \in Calls, Acquire(c) \/ StorePassword(c) \/ Step(c), UNCHANGED serverVars
  PROVE  Moves(c) \/ Returns(c)
  <1> USE DEF serverVars
  <1>a. TypeOK /\ (answer[c] # NoMsg => answer[c] \in Answer)
    BY DEF IInv, TypeOK, ProtocolTypeOK
  <1>b. \A code \in Faults : code \in Errors
    BY DEF Errors, Codes, Faults, SessionCodes, MapCodes
  <1>1. CASE Acquire(c)
    BY <1>1 DEF Acquire, Goto, Moves, Places, Locked
  <1>2. CASE StorePassword(c)
    BY <1>2 DEF StorePassword, Goto, Returns, Places
  <1>3. CASE GiveUp(c)
    BY <1>3 DEF GiveUp, Goto, Returns, Places, Errors
  <1>4. CASE CheckLogout(c)
    BY <1>4 DEF CheckLogout, Return, Goto, Returns, Moves, Places, Locked
  <1>5. CASE EnsureSession(c)
    BY <1>5 DEF EnsureSession, Fail, LogoutResult, SessionCodes, Return, Goto, Returns, Moves, Places, Locked,
       Windows, Errors
  <1>6. CASE AbortWindow(c)
    BY <1>6 DEF AbortWindow, Fail, LogoutResult, SessionCodes, Return, Goto, Returns, Places, Locked, Windows, Errors
  <1>7. CASE SendLogin(c)
    BY <1>7 DEF SendLogin, Send, Goto, Moves, Places, Locked, Windows, Awaits
  <1>8. CASE SendAction(c)
    BY <1>8 DEF SendAction, Send, Goto, Moves, Places, Locked, Windows, Awaits
  <1>9. CASE RecvLogin(c)
    BY <1>9 DEF RecvLogin, Receive, Fail, LogoutResult, SessionCodes, Return, Goto, Returns, Moves, Places, Locked,
       Windows, Awaits, Errors
  <1>10. CASE RecvLoginFault(c)
    BY <1>a, <1>b, <1>10, SettleRemote DEF RecvLoginFault, Receive, Awaits
  <1>11. CASE RecvOk(c)
    BY <1>11 DEF RecvOk, Receive, Return, Goto, Returns, Moves, Places, Locked, Awaits
  <1>12. CASE RecvOdd(c)
    BY <1>12 DEF RecvOdd, Receive, Fail, LogoutResult, SessionCodes, Return, Goto, Returns, Places, Locked, Awaits,
       Errors, Codes, MapCodes
  <1>13. CASE RecvFault(c)
    BY <1>a, <1>b, <1>13, SettleRemote DEF RecvFault, Receive, Awaits
  <1>14. CASE Break(c)
    <2>1. "transport" \in Errors /\ (pc[c] = "login") \in BOOLEAN
      BY DEF Errors
    <2>2. QED
      BY <1>14, <2>1, SettleRemote DEF Break, Awaits
  <1>15. QED
    BY <1>1, <1>2, <1>3, <1>4, <1>5, <1>6, <1>7, <1>8, <1>9, <1>10, <1>11, <1>12, <1>13, <1>14 DEF Step

(* KAS carries out an action only for a call that is open or lost from      *)
(* sight.                                                                   *)
LEMMA ServeRemote ==
  ASSUME IInv, NEW c \in Calls, ServerStep(c)
  PROVE  [Remote!RemoteNext]_(Remote!rvars)
  <1>1. \A d \in Calls : Ask(d)' = Ask(d) /\ Status(d)' = Status(d)
    BY DEF ServerStep, clientVars, Ask, Status
  <1>2. CASE UNCHANGED performed
    BY <1>1, <1>2, Invisible
  <1>3. CASE ServeAction(c)
    <2>1. request[c] # NoMsg /\ performed[c] = 0
      BY <1>3 DEF ServeAction, Asks, IInv, CallInv
    <2>2. performed' = [performed EXCEPT ![c] = 1]
      BY <1>3, <2>1 DEF ServeAction
    <2>3. Status(c) \in {"open", "unclear"}
      BY <2>1 DEF Status, Awaits, CleanErrors, Faults, SessionCodes, IInv, CallInv, TypeOK, ClientTypeOK, ProtocolTypeOK
    <2>4. Remote!CarryOut(c)
      BY <1>1, <2>1, <2>2, <2>3 DEF Remote!CarryOut
    <2>5. QED
      BY <2>4 DEF Remote!RemoteNext
  <1>4. QED
    BY <1>2, <1>3 DEF ServerStep, Serve, ServeFlood, ServeLogin, ServeBadLogin, ServeRefusal, ServeDeadToken, serverVars

LEMMA RemoteStep ==
  ASSUME IInv, IInv', [Next]_vars
  PROVE  [Remote!RemoteNext]_(Remote!rvars)
  <1>1. ASSUME NEW c \in Calls, ClientStep(c) PROVE [Remote!RemoteNext]_(Remote!rvars)
    <2>1. CASE CtxEnd(c)
      BY <1>1, <2>1, Invisible DEF ClientStep, CtxEnd, serverVars, Ask, Status
    <2>2. CASE Call(c)
      BY <1>1, <2>2, CallRemote DEF ClientStep
    <2>3. CASE Acquire(c) \/ StorePassword(c) \/ Step(c)
      BY <1>1, <2>3, StepRemote, MoveStep, ReturnStep DEF ClientStep, IInv
    <2>4. QED
      BY <1>1, <2>1, <2>2, <2>3 DEF ClientStep
  <1>2. CASE Elsewhere
    BY <1>2, Invisible DEF Elsewhere, OtherClient, Revoke, clientVars, Ask, Status
  <1>3. CASE Tick
    BY <1>3, Invisible DEF Tick, Ask, Status
  <1>4. CASE UNCHANGED vars
    BY <1>4, Invisible DEF vars, clientVars, serverVars, Ask, Status
  <1>5. QED
    BY <1>1, <1>2, <1>3, <1>4, ServeRemote DEF Next

(* Exec, Logout and UpdateOwnPassword keep the promise of RemoteCall: a     *)
(* caller that is told "ok" or "refused" is told the truth, and nothing is  *)
(* carried out twice.                                                       *)
THEOREM ImplementsRemoteCall == Spec => RemoteCallSpec
  BY Invariance, InitRemote, RemoteStep, PTL DEF Spec, RemoteCallSpec, Remote!RemoteSpec

(* A rejected handshake ends its call (client.go:288): the same password is *)
(* never presented to KAS twice by one call.                                *)
THEOREM RejectedIsFinal == Spec => BadLoginIsFinal
  <1>1. ASSUME IInv, [Next]_vars, NEW c \in Calls,
               pc[c] = "login", answer[c] # NoMsg, answer[c].code \in SessionCodes, answer'[c] = NoMsg
        PROVE  pc'[c] = "done"
    <2>1. request[c] = NoMsg /\ answer[c] \in Answer /\ pc \in [Calls -> Places] /\ answer \in [Calls -> Answer \cup {NoMsg}]
      BY <1>1 DEF IInv, CallInv, TypeOK, ProtocolTypeOK, ClientTypeOK
    <2>2. CASE RecvLoginFault(c) \/ Break(c)
      <3>1. PICK code \in SessionCodes \cup {"transport"} : Settle(c, code, TRUE)
        BY <1>1, <2>2 DEF RecvLoginFault, Break
      <3>2. RetryOf(code, TRUE) = "none"
        BY <3>1 DEF RetryOf, SessionCodes
      <3>3. Fail(c, code)
        BY <3>1, <3>2 DEF Settle
      <3>4. QED
        BY <2>1, <3>3 DEF Fail, Return, Goto
    <2>3. ASSUME NEW d \in Calls, ClientStep(d), ~RecvLoginFault(c), ~Break(c) PROVE answer'[c] = answer[c]
      <3>1. CASE d # c
        BY <2>1, <2>3, <3>1 DEF ClientStep, Step, Call, Acquire, StorePassword, CtxEnd, GiveUp, CheckLogout,
           EnsureSession, AbortWindow, SendLogin, SendAction, Send, RecvLogin, RecvLoginFault, RecvOk, RecvOdd,
           RecvFault, Receive, Break, wireVars
      <3>2. CASE d = c
        BY <1>1, <2>3, <3>2 DEF ClientStep, Step, Call, Acquire, StorePassword, CtxEnd, GiveUp, CheckLogout,
           EnsureSession, AbortWindow, SendLogin, SendAction, RecvLogin, RecvOk, RecvOdd, RecvFault, Receive,
           SessionCodes, wireVars
      <3>3. QED
        BY <3>1, <3>2
    <2>4. ASSUME NEW d \in Calls, ServerStep(d) PROVE answer'[c] = answer[c]
      BY <2>1, <2>4 DEF ServerStep, Serve, ServeFlood, ServeLogin, ServeBadLogin, ServeAction, ServeRefusal,
         ServeDeadToken, Asks, Reply
    <2>5. CASE Elsewhere \/ Tick \/ UNCHANGED vars
      BY <1>1, <2>5 DEF Elsewhere, Tick, vars, wireVars
    <2>6. QED
      BY <1>1, <2>2, <2>3, <2>4, <2>5 DEF Next
  <1>2. ASSUME IInv, [Next]_vars
        PROVE  [\A c \in Calls :
                  pc[c] = "login" /\ answer[c] # NoMsg /\ answer[c].code \in SessionCodes
                    /\ answer'[c] = NoMsg => pc'[c] = "done"]_vars
    BY <1>1, <1>2
  <1>3. QED
    BY <1>2, Invariance, PTL DEF Spec, BadLoginIsFinal
=============================================================================
