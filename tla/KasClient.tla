------------------------------ MODULE KasClient ------------------------------
(***************************************************************************)
(* The Client of client.go with auth.go and flood.go: one turn (c.sem), one *)
(* session, one flood window, and Exec, Logout and UpdateOwnPassword called *)
(* from several goroutines.  notBefore and tokenExp are the countdowns      *)
(* backoff and trust.                                                       *)
(***************************************************************************)
EXTENDS KasProtocol

CONSTANTS
  NoCall,           \* the turn is free
  Minute,           \* the margin of a long session
  DefaultDelay,     \* the window after a response that reports no delay
  BackoffUnit,      \* what one flood retry adds to the wait
  MaxFloodRetries,
  Offer             \* Offer[c]: what call c may ask for

ASSUME ClientAssumption ==
  /\ NoCall \notin Calls
  /\ Minute \in Nat \ {0}
  /\ DefaultDelay \in Nat \ {0}
  /\ BackoffUnit \in Nat \ {0}
  /\ MaxFloodRetries \in Nat
  /\ Offer \in [Calls -> SUBSET Ops]

VARIABLES
  sem,       \* the call that has the turn
  token,     \* the session token
  trust,     \* ticks until tokenExp
  backoff,   \* ticks until notBefore
  password,  \* cfg.Password
  pc,        \* where each call is
  ctxDone,   \* whose context has ended
  reauthed,  \* retries.reauthed
  flood,     \* retries.flood
  result     \* what each call returned

clientVars == <<sem, token, trust, backoff, password, pc, ctxDone, reauthed, flood, result>>

(* The lines of code a call can be at: not called, waiting in lock, at the  *)
(* check of Logout, at ensureSession, waiting for the flood window before a *)
(* KasAuth or a KasApi request, waiting for its answer, waiting in          *)
(* setPassword, returned.                                                   *)
Windows == {"login_window", "api_window"}
Awaits == {"login", "api"}
Locked == {"logout", "session"} \cup Windows \cup Awaits
Places == {"idle", "queued", "store", "done"} \cup Locked

(* What a call returns besides "ok" and the codes of KAS. *)
Errors == {"cancelled", "transport", "otp", "no_token"} \cup (Codes \ {"TRUE"})

ClientTypeOK ==
  /\ sem \in Calls \cup {NoCall}
  /\ token \in Tokens \cup {NoToken}
  /\ trust \in 0 .. Lifetime
  /\ backoff \in Nat
  /\ password \in Passwords
  /\ pc \in [Calls -> Places]
  /\ ctxDone \in [Calls -> BOOLEAN]
  /\ reauthed \in [Calls -> BOOLEAN]
  /\ flood \in [Calls -> 0 .. MaxFloodRetries]
  /\ result \in [Calls -> Errors \cup {"none", "ok"}]

ClientInit ==
  /\ sem = NoCall
  /\ token = NoToken
  /\ trust = 0
  /\ backoff = 0
  /\ password = Original
  /\ pc = [c \in Calls |-> "idle"]
  /\ ctxDone = [c \in Calls |-> FALSE]
  /\ reauthed = [c \in Calls |-> FALSE]
  /\ flood = [c \in Calls |-> 0]
  /\ result = [c \in Calls |-> "none"]

-----------------------------------------------------------------------------
(* Pure parts of the code *)

Margin == IF Lifetime <= 2 * Minute THEN Lifetime \div 2 ELSE Minute

SessionTTL == Lifetime - Margin

(* Mutant: the reported delay is ignored. *)
FloodDelayDefault(a) == DefaultDelay

FloodDelay(a) == IF a.delay = 0 THEN DefaultDelay ELSE a.delay

(* Mutants: a broken connection is retried; a rejected handshake is. *)
RetryOfTransport(code, handshake) ==
  CASE code = "flood_protection" -> "flood"
    [] code \in SessionCodes \cup {"transport"} /\ ~handshake -> "session"
    [] OTHER -> "none"

RetryOfHandshake(code, handshake) ==
  CASE code = "flood_protection" -> "flood"
    [] code \in SessionCodes -> "session"
    [] OTHER -> "none"

RetryOfFlood(code, handshake) ==
  IF code = "flood_protection" THEN "flood" ELSE "none"

RetryOf(code, handshake) ==
  CASE code = "flood_protection" -> "flood"
    [] code \in SessionCodes /\ ~handshake -> "session"
    [] OTHER -> "none"

(* Mutant: Logout takes every fault for a session that is ended. *)
LogoutResultAny(r) == IF r \in Faults THEN "ok" ELSE r

(* Logout takes a session KAS does not know for a session that is ended. *)
LogoutResult(r) == IF r \in SessionCodes \cup {"unknown_session"} THEN "ok" ELSE r

-----------------------------------------------------------------------------
(* Steps inside a handler *)

Goto(c, place) == pc' = [pc EXCEPT ![c] = place]

(* The deferred unlock, and the value the call returns. *)
Return(c, r) ==
  /\ sem' = NoCall
  /\ Goto(c, "done")
  /\ result' = [result EXCEPT ![c] = r]

(* Mutant: an ended session is a success for every call. *)
FailAsLogout(c, r) ==
  /\ Return(c, LogoutResult(r))
  /\ token' = IF op[c] = "logout" THEN NoToken ELSE token

(* execLocked failed for good. *)
Fail(c, r) ==
  IF op[c] = "logout"
    THEN Return(c, LogoutResult(r)) /\ token' = NoToken
    ELSE Return(c, r) /\ UNCHANGED token

(* The loop of Exec goes round unless the context has ended. *)
TryAgain(c) ==
  IF ctxDone[c]
    THEN Return(c, "cancelled")
    ELSE Goto(c, "session") /\ UNCHANGED <<sem, result>>

(* Mutant: the retry is not remembered. *)
RetrySessionForever(c) ==
  /\ token' = NoToken
  /\ TryAgain(c)
  /\ UNCHANGED <<reauthed, flood, backoff>>

RetrySession(c) ==
  /\ ~reauthed[c]
  /\ reauthed' = [reauthed EXCEPT ![c] = TRUE]
  /\ token' = NoToken
  /\ TryAgain(c)
  /\ UNCHANGED <<flood, backoff>>

RetryFlood(c) ==
  /\ flood[c] < MaxFloodRetries
  /\ flood' = [flood EXCEPT ![c] = @ + 1]
  /\ backoff' = (flood[c] + 1) * BackoffUnit
  /\ TryAgain(c)
  /\ UNCHANGED <<reauthed, token>>

(* What Exec or Logout does with an error of execLocked; Logout never       *)
(* retries.                                                                 *)
Settle(c, code, handshake) ==
  LET kind == IF op[c] = "logout" THEN "none" ELSE RetryOf(code, handshake) IN
  \/ kind = "session" /\ RetrySession(c)
  \/ kind = "flood" /\ RetryFlood(c)
  \/ /\ \/ kind = "none"
        \/ kind = "session" /\ reauthed[c]
        \/ kind = "flood" /\ flood[c] = MaxFloodRetries
     /\ Fail(c, code)
     /\ UNCHANGED <<reauthed, flood, backoff>>

-----------------------------------------------------------------------------
(* Actions *)

(* A goroutine calls the client; lock looks at the context first. *)
Call(c) ==
  /\ pc[c] = "idle"
  /\ \E o \in Offer[c] : op' = [op EXCEPT ![c] = o]
  /\ IF ctxDone[c]
       THEN Goto(c, "done") /\ result' = [result EXCEPT ![c] = "cancelled"]
       ELSE Goto(c, "queued") /\ UNCHANGED result
  /\ UNCHANGED <<sem, token, trust, backoff, password, ctxDone, reauthed, flood, wireVars>>

(* Mutant: the turn is not waited for. *)
AcquireNoWait(c) ==
  /\ pc[c] = "queued"
  /\ sem' = c
  /\ Goto(c, IF op[c] = "logout" THEN "logout" ELSE "session")
  /\ UNCHANGED <<op, token, trust, backoff, password, ctxDone, reauthed, flood, result, wireVars>>

Acquire(c) ==
  /\ pc[c] = "queued"
  /\ sem = NoCall
  /\ sem' = c
  /\ Goto(c, IF op[c] = "logout" THEN "logout" ELSE "session")
  /\ UNCHANGED <<op, token, trust, backoff, password, ctxDone, reauthed, flood, result, wireVars>>

(* Mutant: unlock is deferred before lock succeeded. *)
GiveUpUnlock(c) ==
  /\ pc[c] = "queued"
  /\ ctxDone[c]
  /\ Return(c, "cancelled")
  /\ UNCHANGED <<op, token, trust, backoff, password, ctxDone, reauthed, flood, wireVars>>

GiveUp(c) ==
  /\ pc[c] = "queued"
  /\ ctxDone[c]
  /\ Goto(c, "done")
  /\ result' = [result EXCEPT ![c] = "cancelled"]
  /\ UNCHANGED <<op, sem, token, trust, backoff, password, ctxDone, reauthed, flood, wireVars>>

SessionUsable == token # NoToken /\ trust > 0

CheckLogout(c) ==
  /\ pc[c] = "logout"
  /\ IF SessionUsable
       THEN Goto(c, "session") /\ UNCHANGED <<sem, token, result>>
       ELSE Return(c, "ok") /\ token' = NoToken
  /\ UNCHANGED <<op, trust, backoff, password, ctxDone, reauthed, flood, wireVars>>

(* ensureSessionLocked up to its flood wait: the PIN is asked for before. *)
EnsureSession(c) ==
  /\ pc[c] = "session"
  /\ \/ /\ SessionUsable
        /\ Goto(c, "api_window")
        /\ UNCHANGED <<sem, token, result>>
     \/ /\ ~SessionUsable
        /\ Goto(c, "login_window")
        /\ UNCHANGED <<sem, token, result>>
     \/ /\ ~SessionUsable
        /\ "otp" \in Env
        /\ Fail(c, "otp")
  /\ UNCHANGED <<op, trust, backoff, password, ctxDone, reauthed, flood, wireVars>>

(* The context ends in the flood wait, or before the request leaves: the    *)
(* transport does not send for a context that has ended.                    *)
AbortWindow(c) ==
  /\ pc[c] \in Windows
  /\ ctxDone[c]
  /\ Fail(c, "cancelled")
  /\ UNCHANGED <<op, trust, backoff, password, ctxDone, reauthed, flood, wireVars>>

Send(c, r) ==
  /\ backoff = 0
  /\ ~ctxDone[c]
  /\ request' = [request EXCEPT ![c] = r]
  /\ waited' = 0
  /\ UNCHANGED <<op, answer, sem, token, trust, backoff, password, ctxDone, reauthed, flood, result>>

SendLogin(c) ==
  /\ pc[c] = "login_window"
  /\ Goto(c, "login")
  /\ Send(c, [method |-> "KasAuth", kas_auth_data |-> password, open |-> TRUE])

SendAction(c) ==
  /\ pc[c] = "api_window"
  /\ Goto(c, "api")
  /\ Send(c, [method |-> "KasApi", kas_auth_data |-> token, open |-> TRUE])

Receive(c, place) ==
  /\ pc[c] = place
  /\ answer[c] # NoMsg
  /\ answer' = [answer EXCEPT ![c] = NoMsg]
  /\ waited' = 0
  /\ UNCHANGED <<op, request, password, ctxDone>>

(* KasAuth succeeded: the token is trusted from now on. *)
RecvLogin(c) ==
  /\ Receive(c, "login")
  /\ answer[c].code = "TRUE"
  /\ \/ /\ answer[c].token # NoToken
        /\ token' = answer[c].token
        /\ trust' = SessionTTL
        /\ Goto(c, "api_window")
        /\ UNCHANGED <<sem, result>>
     \/ /\ answer[c].token = NoToken
        /\ Fail(c, "no_token")
        /\ UNCHANGED trust
  /\ UNCHANGED <<backoff, reauthed, flood>>

RecvLoginFault(c) ==
  /\ Receive(c, "login")
  /\ answer[c].code \in Faults
  /\ Settle(c, answer[c].code, TRUE)
  /\ UNCHANGED trust

(* KasApi succeeded. UpdateOwnPassword gives the turn back before it stores *)
(* the new password.                                                        *)
RecvOk(c) ==
  /\ Receive(c, "api")
  /\ answer[c].code = "TRUE"
  /\ backoff' = FloodDelay(answer[c])
  /\ trust' = SessionTTL
  /\ token' = IF op[c] = "logout" THEN NoToken ELSE token
  /\ IF op[c] = "newpassword"
       THEN sem' = NoCall /\ Goto(c, "store") /\ UNCHANGED result
       ELSE Return(c, "ok")
  /\ UNCHANGED <<reauthed, flood>>

(* KasApi answered something that is neither success nor a fault. *)
RecvOdd(c) ==
  /\ Receive(c, "api")
  /\ answer[c].code \in {"FALSE", "malformed", "scalar"}
  /\ backoff' = IF answer[c].code = "scalar" THEN backoff ELSE FloodDelay(answer[c])
  /\ Fail(c, answer[c].code)
  /\ UNCHANGED <<trust, reauthed, flood>>

RecvFault(c) ==
  /\ Receive(c, "api")
  /\ answer[c].code \in Faults
  /\ Settle(c, answer[c].code, FALSE)
  /\ UNCHANGED trust

(* Mutant: a request broken off by its context is reported like a wait.     *)
BreakAsWait(c) ==
  /\ pc[c] \in Awaits
  /\ ctxDone[c] \/ "loss" \in Env
  /\ request' = [request EXCEPT ![c] = IF @ = NoMsg THEN NoMsg ELSE [@ EXCEPT !.open = FALSE]]
  /\ answer' = [answer EXCEPT ![c] = NoMsg]
  /\ waited' = 0
  /\ Settle(c, IF ctxDone[c] THEN "cancelled" ELSE "transport", pc[c] = "login")
  /\ UNCHANGED <<op, trust, password, ctxDone>>

(* The HTTP call fails: the context ended, the connection broke or the      *)
(* timeout passed.  KAS may still serve the request later.                  *)
Break(c) ==
  /\ pc[c] \in Awaits
  /\ ctxDone[c] \/ "loss" \in Env
  /\ request' = [request EXCEPT ![c] = IF @ = NoMsg THEN NoMsg ELSE [@ EXCEPT !.open = FALSE]]
  /\ answer' = [answer EXCEPT ![c] = NoMsg]
  /\ waited' = 0
  /\ Settle(c, "transport", pc[c] = "login")
  /\ UNCHANGED <<op, trust, password, ctxDone>>

(* Mutant: the new password is forgotten. *)
StorePasswordNot(c) ==
  /\ pc[c] = "store"
  /\ Goto(c, "done")
  /\ result' = [result EXCEPT ![c] = "ok"]
  /\ UNCHANGED <<op, sem, token, trust, backoff, password, ctxDone, reauthed, flood, wireVars>>

(* setPassword takes the turn, whatever the context says, and gives it back. *)
StorePassword(c) ==
  /\ pc[c] = "store"
  /\ sem = NoCall
  /\ password' = c
  /\ Goto(c, "done")
  /\ result' = [result EXCEPT ![c] = "ok"]
  /\ UNCHANGED <<op, sem, token, trust, backoff, ctxDone, reauthed, flood, wireVars>>

CtxEnd(c) ==
  /\ "cancel" \in Env
  /\ ~ctxDone[c]
  /\ pc[c] # "done"
  /\ ctxDone' = [ctxDone EXCEPT ![c] = TRUE]
  /\ UNCHANGED <<op, sem, token, trust, backoff, password, pc, reauthed, flood, result, wireVars>>

(* What a call does by itself, once it has been made. *)
Step(c) ==
  \/ GiveUp(c) \/ CheckLogout(c) \/ EnsureSession(c) \/ AbortWindow(c)
  \/ SendLogin(c) \/ SendAction(c)
  \/ RecvLogin(c) \/ RecvLoginFault(c) \/ RecvOk(c) \/ RecvOdd(c) \/ RecvFault(c)
  \/ Break(c)
=============================================================================
