------------------------------ MODULE KasSystem ------------------------------
(***************************************************************************)
(* One Client and KAS: calls made concurrently, requests and answers in     *)
(* flight, and time passing for both sides.                                 *)
(***************************************************************************)
EXTENDS KasClient, KasServer

vars == <<op, wireVars, clientVars, serverVars>>

TypeOK == ProtocolTypeOK /\ ClientTypeOK /\ ServerTypeOK

Init == ProtocolInit /\ ClientInit /\ ServerInit

Down(n) == IF n = 0 THEN 0 ELSE n - 1

Awaiting == \E c \in Calls : pc[c] \in Awaits

(* The call that has the turn waits for time, or for KAS and the network. *)
Waits(c) ==
  /\ ~ctxDone[c]
  /\ pc[c] \in Awaits \/ (pc[c] \in Windows /\ backoff > 0)

(* A tick passes on both sides.  No answer is waited for longer than the    *)
(* timeout of the HTTP client, and without "pause" the code between two     *)
(* waits takes no time.                                                     *)
Tick ==
  /\ "pause" \in Env \/ \A c \in Calls : pc[c] \in Locked => Waits(c)
  /\ Awaiting => waited < HttpTimeout
  /\ waited' = IF Awaiting THEN waited + 1 ELSE 0
  /\ trust' = Down(trust)
  /\ backoff' = Down(backoff)
  /\ srvWindow' = Down(srvWindow)
  /\ session' = [t \in Tokens |-> Down(session[t])]
  /\ UNCHANGED <<op, request, answer, sem, token, password, pc, ctxDone, reauthed,
                 flood, result, srvPassword, performed>>

ClientStep(c) ==
  /\ Call(c) \/ Acquire(c) \/ StorePassword(c) \/ CtxEnd(c) \/ Step(c)
  /\ UNCHANGED serverVars

ServerStep(c) ==
  /\ Serve(c, Tokens \ {token})
  /\ UNCHANGED <<op, clientVars>>

Elsewhere ==
  /\ OtherClient \/ \E t \in Tokens : Revoke(t)
  /\ UNCHANGED <<op, wireVars, clientVars>>

Next ==
  \/ \E c \in Calls : ClientStep(c) \/ ServerStep(c)
  \/ Elsewhere
  \/ Tick

Spec == Init /\ [][Next]_vars

(* The goroutines run, KAS answers a request somebody waits for or the HTTP *)
(* client gives up on it, and time passes.  Callers, contexts and trouble   *)
(* owe nothing.  Weak fairness is enough for the turn: the calls are        *)
(* finitely many and a blocked sender of c.sem stays in line.               *)
Fairness ==
  /\ \A c \in Calls :
       /\ WF_vars((Acquire(c) \/ StorePassword(c) \/ Step(c)) /\ UNCHANGED serverVars)
       /\ WF_vars(Open(c) /\ ServerStep(c))
  /\ WF_vars(Tick)

FairSpec == Spec /\ Fairness

-----------------------------------------------------------------------------
(* Properties *)

(* The turn belongs to the one call whose goroutine is between lock and     *)
(* unlock (client.go:206-218).                                              *)
TurnHolder == \A c \in Calls : pc[c] \in Locked <=> sem = c

(* "requests are serialized" (client.go:82): KAS never has two requests     *)
(* whose callers both wait for the answer.                                  *)
OneOpenRequest == \A c, d \in Calls : Open(c) /\ Open(d) => c = d

(* The transparent retries of Exec repeat only what KAS did not do: no      *)
(* action is carried out twice, whatever is lost, late or refused.          *)
AtMostOnce == \A c \in Calls : performed[c] <= 1

(* Exec and UpdateOwnPassword report success only for an action that was    *)
(* carried out.                                                             *)
OkMeansPerformed ==
  \A c \in Calls : result[c] = "ok" /\ op[c] # "logout" => performed[c] = 1

(* The errors that say KAS did nothing, and never will: the call ended in   *)
(* the queue or a flood wait, or KAS refused it with a fault.               *)
CleanErrors == {"cancelled", "otp", "no_token"} \cup Faults

CleanFailure ==
  \A c \in Calls : result[c] \in CleanErrors => performed[c] = 0 /\ request[c] = NoMsg

(* Why these hold.  A call whose request or answer is under way is waiting  *)
(* for it, or has given it up and returned; nothing has been carried out    *)
(* for it before its KasApi request was served; a fault says that nothing   *)
(* was.                                                                     *)
CallInv(c) ==
  /\ performed[c] \in {0, 1}
  /\ answer[c] # NoMsg => request[c] = NoMsg /\ pc[c] \in Awaits
  /\ request[c] # NoMsg =>
       /\ performed[c] = 0
       /\ IF request[c].open THEN pc[c] \in Awaits ELSE pc[c] = "done"
  /\ pc[c] = "login" /\ request[c] # NoMsg => request[c].method = "KasAuth"
  /\ pc[c] = "api" /\ request[c] # NoMsg => request[c].method = "KasApi"
  /\ pc[c] \notin {"api", "store", "done"} => performed[c] = 0
  /\ pc[c] = "api" /\ answer[c] # NoMsg =>
       performed[c] = IF answer[c].code \in Faults THEN 0 ELSE 1
  /\ pc[c] = "store" => performed[c] = 1
  /\ pc[c] = "logout" => op[c] = "logout"
  /\ pc[c] # "done" <=> result[c] = "none"
  /\ result[c] = "ok" => request[c] = NoMsg /\ (op[c] # "logout" => performed[c] = 1)
  /\ op[c] = "none" <=> pc[c] = "idle"
  /\ result[c] \in CleanErrors => performed[c] = 0 /\ request[c] = NoMsg

HasToken == \A c \in Calls : pc[c] = "api_window" => token # NoToken

(* The inductive invariant. *)
IInv == TypeOK /\ TurnHolder /\ HasToken /\ \A c \in Calls : CallInv(c)

(* The refinement: what a caller knows is what its call returned. *)
Ask(c) == CASE op[c] = "none" -> "none" [] op[c] = "logout" -> "gone" [] OTHER -> "once"

Status(c) ==
  CASE pc[c] = "idle" -> "unused"
    [] pc[c] # "idle" /\ pc[c] # "done" -> "open"
    [] pc[c] = "done" /\ result[c] = "ok" -> "ok"
    [] pc[c] = "done" /\ result[c] \in CleanErrors -> "refused"
    [] OTHER -> "unclear"

Remote == INSTANCE RemoteCall WITH
  ask <- [c \in Calls |-> Ask(c)],
  status <- [c \in Calls |-> Status(c)],
  effect <- performed

(* Exec, Logout and UpdateOwnPassword keep the promise of RemoteCall: at    *)
(* most once, ok only when done, refused only when never done.              *)
RemoteCallSpec == Remote!RemoteSpec

(* "A handshake KAS rejects" is final (client.go:288): the same password is *)
(* not presented again by the same call.                                    *)
BadLoginIsFinal ==
  [][\A c \in Calls :
       pc[c] = "login" /\ answer[c] # NoMsg /\ answer[c].code \in SessionCodes
         /\ answer'[c] = NoMsg => pc'[c] = "done"]_vars

(* "Logout ends the open KAS session (delete_session)" (auth.go:122): when  *)
(* it reports success for an answer of KAS, the session is over.            *)
LogoutEnds ==
  [][\A c \in Calls :
       /\ op[c] = "logout" /\ pc[c] = "api" /\ token \in Tokens
       /\ pc'[c] = "done" /\ result'[c] = "ok"
       => session[token] = 0]_vars

(* A client that reads every answer and has the account for itself never    *)
(* runs into flood protection (flood.go:11-13).                             *)
NeverFlooded ==
  \A c \in Calls : answer[c] # NoMsg => answer[c].code # "flood_protection"

(* "Expired sessions trigger one transparent re-authentication"             *)
(* (client.go:224-225): on a healthy network no session that runs out, and  *)
(* no window, ever surfaces as the error of a call.                         *)
ExpiryNeverSurfaces ==
  \A c \in Calls : result[c] \notin SessionCodes \cup {"flood_protection"}

(* "the client never races the server's expiry" (auth.go:97): while a       *)
(* caller waits for KasApi to read its request, the token in it is live.    *)
TokenAlive ==
  \A c \in Calls :
    Open(c) /\ request[c].method = "KasApi" => session[request[c].kas_auth_data] > 0

(* "The client logs in with the new password from then on"                  *)
(* (account.go:514-515): once no UpdateOwnPassword is under way and none    *)
(* has ended with an unclear outcome, the client has the password KAS has.  *)
PasswordSettled ==
  (\A c \in Calls : op[c] = "newpassword" =>
      pc[c] = "queued" \/ result[c] = "ok" \/ result[c] \in CleanErrors)
    => password = srvPassword

(* How far each line of a call is from its end. *)
Distance(place) ==
  CASE place = "idle" -> 9 [] place = "queued" -> 8 [] place = "logout" -> 7
    [] place = "session" -> 6 [] place = "login_window" -> 5 [] place = "login" -> 4
    [] place = "api_window" -> 3 [] place = "api" -> 2 [] place = "store" -> 1
    [] place = "done" -> 0

(* The retries a call has left. *)
RetriesLeft(c) == MaxFloodRetries - flood[c] + IF reauthed[c] THEN 0 ELSE 1

Left(c) == 10 * RetriesLeft(c) + Distance(pc[c])

(* "retried with bounded backoff" (client.go:225): whatever KAS answers and *)
(* whatever is lost, every step of a call to another line uses up something *)
(* that nothing gives back, so a call takes a bounded number of steps.      *)
CallsWearOut ==
  [][\A c \in Calls : Left(c)' <= Left(c) /\ (pc'[c] # pc[c] => Left(c)' < Left(c))]_vars

(* Every call returns, whatever KAS answers and however often it refuses:   *)
(* the retries are bounded, the turn comes free, the wait ends.             *)
EveryCallReturns == \A c \in Calls : pc[c] = "queued" ~> pc[c] = "done"
=============================================================================
