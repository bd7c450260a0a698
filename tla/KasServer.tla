------------------------------ MODULE KasServer ------------------------------
(***************************************************************************)
(* KAS as the client relies on it.  The fake server of kasapitest gives the *)
(* answers; the flood window, the session lifetime and the effects of an    *)
(* action are those of the service the client talks to.                     *)
(***************************************************************************)
EXTENDS KasProtocol

VARIABLES
  srvPassword,  \* the password KasAuth accepts
  session,      \* session[t]: ticks until KAS drops token t, 0 when not live
  srvWindow,    \* ticks during which KAS answers flood_protection
  performed     \* performed[c]: how often KAS has carried out the action of c

serverVars == <<srvPassword, session, srvWindow, performed>>

ServerTypeOK ==
  /\ srvPassword \in Passwords
  /\ session \in [Tokens -> 0 .. Lifetime]
  /\ srvWindow \in Nat
  /\ performed \in [Calls -> Nat]

ServerInit ==
  /\ srvPassword = Original
  /\ session = [t \in Tokens |-> 0]
  /\ srvWindow = 0
  /\ performed = [c \in Calls |-> 0]

(* The answer reaches the caller only while it waits for it. *)
Reply(c, a) ==
  /\ request' = [request EXCEPT ![c] = NoMsg]
  /\ answer' = [answer EXCEPT ![c] = IF request[c].open THEN a ELSE NoMsg]
  /\ UNCHANGED waited

(* A request that comes too early is refused before anything is looked at. *)
ServeFlood(c) ==
  /\ request[c] # NoMsg
  /\ srvWindow > 0
  /\ Reply(c, Fault("flood_protection"))
  /\ UNCHANGED serverVars

Asks(c, method) ==
  /\ request[c] # NoMsg
  /\ request[c].method = method
  /\ srvWindow = 0

(* KasAuth: the password opens a session under the token t, which no        *)
(* message and no client refers to.                                         *)
ServeLogin(c, t) ==
  /\ Asks(c, "KasAuth")
  /\ request[c].kas_auth_data = srvPassword
  /\ \A d \in Calls : request[d] # NoMsg => request[d].kas_auth_data # t
  /\ \A d \in Calls : answer[d] # NoMsg => answer[d].token # t
  /\ session' = [session EXCEPT ![t] = Lifetime]
  /\ \/ Reply(c, [code |-> "TRUE", token |-> t, delay |-> 0])
     \/ "garbage" \in Env /\ Reply(c, [code |-> "TRUE", token |-> NoToken, delay |-> 0])
  /\ UNCHANGED <<srvPassword, srvWindow, performed>>

ServeBadLogin(c) ==
  /\ Asks(c, "KasAuth")
  /\ request[c].kas_auth_data # srvPassword
  /\ Reply(c, Fault("kas_auth_data_incorrect"))
  /\ UNCHANGED serverVars

(* KasApi with a live token: the action is carried out, the session starts  *)
(* its lifetime anew (session_update_lifetime) or ends (delete_session),    *)
(* and the next request must wait for the delay the answer reports.         *)
ServeAction(c) ==
  /\ Asks(c, "KasApi")
  /\ LET t == request[c].kas_auth_data IN
     /\ session[t] > 0
     /\ session' = [session EXCEPT ![t] = IF op[c] = "logout" THEN 0 ELSE Lifetime]
  /\ performed' = [performed EXCEPT ![c] = @ + 1]
  /\ srvPassword' = IF op[c] = "newpassword" THEN c ELSE srvPassword
  /\ \E d \in Delays :
       /\ srvWindow' = d
       /\ \E code \in IF "garbage" \in Env THEN MapCodes \cup {"scalar"} ELSE {"TRUE"} :
            Reply(c, [code |-> code, token |-> NoToken,
                      delay |-> IF code = "malformed" THEN 0 ELSE d])

(* KasApi refused: nothing is carried out. *)
ServeRefusal(c) ==
  /\ "fault" \in Env
  /\ Asks(c, "KasApi")
  /\ session[request[c].kas_auth_data] > 0
  /\ Reply(c, Fault("refused"))
  /\ UNCHANGED serverVars

(* KasApi with a token that is not live. *)
ServeDeadToken(c) ==
  /\ Asks(c, "KasApi")
  /\ session[request[c].kas_auth_data] = 0
  /\ \E code \in {"session_expired"} \cup (IF op[c] = "logout" THEN {"unknown_session"} ELSE {}) :
       Reply(c, Fault(code))
  /\ UNCHANGED serverVars

(* KAS ends a session early, or somebody else uses the account. *)
Revoke(t) ==
  /\ "revoke" \in Env
  /\ session[t] > 0
  /\ session' = [session EXCEPT ![t] = 0]
  /\ UNCHANGED <<srvPassword, srvWindow, performed>>

OtherClient ==
  /\ "others" \in Env
  /\ srvWindow = 0
  /\ srvWindow' \in Delays \ {0}
  /\ UNCHANGED <<srvPassword, session, performed>>

(* Everything KAS may do with the request of c; a login takes a token of    *)
(* fresh.                                                                   *)
Serve(c, fresh) ==
  \/ ServeFlood(c)
  \/ \E t \in fresh : ServeLogin(c, t)
  \/ ServeBadLogin(c)
  \/ ServeAction(c)
  \/ ServeRefusal(c)
  \/ ServeDeadToken(c)
=============================================================================
