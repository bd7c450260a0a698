----------------------------- MODULE KasProtocol -----------------------------
(***************************************************************************)
(* What the client (client.go, auth.go, flood.go, soap.go) and KAS exchange: *)
(* one HTTP request per soapCall, one answer per request.  Time is counted  *)
(* in ticks and every deadline is a countdown.                              *)
(***************************************************************************)
EXTENDS Naturals, FiniteSets

CONSTANTS
  Calls,        \* the calls made on one Client, each by a goroutine of its own
  Tokens,       \* session tokens (a token nobody refers to may be issued again)
  NoToken,      \* c.token == ""
  Original,     \* the password the account and the client start with
  NoMsg,        \* no request, no answer
  Delays,       \* the KasFloodDelay values KAS reports, 0 for "none reported"
  Lifetime,     \* cfg.SessionLifetime after New clamped it
  HttpTimeout,  \* http.Client.Timeout: how long an answer is waited for
  Env           \* what may go wrong around the client, a subset of Trouble

(* "cancel": contexts end; "loss": requests or answers are lost; "revoke":  *)
(* KAS ends sessions by itself; "others": somebody else uses the account;   *)
(* "fault": KAS refuses an action; "garbage": an answer says TRUE nowhere;  *)
(* "otp": the PIN callback fails; "pause": the program stands still between *)
(* two lines for longer than a tick.                                        *)
Trouble == {"cancel", "loss", "revoke", "others", "fault", "garbage", "otp", "pause"}

ASSUME ProtocolAssumption ==
  /\ Delays \subseteq Nat
  /\ Lifetime \in Nat \ {0}
  /\ HttpTimeout \in Nat \ {0}
  /\ Env \subseteq Trouble
  /\ NoToken \notin Tokens
  /\ Original \notin Calls

VARIABLES
  op,       \* op[c]: what call c asks for
  request,  \* request[c]: the request of c that KAS has not served yet
  answer,   \* answer[c]: the answer on its way back to c
  waited    \* how long the client has been waiting for the current answer

wireVars == <<request, answer, waited>>

(* "exec" is any action, "logout" is delete_session, "newpassword" is       *)
(* UpdateOwnPassword.  A password is named by the call that introduces it.  *)
Ops == {"exec", "logout", "newpassword"}
Passwords == Calls \cup {Original}

(* kas_auth_data is the password of a KasAuth request, the token of a       *)
(* KasApi request; open says that the caller still waits for the answer.    *)
Request == [method: {"KasAuth"}, kas_auth_data: Passwords, open: BOOLEAN]
             \cup [method: {"KasApi"}, kas_auth_data: Tokens, open: BOOLEAN]

(* The first three arrive with a decoded map that has a KasFloodDelay or    *)
(* falls back to the default; "scalar" is an answer that is no map.         *)
MapCodes == {"TRUE", "FALSE", "malformed"}
SessionCodes == {"kas_auth_data_incorrect", "session_expired"}
Faults == SessionCodes \cup {"flood_protection", "unknown_session", "refused"}
Codes == MapCodes \cup {"scalar"} \cup Faults

Answer == [code: Codes, token: Tokens \cup {NoToken}, delay: Delays \cup {0}]

ASSUME MessageAssumption == NoMsg \notin Request \cup Answer

Fault(code) == [code |-> code, token |-> NoToken, delay |-> 0]

Open(c) == request[c] # NoMsg /\ request[c].open

ProtocolTypeOK ==
  /\ op \in [Calls -> Ops \cup {"none"}]
  /\ request \in [Calls -> Request \cup {NoMsg}]
  /\ answer \in [Calls -> Answer \cup {NoMsg}]
  /\ waited \in 0 .. HttpTimeout

ProtocolInit ==
  /\ op = [c \in Calls |-> "none"]
  /\ request = [c \in Calls |-> NoMsg]
  /\ answer = [c \in Calls |-> NoMsg]
  /\ waited = 0
=============================================================================
