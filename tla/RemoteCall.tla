------------------------------ MODULE RemoteCall ------------------------------
(***************************************************************************)
(* What Exec and Logout promise their caller, without turns, sessions,      *)
(* windows or retries: an action is carried out at most once; a call that   *)
(* returns ok was carried out, unless it only wanted something gone; a call *)
(* that was refused is never carried out; of an unclear one the caller      *)
(* knows nothing, and KAS may still carry it out after the call returned.   *)
(***************************************************************************)
EXTENDS Naturals

CONSTANTS Calls

VARIABLES
  ask,     \* "once": do it;  "gone": see that it is gone (delete_session)
  status,  \* what the caller knows
  effect   \* how often KAS has carried it out

rvars == <<ask, status, effect>>

Statuses == {"unused", "open", "ok", "refused", "unclear"}

RemoteTypeOK ==
  /\ ask \in [Calls -> {"none", "once", "gone"}]
  /\ status \in [Calls -> Statuses]
  /\ effect \in [Calls -> {0, 1}]

RemoteInit ==
  /\ ask = [c \in Calls |-> "none"]
  /\ status = [c \in Calls |-> "unused"]
  /\ effect = [c \in Calls |-> 0]

(* The caller asks; a call whose context has ended is refused at once. *)
Ask(c) ==
  /\ status[c] = "unused"
  /\ \E a \in {"once", "gone"} : ask' = [ask EXCEPT ![c] = a]
  /\ \E s \in {"open", "refused"} : status' = [status EXCEPT ![c] = s]
  /\ UNCHANGED effect

CarryOut(c) ==
  /\ status[c] \in {"open", "unclear"}
  /\ effect[c] = 0
  /\ effect' = [effect EXCEPT ![c] = 1]
  /\ UNCHANGED <<ask, status>>

Conclude(c, s) ==
  /\ status[c] = "open"
  /\ status' = [status EXCEPT ![c] = s]
  /\ UNCHANGED <<ask, effect>>

Succeed(c) == (effect[c] = 1 \/ ask[c] = "gone") /\ Conclude(c, "ok")
Refuse(c) == effect[c] = 0 /\ Conclude(c, "refused")
LoseTrack(c) == Conclude(c, "unclear")

RemoteNext ==
  \E c \in Calls : Ask(c) \/ CarryOut(c) \/ Succeed(c) \/ Refuse(c) \/ LoseTrack(c)

RemoteSpec == RemoteInit /\ [][RemoteNext]_rvars
=============================================================================
