-------------------------------- MODULE MCKas --------------------------------
(* Instances of KasSystem: what each of two or three calls may ask for.     *)
EXTENDS KasSystem, TLC

AnyCall == [c \in Calls |-> Ops]
ExecOnly == [c \in Calls |-> {"exec"}]
ExecOrLogout == [c \in Calls |-> {"exec", "logout"}]

(* One call may change the password, the others do not. *)
Changer == CHOOSE c \in Calls : TRUE
OneChanger == [c \in Calls |-> IF c = Changer THEN {"newpassword"} ELSE {"exec", "logout"}]

Symmetry == Permutations(Calls) \cup Permutations(Tokens)
=============================================================================
