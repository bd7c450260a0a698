------------------------------ MODULE MCConfig ------------------------------
(* Instances of ConfigFile: the command lines some runs of kascli get.      *)
EXTENDS ConfigFile, TLC

Set(name, given, current) ==
  [kind |-> "set", name |-> name, given |-> given, current |-> current]

Look == [kind |-> "look"]
OnName(kind) == [kind: {kind}, name: Names]

AnyValue == CHOOSE v \in Values : TRUE
SetField(f) == {Set(n, f :> AnyValue, FALSE) : n \in Names}

(* Every kind of command on every name. *)
AllKinds ==
  SetField("login") \cup SetField("password")
    \cup {Set(n, ("login" :> AnyValue) @@ ("password" :> Unset), TRUE) : n \in Names}
    \cup OnName("use") \cup OnName("delete") \cup {Look}

(* One command of each kind on one name, and a look. *)
OneName == CHOOSE n \in Names : TRUE
OnOneName ==
  {k \in SetField("login") \cup OnName("use") \cup OnName("delete") : k.name = OneName}
    \cup {Look}

Symmetry == Permutations(Procs)
=============================================================================
