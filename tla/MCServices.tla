----------------------------- MODULE MCServices -----------------------------
(* Instances of Services: the commands two clients get, for each type.      *)
EXTENDS Services, TLC

AnyValue == CHOOSE v \in Values : TRUE

(* What a setting may be set to. *)
Choices(t, f) ==
  {AnyValue}
    \cup (IF f \in t.omits \cup t.defaults \cup t.resets THEN {Empty} ELSE {})
    \cup (IF f \in t.checks THEN {Bad} ELSE {})

(* One of the settings of a request that are treated alike. *)
Alike(t, f, g) ==
  \A S \in {t.checks, t.omits, t.defaults, t.secrets, t.resets} : f \in S <=> g \in S

Samples(t, n) ==
  {CHOOSE g \in t.plan[n].carries : Alike(t, f, g) : f \in t.plan[n].carries}

(* A flag of one request of any value, or flags of a request and the next,  *)
(* beside those every update has.                                           *)
Flags(t) ==
  LET asked == [f \in t.asks |-> AnyValue]
      one(n) == UNION {{f :> v : v \in Choices(t, f)} : f \in Samples(t, n)}
  IN UNION {{g @@ asked : g \in one(n)} : n \in DOMAIN t.plan}
       \cup UNION {{g @@ h : g \in one(n), h \in one(n + 1)} : n \in 1 .. Len(t.plan) - 1}

(* A creation gives part of the key, or what the service checks. *)
Attributes(t) ==
  IF t.key # {}
    THEN [t.key \cap {"data", "aux", "address"} -> {AnyValue, Default}]
    ELSE {<<>>} \cup {f :> Bad : f \in t.checks}

On(verb, id, givens) == {[verb |-> verb, id |-> id, given |-> g] : g \in givens}

Commands(t) ==
  On("get", First, {<<>>}) \cup On("update", First, Flags(t))
    \cup (IF t.asks = {} THEN On("update", First, {<<>>}) ELSE {})
    \cup (IF t.deletable THEN On("delete", First, {<<>>}) ELSE {})
    \cup (IF t.created # "none" THEN On("create", NoId, Attributes(t)) ELSE {})

AllTypes == [k \in DOMAIN Resource |-> Commands(Resource[k])]
Only(kinds) == [k \in kinds |-> Commands(Resource[k])]
MailOnly == Only({"mailaccounts"})

(* Two flags that are treated alike, each in a command of its own. *)
Overlap ==
  [dnsrecords |-> On("update", First, {f :> AnyValue : f \in {"name", "data"}})]

Symmetry == Permutations(Procs) \cup Permutations(Ids \ {First})
=============================================================================
