------------------------------ MODULE Services ------------------------------
(* The services of kasapi and the kascli commands built on them: several    *)
(* clients of one account read, create, update and delete objects at KAS.   *)
(* A request is one step: RemoteCall is what Client.Exec makes of it.       *)
EXTENDS Resources, Naturals

CONSTANTS
  Procs,     \* goroutines or runs of kascli, each with one command
  Ids,       \* what KAS names objects by; it never uses one again
  First,     \* the id of the object there is at the start
  NoId,      \* no id
  Absent,    \* no object of that id, not yet or no more
  Values,    \* what settings are set to
  Default,   \* what they are when nobody has set them
  Empty,     \* the empty value
  Bad,       \* a value the input checks of the service refuse
  NoObject,  \* nothing read yet
  NoRequest, \* no request on its way
  Offered,   \* the commands there are for each resource type
  Env        \* what may go wrong, a subset of Trouble

Trouble == {"fault", "prerequisite", "loss"}

ASSUME ServicesAssumption ==
  /\ First \in Ids
  /\ NoId \notin Ids
  /\ DOMAIN Offered \subseteq DOMAIN Resource
  /\ \A k \in DOMAIN Offered : \A c \in Offered[k] :
       /\ c.verb \in {"get", "create", "update", "delete"}
       /\ IF c.verb = "create" THEN c.id = NoId ELSE c.id \in Ids
  /\ Default \notin Values \cup {Empty, Bad}
  /\ Empty \notin Values \cup {Bad}
  /\ Bad \notin Values
  /\ Env \subseteq Trouble

VARIABLES
  objects,   \* what KAS has
  used,      \* the ids KAS has given away
  late,      \* requests whose callers did not get an answer
  kind,      \* the resource type everything is about
  command, pc, step, held,
  result,    \* what a command returned
  returned,  \* the id a creation returned
  (* what really happened, for the properties *)
  made,      \* the object KAS created for a command
  effects,   \* the requests of an update KAS carried out
  absent,    \* whether the object was absent at some time
  touched    \* whether others wrote the object since it was read

kasVars == <<objects, used, late>>
clientVars == <<command, pc, step, held, result, returned>>
history == <<made, effects, absent, touched>>
svars == <<kasVars, kind, clientVars, history>>

type == Resource[kind]

Idle == [verb |-> "none", id |-> NoId, given |-> <<>>]

(* The requests an update sends, by their place in the plan of the type,    *)
(* and where the goroutine is before one.                                   *)
Steps(given) == {j \in DOMAIN type.plan : type.plan[j].carries \cap DOMAIN given # {}}
Later(given, n) == {j \in Steps(given) : j > n}
Place(j) == IF type.plan[j].reads THEN "read" ELSE "write"

Places == {"idle", "read", "write", "add", "lookup", "remove", "done"}
Results == {"none", "ok", "notfound", "invalid", "fault", "unclear", "created"}
Stored == Values \cup {Default, Empty}

(* What a command gives are settings of the type, refused values only where *)
(* the service checks, and in an update what cobra requires.                *)
ASSUME GivenAssumption ==
  \A k \in DOMAIN Offered : \A c \in Offered[k] :
    /\ DOMAIN c.given \subseteq Settings(Resource[k])
    /\ \A f \in DOMAIN c.given :
         c.given[f] \in Stored \cup (IF f \in Resource[k].checks THEN {Bad} ELSE {})
    /\ c.verb = "update" => Resource[k].asks \subseteq DOMAIN c.given

ServicesInit ==
  /\ kind \in DOMAIN Offered
  /\ objects = [i \in Ids |-> IF i = First THEN [f \in Settings(type) |-> Default] ELSE Absent]
  /\ used = {First}
  /\ late = [p \in Procs |-> NoRequest]
  /\ command = [p \in Procs |-> Idle]
  /\ pc = [p \in Procs |-> "idle"]
  /\ step = [p \in Procs |-> 1]
  /\ held = [p \in Procs |-> NoObject]
  /\ result = [p \in Procs |-> "none"]
  /\ returned = [p \in Procs |-> NoId]
  /\ made = [p \in Procs |-> NoId]
  /\ effects = [p \in Procs |-> {}]
  /\ absent = [p \in Procs |-> FALSE]
  /\ touched = [p \in Procs |-> FALSE]

-----------------------------------------------------------------------------
(* The classes of answers: code is "TRUE", a fault, or "lost".              *)

(* Mutant: a missing prerequisite is taken for a missing object. *)
NotFoundCodesAll == {"not_found", "prerequisite"}

NotFoundCodes == {"not_found"}

ErrorOf(code) == IF code = "lost" THEN "unclear" ELSE "fault"

GetOneResult(code, ids) ==
  CASE code = "TRUE" -> IF ids = {} THEN "notfound" ELSE "ok"
    [] code \in NotFoundCodes \cup {"empty_list"} -> "notfound"
    [] OTHER -> ErrorOf(code)

UpdateResult(code) ==
  CASE code \in {"TRUE", "nothing_to_do"} -> "ok"
    [] code \in NotFoundCodes -> "notfound"
    [] OTHER -> ErrorOf(code)

RemoveResult(code) ==
  CASE code = "TRUE" -> "ok"
    [] code \in NotFoundCodes -> "notfound"
    [] OTHER -> ErrorOf(code)

-----------------------------------------------------------------------------
(* KAS *)

Exists(i) == objects[i] # Absent

New(given) ==
  [f \in Settings(type) |->
     IF f \in DOMAIN given /\ ~(f \in type.defaults \cup type.omits /\ given[f] = Empty)
       THEN given[f] ELSE Default]

Overwritten(i, sent) ==
  [f \in DOMAIN objects[i] |-> IF f \in DOMAIN sent THEN sent[f] ELSE objects[i][f]]

(* No two objects have the same key. *)
Free(object, i) ==
  type.key # {} =>
    \A j \in Ids \ {i} : Exists(j) => \E f \in type.key : objects[j][f] # object[f]

(* Faults about the request and its surroundings, not about the object. *)
Faults ==
  (IF "fault" \in Env THEN {"other"} ELSE {})
    \cup (IF "prerequisite" \in Env THEN {"prerequisite"} ELSE {})

(* What is true of the objects of others once KAS has changed one. *)
Seen ==
  absent' = [q \in Procs |-> absent[q] \/ (command[q].id # NoId /\ objects'[command[q].id] = Absent)]

Touch(p, i) == touched' = [q \in Procs |-> touched[q] \/ (q # p /\ command[q].id = i)]

CarriedOut(p) == effects' = [effects EXCEPT ![p] = @ \cup {step[p]}]

KasUpdate(p, i, sent) ==
  /\ Exists(i)
  /\ Free(Overwritten(i, sent), i)
  /\ objects' = [objects EXCEPT ![i] = Overwritten(i, sent)]
  /\ CarriedOut(p)
  /\ Touch(p, i)
  /\ Seen
  /\ UNCHANGED <<used, made>>

KasAdd(p, given) ==
  \E i \in Ids \ used :
    /\ Free(New(given), i)
    /\ objects' = [objects EXCEPT ![i] = New(given)]
    /\ used' = used \cup {i}
    /\ made' = [made EXCEPT ![p] = i]
    /\ UNCHANGED <<effects, absent, touched>>

KasRemove(p, i) ==
  /\ Exists(i)
  /\ objects' = [objects EXCEPT ![i] = Absent]
  /\ CarriedOut(p)
  /\ Touch(p, i)
  /\ Seen
  /\ UNCHANGED <<used, made>>

KasRefuses == UNCHANGED <<objects, used, history>>

(* KAS serves a request nobody waits for any more. *)
Late(p) ==
  /\ late[p] # NoRequest
  /\ late' = [late EXCEPT ![p] = NoRequest]
  /\ \/ late[p].verb = "update" /\ KasUpdate(p, late[p].id, late[p].sent)
     \/ late[p].verb = "create" /\ KasAdd(p, late[p].sent)
     \/ late[p].verb = "delete" /\ KasRemove(p, late[p].id)
  /\ UNCHANGED <<kind, clientVars>>

(* The answer does not come: the request may still be carried out. *)
Lost(p, verb, i, sent) ==
  /\ "loss" \in Env
  /\ late' = [late EXCEPT ![p] = [verb |-> verb, id |-> i, sent |-> sent]]
  /\ KasRefuses

-----------------------------------------------------------------------------
(* The clients *)

Return(p, r) ==
  /\ pc' = [pc EXCEPT ![p] = "done"]
  /\ result' = [result EXCEPT ![p] = r]

FirstOf(steps) == {j \in steps : \A k \in steps : j <= k}

(* The next request of runSteps. *)
GoOn(p, j) ==
  /\ step' = [step EXCEPT ![p] = j]
  /\ pc' = [pc EXCEPT ![p] = Place(j)]
  /\ UNCHANGED result

(* Mutant: runSteps goes on after an error. *)
AdvanceAlways(p, r) ==
  LET later == Later(command[p].given, step[p]) IN
    IF later # {}
      THEN \E j \in FirstOf(later) : GoOn(p, j)
      ELSE Return(p, r) /\ UNCHANGED step

(* runSteps: the next request whose flag was given, up to the first error.  *)
Advance(p, r) ==
  LET later == Later(command[p].given, step[p]) IN
    IF r = "ok" /\ later # {}
      THEN \E j \in FirstOf(later) : GoOn(p, j)
      ELSE Return(p, r) /\ UNCHANGED step

(* A command is given; an update needs at least one flag. *)
Start(p, c) ==
  /\ pc[p] = "idle"
  /\ command' = [command EXCEPT ![p] = c]
  /\ CASE c.verb = "update" /\ Steps(c.given) = {} -> Return(p, "invalid") /\ UNCHANGED step
       [] c.verb = "update" /\ Steps(c.given) # {} ->
            \E j \in FirstOf(Steps(c.given)) : GoOn(p, j)
       [] OTHER ->
            /\ pc' = [pc EXCEPT ![p] = CASE c.verb = "get" -> "read"
                                         [] c.verb = "create" -> "add"
                                         [] c.verb = "delete" -> "remove"]
            /\ UNCHANGED <<result, step>>
  /\ absent' = [absent EXCEPT ![p] = c.id # NoId /\ objects[c.id] = Absent]
  /\ UNCHANGED <<kasVars, kind, held, returned, made, effects, touched>>

(* What KAS answers to a get with a filter: the object, or all there are;   *)
(* nothing, or one of the faults that say so.                               *)
GetAnswers(i) ==
  LET all == {j \in Ids : Exists(j)} IN
    (IF Exists(i)
       THEN {[code |-> "TRUE", ids |-> {i}], [code |-> "TRUE", ids |-> all]}
       ELSE {[code |-> "TRUE", ids |-> {}], [code |-> "TRUE", ids |-> all],
             [code |-> "not_found", ids |-> {}], [code |-> "empty_list", ids |-> {}]})
      \cup {[code |-> c, ids |-> {}] : c \in Faults \cup (Env \cap {"loss"})}

(* Mutant: everything KAS has is written back. *)
ReportedAll(i) == objects[i]

(* An object as it is read: secrets are not in it. *)
Reported(i) ==
  [f \in Carried(type) |-> IF f \in type.secrets THEN Empty ELSE objects[i][f]]

(* Get, and the Get of an update that writes the whole object back. *)
Read(p) ==
  /\ pc[p] = "read"
  /\ \E a \in GetAnswers(command[p].id) :
       LET r == GetOneResult(IF a.code = "loss" THEN "lost" ELSE a.code, a.ids)
           found == r = "ok" /\ command[p].id \in a.ids
       IN CASE found /\ command[p].verb = "get" ->
                 Return(p, "ok") /\ UNCHANGED held
            [] found /\ command[p].verb = "update" ->
                 /\ held' = [held EXCEPT ![p] = Reported(command[p].id)]
                 /\ pc' = [pc EXCEPT ![p] = "write"]
                 /\ UNCHANGED result
            [] r = "ok" /\ ~found -> Return(p, "notfound") /\ UNCHANGED held
            [] OTHER -> Return(p, r) /\ UNCHANGED held
  /\ touched' = [touched EXCEPT ![p] = FALSE]
  /\ UNCHANGED <<kasVars, kind, command, step, returned, made, effects, absent>>

(* The settings of a request: the flags, and what was read where the whole  *)
(* object is written.                                                       *)
Wanted(p) ==
  LET s == type.plan[step[p]]
      given == command[p].given
  IN [f \in IF s.reads THEN s.carries ELSE s.carries \cap DOMAIN given |->
        IF f \in DOMAIN given THEN given[f] ELSE held[p][f]]

(* Mutant: empty settings are sent as well. *)
SentAll(wanted) ==
  [f \in DOMAIN wanted |-> IF f \in type.defaults /\ wanted[f] = Empty THEN Default ELSE wanted[f]]

Sent(wanted) ==
  [f \in {g \in DOMAIN wanted : ~(g \in type.omits /\ wanted[g] = Empty)} |->
     IF f \in type.defaults \cup type.resets /\ wanted[f] = Empty THEN Default ELSE wanted[f]]

(* DeleteFilters: what is set to nothing is removed by a request of its own. *)
Resets(wanted) == \E f \in DOMAIN wanted \cap type.resets : wanted[f] = Empty

ResultOf(wanted, code) == IF Resets(wanted) THEN RemoveResult(code) ELSE UpdateResult(code)

(* The input checks of the service. *)
Valid(settings) == \A f \in DOMAIN settings \cap type.checks : settings[f] # Bad

Write(p) ==
  LET wanted == Wanted(p)
      sent == Sent(wanted)
      i == command[p].id
  IN /\ pc[p] = "write"
     /\ IF ~Valid(wanted) \/ DOMAIN sent = {}
          THEN Return(p, "invalid") /\ KasRefuses /\ UNCHANGED <<late, step>>
          ELSE \/ /\ KasUpdate(p, i, sent)
                  /\ \E code \in {"TRUE"} \cup
                         IF objects' = objects /\ ~Resets(wanted) THEN {"nothing_to_do"} ELSE {} :
                       Advance(p, ResultOf(wanted, code))
                  /\ UNCHANGED late
               \/ /\ \E code \in Faults
                          \cup (IF Exists(i) THEN {} ELSE {"not_found"})
                          \cup (IF Exists(i) /\ ~Free(Overwritten(i, sent), i) THEN {"other"} ELSE {})
                          \cup (IF Resets(wanted) THEN {"other"} ELSE {}) :
                       Advance(p, ResultOf(wanted, code))
                  /\ KasRefuses
                  /\ UNCHANGED late
               \/ Lost(p, "update", i, sent) /\ Advance(p, ResultOf(wanted, "lost"))
     /\ UNCHANGED <<kind, command, held, returned>>

(* Create: the id is in the answer, or has to be looked up. *)
Add(p) ==
  LET given == command[p].given IN
    /\ pc[p] = "add"
    /\ IF ~Valid(given)
         THEN Return(p, "invalid") /\ KasRefuses /\ UNCHANGED <<late, returned>>
         ELSE \/ /\ KasAdd(p, given)
                 /\ \E reported \in BOOLEAN :
                      IF reported \/ type.created = "name"
                        THEN /\ Return(p, "ok")
                             /\ returned' = [returned EXCEPT ![p] = made'[p]]
                        ELSE /\ IF type.created = "lookup"
                                  THEN pc' = [pc EXCEPT ![p] = "lookup"] /\ UNCHANGED result
                                  ELSE Return(p, "created")
                             /\ UNCHANGED returned
                 /\ UNCHANGED late
              \/ /\ Faults # {} \/ \A i \in Ids \ used : ~Free(New(given), i)
                 /\ Return(p, "fault")
                 /\ KasRefuses
                 /\ UNCHANGED <<late, returned>>
              \/ Lost(p, "create", NoId, given) /\ Return(p, "unclear") /\ UNCHANGED returned
    /\ UNCHANGED <<kind, command, step, held>>

(* Mutant: a record that differs in its aux value is taken for the new one. *)
MatchesLoosely(i, given) ==
  Exists(i) /\ \A f \in type.key \ {"aux"} : objects[i][f] = New(given)[f]

Matches(i, given) ==
  Exists(i) /\ \A f \in type.key : objects[i][f] = New(given)[f]

(* Mutant: a failed lookup is reported as a failed creation. *)
LookupPlain(p) ==
  /\ pc[p] = "lookup"
  /\ Return(p, "fault")
  /\ UNCHANGED <<kasVars, kind, command, step, held, returned, history>>

(* Re-read all objects and take the one just created. *)
Lookup(p) ==
  LET found == {i \in Ids : Matches(i, command[p].given)} IN
    /\ pc[p] = "lookup"
    /\ \/ \E i \in found : Return(p, "ok") /\ returned' = [returned EXCEPT ![p] = i]
       \/ /\ found = {} \/ Env # {}
          /\ Return(p, "created")
          /\ UNCHANGED returned
    /\ UNCHANGED <<kasVars, kind, command, step, held, history>>

Remove(p) ==
  LET i == command[p].id IN
    /\ pc[p] = "remove"
    /\ \/ KasRemove(p, i) /\ Return(p, RemoveResult("TRUE")) /\ UNCHANGED late
       \/ /\ \E code \in Faults \cup (IF Exists(i) THEN {} ELSE {"not_found"}) :
               Return(p, RemoveResult(code))
          /\ KasRefuses
          /\ UNCHANGED late
       \/ Lost(p, "delete", i, <<>>) /\ Return(p, RemoveResult("lost"))
    /\ UNCHANGED <<kind, command, step, held, returned>>

ServicesNext ==
  \E p \in Procs :
    \/ \E c \in Offered[kind] : Start(p, c)
    \/ Read(p)
    \/ Write(p)
    \/ Add(p)
    \/ Lookup(p)
    \/ Remove(p)
    \/ Late(p)

ServicesSpec == ServicesInit /\ [][ServicesNext]_svars

-----------------------------------------------------------------------------
(* Properties *)

ServicesTypeOK ==
  /\ kind \in DOMAIN Offered
  /\ objects \in [Ids -> [Settings(type) -> Stored] \cup {Absent}]
  /\ First \in used /\ used \subseteq Ids
  /\ command \in [Procs -> Offered[kind] \cup {Idle}]
  /\ pc \in [Procs -> Places]
  /\ step \in [Procs -> Nat \ {0}]
  /\ held \in [Procs -> [Carried(type) -> Stored] \cup {NoObject}]
  /\ result \in [Procs -> Results]
  /\ returned \in [Procs -> Ids \cup {NoId}]
  /\ made \in [Procs -> Ids \cup {NoId}]
  /\ effects \in [Procs -> SUBSET Nat]
  /\ absent \in [Procs -> BOOLEAN]
  /\ touched \in [Procs -> BOOLEAN]

(* "a consumer that drops state on ErrNotFound must not be misled"          *)
(* (params.go:44-48): ErrNotFound is returned only if the object was really *)
(* absent while the call was under way.                                     *)
NotFoundIsTrue == \A p \in Procs : result[p] = "notfound" => absent[p]

(* runSteps sends the requests of an update in order up to the first that   *)
(* fails: success means all were carried out, a clean error that exactly    *)
(* those before it were, and only an answer that was lost leaves a doubt    *)
(* about one.                                                               *)
Before(p) == {j \in Steps(command[p].given) : j < step[p]}

StepsInOrder ==
  \A p \in Procs : command[p].verb = "update" =>
    \/ /\ pc[p] # "done" \/ result[p] \in {"notfound", "invalid", "fault", "unclear"}
       /\ effects[p] = Before(p)
    \/ /\ result[p] \in {"ok", "unclear"}
       /\ effects[p] = Before(p) \cup {step[p]}
       /\ result[p] = "ok" => effects[p] = Steps(command[p].given)

Sending(p) == pc[p] = "write" /\ step[p] \in effects'[p]

Unnamed(p) == Carried(type) \ DOMAIN command[p].given

Kept(p) ==
  LET i == command[p].id IN \A f \in Unnamed(p) : objects'[i][f] = objects[i][f]

(* The objects that are read and written back whole keep what no flag names *)
(* - secrets KAS does not report included - unless another client writes in *)
(* between (cronjob.go:194-196, README.md:458).                             *)
OnlyGivenChange == [][\A p \in Procs : Sending(p) /\ ~touched[p] => Kept(p)]_svars

(* "Create adds a record and returns its new record id" (dns.go:95): as     *)
(* long as the new object is as it was made, the id is that of the new      *)
(* object, however similar the others are.                                  *)
CreateFindsOwn ==
  [][\A p \in Procs :
       /\ pc[p] = "lookup" /\ result'[p] = "ok"
       /\ Exists(made[p]) /\ objects[made[p]] = New(command[p].given)
       => returned'[p] = made[p]]_svars

(* A creation whose error does not say that something was created has       *)
(* created nothing, and success means it has (dns.go:115, mail.go:320).     *)
CreateTold ==
  \A p \in Procs : command[p].verb = "create" =>
    /\ result[p] \in {"invalid", "fault"} => made[p] = NoId /\ late[p] = NoRequest
    /\ result[p] \in {"ok", "created"} => made[p] # NoId

(* "an update changes only the flags that are given" (README.md:458).       *)
UnnamedSurvive == [][\A p \in Procs : Sending(p) => Kept(p)]_svars

(* "parse validates every flag, so no request is sent for an invalid        *)
(* command" (write.go:748).                                                 *)
InvalidSendsNothing == \A p \in Procs : result[p] = "invalid" => effects[p] = {}
=============================================================================
