---------------------------- MODULE ServicesProofs ----------------------------
(***************************************************************************)
(* What services report, for any number of clients, commands and types:     *)
(* "not found" is true, and an error hides no creation.                     *)
(***************************************************************************)
EXTENDS Services, TLAPS

Types ==
  /\ kind \in DOMAIN Offered
  /\ objects = [i \in Ids |-> objects[i]]
  /\ command \in [Procs -> (UNION {Offered[k] : k \in DOMAIN Offered}) \cup {Idle}]
  /\ pc \in [Procs -> Places]
  /\ result \in [Procs -> Results]
  /\ made \in [Procs -> Ids \cup {NoId}]
  /\ absent \in [Procs -> BOOLEAN]
  /\ late = [p \in Procs |-> late[p]]

(* Ids are not used again, so an object that is gone stays so, and whoever  *)
(* names it was there when it was.                                          *)
World ==
  /\ \A i \in Ids \ used : objects[i] = Absent
  /\ \A p \in Procs :
       command[p].id \in Ids /\ objects[command[p].id] = Absent => absent[p]

(* Where a client may be with its command, and what it has caused so far.   *)
ProcInv(p) ==
  /\ pc[p] \in {"read", "write", "remove"} =>
       command[p].verb # "create" /\ command[p].id \in Ids
  /\ pc[p] = "idle" => command[p] = Idle
  /\ pc[p] \in {"idle", "add"} => made[p] = NoId
  /\ pc[p] = "lookup" => made[p] # NoId
  /\ pc[p] # "done" => result[p] = "none" /\ late[p] = NoRequest
  /\ late[p] # NoRequest => result[p] = "unclear"
  /\ late[p] # NoRequest /\ late[p].verb # "create" => late[p].id \in Ids
  /\ result[p] = "notfound" => absent[p]
  /\ command[p].verb = "create" =>
       /\ result[p] \in {"invalid", "fault"} => made[p] = NoId
       /\ result[p] \in {"ok", "created"} => made[p] # NoId

SInv == Types /\ World /\ \A p \in Procs : ProcInv(p)

(* What a client asks of KAS leaves behind, whatever it is. *)
Served ==
  /\ objects' = [i \in Ids |-> objects'[i]]
  /\ made' \in [Procs -> Ids \cup {NoId}]
  /\ absent' \in [Procs -> BOOLEAN]
  /\ World'
  /\ \A q \in Procs : absent[q] => absent'[q]

LEMMA InitSInv == ServicesInit => SInv
  <1> SUFFICES ASSUME ServicesInit PROVE SInv
    OBVIOUS
  <1> USE ServicesAssumption DEF ServicesInit
  <1>1. Types
    BY DEF Types, Places, Results
  <1>2. World
    BY DEF World, Idle
  <1>3. ASSUME NEW p \in Procs PROVE ProcInv(p)
    BY DEF ProcInv, Idle
  <1>4. QED
    BY <1>1, <1>2, <1>3 DEF SInv

(* KAS changes an object: whoever names it is told if it is gone. *)
LEMMA ChangeServed ==
  ASSUME Types, World, UNCHANGED <<command, used, made>>,
         NEW i \in Ids, Exists(i), NEW new,
         objects' = [objects EXCEPT ![i] = new], Seen
  PROVE  Served
  <1> USE ServicesAssumption DEF Types
  <1>1. absent' \in [Procs -> BOOLEAN] /\ \A q \in Procs : absent[q] => absent'[q]
    BY DEF Seen
  <1>2. \A j \in Ids \ used' : objects'[j] = Absent
    BY DEF World, Exists
  <1>3. \A q \in Procs : command'[q].id \in Ids /\ objects'[command'[q].id] = Absent => absent'[q]
    BY DEF Seen
  <1>4. QED
    BY <1>1, <1>2, <1>3 DEF Served, World

LEMMA UpdateServed ==
  ASSUME Types, World, UNCHANGED command, NEW p \in Procs, NEW i \in Ids, NEW sent,
         KasUpdate(p, i, sent)
  PROVE  Served /\ made' = made
  BY ChangeServed DEF KasUpdate

LEMMA RemoveServed ==
  ASSUME Types, World, UNCHANGED command, NEW p \in Procs, NEW i \in Ids,
         KasRemove(p, i)
  PROVE  Served /\ made' = made
  BY ChangeServed DEF KasRemove

LEMMA RefusalServed ==
  ASSUME Types, World, UNCHANGED command, KasRefuses
  PROVE  Served /\ made' = made
  BY DEF Types, World, KasRefuses, history, Served

(* KAS creates an object nobody has known. *)
LEMMA AddServed ==
  ASSUME Types, World, UNCHANGED command, NEW p \in Procs, NEW given, KasAdd(p, given)
  PROVE  /\ Served
         /\ made'[p] # NoId
         /\ \A q \in Procs \ {p} : made'[q] = made[q]
  <1> USE ServicesAssumption DEF Types
  <1>1. PICK i \in Ids \ used :
          /\ objects' = [objects EXCEPT ![i] = New(given)]
          /\ used' = used \cup {i}
          /\ made' = [made EXCEPT ![p] = i]
          /\ UNCHANGED <<effects, absent, touched>>
    BY DEF KasAdd
  <1>2. objects[i] = Absent
    BY <1>1 DEF World
  <1>3. World'
    BY <1>1, <1>2 DEF World
  <1>4. QED
    BY <1>1, <1>3 DEF Served

(* A client that does nothing keeps its part of the invariant. *)
LEMMA OthersKeep ==
  ASSUME NEW q \in Procs, ProcInv(q), absent[q] => absent'[q],
         pc'[q] = pc[q], command'[q] = command[q], result'[q] = result[q],
         made'[q] = made[q], late'[q] = late[q]
  PROVE  ProcInv(q)'
  BY DEF ProcInv

(* A command is given: it is idle no more. *)
LEMMA StartStep ==
  ASSUME SInv, NEW p \in Procs, NEW c \in Offered[kind], Start(p, c)
  PROVE  SInv'
  <1> USE ServicesAssumption DEF SInv, Start
  <1>1. /\ c.verb \in {"get", "create", "update", "delete"}
        /\ c.verb = "create" => c.id = NoId
        /\ c.verb # "create" => c.id \in Ids
    BY DEF Types
  <1>2. \/ Return(p, "invalid") /\ c.verb = "update"
        \/ /\ \E place \in {"read", "write"} : pc' = [pc EXCEPT ![p] = place]
           /\ c.verb # "create" /\ UNCHANGED result
        \/ /\ pc' = [pc EXCEPT ![p] = "remove"]
           /\ c.verb = "delete" /\ UNCHANGED result
        \/ /\ pc' = [pc EXCEPT ![p] = "add"]
           /\ c.verb = "create" /\ UNCHANGED result
    <2>1. CASE c.verb = "update" /\ Steps(c.given) = {}
      BY <2>1
    <2>2. CASE c.verb = "update" /\ Steps(c.given) # {}
      <3>1. PICK j \in FirstOf(Steps(c.given)) : GoOn(p, j)
        BY <2>2
      <3>2. QED
        BY <2>2, <3>1 DEF GoOn, Place
    <2>3. CASE c.verb # "update"
      <3>1. /\ pc' = [pc EXCEPT ![p] = CASE c.verb = "get" -> "read"
                                         [] c.verb = "create" -> "add"
                                         [] c.verb = "delete" -> "remove"]
            /\ UNCHANGED <<result, step>>
        BY <2>3
      <3>2. QED
        BY <1>1, <2>3, <3>1
    <2>4. QED
      BY <2>1, <2>2, <2>3
  <1>3. /\ command'[p] = c
        /\ c.id # NoId /\ objects[c.id] = Absent => absent'[p]
        /\ \A q \in Procs \ {p} : /\ pc'[q] = pc[q] /\ result'[q] = result[q]
                                   /\ command'[q] = command[q] /\ absent'[q] = absent[q]
    BY <1>2 DEF Types, Return
  <1>4. UNCHANGED <<kasVars, kind, made>>
    OBVIOUS
  <1>5. Types'
    <2>1. command' \in [Procs -> (UNION {Offered[k] : k \in DOMAIN Offered}) \cup {Idle}]
      BY DEF Types
    <2>2. pc' \in [Procs -> Places] /\ result' \in [Procs -> Results]
      BY <1>2 DEF Types, Return, Places, Results
    <2>3. QED
      BY <2>1, <2>2, <1>4 DEF Types, kasVars
  <1>6. World'
    <2>1. ASSUME NEW q \in Procs, command'[q].id \in Ids, objects'[command'[q].id] = Absent
          PROVE  absent'[q]
      BY <2>1, <1>3, <1>4 DEF World, kasVars
    <2>2. QED
      BY <2>1, <1>4 DEF World, kasVars
  <1>7. ProcInv(p)'
    <2>1. \/ pc'[p] = "done" /\ result'[p] = "invalid" /\ c.verb = "update"
          \/ pc'[p] \in {"read", "write", "remove"} /\ c.verb # "create" /\ result' = result
          \/ pc'[p] = "add" /\ c.verb = "create" /\ result' = result
      BY <1>2 DEF Types, Return
    <2>2. QED
      BY <1>1, <1>3, <1>4, <2>1 DEF ProcInv, kasVars
  <1>8. ASSUME NEW q \in Procs \ {p} PROVE ProcInv(q)'
    BY <1>3, <1>4, OthersKeep DEF kasVars
  <1>9. QED
    BY <1>5, <1>6, <1>7, <1>8

(* What the client that acts has to keep, when it returns or goes on. *)
LEMMA StepKeeps ==
  ASSUME SInv, NEW p \in Procs, Served, UNCHANGED <<kind, command>>,
         pc' \in [Procs -> Places], result' \in [Procs -> Results],
         late' = [q \in Procs |-> late'[q]],
         \A q \in Procs \ {p} : /\ pc'[q] = pc[q] /\ result'[q] = result[q]
                                /\ made'[q] = made[q] /\ late'[q] = late[q],
         ProcInv(p)'
  PROVE  SInv'
  <1>1. Types'
    BY DEF SInv, Types, Served
  <1>2. ASSUME NEW q \in Procs \ {p} PROVE ProcInv(q)'
    BY <1>2, OthersKeep DEF SInv, Served
  <1>3. QED
    BY <1>1, <1>2 DEF SInv, Served

(* KAS has no answer of its own that means "not found" for what it has.     *)
LEMMA FoundIsFound ==
  ASSUME NEW i \in Ids, Exists(i), NEW a \in GetAnswers(i),
         GetOneResult(IF a.code = "loss" THEN "lost" ELSE a.code, a.ids) \in {"ok", "notfound"}
  PROVE  i \in a.ids /\ GetOneResult(IF a.code = "loss" THEN "lost" ELSE a.code, a.ids) = "ok"
  <1>1. CASE a.code = "TRUE"
    <2>1. i \in a.ids
      BY <1>1, ServicesAssumption DEF GetAnswers, Faults, Trouble
    <2>2. QED
      BY <1>1, <2>1 DEF GetOneResult, NotFoundCodes
  <1>2. CASE a.code # "TRUE"
    <2>1. a.code \in {"other", "prerequisite", "loss"}
      BY <1>2 DEF GetAnswers, Faults
    <2>2. QED
      BY <2>1 DEF GetOneResult, ErrorOf, NotFoundCodes
  <1>3. QED
    BY <1>1, <1>2

LEMMA ReadStep ==
  ASSUME SInv, NEW p \in Procs, Read(p)
  PROVE  SInv'
  <1> DEFINE i == command[p].id
             R(a) == GetOneResult(IF a.code = "loss" THEN "lost" ELSE a.code, a.ids)
  <1>1. /\ pc[p] = "read" /\ i \in Ids /\ command[p].verb # "create"
        /\ UNCHANGED <<objects, used, late, kind, command, made, absent>>
        /\ result[p] = "none" /\ late[p] = NoRequest
    BY DEF SInv, ProcInv, Read, kasVars
  <1>2. PICK a \in GetAnswers(i) :
          \/ pc' = [pc EXCEPT ![p] = "write"] /\ UNCHANGED result
          \/ Return(p, "ok")
          \/ (R(a) = "ok" /\ i \notin a.ids) /\ Return(p, "notfound")
          \/ Return(p, R(a))
    BY DEF Read
  <1>3. R(a) \in Results
    BY DEF GetOneResult, ErrorOf, Results
  <1>4. Exists(i) /\ R(a) \in {"ok", "notfound"} => i \in a.ids /\ R(a) = "ok"
    BY <1>1, FoundIsFound
  <1>5. Served
    BY <1>1 DEF SInv, Types, World, Served
  <1>6. absent'[p] \/ Exists(i)
    BY <1>1 DEF SInv, World, Exists
  <1> HIDE DEF R
  <1>7. /\ pc' \in [Procs -> Places] /\ result' \in [Procs -> Results]
        /\ \A q \in Procs \ {p} : pc'[q] = pc[q] /\ result'[q] = result[q]
    BY <1>2, <1>3 DEF SInv, Types, Return, Places, Results
  <1>8. \/ pc'[p] = "write" /\ result'[p] = "none"
        \/ pc'[p] = "done" /\ (result'[p] = "notfound" => absent'[p])
    BY <1>1, <1>2, <1>4, <1>6 DEF SInv, Types, Return
  <1>9. ProcInv(p)'
    BY <1>1, <1>8 DEF ProcInv
  <1>10. QED
    BY <1>1, <1>5, <1>7, <1>9, StepKeeps DEF SInv, Types

(* An error for what is not there, and nothing else, is "notfound". *)
LEMMA UpdateCodes ==
  /\ UpdateResult("TRUE") = "ok" /\ UpdateResult("nothing_to_do") = "ok"
  /\ UpdateResult("lost") = "unclear" /\ RemoveResult("lost") = "unclear"
  /\ RemoveResult("TRUE") = "ok"
  /\ \A code \in {"other", "prerequisite"} :
       UpdateResult(code) = "fault" /\ RemoveResult(code) = "fault"
  /\ UpdateResult("not_found") = "notfound" /\ RemoveResult("not_found") = "notfound"
  BY DEF UpdateResult, RemoveResult, NotFoundCodes, ErrorOf

LEMMA ResultCodes ==
  ASSUME NEW wanted
  PROVE  /\ ResultOf(wanted, "TRUE") = "ok" /\ ResultOf(wanted, "lost") = "unclear"
         /\ \A code \in {"other", "prerequisite"} : ResultOf(wanted, code) = "fault"
         /\ ResultOf(wanted, "not_found") = "notfound"
         /\ ~Resets(wanted) => ResultOf(wanted, "nothing_to_do") = "ok"
  BY UpdateCodes DEF ResultOf

(* After a request of an update or a deletion: the client goes on or        *)
(* returns, and says what is true.                                          *)
LEMMA RequestKeeps ==
  ASSUME SInv, NEW p \in Procs, pc[p] \in {"write", "remove"},
         Served, UNCHANGED <<kind, command, made>>,
         NEW r \in Results,
         \/ Return(p, r)
         \/ r = "ok" /\ UNCHANGED result
            /\ \E place \in {"read", "write"} : pc' = [pc EXCEPT ![p] = place],
         r = "notfound" => absent'[p],
         \/ UNCHANGED late
         \/ /\ r = "unclear"
            /\ \E m : late' = [late EXCEPT ![p] = m] /\ m.id = command[p].id
  PROVE  SInv'
  <1>1. /\ command[p].id \in Ids /\ command[p].verb # "create"
        /\ result[p] = "none" /\ late[p] = NoRequest
    BY DEF SInv, ProcInv
  <1>2. /\ pc' \in [Procs -> Places] /\ result' \in [Procs -> Results]
        /\ late' = [q \in Procs |-> late'[q]]
        /\ \A q \in Procs \ {p} : /\ pc'[q] = pc[q] /\ result'[q] = result[q] /\ late'[q] = late[q]
    BY DEF SInv, Types, Return, Places, Results
  <1>3. \/ pc'[p] \in {"read", "write"} /\ result'[p] = "none" /\ late'[p] = NoRequest
        \/ /\ pc'[p] = "done" /\ result'[p] = r
           /\ late'[p] # NoRequest => r = "unclear" /\ late'[p].id = command[p].id
    BY <1>1 DEF SInv, Types, Return
  <1>4. ProcInv(p)'
    BY <1>1, <1>3 DEF ProcInv
  <1>5. QED
    BY <1>2, <1>4, StepKeeps

LEMMA WriteStep ==
  ASSUME SInv, NEW p \in Procs, Write(p)
  PROVE  SInv'
  <1> DEFINE i == command[p].id
             wanted == Wanted(p)
             sent == Sent(wanted)
  <1>1. /\ pc[p] = "write" /\ i \in Ids /\ UNCHANGED <<kind, command>>
    BY DEF SInv, ProcInv, Write
  <1>2. ASSUME NEW r, Advance(p, r)
        PROVE  \/ Return(p, r)
               \/ r = "ok" /\ UNCHANGED result
                  /\ \E place \in {"read", "write"} : pc' = [pc EXCEPT ![p] = place]
    BY <1>2 DEF Advance, GoOn, Place
  <1>3. CASE Return(p, "invalid") /\ KasRefuses /\ UNCHANGED late
    BY <1>1, <1>3, RefusalServed, RequestKeeps DEF SInv, Results
  <1>4. CASE /\ KasUpdate(p, i, sent)
             /\ \E code \in {"TRUE"} \cup
                    IF objects' = objects /\ ~Resets(wanted) THEN {"nothing_to_do"} ELSE {} :
                  Advance(p, ResultOf(wanted, code))
             /\ UNCHANGED late
    <2>1. Served /\ made' = made
      BY <1>1, <1>4, UpdateServed DEF SInv
    <2>2. Advance(p, "ok")
      BY <1>4, ResultCodes
    <2>3. QED
      BY <1>1, <1>2, <1>4, <2>1, <2>2, RequestKeeps DEF Results
  <1>5. CASE /\ \E code \in Faults \cup (IF Exists(i) THEN {} ELSE {"not_found"}) \cup {"other"} :
                   Advance(p, ResultOf(wanted, code))
             /\ KasRefuses /\ UNCHANGED late
    <2>1. Served /\ made' = made
      BY <1>1, <1>5, RefusalServed DEF SInv
    <2>2. ~Exists(i) => absent'[p]
      BY <1>1, <2>1 DEF SInv, World, Exists, Served
    <2>3. \E r \in {"fault", "notfound"} : Advance(p, r) /\ (r = "notfound" => ~Exists(i))
      <3>1. PICK code \in {"other", "prerequisite", "not_found"} :
              Advance(p, ResultOf(wanted, code)) /\ (code = "not_found" => ~Exists(i))
        BY <1>5 DEF Faults
      <3>2. CASE code = "not_found"
        BY <3>1, <3>2, ResultCodes
      <3>3. CASE code # "not_found"
        <4>1. ResultOf(wanted, code) = "fault"
          BY <3>1, <3>3, ResultCodes
        <4>2. QED
          BY <3>1, <3>3, <4>1
      <3>4. QED
        BY <3>2, <3>3
    <2>4. QED
      BY <1>1, <1>2, <1>5, <2>1, <2>2, <2>3, RequestKeeps DEF Results
  <1>6. CASE Lost(p, "update", i, sent) /\ Advance(p, ResultOf(wanted, "lost"))
    <2>1. Served /\ made' = made
      BY <1>1, <1>6, RefusalServed DEF SInv, Lost
    <2>2. Advance(p, "unclear")
      BY <1>6, ResultCodes
    <2>3. \E m : late' = [late EXCEPT ![p] = m] /\ m.id = command[p].id
      <3>1. WITNESS [verb |-> "update", id |-> i, sent |-> sent]
      <3>2. QED
        BY <1>6 DEF Lost
    <2>4. QED
      BY <1>1, <1>2, <2>1, <2>2, <2>3, RequestKeeps DEF Results
  <1>7. QED
    BY <1>3, <1>4, <1>5, <1>6 DEF Write

LEMMA RemoveStep ==
  ASSUME SInv, NEW p \in Procs, Remove(p)
  PROVE  SInv'
  <1> DEFINE i == command[p].id
  <1>1. /\ pc[p] = "remove" /\ i \in Ids /\ UNCHANGED <<kind, command>>
    BY DEF SInv, ProcInv, Remove
  <1>2. CASE KasRemove(p, i) /\ Return(p, RemoveResult("TRUE")) /\ UNCHANGED late
    BY <1>1, <1>2, RemoveServed, UpdateCodes, RequestKeeps DEF SInv, Results
  <1>3. CASE /\ \E code \in Faults \cup (IF Exists(i) THEN {} ELSE {"not_found"}) :
                   Return(p, RemoveResult(code))
             /\ KasRefuses /\ UNCHANGED late
    <2>1. Served /\ made' = made
      BY <1>1, <1>3, RefusalServed DEF SInv
    <2>2. ~Exists(i) => absent'[p]
      BY <1>1, <2>1 DEF SInv, World, Exists, Served
    <2>3. \E r \in {"fault", "notfound"} : Return(p, r) /\ (r = "notfound" => ~Exists(i))
      <3>1. PICK code \in {"other", "prerequisite", "not_found"} :
              Return(p, RemoveResult(code)) /\ (code = "not_found" => ~Exists(i))
        BY <1>3 DEF Faults
      <3>2. CASE code = "not_found"
        BY <3>1, <3>2, UpdateCodes
      <3>3. CASE code # "not_found"
        <4>1. RemoveResult(code) = "fault"
          BY <3>1, <3>3, UpdateCodes
        <4>2. QED
          BY <3>1, <3>3, <4>1
      <3>4. QED
        BY <3>2, <3>3
    <2>4. QED
      BY <1>1, <1>3, <2>1, <2>2, <2>3, RequestKeeps DEF Results
  <1>4. CASE Lost(p, "delete", i, <<>>) /\ Return(p, RemoveResult("lost"))
    <2>1. Served /\ made' = made
      BY <1>1, <1>4, RefusalServed DEF SInv, Lost
    <2>2. \E m : late' = [late EXCEPT ![p] = m] /\ m.id = command[p].id
      <3>1. WITNESS [verb |-> "delete", id |-> i, sent |-> <<>>]
      <3>2. QED
        BY <1>4 DEF Lost
    <2>3. QED
      BY <1>1, <1>4, <2>1, <2>2, UpdateCodes, RequestKeeps DEF Results
  <1>5. QED
    BY <1>2, <1>3, <1>4 DEF Remove

LEMMA AddStep ==
  ASSUME SInv, NEW p \in Procs, Add(p)
  PROVE  SInv'
  <1> DEFINE given == command[p].given
  <1>1. /\ pc[p] = "add" /\ made[p] = NoId /\ result[p] = "none" /\ late[p] = NoRequest
        /\ UNCHANGED <<kind, command>>
    BY DEF SInv, ProcInv, Add
  <1>2. /\ pc \in [Procs -> Places] /\ result \in [Procs -> Results]
        /\ late = [q \in Procs |-> late[q]]
    BY DEF SInv, Types
  <1>3. CASE Return(p, "invalid") /\ KasRefuses /\ UNCHANGED <<late, returned>>
    <2>1. Served /\ made' = made
      BY <1>1, <1>3, RefusalServed DEF SInv
    <2>2. pc'[p] = "done" /\ result'[p] = "invalid" /\ late'[p] = NoRequest /\ made'[p] = NoId
      BY <1>1, <1>2, <1>3, <2>1 DEF Return
    <2>3. ProcInv(p)'
      BY <2>2 DEF ProcInv
    <2>4. QED
      BY <1>1, <1>2, <1>3, <2>1, <2>3, StepKeeps DEF Return, Places, Results
  <1>4. CASE /\ KasAdd(p, given)
             /\ \/ Return(p, "ok") \/ Return(p, "created")
                \/ pc' = [pc EXCEPT ![p] = "lookup"] /\ UNCHANGED result
             /\ UNCHANGED late
    <2>1. Served /\ made'[p] # NoId /\ \A q \in Procs \ {p} : made'[q] = made[q]
      BY <1>1, <1>4, AddServed DEF SInv
    <2>2. /\ late'[p] = NoRequest
          /\ \/ pc'[p] = "done" /\ result'[p] \in {"ok", "created"}
             \/ pc'[p] = "lookup" /\ result'[p] = "none" /\ command'[p] = command[p]
      BY <1>1, <1>2, <1>4 DEF Return
    <2>3. ProcInv(p)'
      BY <2>1, <2>2 DEF ProcInv
    <2>4. QED
      BY <1>1, <1>2, <1>4, <2>1, <2>3, StepKeeps DEF Return, Places, Results
  <1>5. CASE Return(p, "fault") /\ KasRefuses /\ UNCHANGED <<late, returned>>
    <2>1. Served /\ made' = made
      BY <1>1, <1>5, RefusalServed DEF SInv
    <2>2. pc'[p] = "done" /\ result'[p] = "fault" /\ late'[p] = NoRequest /\ made'[p] = NoId
      BY <1>1, <1>2, <1>5, <2>1 DEF Return
    <2>3. ProcInv(p)'
      BY <2>2 DEF ProcInv
    <2>4. QED
      BY <1>1, <1>2, <1>5, <2>1, <2>3, StepKeeps DEF Return, Places, Results
  <1>6. CASE Lost(p, "create", NoId, given) /\ Return(p, "unclear")
    <2>1. Served /\ made' = made
      BY <1>1, <1>6, RefusalServed DEF SInv, Lost
    <2>2. /\ pc'[p] = "done" /\ result'[p] = "unclear" /\ late'[p].verb = "create"
          /\ \A q \in Procs \ {p} : pc'[q] = pc[q] /\ result'[q] = result[q] /\ late'[q] = late[q]
          /\ late' = [q \in Procs |-> late'[q]]
      BY <1>1, <1>2, <1>6 DEF Return, Lost
    <2>3. ProcInv(p)'
      BY <2>2 DEF ProcInv
    <2>4. QED
      BY <1>1, <1>2, <1>6, <2>1, <2>2, <2>3, StepKeeps DEF Return, Places, Results
  <1>7. QED
    BY <1>3, <1>4, <1>5, <1>6 DEF Add

LEMMA LookupStep ==
  ASSUME SInv, NEW p \in Procs, Lookup(p)
  PROVE  SInv'
  <1>1. /\ pc[p] = "lookup" /\ made[p] # NoId /\ late[p] = NoRequest
        /\ UNCHANGED <<objects, used, late, kind, command, made, absent>>
    BY DEF SInv, ProcInv, Lookup, kasVars, history
  <1>2. Return(p, "ok") \/ Return(p, "created")
    BY DEF Lookup
  <1>3. Served
    BY <1>1 DEF SInv, Types, World, Served
  <1>4. /\ pc' \in [Procs -> Places] /\ result' \in [Procs -> Results]
        /\ pc'[p] = "done" /\ result'[p] \in {"ok", "created"}
        /\ \A q \in Procs \ {p} : pc'[q] = pc[q] /\ result'[q] = result[q]
    BY <1>2 DEF SInv, Types, Return, Places, Results
  <1>5. ProcInv(p)'
    BY <1>1, <1>4 DEF ProcInv
  <1>6. QED
    BY <1>1, <1>3, <1>4, <1>5, StepKeeps DEF SInv, Types

(* What KAS does for a request nobody waits for. *)
LEMMA LateStep ==
  ASSUME SInv, NEW p \in Procs, Late(p)
  PROVE  SInv'
  <1>1. /\ late[p] # NoRequest /\ late' = [late EXCEPT ![p] = NoRequest]
        /\ UNCHANGED <<kind, command, pc, result>>
        /\ late[p].verb # "create" => late[p].id \in Ids
        /\ result[p] = "unclear" /\ pc[p] = "done"
    BY DEF SInv, ProcInv, Late, clientVars
  <1>2. Served /\ \A q \in Procs \ {p} : made'[q] = made[q]
    <2>1. CASE late[p].verb = "update" /\ KasUpdate(p, late[p].id, late[p].sent)
      BY <1>1, <2>1, UpdateServed DEF SInv
    <2>2. CASE late[p].verb = "create" /\ KasAdd(p, late[p].sent)
      BY <1>1, <2>2, AddServed DEF SInv
    <2>3. CASE late[p].verb = "delete" /\ KasRemove(p, late[p].id)
      BY <1>1, <2>3, RemoveServed DEF SInv
    <2>4. QED
      BY <2>1, <2>2, <2>3 DEF Late
  <1>3. late'[p] = NoRequest /\ late' = [q \in Procs |-> late'[q]]
    BY <1>1 DEF SInv, Types
  <1>4. ProcInv(p)'
    BY <1>1, <1>3 DEF ProcInv
  <1>5. QED
    BY <1>1, <1>2, <1>3, <1>4, StepKeeps DEF SInv, Types

LEMMA StutterStep == SInv /\ UNCHANGED svars => SInv'
  BY DEF SInv, Types, World, ProcInv, svars, kasVars, clientVars, history

(* The invariant holds in every reachable state. *)
THEOREM ServicesInvariance == ServicesSpec => []SInv
  <1>1. SInv /\ [ServicesNext]_svars => SInv'
    BY StartStep, ReadStep, WriteStep, AddStep, LookupStep, RemoveStep, LateStep, StutterStep
    DEF ServicesNext
  <1>2. QED
    BY InitSInv, <1>1, PTL DEF ServicesSpec

(* ErrNotFound is returned only if the object was really absent while the   *)
(* call was under way (params.go:44-48).                                    *)
THEOREM NotFoundTrue == ServicesSpec => []NotFoundIsTrue
  <1>1. SInv => NotFoundIsTrue
    BY DEF SInv, ProcInv, NotFoundIsTrue
  <1>2. QED
    BY ServicesInvariance, <1>1, PTL

(* A creation whose error does not say that something was created has       *)
(* created nothing, and success means it has (dns.go:115, mail.go:320).     *)
THEOREM CreationsTold == ServicesSpec => []CreateTold
  <1>1. SInv => CreateTold
    BY DEF SInv, ProcInv, CreateTold
  <1>2. QED
    BY ServicesInvariance, <1>1, PTL

-----------------------------------------------------------------------------
(* The requests of an update *)

OrderTypes ==
  /\ step \in [Procs -> Nat]
  /\ effects \in [Procs -> SUBSET Nat]

(* What KAS has carried out of an update: all before the present request    *)
(* while it is under way; a late answer leaves the present one open.        *)
Order(p) ==
  /\ pc[p] = "idle" => effects[p] = {}
  /\ pc[p] = "read" => command[p].verb \in {"get", "update"}
  /\ pc[p] = "write" => command[p].verb = "update"
  /\ pc[p] \in {"add", "lookup"} => command[p].verb = "create"
  /\ pc[p] = "remove" => command[p].verb = "delete"
  /\ command[p].verb = "update" =>
       /\ pc[p] # "done" => step[p] \in Steps(command[p].given) /\ effects[p] = Before(p)
       /\ pc[p] = "done" =>
            \/ /\ result[p] \in {"notfound", "invalid", "fault", "unclear"}
               /\ effects[p] = Before(p)
            \/ /\ result[p] \in {"ok", "unclear"}
               /\ late[p] = NoRequest
               /\ effects[p] = Before(p) \cup {step[p]}
               /\ result[p] = "ok" => effects[p] = Steps(command[p].given)

OInv == SInv /\ OrderTypes /\ \A p \in Procs : Order(p)

(* The plan of every type is a sequence. *)
LEMMA PlanIsSequence ==
  ASSUME NEW k \in DOMAIN Resource
  PROVE  DOMAIN Resource[k].plan \subseteq Nat
  <1> USE DEF Type, WithPassword, MailSteps, AccountSteps
  <1>1. DOMAIN DNSRecords.plan \subseteq Nat
    BY DEF DNSRecords
  <1>2. DOMAIN MailAccounts.plan \subseteq Nat
    BY DEF MailAccounts
  <1>3. DOMAIN MailForwards.plan \subseteq Nat
    BY DEF MailForwards
  <1>4. DOMAIN Domains.plan \subseteq Nat /\ DOMAIN Subdomains.plan \subseteq Nat
    BY DEF Domains, Subdomains
  <1>5. DOMAIN TLS.plan \subseteq Nat /\ DOMAIN FTPUsers.plan \subseteq Nat
    BY DEF TLS, FTPUsers
  <1>6. DOMAIN Databases.plan \subseteq Nat /\ DOMAIN Cronjobs.plan \subseteq Nat
    BY DEF Databases, Cronjobs
  <1>7. DOMAIN DDNSUsers.plan \subseteq Nat /\ DOMAIN SambaUsers.plan \subseteq Nat
    BY DEF DDNSUsers, SambaUsers
  <1>8. DOMAIN DirectoryProtections.plan \subseteq Nat /\ DOMAIN MailingLists.plan \subseteq Nat
    BY DEF DirectoryProtections, MailingLists
  <1>9. DOMAIN Accounts.plan \subseteq Nat /\ DOMAIN AccountSettings.plan \subseteq Nat
    BY DEF Accounts, AccountSettings
  <1>10. QED
    BY <1>1, <1>2, <1>3, <1>4, <1>5, <1>6, <1>7, <1>8, <1>9 DEF Resource

LEMMA StepsAreNumbers ==
  ASSUME SInv, NEW given
  PROVE  Steps(given) \subseteq Nat
  BY PlanIsSequence, ServicesAssumption DEF SInv, Types, Steps, type

LEMMA InitOrder == ServicesInit => OrderTypes /\ \A p \in Procs : Order(p)
  BY DEF ServicesInit, OrderTypes, Order, Idle

(* A client that does nothing keeps its part. *)
LEMMA OthersInOrder ==
  ASSUME NEW q \in Procs, Order(q), kind' = kind,
         pc'[q] = pc[q], command'[q] = command[q], result'[q] = result[q],
         step'[q] = step[q], effects'[q] = effects[q], late'[q] = late[q]
  PROVE  Order(q)'
  BY DEF Order, Before, Steps, type

(* The first request of an update. *)
LEMMA FirstInOrder ==
  ASSUME NEW S, S \subseteq Nat, NEW j \in FirstOf(S)
  PROVE  j \in S /\ {k \in S : k < j} = {}
  <1>1. j \in S /\ \A k \in S : j <= k
    BY DEF FirstOf
  <1>2. ASSUME NEW k \in S PROVE ~(k < j)
    BY <1>1
  <1>3. QED
    BY <1>1, <1>2

(* The next one leaves out none. *)
LEMMA NextInOrder ==
  ASSUME NEW S, S \subseteq Nat, NEW n \in S, NEW j \in FirstOf({k \in S : k > n})
  PROVE  j \in S /\ {k \in S : k < j} = {k \in S : k < n} \cup {n}
  <1>1. j \in S /\ j > n /\ \A k \in S : k > n => j <= k
    BY DEF FirstOf
  <1>2. ASSUME NEW k \in S PROVE k < j <=> k < n \/ k = n
    BY <1>1
  <1>3. QED
    BY <1>1, <1>2

LEMMA StartInOrder ==
  ASSUME OInv, NEW p \in Procs, NEW c \in Offered[kind], Start(p, c)
  PROVE  OrderTypes' /\ \A q \in Procs : Order(q)'
  <1>1. /\ pc[p] = "idle" /\ effects[p] = {} /\ result[p] = "none" /\ late[p] = NoRequest
        /\ command' = [command EXCEPT ![p] = c] /\ UNCHANGED <<effects, late, kind>>
        /\ c.verb \in {"get", "create", "update", "delete"}
    BY ServicesAssumption DEF OInv, SInv, Types, ProcInv, Order, Start, kasVars
  <1>2. Steps(c.given) \subseteq Nat
    BY StepsAreNumbers DEF OInv
  <1>3. \/ /\ c.verb = "update" /\ Steps(c.given) = {}
           /\ Return(p, "invalid") /\ UNCHANGED step
        \/ c.verb = "update" /\ \E j \in FirstOf(Steps(c.given)) : GoOn(p, j)
        \/ /\ c.verb # "update" /\ UNCHANGED <<result, step>>
           /\ pc' = [pc EXCEPT ![p] = CASE c.verb = "get" -> "read"
                                        [] c.verb = "create" -> "add"
                                        [] c.verb = "delete" -> "remove"]
    <2>1. CASE c.verb = "update" /\ Steps(c.given) = {}
      BY <2>1 DEF Start
    <2>2. CASE c.verb = "update" /\ Steps(c.given) # {}
      BY <2>2 DEF Start
    <2>3. CASE c.verb # "update"
      BY <2>3 DEF Start
    <2>4. QED
      BY <2>1, <2>2, <2>3
  <1>4. ASSUME NEW q \in Procs \ {p} PROVE Order(q)'
    <2>1. /\ pc'[q] = pc[q] /\ command'[q] = command[q] /\ result'[q] = result[q]
          /\ step'[q] = step[q] /\ effects'[q] = effects[q] /\ late'[q] = late[q]
      BY <1>1, <1>3 DEF OInv, SInv, Types, OrderTypes, Return, GoOn
    <2>2. QED
      BY <1>1, <2>1, OthersInOrder DEF OInv
  <1>5. command'[p] = c /\ effects'[p] = {} /\ late'[p] = NoRequest
    BY <1>1 DEF OInv, SInv, Types
  <1>6. CASE c.verb = "update" /\ Steps(c.given) = {} /\ Return(p, "invalid") /\ UNCHANGED step
    <2>1. pc'[p] = "done" /\ result'[p] = "invalid"
      BY <1>6 DEF OInv, SInv, Types, Return
    <2>2. QED
      BY <1>1, <1>4, <1>5, <1>6, <2>1 DEF OInv, OrderTypes, Order, Before, Steps, type
  <1>7. CASE c.verb = "update" /\ \E j \in FirstOf(Steps(c.given)) : GoOn(p, j)
    <2>1. PICK j \in FirstOf(Steps(c.given)) : GoOn(p, j)
      BY <1>7
    <2>2. j \in Steps(c.given) /\ {k \in Steps(c.given) : k < j} = {}
      BY <1>2, <2>1, FirstInOrder
    <2>3. step'[p] = j /\ pc'[p] \in {"read", "write"} /\ step' \in [Procs -> Nat]
      BY <1>2, <2>1, <2>2 DEF OInv, SInv, Types, OrderTypes, GoOn, Place
    <2>4. Steps(c.given)' = Steps(c.given)
      BY <1>1 DEF Steps, type
    <2>5. Order(p)'
      BY <1>5, <1>7, <2>2, <2>3, <2>4, <1>1 DEF Order, Before, Steps, type
    <2>6. QED
      BY <1>1, <1>4, <2>3, <2>5 DEF OInv, OrderTypes
  <1>8. CASE /\ c.verb # "update" /\ UNCHANGED <<result, step>>
             /\ pc' = [pc EXCEPT ![p] = CASE c.verb = "get" -> "read"
                                          [] c.verb = "create" -> "add"
                                          [] c.verb = "delete" -> "remove"]
    <2>1. \/ pc'[p] = "read" /\ c.verb = "get"
          \/ pc'[p] = "add" /\ c.verb = "create"
          \/ pc'[p] = "remove" /\ c.verb = "delete"
      BY <1>1, <1>8 DEF OInv, SInv, Types
    <2>2. QED
      BY <1>1, <1>4, <1>5, <1>8, <2>1 DEF OInv, OrderTypes, Order
  <1>9. QED
    BY <1>3, <1>6, <1>7, <1>8

(* A read: the present request is still to be sent, or never will be. *)
LEMMA ReadInOrder ==
  ASSUME OInv, NEW p \in Procs, Read(p)
  PROVE  OrderTypes' /\ \A q \in Procs : Order(q)'
  <1> DEFINE R(a) == GetOneResult(IF a.code = "loss" THEN "lost" ELSE a.code, a.ids)
  <1>1. /\ pc[p] = "read" /\ UNCHANGED <<kind, command, step, effects, late>>
        /\ result[p] = "none" /\ late[p] = NoRequest
    BY DEF OInv, SInv, ProcInv, Read, kasVars
  <1>2. PICK a \in GetAnswers(command[p].id) :
          \/ /\ command[p].verb = "update"
             /\ pc' = [pc EXCEPT ![p] = "write"] /\ UNCHANGED result
          \/ command[p].verb = "get" /\ Return(p, "ok")
          \/ Return(p, "notfound")
          \/ R(a) # "ok" /\ Return(p, R(a))
    <2>1. PICK a \in GetAnswers(command[p].id) :
            LET r == R(a)
                found == r = "ok" /\ command[p].id \in a.ids
            IN CASE found /\ command[p].verb = "get" ->
                      Return(p, "ok") /\ UNCHANGED held
                 [] found /\ command[p].verb = "update" ->
                      /\ held' = [held EXCEPT ![p] = Reported(command[p].id)]
                      /\ pc' = [pc EXCEPT ![p] = "write"]
                      /\ UNCHANGED result
                 [] r = "ok" /\ ~found -> Return(p, "notfound") /\ UNCHANGED held
                 [] OTHER -> Return(p, r) /\ UNCHANGED held
      BY DEF Read
    <2> HIDE DEF R
    <2>2. command[p].verb \in {"get", "update"}
      BY <1>1 DEF OInv, Order
    <2>3. QED
      BY <2>1, <2>2
  <1>3. R(a) \in {"ok", "notfound", "fault", "unclear"}
    BY DEF GetOneResult, ErrorOf
  <1> HIDE DEF R
  <1>4. /\ \A q \in Procs \ {p} : pc'[q] = pc[q] /\ result'[q] = result[q]
        /\ \/ pc'[p] = "write" /\ command[p].verb = "update" /\ result'[p] = "none"
           \/ pc'[p] = "done" /\ result'[p] \in {"notfound", "fault", "unclear"}
           \/ pc'[p] = "done" /\ command[p].verb = "get"
    BY <1>1, <1>2, <1>3 DEF OInv, SInv, Types, Return
  <1>5. Order(p)'
    BY <1>1, <1>4 DEF OInv, Order, Before, Steps, type
  <1>6. ASSUME NEW q \in Procs \ {p} PROVE Order(q)'
    BY <1>1, <1>4, <1>6, OthersInOrder DEF OInv
  <1>7. QED
    BY <1>1, <1>5, <1>6 DEF OInv, OrderTypes

(* After a request: runSteps goes on in order, or returns what is true.     *)
LEMMA AdvanceInOrder ==
  ASSUME OInv, NEW p \in Procs, pc[p] = "write", UNCHANGED <<kind, command>>,
         NEW r, Advance(p, r),
         \/ r = "ok" /\ UNCHANGED late /\ CarriedOut(p)
         \/ r \in {"notfound", "invalid", "fault"} /\ UNCHANGED <<late, effects>>
         \/ r = "unclear" /\ UNCHANGED effects,
         \A q \in Procs \ {p} : late'[q] = late[q]
  PROVE  OrderTypes' /\ \A q \in Procs : Order(q)'
  <1> DEFINE given == command[p].given
             n == step[p]
             S == Steps(given)
  <1>1. /\ command[p].verb = "update" /\ n \in Steps(given)
        /\ effects[p] = {k \in Steps(given) : k < n} /\ late[p] = NoRequest
        /\ result[p] = "none"
    BY DEF OInv, SInv, ProcInv, Order, Before
  <1>2. Steps(given) \subseteq Nat /\ Steps(given)' = Steps(given)
    BY StepsAreNumbers DEF OInv, Steps, type
  <1>3. /\ effects' \in [Procs -> SUBSET Nat]
        /\ effects'[p] = IF r = "ok" THEN effects[p] \cup {n} ELSE effects[p]
        /\ \A q \in Procs \ {p} : effects'[q] = effects[q]
    BY DEF OInv, OrderTypes, CarriedOut
  <1>4. CASE r = "ok" /\ Later(given, n) # {}
    <2>1. PICK j \in FirstOf({k \in Steps(given) : k > n}) : GoOn(p, j)
      BY <1>4 DEF Advance, Later
    <2>2. j \in Steps(given) /\ {k \in Steps(given) : k < j} = {k \in Steps(given) : k < n} \cup {n}
      <3>1. S \subseteq Nat /\ n \in S /\ j \in FirstOf({k \in S : k > n})
        BY <1>1, <1>2, <2>1
      <3> HIDE DEF S, n
      <3>2. j \in S /\ {k \in S : k < j} = {k \in S : k < n} \cup {n}
        BY <3>1, NextInOrder
      <3>3. QED
        BY <3>2 DEF S, n
    <2>3. /\ step'[p] = j /\ pc'[p] \in {"read", "write"} /\ step' \in [Procs -> Nat]
          /\ \A q \in Procs \ {p} : pc'[q] = pc[q] /\ result'[q] = result[q] /\ step'[q] = step[q]
      BY <1>2, <2>1, <2>2 DEF OInv, SInv, Types, OrderTypes, GoOn, Place
    <2>4. effects'[p] = {k \in Steps(given) : k < j}
      BY <1>1, <1>3, <1>4, <2>2
    <2>5. Order(p)'
      BY <1>1, <1>2, <2>2, <2>3, <2>4 DEF Order, Before
    <2>6. ASSUME NEW q \in Procs \ {p} PROVE Order(q)'
      BY <1>3, <2>3, <2>6, OthersInOrder DEF OInv
    <2>7. QED
      BY <1>3, <2>3, <2>5, <2>6 DEF OrderTypes
  <1>5. CASE r # "ok" \/ Later(given, n) = {}
    <2>1. Return(p, r) /\ UNCHANGED step
      BY <1>5 DEF Advance
    <2>2. /\ pc'[p] = "done" /\ result'[p] = r /\ step' \in [Procs -> Nat]
          /\ \A q \in Procs \ {p} : pc'[q] = pc[q] /\ result'[q] = result[q] /\ step'[q] = step[q]
      BY <2>1 DEF OInv, SInv, Types, OrderTypes, Return
    <2>3. r = "ok" => effects'[p] = Steps(given) /\ late'[p] = NoRequest
      <3>1. r = "ok" => \A k \in Steps(given) : ~(k > n)
        BY <1>5 DEF Later
      <3>2. r = "ok" => effects'[p] = {k \in Steps(given) : k < n} \cup {n} /\ late'[p] = late[p]
        BY <1>1, <1>3
      <3>3. QED
        BY <1>1, <1>2, <3>1, <3>2
    <2>4. Order(p)'
      <3>1. command'[p].verb = "update" /\ step'[p] = n
        BY <1>1, <2>1
      <3>2. Steps(command[p].given)' = S /\ Before(p)' = {k \in S : k < n}
        BY <1>2, <3>1 DEF Before, Steps, type
      <3>3. CASE r = "ok"
        BY <1>1, <1>3, <2>2, <2>3, <3>1, <3>2, <3>3 DEF Order
      <3>4. CASE r # "ok"
        <4>1. effects'[p] = Before(p)' /\ r \in {"notfound", "invalid", "fault", "unclear"}
          BY <1>1, <1>3, <3>2, <3>4
        <4>2. QED
          BY <2>2, <3>1, <4>1 DEF Order
      <3>5. QED
        BY <3>3, <3>4
    <2>5. ASSUME NEW q \in Procs \ {p} PROVE Order(q)'
      BY <1>3, <2>2, <2>5, OthersInOrder DEF OInv
    <2>6. QED
      BY <1>3, <2>2, <2>4, <2>5 DEF OrderTypes
  <1>6. QED
    BY <1>4, <1>5

LEMMA WriteInOrder ==
  ASSUME OInv, NEW p \in Procs, Write(p)
  PROVE  OrderTypes' /\ \A q \in Procs : Order(q)'
  <1> DEFINE i == command[p].id
             wanted == Wanted(p)
             sent == Sent(wanted)
  <1>1. pc[p] = "write" /\ UNCHANGED <<kind, command>>
    BY DEF Write
  <1>2. CASE Return(p, "invalid") /\ KasRefuses /\ UNCHANGED <<late, step>>
    BY <1>1, <1>2, AdvanceInOrder DEF Advance, KasRefuses, history
  <1>3. CASE /\ KasUpdate(p, i, sent)
             /\ \E code \in {"TRUE"} \cup
                    IF objects' = objects /\ ~Resets(wanted) THEN {"nothing_to_do"} ELSE {} :
                  Advance(p, ResultOf(wanted, code))
             /\ UNCHANGED late
    <2>1. Advance(p, "ok")
      BY <1>3, ResultCodes
    <2>2. QED
      BY <1>1, <1>3, <2>1, AdvanceInOrder DEF KasUpdate
  <1>4. CASE /\ \E code \in Faults \cup (IF Exists(i) THEN {} ELSE {"not_found"}) \cup {"other"} :
                   Advance(p, ResultOf(wanted, code))
             /\ KasRefuses /\ UNCHANGED late
    <2>1. PICK code \in {"other", "prerequisite", "not_found"} : Advance(p, ResultOf(wanted, code))
      BY <1>4 DEF Faults
    <2>2. ResultOf(wanted, code) \in {"fault", "notfound"}
      BY <2>1, ResultCodes
    <2>3. QED
      BY <1>1, <1>4, <2>1, <2>2, AdvanceInOrder DEF KasRefuses, history
  <1>5. CASE Lost(p, "update", i, sent) /\ Advance(p, ResultOf(wanted, "lost"))
    <2>1. Advance(p, "unclear")
      BY <1>5, ResultCodes
    <2>2. UNCHANGED effects /\ \A q \in Procs \ {p} : late'[q] = late[q]
      BY <1>5 DEF Lost, KasRefuses, history, OInv, SInv, Types
    <2>3. QED
      BY <1>1, <2>1, <2>2, AdvanceInOrder
  <1>6. QED
    BY <1>2, <1>3, <1>4, <1>5 DEF Write

(* What is not an update leaves the updates alone. *)
LEMMA OtherInOrder ==
  ASSUME OInv, NEW p \in Procs, Add(p) \/ Lookup(p) \/ Remove(p)
  PROVE  OrderTypes' /\ \A q \in Procs : Order(q)'
  <1>1. /\ pc[p] \in {"add", "lookup", "remove"} /\ command[p].verb \in {"create", "delete"}
        /\ UNCHANGED <<kind, command, step>>
    BY DEF OInv, Order, Add, Lookup, Remove
  <1>2. UNCHANGED effects \/ CarriedOut(p)
    BY DEF Add, Lookup, Remove, KasAdd, KasRemove, KasRefuses, Lost, history
  <1>3. pc' = [pc EXCEPT ![p] = "done"] \/ (pc[p] = "add" /\ pc' = [pc EXCEPT ![p] = "lookup"])
    BY DEF Add, Lookup, Remove, Return
  <1>4. \A q \in Procs \ {p} : result'[q] = result[q]
    BY DEF OInv, SInv, Types, Add, Lookup, Remove, Return
  <1>5. \A q \in Procs \ {p} : late'[q] = late[q]
    BY DEF OInv, SInv, Types, Add, Lookup, Remove, Lost, kasVars
  <1>6. /\ effects' \in [Procs -> SUBSET Nat]
        /\ \A q \in Procs \ {p} : effects'[q] = effects[q] /\ pc'[q] = pc[q]
        /\ pc'[p] = "done" \/ (pc'[p] = "lookup" /\ pc[p] = "add")
    BY <1>2, <1>3 DEF OInv, SInv, Types, OrderTypes, CarriedOut
  <1>7. Order(p)'
    BY <1>1, <1>6 DEF OInv, Order
  <1>8. ASSUME NEW q \in Procs \ {p} PROVE Order(q)'
    BY <1>1, <1>4, <1>5, <1>6, <1>8, OthersInOrder DEF OInv
  <1>9. QED
    BY <1>1, <1>6, <1>7, <1>8 DEF OInv, OrderTypes

LEMMA LateInOrder ==
  ASSUME OInv, NEW p \in Procs, Late(p)
  PROVE  OrderTypes' /\ \A q \in Procs : Order(q)'
  <1>1. /\ late[p] # NoRequest /\ late' = [late EXCEPT ![p] = NoRequest]
        /\ UNCHANGED <<kind, command, pc, step, result>>
        /\ result[p] = "unclear" /\ pc[p] = "done"
    BY DEF OInv, SInv, ProcInv, Late, clientVars
  <1>2. UNCHANGED effects \/ CarriedOut(p)
    BY DEF Late, KasUpdate, KasAdd, KasRemove
  <1>3. /\ effects' \in [Procs -> SUBSET Nat]
        /\ effects'[p] \in {effects[p], effects[p] \cup {step[p]}}
        /\ \A q \in Procs \ {p} : effects'[q] = effects[q] /\ late'[q] = late[q]
        /\ late'[p] = NoRequest
    BY <1>1, <1>2 DEF OInv, SInv, Types, OrderTypes, CarriedOut
  <1>4. Order(p)'
    BY <1>1, <1>3 DEF OInv, Order, Before, Steps, type
  <1>5. ASSUME NEW q \in Procs \ {p} PROVE Order(q)'
    BY <1>1, <1>3, <1>5, OthersInOrder DEF OInv
  <1>6. QED
    BY <1>1, <1>3, <1>4, <1>5 DEF OInv, OrderTypes

LEMMA StutterInOrder == OInv /\ UNCHANGED svars => OrderTypes' /\ \A q \in Procs : Order(q)'
  BY OthersInOrder DEF OInv, OrderTypes, svars, kasVars, clientVars, history

THEOREM OrderInvariance == ServicesSpec => []OInv
  <1>1. SInv /\ OInv /\ [ServicesNext]_svars => OrderTypes' /\ \A q \in Procs : Order(q)'
    BY StartInOrder, ReadInOrder, WriteInOrder, OtherInOrder, LateInOrder, StutterInOrder
    DEF ServicesNext
  <1>2. SInv' /\ OrderTypes' /\ (\A q \in Procs : Order(q)') => OInv'
    BY DEF OInv
  <1>3. ServicesInit => OInv
    BY InitSInv, InitOrder DEF OInv
  <1>4. QED
    BY ServicesInvariance, <1>1, <1>2, <1>3, PTL DEF ServicesSpec

(* runSteps sends the requests of an update in order up to the first that   *)
(* fails (write.go:789-806): success means all were carried out, a clean    *)
(* error exactly those before the one that failed, and only a lost answer   *)
(* leaves a doubt, about one request.                                       *)
THEOREM UpdatesInOrder == ServicesSpec => []StepsInOrder
  <1>1. OInv => StepsInOrder
    BY DEF OInv, Order, StepsInOrder
  <1>2. QED
    BY OrderInvariance, <1>1, PTL
=============================================================================
