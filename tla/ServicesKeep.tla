----------------------------- MODULE ServicesKeep -----------------------------
(* The types of everything, what an update leaves alone, and what a new     *)
(* object is found by, for any number of clients and commands.              *)
EXTENDS ServicesProofs

-----------------------------------------------------------------------------
(* The resource types *)

(* What is read and written back whole is reported by KAS, or not sent when *)
(* it is empty, or given anyway.                                            *)
WritesBack(t) ==
  \A n \in DOMAIN t.plan : t.plan[n].reads =>
    \A f \in t.plan[n].carries : f \notin t.resets /\ (f \in t.secrets => f \in t.omits \cup t.asks)

Placed(t) == DOMAIN t.plan \subseteq Nat \ {0}

LEMMA TypesWriteBack ==
  ASSUME NEW k \in DOMAIN Resource
  PROVE  WritesBack(Resource[k]) /\ Placed(Resource[k])
  <1> USE DEF Type, WithPassword, MailSteps, AccountSteps, Password, Partial, Whole,
              WritesBack, Placed
  <1>1. WritesBack(DNSRecords) /\ Placed(DNSRecords)
    BY DEF DNSRecords
  <1>2. WritesBack(MailAccounts) /\ Placed(MailAccounts)
    BY DEF MailAccounts
  <1>3. WritesBack(MailForwards) /\ Placed(MailForwards)
    BY DEF MailForwards
  <1>4. WritesBack(Domains) /\ Placed(Domains) /\ WritesBack(Subdomains) /\ Placed(Subdomains)
    BY DEF Domains, Subdomains
  <1>5. WritesBack(TLS) /\ Placed(TLS)
    BY DEF TLS
  <1>6. WritesBack(FTPUsers) /\ Placed(FTPUsers)
    BY DEF FTPUsers
  <1>7. WritesBack(Databases) /\ Placed(Databases)
    BY DEF Databases
  <1>8. WritesBack(Cronjobs) /\ Placed(Cronjobs)
    BY DEF Cronjobs, CronSettings
  <1>9. WritesBack(DDNSUsers) /\ Placed(DDNSUsers)
    BY DEF DDNSUsers
  <1>10. WritesBack(SambaUsers) /\ Placed(SambaUsers)
    BY DEF SambaUsers
  <1>11. WritesBack(DirectoryProtections) /\ Placed(DirectoryProtections)
    BY DEF DirectoryProtections
  <1>12. WritesBack(MailingLists) /\ Placed(MailingLists)
    BY DEF MailingLists
  <1>13. WritesBack(Accounts) /\ Placed(Accounts)
    BY DEF Accounts
  <1>14. WritesBack(AccountSettings) /\ Placed(AccountSettings)
    BY DEF AccountSettings
  <1> HIDE DEF WritesBack, Placed
  <1>15. QED
    BY <1>1, <1>2, <1>3, <1>4, <1>5, <1>6, <1>7, <1>8, <1>9, <1>10, <1>11, <1>12, <1>13, <1>14
    DEF Resource

-----------------------------------------------------------------------------
(* The invariant *)

(* An object, what an update sends and what a creation gives.               *)
Sound(object) ==
  /\ object \in [Settings(type) -> Stored]
  /\ \A f \in type.defaults \cap Settings(type) : object[f] # Empty

Sendable(sent) ==
  \A f \in DOMAIN sent : sent[f] \in Stored /\ (f \in type.defaults => sent[f] # Empty)

Creatable(given) == \A f \in DOMAIN given : given[f] \in Stored

Readings == [Carried(type) -> Stored]

Store ==
  /\ First \in used /\ used \subseteq Ids
  /\ \A i \in Ids : objects[i] = Absent \/ Sound(objects[i])
  /\ touched \in [Procs -> BOOLEAN]

KeepTypes ==
  /\ Store
  /\ command \in [Procs -> Offered[kind] \cup {Idle}]
  /\ step \in [Procs -> Nat \ {0}]
  /\ held \in [Procs -> Readings \cup {NoObject}]
  /\ returned \in [Procs -> Ids \cup {NoId}]

(* What a client is about to write back is what it has read, and what it    *)
(* has read is what KAS has as long as nobody else writes it.               *)
Holds(p) ==
  LET i == command[p].id IN
    pc[p] = "write" /\ type.plan[step[p]].reads =>
      /\ held[p] \in Readings
      /\ i \in used
      /\ ~touched[p] /\ Exists(i) => held[p] = Reported(i)

(* What is still on its way is as good as what was sent in time.            *)
LateKnown(p) ==
  late[p] # NoRequest =>
    /\ late[p].verb = "update" => Sendable(late[p].sent)
    /\ late[p].verb = "create" => Creatable(late[p].sent)

KInv == OInv /\ KeepTypes /\ \A p \in Procs : Holds(p) /\ LateKnown(p)

-----------------------------------------------------------------------------
(* KAS *)

LEMMA ValuesApart ==
  /\ Default \in Stored /\ Empty \in Stored /\ Bad \notin Stored
  /\ Default # Empty
  BY ServicesAssumption DEF Stored

LEMMA CarriedAreSettings ==
  /\ Carried(type) \subseteq Settings(type)
  /\ \A n \in DOMAIN type.plan : type.plan[n].carries \subseteq Carried(type)
  BY DEF Carried, Settings

LEMMA NewIsSound ==
  ASSUME NEW given, Creatable(given)
  PROVE  Sound(New(given))
  <1> USE ValuesApart
  <1>1. ASSUME NEW f \in Settings(type)
        PROVE  New(given)[f] \in Stored /\ (f \in type.defaults => New(given)[f] # Empty)
    <2>1. CASE f \in DOMAIN given /\ ~(f \in type.defaults \cup type.omits /\ given[f] = Empty)
      BY <2>1 DEF New, Creatable
    <2>2. CASE ~(f \in DOMAIN given /\ ~(f \in type.defaults \cup type.omits /\ given[f] = Empty))
      BY <2>2 DEF New
    <2>3. QED
      BY <2>1, <2>2
  <1>2. New(given) \in [Settings(type) -> Stored]
    BY <1>1 DEF New
  <1>3. QED
    BY <1>1, <1>2 DEF Sound

LEMMA OverwrittenIsSound ==
  ASSUME NEW i \in Ids, Sound(objects[i]), NEW sent, Sendable(sent)
  PROVE  Sound(Overwritten(i, sent))
  <1>1. DOMAIN objects[i] = Settings(type)
    BY DEF Sound
  <1>2. ASSUME NEW f \in Settings(type)
        PROVE  /\ Overwritten(i, sent)[f] \in Stored
               /\ f \in type.defaults => Overwritten(i, sent)[f] # Empty
    <2>1. CASE f \in DOMAIN sent
      BY <1>1, <2>1 DEF Overwritten, Sendable
    <2>2. CASE f \notin DOMAIN sent
      BY <1>1, <2>2 DEF Overwritten, Sound
    <2>3. QED
      BY <2>1, <2>2
  <1>3. Overwritten(i, sent) \in [Settings(type) -> Stored]
    BY <1>1, <1>2 DEF Overwritten
  <1>4. QED
    BY <1>2, <1>3 DEF Sound

LEMMA ReportedIsReading ==
  ASSUME NEW i \in Ids, Sound(objects[i])
  PROVE  Reported(i) \in Readings
  BY ValuesApart, CarriedAreSettings DEF Reported, Readings, Sound

(* What KAS does for p leaves its objects sound, and nobody else's object   *)
(* changes unless it is touched.                                            *)
Untouched(q) ==
  command[q].id \in used /\ ~touched'[q] =>
    ~touched[q] /\ objects'[command[q].id] = objects[command[q].id]

Followed(p) ==
  /\ Store'
  /\ used \subseteq used'
  /\ \A q \in Procs \ {p} : Untouched(q)

LEMMA StoreKept ==
  ASSUME UNCHANGED kind, First \in used', used' \subseteq Ids,
         \A i \in Ids : objects'[i] = Absent \/ Sound(objects'[i]),
         touched' \in [Procs -> BOOLEAN]
  PROVE  Store'
  BY DEF Store, Sound, type

LEMMA ChangeFollowed ==
  ASSUME Store, UNCHANGED <<kind, used>>, objects = [j \in Ids |-> objects[j]],
         NEW p \in Procs, NEW i \in Ids, NEW new,
         new = Absent \/ Sound(new),
         objects' = [objects EXCEPT ![i] = new], Touch(p, i)
  PROVE  Followed(p)
  <1>1. touched' \in [Procs -> BOOLEAN]
    BY DEF Touch, Store
  <1>2. ASSUME NEW j \in Ids PROVE objects'[j] = Absent \/ Sound(objects'[j])
    BY DEF Store
  <1>3. Store'
    BY <1>1, <1>2, StoreKept DEF Store
  <1>4. ASSUME NEW q \in Procs \ {p} PROVE Untouched(q)
    BY DEF Untouched, Touch, Store
  <1>5. QED
    BY <1>3, <1>4 DEF Followed

LEMMA UpdateFollowed ==
  ASSUME Store, UNCHANGED kind, objects = [j \in Ids |-> objects[j]],
         NEW p \in Procs, NEW i \in Ids, NEW sent, Sendable(sent), KasUpdate(p, i, sent)
  PROVE  Followed(p)
  <1>1. Sound(Overwritten(i, sent))
    BY OverwrittenIsSound DEF KasUpdate, Exists, Store
  <1>2. QED
    BY <1>1, ChangeFollowed DEF KasUpdate

LEMMA RemoveFollowed ==
  ASSUME Store, UNCHANGED kind, objects = [j \in Ids |-> objects[j]],
         NEW p \in Procs, NEW i \in Ids, KasRemove(p, i)
  PROVE  Followed(p)
  BY ChangeFollowed DEF KasRemove

LEMMA AddFollowed ==
  ASSUME Store, UNCHANGED kind, objects = [j \in Ids |-> objects[j]],
         NEW p \in Procs, NEW given, Creatable(given), KasAdd(p, given)
  PROVE  Followed(p)
  <1>1. PICK i \in Ids \ used :
          /\ objects' = [objects EXCEPT ![i] = New(given)]
          /\ used' = used \cup {i} /\ UNCHANGED touched
    BY DEF KasAdd
  <1>2. Sound(New(given))
    BY NewIsSound
  <1>3. ASSUME NEW j \in Ids PROVE objects'[j] = Absent \/ Sound(objects'[j])
    BY <1>1, <1>2 DEF Store
  <1>4. Store'
    BY <1>1, <1>3, StoreKept DEF Store
  <1>5. ASSUME NEW q \in Procs PROVE Untouched(q)
    BY <1>1 DEF Untouched, Store
  <1>6. QED
    BY <1>1, <1>4, <1>5 DEF Followed

LEMMA NothingFollowed ==
  ASSUME Store, UNCHANGED <<kind, objects, used, touched>>, NEW p \in Procs
  PROVE  Followed(p)
  BY StoreKept DEF Followed, Untouched, Store

-----------------------------------------------------------------------------
(* The clients *)

(* A client that does nothing keeps what it knows. *)
LEMMA OthersHold ==
  ASSUME NEW p \in Procs, Followed(p), NEW q \in Procs \ {p},
         Holds(q), LateKnown(q), UNCHANGED kind,
         pc'[q] = pc[q], command'[q] = command[q], step'[q] = step[q],
         held'[q] = held[q], late'[q] = late[q]
  PROVE  Holds(q)' /\ LateKnown(q)'
  <1>1. used \subseteq used' /\ Untouched(q)
    BY DEF Followed
  <1>2. type' = type /\ Readings' = Readings
    BY DEF type, Readings, Stored
  <1>3. LateKnown(q)'
    BY <1>2 DEF LateKnown, Sendable, Creatable, Stored
  <1>4. Holds(q)'
    <2> DEFINE i == command[q].id
    <2>1. SUFFICES ASSUME pc[q] = "write", type.plan[step[q]].reads
                   PROVE  /\ held[q] \in Readings
                          /\ i \in used'
                          /\ ~touched'[q] /\ objects'[i] # Absent => held[q] = Reported(i)'
      BY <1>2 DEF Holds, Exists
    <2>2. held[q] \in Readings /\ i \in used'
      BY <1>1, <2>1 DEF Holds
    <2>3. ASSUME ~touched'[q], objects'[i] # Absent PROVE held[q] = Reported(i)'
      <3>1. ~touched[q] /\ objects'[i] = objects[i]
        BY <1>1, <2>1, <2>3 DEF Holds, Untouched
      <3>2. held[q] = Reported(i)
        BY <2>1, <2>3, <3>1 DEF Holds, Exists
      <3>3. Reported(i)' = Reported(i)
        BY <1>2, <3>1 DEF Reported
      <3>4. QED
        BY <3>2, <3>3
    <2>4. QED
      BY <2>2, <2>3
  <1>5. QED
    BY <1>3, <1>4

(* What is left to show of a step of p. *)
LEMMA StepHolds ==
  ASSUME KInv, NEW p \in Procs, Followed(p), UNCHANGED kind,
         \A q \in Procs \ {p} :
           /\ pc'[q] = pc[q] /\ command'[q] = command[q] /\ step'[q] = step[q]
           /\ held'[q] = held[q] /\ late'[q] = late[q],
         command' \in [Procs -> Offered[kind] \cup {Idle}],
         step' \in [Procs -> Nat \ {0}],
         held' \in [Procs -> Readings \cup {NoObject}],
         returned' \in [Procs -> Ids \cup {NoId}],
         Holds(p)', LateKnown(p)'
  PROVE  KeepTypes' /\ \A q \in Procs : Holds(q)' /\ LateKnown(q)'
  <1>1. Readings' = Readings
    BY DEF type, Readings, Stored
  <1>2. KeepTypes'
    BY <1>1 DEF KeepTypes, Followed
  <1>3. ASSUME NEW q \in Procs \ {p} PROVE Holds(q)' /\ LateKnown(q)'
    BY <1>3, OthersHold DEF KInv
  <1>4. QED
    BY <1>2, <1>3

(* Where a request reads first, it is not about to be sent. *)
LEMMA FreshHolds ==
  ASSUME NEW p \in Procs, UNCHANGED kind,
         pc'[p] = "write" => ~type.plan[step'[p]].reads
  PROVE  Holds(p)'
  BY DEF Holds, type

LEMMA NoRequestKnown ==
  ASSUME NEW p \in Procs, late'[p] = NoRequest
  PROVE  LateKnown(p)'
  BY DEF LateKnown

LEMMA UpdateKnown ==
  ASSUME NEW p \in Procs, NEW i, NEW sent, UNCHANGED kind, Sendable(sent),
         late'[p] = [verb |-> "update", id |-> i, sent |-> sent]
  PROVE  LateKnown(p)'
  BY DEF LateKnown, Sendable, Stored, type

LEMMA CreateKnown ==
  ASSUME NEW p \in Procs, NEW i, NEW given, UNCHANGED kind, Creatable(given),
         late'[p] = [verb |-> "create", id |-> i, sent |-> given]
  PROVE  LateKnown(p)'
  BY DEF LateKnown, Creatable, Stored, type

LEMMA StepsArePlaced ==
  ASSUME SInv, NEW given
  PROVE  Steps(given) \subseteq Nat \ {0}
  BY TypesWriteBack, ServicesAssumption DEF SInv, Types, Steps, type, Placed

LEMMA GoOnPlaced ==
  ASSUME NEW p \in Procs, pc \in [Procs -> Places], step \in [Procs -> Nat \ {0}],
         NEW j \in Nat \ {0}, GoOn(p, j)
  PROVE  /\ step' \in [Procs -> Nat \ {0}] /\ step'[p] = j
         /\ pc'[p] = "write" => ~type.plan[j].reads
         /\ \A q \in Procs \ {p} : pc'[q] = pc[q] /\ step'[q] = step[q]
  BY DEF GoOn, Place

LEMMA StartHolds ==
  ASSUME KInv, NEW p \in Procs, NEW c \in Offered[kind], Start(p, c)
  PROVE  KeepTypes' /\ \A q \in Procs : Holds(q)' /\ LateKnown(q)'
  <1>1. /\ pc[p] = "idle" /\ late[p] = NoRequest
        /\ command' = [command EXCEPT ![p] = c]
        /\ UNCHANGED <<objects, used, late, kind, held, returned, touched>>
    BY DEF KInv, OInv, SInv, ProcInv, Start, kasVars
  <1>2. Followed(p)
    BY <1>1, NothingFollowed DEF KInv, KeepTypes
  <1>3. pc \in [Procs -> Places] /\ step \in [Procs -> Nat \ {0}] /\ Steps(c.given) \subseteq Nat \ {0}
    BY StepsArePlaced DEF KInv, OInv, SInv, Types, KeepTypes
  <1>4. /\ step' \in [Procs -> Nat \ {0}]
        /\ pc'[p] = "write" => ~type.plan[step'[p]].reads
        /\ \A q \in Procs \ {p} : pc'[q] = pc[q] /\ step'[q] = step[q]
    <2>1. CASE c.verb = "update" /\ Steps(c.given) = {}
      BY <1>3, <2>1 DEF Start, Return
    <2>2. CASE c.verb = "update" /\ Steps(c.given) # {}
      <3>1. PICK j \in FirstOf(Steps(c.given)) : GoOn(p, j)
        BY <2>2 DEF Start
      <3>2. j \in Nat \ {0}
        BY <1>3, <3>1 DEF FirstOf
      <3>3. QED
        BY <1>3, <3>1, <3>2, GoOnPlaced
    <2>3. CASE c.verb # "update"
      <3>1. c.verb \in {"get", "create", "delete"}
        BY <2>3, ServicesAssumption DEF KInv, OInv, SInv, Types
      <3>2. UNCHANGED step /\ \E place \in {"read", "add", "remove"} : pc' = [pc EXCEPT ![p] = place]
        BY <2>3, <3>1 DEF Start
      <3>3. QED
        BY <1>3, <3>2
    <2>4. QED
      BY <2>1, <2>2, <2>3
  <1>5. Holds(p)' /\ LateKnown(p)'
    BY <1>1, <1>4, FreshHolds, NoRequestKnown
  <1>6. /\ command' \in [Procs -> Offered[kind] \cup {Idle}]
        /\ \A q \in Procs \ {p} : command'[q] = command[q]
    BY <1>1 DEF KInv, KeepTypes
  <1>7. held' \in [Procs -> Readings \cup {NoObject}] /\ returned' \in [Procs -> Ids \cup {NoId}]
    BY <1>1 DEF KInv, KeepTypes
  <1>8. QED
    BY <1>1, <1>2, <1>4, <1>5, <1>6, <1>7, StepHolds

(* What has been read is what KAS has. *)
LEMMA ReadHolds ==
  ASSUME KInv, NEW p \in Procs, Read(p)
  PROVE  KeepTypes' /\ \A q \in Procs : Holds(q)' /\ LateKnown(q)'
  <1> DEFINE i == command[p].id
             R(a) == GetOneResult(IF a.code = "loss" THEN "lost" ELSE a.code, a.ids)
  <1>1. /\ pc[p] = "read" /\ late[p] = NoRequest /\ i \in Ids
        /\ UNCHANGED <<objects, used, late, kind, command, step, returned>>
        /\ touched' = [touched EXCEPT ![p] = FALSE]
    BY DEF KInv, OInv, SInv, ProcInv, Read, kasVars
  <1>2. PICK a \in GetAnswers(i) :
          \/ /\ R(a) = "ok" /\ i \in a.ids
             /\ held' = [held EXCEPT ![p] = Reported(i)]
             /\ pc' = [pc EXCEPT ![p] = "write"]
          \/ UNCHANGED held /\ pc' = [pc EXCEPT ![p] = "done"]
    BY DEF Read, Return
  <1>3. i \in a.ids => Exists(i)
    BY <1>1, <1>2 DEF GetAnswers
  <1>4. \/ /\ Exists(i) /\ Sound(objects[i]) /\ i \in used
           /\ held' = [held EXCEPT ![p] = Reported(i)]
           /\ pc' = [pc EXCEPT ![p] = "write"]
        \/ UNCHANGED held /\ pc' = [pc EXCEPT ![p] = "done"]
    BY <1>1, <1>2, <1>3 DEF KInv, OInv, SInv, World, KeepTypes, Store, Exists
  <1>5. Followed(p)
    <2>1. touched' \in [Procs -> BOOLEAN] /\ \A q \in Procs \ {p} : touched'[q] = touched[q]
      BY <1>1 DEF KInv, KeepTypes, Store
    <2>2. Store'
      BY <1>1, <2>1, StoreKept DEF KInv, KeepTypes, Store
    <2>3. QED
      BY <1>1, <2>1, <2>2 DEF Followed, Untouched
  <1>6. /\ held' \in [Procs -> Readings \cup {NoObject}]
        /\ \A q \in Procs \ {p} : pc'[q] = pc[q] /\ held'[q] = held[q]
    BY <1>1, <1>4, ReportedIsReading DEF KInv, KeepTypes, OInv, SInv, Types
  <1>7. Holds(p)'
    <2>1. CASE UNCHANGED held /\ pc' = [pc EXCEPT ![p] = "done"]
      BY <1>1, <2>1, FreshHolds DEF KInv, OInv, SInv, Types
    <2>2. CASE /\ Exists(i) /\ Sound(objects[i]) /\ i \in used
               /\ held' = [held EXCEPT ![p] = Reported(i)]
               /\ pc' = [pc EXCEPT ![p] = "write"]
      <3>1. held'[p] = Reported(i) /\ Reported(i) \in Readings
        BY <1>1, <2>2, ReportedIsReading DEF KInv, KeepTypes
      <3>2. Reported(i)' = Reported(i) /\ Readings' = Readings /\ used' = used /\ i' = i
        BY <1>1 DEF Reported, Readings, Stored, type
      <3>3. QED
        BY <2>2, <3>1, <3>2 DEF Holds
    <2>3. QED
      BY <1>4, <2>1, <2>2
  <1>8. LateKnown(p)'
    BY <1>1, NoRequestKnown
  <1>9. /\ command' \in [Procs -> Offered[kind] \cup {Idle}]
        /\ step' \in [Procs -> Nat \ {0}] /\ returned' \in [Procs -> Ids \cup {NoId}]
    BY <1>1 DEF KInv, KeepTypes
  <1>10. QED
    BY <1>1, <1>5, <1>6, <1>7, <1>8, <1>9, StepHolds

(* What passes the checks may be stored. *)
LEMMA GivenStored ==
  ASSUME KInv, NEW p \in Procs, command[p] # Idle,
         NEW f \in DOMAIN command[p].given,
         f \in type.checks => command[p].given[f] # Bad
  PROVE  command[p].given[f] \in Stored
  <1>1. kind \in DOMAIN Offered /\ command[p] \in Offered[kind]
    BY DEF KInv, KeepTypes, OInv, SInv, Types
  <1>2. QED
    BY <1>1, GivenAssumption DEF type

LEMMA WantedStored ==
  ASSUME KInv, NEW p \in Procs, pc[p] = "write", Valid(Wanted(p))
  PROVE  Sendable(Sent(Wanted(p)))
  <1> DEFINE s == type.plan[step[p]]
             given == command[p].given
             wanted == Wanted(p)
  <1>1. /\ command[p].verb = "update" /\ command[p] # Idle
        /\ step[p] \in DOMAIN type.plan
    BY DEF KInv, OInv, SInv, ProcInv, Order, Steps, Idle
  <1>2. /\ DOMAIN wanted = IF s.reads THEN s.carries ELSE s.carries \cap DOMAIN given
        /\ \A f \in DOMAIN wanted : wanted[f] = IF f \in DOMAIN given THEN given[f] ELSE held[p][f]
    BY DEF Wanted
  <1>3. ASSUME NEW f \in DOMAIN wanted PROVE wanted[f] \in Stored
    <2>1. CASE f \in DOMAIN given
      <3>1. wanted[f] = given[f]
        BY <1>2, <1>3, <2>1
      <3>2. f \in type.checks => given[f] # Bad
        BY <1>3, <3>1 DEF Valid
      <3>3. QED
        BY <1>1, <2>1, <3>1, <3>2, GivenStored
    <2>2. CASE f \notin DOMAIN given
      <3>1. s.reads /\ f \in s.carries /\ wanted[f] = held[p][f]
        BY <1>2, <1>3, <2>2
      <3>2. held[p] \in Readings /\ f \in Carried(type)
        BY <1>1, <3>1, CarriedAreSettings DEF KInv, Holds
      <3>3. QED
        BY <3>1, <3>2 DEF Readings
    <2>3. QED
      BY <2>1, <2>2
  <1> HIDE DEF wanted
  <1>4. ASSUME NEW f \in DOMAIN Sent(wanted)
        PROVE  Sent(wanted)[f] \in Stored /\ (f \in type.defaults => Sent(wanted)[f] # Empty)
    <2>1. f \in DOMAIN wanted
      BY <1>4 DEF Sent
    <2>2. Sent(wanted)[f] = IF f \in type.defaults \cup type.resets /\ wanted[f] = Empty
                              THEN Default ELSE wanted[f]
      BY <1>4 DEF Sent
    <2>3. QED
      BY <1>3, <2>1, <2>2, ValuesApart
  <1>5. QED
    BY <1>4 DEF Sendable, wanted

(* After a request the client goes on or returns. *)
LEMMA AdvanceHolds ==
  ASSUME KInv, NEW p \in Procs, pc[p] = "write", Followed(p),
         UNCHANGED <<kind, command, held, returned>>, NEW r, Advance(p, r),
         \A q \in Procs \ {p} : late'[q] = late[q],
         LateKnown(p)'
  PROVE  KeepTypes' /\ \A q \in Procs : Holds(q)' /\ LateKnown(q)'
  <1> DEFINE later == Later(command[p].given, step[p])
  <1>1. pc \in [Procs -> Places] /\ step \in [Procs -> Nat \ {0}]
    BY DEF KInv, OInv, SInv, Types, KeepTypes
  <1>2. /\ step' \in [Procs -> Nat \ {0}]
        /\ pc'[p] = "write" => ~type.plan[step'[p]].reads
        /\ \A q \in Procs \ {p} : pc'[q] = pc[q] /\ step'[q] = step[q]
    <2>1. CASE r = "ok" /\ later # {}
      <3>1. PICK j \in FirstOf(later) : GoOn(p, j)
        BY <2>1 DEF Advance
      <3>2. j \in Steps(command[p].given)
        BY <3>1 DEF FirstOf, Later
      <3>3. j \in Nat \ {0}
        BY <3>2, StepsArePlaced DEF KInv, OInv
      <3>4. QED
        BY <1>1, <3>1, <3>3, GoOnPlaced
    <2>2. CASE r # "ok" \/ later = {}
      BY <1>1, <2>2 DEF Advance, Return
    <2>3. QED
      BY <2>1, <2>2
  <1>3. Holds(p)'
    BY <1>2, FreshHolds
  <1>4. /\ command' \in [Procs -> Offered[kind] \cup {Idle}]
        /\ held' \in [Procs -> Readings \cup {NoObject}]
        /\ returned' \in [Procs -> Ids \cup {NoId}]
    BY DEF KInv, KeepTypes
  <1>5. QED
    BY <1>2, <1>3, <1>4, StepHolds

LEMMA WriteHolds ==
  ASSUME KInv, NEW p \in Procs, Write(p)
  PROVE  KeepTypes' /\ \A q \in Procs : Holds(q)' /\ LateKnown(q)'
  <1> DEFINE i == command[p].id
             wanted == Wanted(p)
             sent == Sent(wanted)
  <1>1. /\ pc[p] = "write" /\ UNCHANGED <<kind, command, held, returned>>
        /\ i \in Ids /\ late[p] = NoRequest /\ Store
        /\ objects = [j \in Ids |-> objects[j]]
    BY DEF KInv, OInv, SInv, Types, ProcInv, KeepTypes, Write
  <1>2. KasRefuses => Followed(p)
    BY <1>1, NothingFollowed DEF KasRefuses, history
  <1>3. UNCHANGED late => LateKnown(p)' /\ \A q \in Procs \ {p} : late'[q] = late[q]
    BY <1>1, NoRequestKnown
  <1>4. CASE Return(p, "invalid") /\ KasRefuses /\ UNCHANGED <<late, step>>
    <2>1. Advance(p, "invalid")
      BY <1>4 DEF Advance
    <2>2. QED
      BY <1>1, <1>2, <1>3, <1>4, <2>1, AdvanceHolds
  <1>5. CASE /\ Valid(wanted)
             /\ KasUpdate(p, i, sent)
             /\ \E r : Advance(p, r)
             /\ UNCHANGED late
    <2>1. Followed(p)
      BY <1>1, <1>5, WantedStored, UpdateFollowed
    <2>2. QED
      BY <1>1, <1>3, <1>5, <2>1, AdvanceHolds
  <1>6. CASE (\E r : Advance(p, r)) /\ KasRefuses /\ UNCHANGED late
    BY <1>1, <1>2, <1>3, <1>6, AdvanceHolds
  <1>7. CASE Valid(wanted) /\ Lost(p, "update", i, sent) /\ \E r : Advance(p, r)
    <2>1. /\ late'[p] = [verb |-> "update", id |-> i, sent |-> sent]
          /\ \A q \in Procs \ {p} : late'[q] = late[q]
      BY <1>7 DEF Lost, KInv, OInv, SInv, Types
    <2>2. Sendable(sent)
      BY <1>1, <1>7, WantedStored
    <2>3. LateKnown(p)'
      BY <1>1, <2>1, <2>2, UpdateKnown
    <2>4. QED
      BY <1>1, <1>2, <1>7, <2>1, <2>3, AdvanceHolds DEF Lost
  <1>8. QED
    BY <1>4, <1>5, <1>6, <1>7 DEF Write

LEMMA AddHolds ==
  ASSUME KInv, NEW p \in Procs, Add(p)
  PROVE  KeepTypes' /\ \A q \in Procs : Holds(q)' /\ LateKnown(q)'
  <1> DEFINE given == command[p].given
  <1>1. /\ pc[p] = "add" /\ UNCHANGED <<kind, command, step, held>>
        /\ command[p].verb = "create" /\ command[p] # Idle
        /\ late[p] = NoRequest /\ Store
        /\ objects = [j \in Ids |-> objects[j]]
        /\ pc \in [Procs -> Places]
    BY DEF KInv, OInv, SInv, Types, ProcInv, Order, KeepTypes, Add, Idle
  <1>2. Valid(given) => Creatable(given)
    BY <1>1, GivenStored DEF Valid, Creatable
  <1>3. /\ pc'[p] # "write"
        /\ \A q \in Procs \ {p} : pc'[q] = pc[q]
    <2>1. pc' = [pc EXCEPT ![p] = "done"] \/ pc' = [pc EXCEPT ![p] = "lookup"]
      BY DEF Add, Return
    <2>2. QED
      BY <1>1, <2>1
  <1>4. Holds(p)'
    BY <1>1, <1>3, FreshHolds
  <1>5. returned' \in [Procs -> Ids \cup {NoId}]
    <2>1. UNCHANGED returned \/ (KasAdd(p, given) /\ returned' = [returned EXCEPT ![p] = made'[p]])
      BY DEF Add
    <2>2. KasAdd(p, given) => made'[p] \in Ids
      BY DEF KasAdd, KInv, OInv, SInv, Types
    <2>3. QED
      BY <2>1, <2>2 DEF KInv, KeepTypes
  <1>6. /\ Followed(p) /\ LateKnown(p)'
        /\ \A q \in Procs \ {p} : late'[q] = late[q]
    <2>1. CASE KasRefuses /\ UNCHANGED late
      BY <1>1, <2>1, NothingFollowed, NoRequestKnown DEF KasRefuses, history
    <2>2. CASE Valid(given) /\ KasAdd(p, given) /\ UNCHANGED late
      BY <1>1, <1>2, <2>2, AddFollowed, NoRequestKnown
    <2>3. CASE Valid(given) /\ Lost(p, "create", NoId, given)
      <3>1. Followed(p)
        BY <1>1, <2>3, NothingFollowed DEF Lost, KasRefuses, history
      <3>2. /\ late'[p] = [verb |-> "create", id |-> NoId, sent |-> given]
            /\ \A q \in Procs \ {p} : late'[q] = late[q]
        BY <2>3 DEF Lost, KInv, OInv, SInv, Types
      <3>3. LateKnown(p)'
        BY <1>1, <1>2, <2>3, <3>2, CreateKnown
      <3>4. QED
        BY <3>1, <3>2, <3>3
    <2>4. QED
      BY <2>1, <2>2, <2>3 DEF Add
  <1>7. /\ command' \in [Procs -> Offered[kind] \cup {Idle}]
        /\ step' \in [Procs -> Nat \ {0}]
        /\ held' \in [Procs -> Readings \cup {NoObject}]
    BY <1>1 DEF KInv, KeepTypes
  <1>8. QED
    BY <1>1, <1>3, <1>4, <1>5, <1>6, <1>7, StepHolds

LEMMA LookupHolds ==
  ASSUME KInv, NEW p \in Procs, Lookup(p)
  PROVE  KeepTypes' /\ \A q \in Procs : Holds(q)' /\ LateKnown(q)'
  <1>1. /\ UNCHANGED <<objects, used, late, kind, command, step, held, touched>>
        /\ late[p] = NoRequest /\ Store
        /\ pc' = [pc EXCEPT ![p] = "done"]
        /\ UNCHANGED returned \/ \E i \in Ids : returned' = [returned EXCEPT ![p] = i]
    BY DEF KInv, OInv, SInv, ProcInv, KeepTypes, Lookup, Return, kasVars, history
  <1>2. /\ Followed(p) /\ LateKnown(p)'
        /\ returned' \in [Procs -> Ids \cup {NoId}]
    BY <1>1, NothingFollowed, NoRequestKnown DEF KInv, KeepTypes
  <1>3. pc'[p] # "write" /\ \A q \in Procs \ {p} : pc'[q] = pc[q]
    BY <1>1 DEF KInv, OInv, SInv, Types
  <1>4. Holds(p)'
    BY <1>1, <1>3, FreshHolds
  <1>5. /\ command' \in [Procs -> Offered[kind] \cup {Idle}]
        /\ step' \in [Procs -> Nat \ {0}]
        /\ held' \in [Procs -> Readings \cup {NoObject}]
    BY <1>1 DEF KInv, KeepTypes
  <1>6. QED
    BY <1>1, <1>2, <1>3, <1>4, <1>5, StepHolds

LEMMA RemoveHolds ==
  ASSUME KInv, NEW p \in Procs, Remove(p)
  PROVE  KeepTypes' /\ \A q \in Procs : Holds(q)' /\ LateKnown(q)'
  <1> DEFINE i == command[p].id
  <1>1. /\ UNCHANGED <<kind, command, step, held, returned>>
        /\ i \in Ids /\ late[p] = NoRequest /\ Store
        /\ objects = [j \in Ids |-> objects[j]]
        /\ pc' = [pc EXCEPT ![p] = "done"]
    BY DEF KInv, OInv, SInv, Types, ProcInv, KeepTypes, Remove, Return
  <1>2. /\ Followed(p) /\ LateKnown(p)'
        /\ \A q \in Procs \ {p} : late'[q] = late[q]
    <2>1. CASE KasRemove(p, i) /\ UNCHANGED late
      BY <1>1, <2>1, RemoveFollowed, NoRequestKnown
    <2>2. CASE KasRefuses /\ UNCHANGED late
      BY <1>1, <2>2, NothingFollowed, NoRequestKnown DEF KasRefuses, history
    <2>3. CASE Lost(p, "delete", i, <<>>)
      <3>1. Followed(p)
        BY <1>1, <2>3, NothingFollowed DEF Lost, KasRefuses, history
      <3>2. /\ late'[p] = [verb |-> "delete", id |-> i, sent |-> <<>>]
            /\ \A q \in Procs \ {p} : late'[q] = late[q]
        BY <2>3 DEF Lost, KInv, OInv, SInv, Types
      <3>3. LateKnown(p)'
        BY <3>2 DEF LateKnown
      <3>4. QED
        BY <3>1, <3>2, <3>3
    <2>4. QED
      BY <2>1, <2>2, <2>3 DEF Remove
  <1>3. pc'[p] # "write" /\ \A q \in Procs \ {p} : pc'[q] = pc[q]
    BY <1>1 DEF KInv, OInv, SInv, Types
  <1>4. Holds(p)'
    BY <1>1, <1>3, FreshHolds
  <1>5. /\ command' \in [Procs -> Offered[kind] \cup {Idle}]
        /\ step' \in [Procs -> Nat \ {0}]
        /\ held' \in [Procs -> Readings \cup {NoObject}]
        /\ returned' \in [Procs -> Ids \cup {NoId}]
    BY <1>1 DEF KInv, KeepTypes
  <1>6. QED
    BY <1>1, <1>2, <1>3, <1>4, <1>5, StepHolds

LEMMA LateHolds ==
  ASSUME KInv, NEW p \in Procs, Late(p)
  PROVE  KeepTypes' /\ \A q \in Procs : Holds(q)' /\ LateKnown(q)'
  <1>1. /\ late[p] # NoRequest /\ late' = [late EXCEPT ![p] = NoRequest]
        /\ UNCHANGED <<kind, command, pc, step, held, returned>>
        /\ pc[p] = "done" /\ Store
        /\ objects = [j \in Ids |-> objects[j]]
        /\ late[p].verb # "create" => late[p].id \in Ids
    BY DEF KInv, OInv, SInv, Types, ProcInv, KeepTypes, Late, clientVars
  <1>2. Followed(p)
    <2>1. CASE late[p].verb = "update" /\ KasUpdate(p, late[p].id, late[p].sent)
      <3>1. Sendable(late[p].sent) /\ late[p].id \in Ids
        BY <1>1, <2>1 DEF KInv, LateKnown
      <3>2. QED
        BY <1>1, <2>1, <3>1, UpdateFollowed
    <2>2. CASE late[p].verb = "create" /\ KasAdd(p, late[p].sent)
      <3>1. Creatable(late[p].sent)
        BY <1>1, <2>2 DEF KInv, LateKnown
      <3>2. QED
        BY <1>1, <2>2, <3>1, AddFollowed
    <2>3. CASE late[p].verb = "delete" /\ KasRemove(p, late[p].id)
      BY <1>1, <2>3, RemoveFollowed
    <2>4. QED
      BY <2>1, <2>2, <2>3 DEF Late
  <1>3. late'[p] = NoRequest /\ \A q \in Procs \ {p} : late'[q] = late[q]
    BY <1>1 DEF KInv, OInv, SInv, Types
  <1>4. Holds(p)' /\ LateKnown(p)'
    BY <1>1, <1>3, FreshHolds, NoRequestKnown
  <1>5. /\ command' \in [Procs -> Offered[kind] \cup {Idle}]
        /\ step' \in [Procs -> Nat \ {0}]
        /\ held' \in [Procs -> Readings \cup {NoObject}]
        /\ returned' \in [Procs -> Ids \cup {NoId}]
    BY <1>1 DEF KInv, KeepTypes
  <1>6. QED
    BY <1>1, <1>2, <1>3, <1>4, <1>5, StepHolds

LEMMA StutterHolds ==
  ASSUME KInv, UNCHANGED svars
  PROVE  KeepTypes' /\ \A q \in Procs : Holds(q)' /\ LateKnown(q)'
  <1>1. /\ UNCHANGED <<kind, objects, used, late, command, pc, step, held, returned, touched>>
        /\ Store
    BY DEF KInv, KeepTypes, svars, kasVars, clientVars, history
  <1>2. type' = type /\ Readings' = Readings
    BY <1>1 DEF type, Readings, Stored
  <1>3. Store'
    BY <1>1, StoreKept DEF Store
  <1>4. KeepTypes'
    BY <1>1, <1>2, <1>3 DEF KInv, KeepTypes
  <1>5. ASSUME NEW q \in Procs PROVE Holds(q)' /\ LateKnown(q)'
    <2>1. LateKnown(q)'
      BY <1>1, <1>2 DEF KInv, LateKnown, Sendable, Creatable, Stored
    <2>2. Reported(command[q].id)' = Reported(command[q].id)
      BY <1>1, <1>2 DEF Reported
    <2>3. Holds(q)'
      BY <1>1, <1>2, <2>2 DEF KInv, Holds, Exists
    <2>4. QED
      BY <2>1, <2>3
  <1>6. QED
    BY <1>4, <1>5

LEMMA InitHolds == ServicesInit => KeepTypes /\ \A p \in Procs : Holds(p) /\ LateKnown(p)
  <1> SUFFICES ASSUME ServicesInit
               PROVE  KeepTypes /\ \A p \in Procs : Holds(p) /\ LateKnown(p)
    OBVIOUS
  <1>1. Sound([f \in Settings(type) |-> Default])
    BY ValuesApart DEF Sound
  <1>2. objects = [i \in Ids |-> IF i = First THEN [f \in Settings(type) |-> Default] ELSE Absent]
    BY DEF ServicesInit
  <1>3. \A i \in Ids : objects[i] = Absent \/ Sound(objects[i])
    BY <1>1, <1>2
  <1>4. Store
    BY <1>3, ServicesAssumption DEF ServicesInit, Store
  <1>5. KeepTypes
    BY <1>4 DEF ServicesInit, KeepTypes
  <1>6. \A p \in Procs : Holds(p) /\ LateKnown(p)
    BY DEF ServicesInit, Holds, LateKnown
  <1>7. QED
    BY <1>5, <1>6

(* Objects keep all their settings, what is read is what KAS reports, and   *)
(* it is still true when it is written back unless another client wrote     *)
(* ("a job read with Get can be written back as it is", cronjob.go:194-196).*)
THEOREM KeepInvariance == ServicesSpec => []KInv
  <1>1. KInv /\ [ServicesNext]_svars => KeepTypes' /\ \A q \in Procs : Holds(q)' /\ LateKnown(q)'
    BY StartHolds, ReadHolds, WriteHolds, AddHolds, LookupHolds, RemoveHolds, LateHolds,
       StutterHolds
    DEF ServicesNext
  <1>2. OInv' /\ KeepTypes' /\ (\A q \in Procs : Holds(q)' /\ LateKnown(q)') => KInv'
    BY DEF KInv
  <1>3. ServicesInit /\ OInv => KInv
    BY InitHolds DEF KInv
  <1>4. QED
    BY OrderInvariance, <1>1, <1>2, <1>3, PTL DEF ServicesSpec

(* No command of any client leaves an object without one of its settings or *)
(* with a value the input checks refuse (cronjob.go:69-98): the types of    *)
(* everything there is.                                                     *)
THEOREM TypesKept == ServicesSpec => []ServicesTypeOK
  <1>1. ASSUME KInv PROVE ServicesTypeOK
    <2>1. /\ kind \in DOMAIN Offered /\ pc \in [Procs -> Places] /\ result \in [Procs -> Results]
          /\ made \in [Procs -> Ids \cup {NoId}] /\ absent \in [Procs -> BOOLEAN]
          /\ effects \in [Procs -> SUBSET Nat]
      BY <1>1 DEF KInv, OInv, SInv, Types, OrderTypes
    <2>2. objects \in [Ids -> [Settings(type) -> Stored] \cup {Absent}]
      <3>1. objects = [i \in Ids |-> objects[i]]
        BY <1>1 DEF KInv, OInv, SInv, Types
      <3>2. \A i \in Ids : objects[i] \in [Settings(type) -> Stored] \cup {Absent}
        BY <1>1 DEF KInv, KeepTypes, Store, Sound
      <3>3. QED
        BY <3>1, <3>2
    <2>3. /\ First \in used /\ used \subseteq Ids /\ touched \in [Procs -> BOOLEAN]
          /\ command \in [Procs -> Offered[kind] \cup {Idle}]
          /\ step \in [Procs -> Nat \ {0}]
          /\ held \in [Procs -> [Carried(type) -> Stored] \cup {NoObject}]
          /\ returned \in [Procs -> Ids \cup {NoId}]
      BY <1>1 DEF KInv, KeepTypes, Store, Readings
    <2>4. QED
      BY <2>1, <2>2, <2>3 DEF ServicesTypeOK
  <1>2. QED
    BY KeepInvariance, <1>1, PTL

-----------------------------------------------------------------------------
(* What an update leaves alone *)

(* What is sent without a flag that names it is what KAS has. *)
LEMMA SentUnnamed ==
  ASSUME KInv, NEW p \in Procs, pc[p] = "write", ~touched[p], Exists(command[p].id),
         NEW f \in Unnamed(p), f \in DOMAIN Sent(Wanted(p))
  PROVE  Sent(Wanted(p))[f] = objects[command[p].id][f]
  <1> DEFINE s == type.plan[step[p]]
             given == command[p].given
             wanted == Wanted(p)
             i == command[p].id
  <1>1. /\ command[p].verb = "update" /\ command[p] # Idle /\ i \in Ids
        /\ step[p] \in DOMAIN type.plan
        /\ kind \in DOMAIN Offered /\ kind \in DOMAIN Resource
    BY ServicesAssumption DEF KInv, OInv, SInv, Types, ProcInv, Order, Steps, Idle
  <1>2. f \in Carried(type) /\ f \notin DOMAIN given /\ f \in Settings(type)
    BY CarriedAreSettings DEF Unnamed
  <1>3. f \in DOMAIN wanted /\ ~(f \in type.omits /\ wanted[f] = Empty)
    BY DEF Sent
  <1>4. s.reads /\ f \in s.carries /\ wanted[f] = held[p][f]
    BY <1>2, <1>3 DEF Wanted
  <1>5. held[p] = Reported(i)
    BY <1>4 DEF KInv, Holds
  <1>6. wanted[f] = IF f \in type.secrets THEN Empty ELSE objects[i][f]
    BY <1>2, <1>4, <1>5 DEF Reported
  <1>7. f \notin type.resets /\ (f \in type.secrets => f \in type.omits \cup type.asks)
    BY <1>1, <1>4, TypesWriteBack DEF WritesBack, type
  <1>8. type.asks \subseteq DOMAIN given
    <2>1. command[p] \in Offered[kind]
      BY <1>1 DEF KInv, KeepTypes
    <2>2. QED
      BY <1>1, <2>1, GivenAssumption DEF type
  <1>9. f \notin type.secrets /\ wanted[f] = objects[i][f]
    BY <1>2, <1>3, <1>6, <1>7, <1>8
  <1>10. f \in type.defaults => objects[i][f] # Empty
    BY <1>1, <1>2 DEF KInv, KeepTypes, Store, Sound, Exists
  <1> HIDE DEF wanted
  <1>11. Sent(wanted)[f] = IF f \in type.defaults \cup type.resets /\ wanted[f] = Empty
                             THEN Default ELSE wanted[f]
    BY DEF Sent, wanted
  <1>12. QED
    BY <1>7, <1>9, <1>10, <1>11 DEF wanted

(* A request of an update of its own is the only step that carries it out.  *)
LEMMA SendingWrites ==
  ASSUME KInv, [ServicesNext]_svars, NEW p \in Procs, Sending(p)
  PROVE  KasUpdate(p, command[p].id, Sent(Wanted(p)))
  <1>1. /\ pc[p] = "write" /\ step[p] \notin effects[p] /\ late[p] = NoRequest
        /\ step[p] \in effects'[p] /\ effects \in [Procs -> SUBSET Nat]
    <2>1. pc[p] = "write" /\ command[p].verb = "update" /\ effects[p] = Before(p) /\ late[p] = NoRequest
      BY DEF Sending, KInv, OInv, SInv, ProcInv, Order
    <2>2. step[p] \notin Before(p)
      BY DEF Before, KInv, KeepTypes
    <2>3. QED
      BY <2>1, <2>2 DEF Sending, KInv, OInv, OrderTypes
  <1>2. ASSUME NEW q \in Procs,
               \/ \E c \in Offered[kind] : Start(q, c)
               \/ Read(q) \/ Add(q) \/ Lookup(q) \/ Remove(q) \/ Late(q)
        PROVE  FALSE
    <2>1. UNCHANGED effects \/ (CarriedOut(q) /\ (Remove(q) \/ Late(q)))
      BY <1>2 DEF Start, Read, Add, Lookup, Remove, Late, KasUpdate, KasAdd, KasRemove,
                  KasRefuses, Lost, history
    <2>2. Remove(q) \/ Late(q) => q # p
      BY <1>1 DEF Remove, Late
    <2>3. effects'[p] = effects[p]
      BY <1>1, <2>1, <2>2 DEF CarriedOut
    <2>4. QED
      BY <1>1, <2>3
  <1>3. ASSUME NEW q \in Procs, Write(q)
        PROVE  q = p /\ KasUpdate(p, command[p].id, Sent(Wanted(p)))
    <2>1. UNCHANGED effects \/ KasUpdate(q, command[q].id, Sent(Wanted(q)))
      BY <1>3 DEF Write, KasRefuses, Lost, history
    <2>2. CASE UNCHANGED effects
      BY <1>1, <2>2
    <2>3. CASE KasUpdate(q, command[q].id, Sent(Wanted(q)))
      <3>1. q = p
        BY <1>1, <2>3 DEF KasUpdate, CarriedOut
      <3>2. QED
        BY <2>3, <3>1
    <2>4. QED
      BY <2>1, <2>2, <2>3
  <1>4. CASE UNCHANGED svars
    BY <1>1, <1>4 DEF svars, history
  <1>5. QED
    BY <1>2, <1>3, <1>4 DEF ServicesNext

(* The objects that are read and written back whole keep what no flag names *)
(* - secrets KAS does not report included - unless another client writes in *)
(* between (cronjob.go:194-196, README.md:458): for every type, number of   *)
(* clients and set of values.                                               *)
THEOREM UnnamedKept == ServicesSpec => OnlyGivenChange
  <1>1. ASSUME KInv, [ServicesNext]_svars, NEW p \in Procs, Sending(p), ~touched[p]
        PROVE  Kept(p)
    <2> DEFINE i == command[p].id
               sent == Sent(Wanted(p))
    <2>1. pc[p] = "write" /\ KasUpdate(p, i, sent)
      BY <1>1, SendingWrites DEF Sending
    <2>2. Exists(i) /\ objects' = [objects EXCEPT ![i] = Overwritten(i, sent)]
      BY <2>1 DEF KasUpdate
    <2>3. i \in Ids /\ Sound(objects[i]) /\ objects = [j \in Ids |-> objects[j]]
      BY <1>1, <2>1, <2>2 DEF KInv, OInv, SInv, Types, ProcInv, KeepTypes, Store, Exists
    <2>4. ASSUME NEW f \in Unnamed(p) PROVE objects'[i][f] = objects[i][f]
      <3>1. f \in DOMAIN objects[i]
        BY <2>3, CarriedAreSettings DEF Sound, Unnamed
      <3>2. f \in DOMAIN sent => sent[f] = objects[i][f]
        BY <1>1, <2>1, <2>2, SentUnnamed
      <3>3. objects'[i] = Overwritten(i, sent)
        BY <2>2, <2>3
      <3> HIDE DEF sent
      <3>4. Overwritten(i, sent)[f] = IF f \in DOMAIN sent THEN sent[f] ELSE objects[i][f]
        BY <3>1 DEF Overwritten
      <3>5. QED
        BY <3>2, <3>3, <3>4
    <2>5. QED
      BY <2>4 DEF Kept
  <1>2. KInv /\ [ServicesNext]_svars => [\A p \in Procs : Sending(p) /\ ~touched[p] => Kept(p)]_svars
    BY <1>1
  <1>3. QED
    BY KeepInvariance, <1>2, PTL DEF ServicesSpec, OnlyGivenChange

-----------------------------------------------------------------------------
(* What a creation is found by *)

UniqueKeys ==
  type.key # {} =>
    \A i, j \in Ids :
      i # j /\ Exists(i) /\ Exists(j) => \E f \in type.key : objects[i][f] # objects[j][f]

FInv ==
  /\ UniqueKeys
  /\ \A p \in Procs : pc[p] = "lookup" => type.key # {}

LEMMA TypesLookedUp ==
  ASSUME NEW k \in DOMAIN Resource, Resource[k].created = "lookup"
  PROVE  Resource[k].key # {}
  <1> USE DEF Type, WithPassword
  <1>1. DNSRecords.key # {} /\ MailAccounts.key # {}
    BY DEF DNSRecords, MailAccounts
  <1>2. /\ MailForwards.created # "lookup" /\ Domains.created # "lookup"
        /\ Subdomains.created # "lookup" /\ TLS.created # "lookup"
    BY DEF MailForwards, Domains, Subdomains, TLS
  <1>3. /\ FTPUsers.created # "lookup" /\ Databases.created # "lookup"
        /\ Cronjobs.created # "lookup" /\ DDNSUsers.created # "lookup"
    BY DEF FTPUsers, Databases, Cronjobs, DDNSUsers
  <1>4. /\ SambaUsers.created # "lookup" /\ DirectoryProtections.created # "lookup"
        /\ MailingLists.created # "lookup" /\ Accounts.created # "lookup"
        /\ AccountSettings.created # "lookup"
    BY DEF SambaUsers, DirectoryProtections, MailingLists, Accounts, AccountSettings
  <1>5. QED
    BY <1>1, <1>2, <1>3, <1>4 DEF Resource

LEMMA FreeUnique ==
  ASSUME UniqueKeys, UNCHANGED kind, objects = [j \in Ids |-> objects[j]],
         NEW i, NEW new, new = Absent \/ Free(new, i),
         objects' = [objects EXCEPT ![i] = new]
  PROVE  UniqueKeys'
  <1>1. type' = type
    BY DEF type
  <1>2. SUFFICES ASSUME type.key # {}, NEW j \in Ids, NEW k \in Ids, j # k,
                        objects'[j] # Absent, objects'[k] # Absent
                 PROVE  \E f \in type.key : objects'[j][f] # objects'[k][f]
    BY <1>1 DEF UniqueKeys, Exists
  <1>3. CASE j # i /\ k # i
    BY <1>2, <1>3 DEF UniqueKeys, Exists
  <1>4. CASE j = i
    BY <1>2, <1>4 DEF Free, Exists
  <1>5. CASE k = i
    BY <1>2, <1>5 DEF Free, Exists
  <1>6. QED
    BY <1>3, <1>4, <1>5

LEMMA StepUnique ==
  ASSUME SInv, UniqueKeys, [ServicesNext]_svars
  PROVE  UniqueKeys'
  <1>1. UNCHANGED kind /\ objects = [j \in Ids |-> objects[j]]
    BY DEF SInv, Types, ServicesNext, Start, Read, Write, Add, Lookup, Remove, Late, svars
  <1>2. CASE UNCHANGED objects
    BY <1>1, <1>2 DEF UniqueKeys, Exists, type
  <1>3. CASE \E p \in Procs : \E i, sent : KasUpdate(p, i, sent)
    BY <1>1, <1>3, FreeUnique DEF KasUpdate
  <1>4. CASE \E p \in Procs : \E given : KasAdd(p, given)
    BY <1>1, <1>4, FreeUnique DEF KasAdd
  <1>5. CASE \E p \in Procs : \E i : KasRemove(p, i)
    BY <1>1, <1>5, FreeUnique DEF KasRemove
  <1>6. ASSUME NEW p \in Procs, Write(p) PROVE UniqueKeys'
    BY <1>2, <1>3, <1>6 DEF Write, KasRefuses, Lost
  <1>7. ASSUME NEW p \in Procs, Add(p) PROVE UniqueKeys'
    BY <1>2, <1>4, <1>7 DEF Add, KasRefuses, Lost
  <1>8. ASSUME NEW p \in Procs, Remove(p) PROVE UniqueKeys'
    BY <1>2, <1>5, <1>8 DEF Remove, KasRefuses, Lost
  <1>9. ASSUME NEW p \in Procs, Late(p) PROVE UniqueKeys'
    BY <1>3, <1>4, <1>5, <1>9 DEF Late
  <1>10. ASSUME NEW p \in Procs, (\E c \in Offered[kind] : Start(p, c)) \/ Read(p) \/ Lookup(p)
         PROVE  UNCHANGED objects
    BY <1>10 DEF Start, Read, Lookup, kasVars
  <1>11. QED
    BY <1>2, <1>6, <1>7, <1>8, <1>9, <1>10 DEF ServicesNext, svars, kasVars

(* Only what is created without its id is looked up. *)
LEMMA StepLookup ==
  ASSUME SInv, NEW q \in Procs, pc[q] = "lookup" => type.key # {}, [ServicesNext]_svars
  PROVE  pc'[q] = "lookup" => type'.key # {}
  <1>1. type' = type /\ (type.created = "lookup" => type.key # {})
    BY TypesLookedUp, ServicesAssumption
    DEF type, SInv, Types, ServicesNext, Start, Read, Write, Add, Lookup, Remove, Late, svars
  <1>2. ASSUME NEW p \in Procs, Add(p)
        PROVE  pc'[q] = "lookup" => pc[q] = "lookup" \/ type.created = "lookup"
    BY <1>2 DEF Add, Return, SInv, Types
  <1>3. ASSUME NEW p \in Procs, Write(p)
        PROVE  pc'[q] = "lookup" => pc[q] = "lookup"
    BY <1>3 DEF Write, Advance, GoOn, Place, Return, SInv, Types
  <1>4. ASSUME NEW p \in Procs, NEW c \in Offered[kind], Start(p, c)
        PROVE  pc'[q] = "lookup" => pc[q] = "lookup"
    BY <1>4, ServicesAssumption DEF Start, GoOn, Place, Return, SInv, Types
  <1>5. ASSUME NEW p \in Procs, Read(p) \/ Lookup(p) \/ Remove(p) \/ Late(p)
        PROVE  pc'[q] = "lookup" => pc[q] = "lookup"
    BY <1>5 DEF Read, Lookup, Remove, Late, Return, clientVars, SInv, Types
  <1>6. UNCHANGED svars => pc'[q] = pc[q]
    BY DEF svars, clientVars
  <1>7. QED
    BY <1>1, <1>2, <1>3, <1>4, <1>5, <1>6 DEF ServicesNext

THEOREM LookupInvariance == ServicesSpec => []FInv
  <1>1. SInv /\ FInv /\ [ServicesNext]_svars => FInv'
    BY StepUnique, StepLookup DEF FInv
  <1>2. ServicesInit => FInv
    BY DEF ServicesInit, FInv, UniqueKeys, Exists
  <1>3. QED
    BY ServicesInvariance, <1>1, <1>2, PTL DEF ServicesSpec

(* "Create adds a record and returns its new record id" (dns.go:95): the id *)
(* that is found afterwards is that of the new object as long as it is as   *)
(* it was made, for any number of objects and clients, because KAS has no   *)
(* two of one key (UniqueKeys).                                             *)
THEOREM CreationsFound == ServicesSpec => CreateFindsOwn
  <1>1. ASSUME KInv, SInv, FInv, [ServicesNext]_svars, NEW p \in Procs,
               pc[p] = "lookup", result'[p] = "ok",
               Exists(made[p]), objects[made[p]] = New(command[p].given)
        PROVE  returned'[p] = made[p]
    <2>1. made[p] \in Ids /\ type.key # {} /\ result[p] = "none"
      BY <1>1 DEF SInv, Types, ProcInv, FInv
    <2>2. Lookup(p)
      <3>1. ASSUME NEW q \in Procs, q # p, Lookup(q) PROVE result'[p] = result[p]
        BY <1>1, <3>1 DEF Lookup, Return, SInv, Types
      <3>2. ASSUME NEW q \in Procs,
                   \/ \E c \in Offered[kind] : Start(q, c)
                   \/ Read(q) \/ Write(q) \/ Add(q) \/ Remove(q)
            PROVE  result'[p] = result[p]
        <4>1. q # p
          BY <1>1, <3>2 DEF Start, Read, Write, Add, Remove
        <4>2. UNCHANGED result \/ \E r : Return(q, r)
          BY <3>2 DEF Start, Read, Write, Advance, GoOn, Add, Remove, Return
        <4>3. QED
          BY <1>1, <4>1, <4>2 DEF Return, SInv, Types
      <3>3. ASSUME NEW q \in Procs, Late(q) PROVE result'[p] = result[p]
        BY <3>3 DEF Late, clientVars
      <3>4. UNCHANGED svars => result'[p] = result[p]
        BY DEF svars, clientVars
      <3>5. QED
        BY <1>1, <2>1, <3>1, <3>2, <3>3, <3>4 DEF ServicesNext
    <2>3. PICK i \in Ids : Matches(i, command[p].given) /\ returned' = [returned EXCEPT ![p] = i]
      BY <1>1, <2>1, <2>2 DEF Lookup, Return, SInv, Types
    <2>4. \A f \in type.key : objects[i][f] = objects[made[p]][f]
      BY <1>1, <2>3 DEF Matches
    <2>5. i = made[p]
      BY <1>1, <2>1, <2>3, <2>4 DEF FInv, UniqueKeys, Matches
    <2>6. QED
      BY <1>1, <2>3, <2>5 DEF KInv, KeepTypes
  <1>2. KInv /\ FInv /\ [ServicesNext]_svars =>
          [\A p \in Procs :
             /\ pc[p] = "lookup" /\ result'[p] = "ok"
             /\ Exists(made[p]) /\ objects[made[p]] = New(command[p].given)
             => returned'[p] = made[p]]_svars
    BY <1>1 DEF KInv, OInv
  <1>3. QED
    BY KeepInvariance, LookupInvariance, <1>2, PTL DEF ServicesSpec, CreateFindsOwn
=============================================================================
