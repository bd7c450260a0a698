----------------------------- MODULE ConfigStore -----------------------------
(***************************************************************************)
(* What the config commands of kascli promise a user who runs one at a      *)
(* time: each takes effect as a whole or not at all, once, changes what its *)
(* arguments name and nothing else, and leaves a current context that is    *)
(* in the file. One that reports success has taken effect and one that      *)
(* reports an error has not; one that is killed may have or not.            *)
(***************************************************************************)
EXTENDS FiniteSets

CONSTANTS
  Procs,      \* runs of kascli
  Offered,    \* the commands a run may be started for
  Names,      \* context names
  NoName,     \* current-context: ""
  Fields,     \* the fields of a context
  Values,     \* what a field can hold
  Unset,      \* a field that is empty
  NoContext   \* the file has no context of that name

Contexts == [Fields -> Values \cup {Unset}]

Configs == [contexts: [Names -> Contexts \cup {NoContext}], current: Names \cup {NoName}]

Empty == [contexts |-> [n \in Names |-> NoContext], current |-> NoName]

(* set-context gives some fields a value; use-context, delete-context and   *)
(* the commands that only look at the current context name no field.        *)
Commands ==
  [kind: {"set"}, name: Names, given: UNION {[F -> Values \cup {Unset}] : F \in SUBSET Fields},
   current: BOOLEAN]
    \cup [kind: {"use", "delete"}, name: Names] \cup [kind: {"look"}]

VARIABLES
  command,  \* what each run was started for
  stored,   \* the configuration
  outcome   \* what became of each run

svars == <<command, stored, outcome>>

Known(config, name) == config.contexts[name] # NoContext

CurrentIsKnown(config) == config.current # NoName => Known(config, config.current)

OthersKept(k, old, new) ==
  \A n \in Names \ {k.name} : new.contexts[n] = old.contexts[n]

Sets(k, old, new) ==
  /\ OthersKept(k, old, new)
  /\ Known(new, k.name)
  /\ \A f \in Fields : new.contexts[k.name][f] =
       IF f \in DOMAIN k.given THEN k.given[f]
       ELSE IF Known(old, k.name) THEN old.contexts[k.name][f]
       ELSE Unset
  /\ new.current = IF k.current \/ old.current = NoName THEN k.name ELSE old.current

Uses(k, old, new) ==
  Known(old, k.name) /\ new.contexts = old.contexts /\ new.current = k.name

Deletes(k, old, new) ==
  /\ OthersKept(k, old, new)
  /\ Known(old, k.name) /\ ~Known(new, k.name)
  /\ new.current = IF old.current = k.name THEN NoName ELSE old.current

Effect(k, old, new) ==
  CASE k.kind = "set" -> Sets(k, old, new)
    [] k.kind = "use" -> Uses(k, old, new)
    [] k.kind = "delete" -> Deletes(k, old, new)
    [] k.kind = "look" -> new = old

StoreInit ==
  /\ command \in [Procs -> Offered]
  /\ stored \in Configs
  /\ CurrentIsKnown(stored)
  /\ outcome = [p \in Procs |-> "none"]

Moves(p, from, to) ==
  /\ outcome[p] \in from
  /\ outcome' = [outcome EXCEPT ![p] = to]
  /\ UNCHANGED command

TakeEffect(p) ==
  /\ Moves(p, {"none"}, "done")
  /\ stored' \in Configs
  /\ Effect(command[p], stored, stored')

Succeed(p) == Moves(p, {"done"}, "ok") /\ UNCHANGED stored
Fail(p) == Moves(p, {"none"}, "error") /\ UNCHANGED stored
Die(p) == Moves(p, {"none", "done"}, "killed") /\ UNCHANGED stored

StoreNext == \E p \in Procs : TakeEffect(p) \/ Succeed(p) \/ Fail(p) \/ Die(p)

StoreSpec == StoreInit /\ [][StoreNext]_svars
=============================================================================
