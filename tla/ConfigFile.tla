------------------------------ MODULE ConfigFile ------------------------------
(***************************************************************************)
(* The config file of kascli (internal/kasconfig and the commands of        *)
(* cmd/kascli/config.go): several runs load, change and save one file,      *)
(* without a lock; any of them may fail or be killed between two system     *)
(* calls, and somebody may change the mode of the file by hand.             *)
(***************************************************************************)
EXTENDS FiniteSets

CONSTANTS
  Procs, Offered, Names, NoName, Fields, Values, Unset, NoContext,  \* as in ConfigStore
  Required,   \* the login: the field a context must have
  NoFile,     \* nothing at that path
  Torn,       \* a file that is not written to its end
  Alone,      \* whether one run ends before the next one starts
  Env         \* what may go wrong, a subset of Trouble

(* "kill": a run is killed; "io": a system call of Save fails; "stuck": so  *)
(* does the Remove after it; "unreadable": reading the file fails; "input": *)
(* arguments that do not parse; "chmod": a user makes the file readable for *)
(* others.                                                                  *)
Trouble == {"kill", "io", "stuck", "unreadable", "input", "chmod"}

VARIABLES
  command, \* command[p]: what run p was started for
  file,    \* what is at the config path
  temp,    \* temp[p]: the temporary file run p created
  loaded,  \* loaded[p]: the file run p read
  perm,    \* perm[p]: the mode Load found
  config,  \* config[p]: the Config in memory
  pc       \* where each run is

fvars == <<command, file, temp, loaded, perm, config, pc>>

Store == INSTANCE ConfigStore WITH
  stored <- IF file = NoFile THEN [contexts |-> [n \in Names |-> NoContext], current |-> NoName]
            ELSE file.data,
  outcome <- [p \in Procs |-> CASE pc[p] \in {"ok", "error", "killed"} -> pc[p]
                                [] pc[p] = "report" -> "done"
                                [] OTHER -> "none"]

Contexts == Store!Contexts
Configs == Store!Configs
Empty == Store!Empty
Modes == {"private", "loose"}
Files == [data: Configs \cup {Torn}, mode: Modes]

Ended == {"ok", "error", "killed"}
Saving == {"create", "write", "chmod", "rename"}
Places == {"start", "stat", "change"} \cup Saving \cup {"report"} \cup Ended

ASSUME ConfigAssumption ==
  /\ Offered \subseteq Store!Commands
  /\ Required \in Fields
  /\ NoContext \notin Contexts
  /\ NoName \notin Names
  /\ NoFile \notin Files
  /\ Torn \notin Configs
  /\ Alone \in BOOLEAN
  /\ Env \subseteq Trouble

ConfigTypeOK ==
  /\ command \in [Procs -> Offered]
  /\ file \in Files \cup {NoFile}
  /\ temp \in [Procs -> Files \cup {NoFile}]
  /\ loaded \in [Procs -> Files \cup {NoFile}]
  /\ perm \in [Procs -> Modes]
  /\ config \in [Procs -> Configs]
  /\ pc \in [Procs -> Places]

Running == {p \in Procs : pc[p] \notin {"start"} \cup Ended}

(* The file a run may find at first: none, or one an earlier run saved.     *)
ConfigInit ==
  /\ command \in [Procs -> Offered]
  /\ file \in {NoFile} \cup {f \in Files : f.mode = "private" /\ f.data # Torn
                                 /\ Store!CurrentIsKnown(f.data)}
  /\ temp = [p \in Procs |-> NoFile]
  /\ loaded = [p \in Procs |-> NoFile]
  /\ perm = [p \in Procs |-> "private"]
  /\ config = [p \in Procs |-> Empty]
  /\ pc = [p \in Procs |-> "start"]

-----------------------------------------------------------------------------
(* Get, Set and Delete of Config, and the commands built on them *)

Has(c, name) == c.contexts[name] # NoContext

Put(c, name, context) == [c EXCEPT !.contexts[name] = context]

(* Mutants: the entry is cleared, not removed; current-context dangles. *)
DeleteZero(c, name) ==
  [c EXCEPT !.contexts[name] = Unset,
            !.current = IF @ = name THEN NoName ELSE @]

DeleteOnly(c, name) == [c EXCEPT !.contexts[name] = NoContext]

Delete(c, name) ==
  [c EXCEPT !.contexts[name] = NoContext,
            !.current = IF @ = name THEN NoName ELSE @]

(* Mutant: set-context starts from an empty context. *)
ApplyFresh(k, context) ==
  [f \in Fields |-> IF f \in DOMAIN k.given THEN k.given[f] ELSE Unset]

(* The given fields are changed, the others are those of the context there  *)
(* was before.                                                              *)
Apply(k, context) ==
  [f \in Fields |-> IF f \in DOMAIN k.given THEN k.given[f] ELSE context[f]]

Existing(c, name) ==
  IF Has(c, name) THEN c.contexts[name] ELSE [f \in Fields |-> Unset]

(* Whether the command goes through, and the Config it saves. *)
Accepts(k, c) ==
  CASE k.kind = "set" -> Apply(k, Existing(c, k.name))[Required] # Unset
    [] k.kind \in {"use", "delete"} -> Has(c, k.name)
    [] k.kind = "look" -> c.current # NoName => Has(c, c.current)

Changed(k, c) ==
  CASE k.kind = "set" ->
         [Put(c, k.name, Apply(k, Existing(c, k.name))) EXCEPT
            !.current = IF k.current \/ @ = NoName THEN k.name ELSE @]
    [] k.kind = "use" -> [c EXCEPT !.current = k.name]
    [] k.kind = "delete" -> Delete(c, k.name)
    [] OTHER -> c

-----------------------------------------------------------------------------
(* The system calls of a run *)

Goto(p, place) == pc' = [pc EXCEPT ![p] = place]

(* The run ends, and what it had in memory is gone. *)
Exit(p, how) ==
  /\ Goto(p, how)
  /\ loaded' = [loaded EXCEPT ![p] = NoFile]
  /\ perm' = [perm EXCEPT ![p] = "private"]
  /\ config' = [config EXCEPT ![p] = Empty]

(* Load: a missing file is an empty Config. *)
ReadFile(p) ==
  /\ pc[p] = "start"
  /\ Alone => Running = {}
  /\ \/ /\ file = NoFile
        /\ config' = [config EXCEPT ![p] = Empty]
        /\ Goto(p, "change")
        /\ UNCHANGED <<loaded, perm>>
     \/ /\ file # NoFile /\ file.data # Torn
        /\ loaded' = [loaded EXCEPT ![p] = file]
        /\ config' = [config EXCEPT ![p] = file.data]
        /\ Goto(p, "stat")
        /\ UNCHANGED perm
     \/ /\ (file # NoFile /\ file.data = Torn) \/ "unreadable" \in Env
        /\ Exit(p, "error")
  /\ UNCHANGED <<command, file, temp>>

(* Load: the mode is taken in a second call, by name. *)
Stat(p) ==
  /\ pc[p] = "stat"
  /\ perm' = [perm EXCEPT ![p] = file.mode]
  /\ Goto(p, "change")
  /\ UNCHANGED <<command, file, temp, loaded, config>>

(* A command looks at the Config, or changes it and goes on to save it. *)
Change(p) ==
  /\ pc[p] = "change"
  /\ LET k == command[p] IN
     \/ /\ k.kind # "look"
        /\ Accepts(k, config[p])
        /\ config' = [config EXCEPT ![p] = Changed(k, config[p])]
        /\ Goto(p, "create")
        /\ UNCHANGED <<loaded, perm>>
     \/ /\ k.kind = "look"
        /\ Accepts(k, config[p])
        /\ Goto(p, "report")
        /\ UNCHANGED <<loaded, perm, config>>
     \/ /\ ~Accepts(k, config[p]) \/ (k.kind = "set" /\ "input" \in Env)
        /\ Exit(p, "error")
  /\ UNCHANGED <<command, file, temp>>

(* Mutant: the file is put in place before it is written. *)
CreateInPlace(p) ==
  /\ pc[p] = "create"
  /\ file' = [data |-> Torn, mode |-> "private"]
  /\ temp' = [temp EXCEPT ![p] = [data |-> Torn, mode |-> "private"]]
  /\ Goto(p, "write")
  /\ UNCHANGED <<command, loaded, perm, config>>

(* Save: CreateTemp makes an empty file nobody else can read. *)
CreateTemp(p) ==
  /\ pc[p] = "create"
  /\ temp' = [temp EXCEPT ![p] = [data |-> Torn, mode |-> "private"]]
  /\ Goto(p, "write")
  /\ UNCHANGED <<command, file, loaded, perm, config>>

Write(p) ==
  /\ pc[p] = "write"
  /\ temp' = [temp EXCEPT ![p].data = config[p]]
  /\ Goto(p, "chmod")
  /\ UNCHANGED <<command, file, loaded, perm, config>>

(* Chmod and Close. *)
Chmod(p) ==
  /\ pc[p] = "chmod"
  /\ temp' = [temp EXCEPT ![p].mode = "private"]
  /\ Goto(p, "rename")
  /\ UNCHANGED <<command, file, loaded, perm, config>>

(* From here on the change is stored, whatever becomes of the run. *)
Rename(p) ==
  /\ pc[p] = "rename"
  /\ file' = temp[p]
  /\ temp' = [temp EXCEPT ![p] = NoFile]
  /\ Goto(p, "report")
  /\ UNCHANGED <<command, loaded, perm, config>>

(* The deferred Remove finds nothing, and the command says what it did.     *)
Report(p) ==
  /\ pc[p] = "report"
  /\ Exit(p, "ok")
  /\ UNCHANGED <<command, file, temp>>

(* Mutant: a failed save does not clean up. *)
SaveErrorKeep(p) ==
  /\ "io" \in Env
  /\ pc[p] \in Saving
  /\ Exit(p, "error")
  /\ UNCHANGED <<command, file, temp>>

(* Any call of Save may fail; the deferred Remove takes the temporary file  *)
(* away, if it can.                                                         *)
SaveError(p) ==
  /\ "io" \in Env
  /\ pc[p] \in Saving
  /\ \/ temp' = [temp EXCEPT ![p] = NoFile]
     \/ "stuck" \in Env /\ UNCHANGED temp
  /\ Exit(p, "error")
  /\ UNCHANGED <<command, file>>

Kill(p) ==
  /\ "kill" \in Env
  /\ p \in Running
  /\ Exit(p, "killed")
  /\ UNCHANGED <<command, file, temp>>

Loosen ==
  /\ "chmod" \in Env
  /\ file # NoFile /\ file.mode = "private"
  /\ file' = [file EXCEPT !.mode = "loose"]
  /\ UNCHANGED <<command, temp, loaded, perm, config, pc>>

ConfigNext ==
  \/ \E p \in Procs :
       \/ ReadFile(p) \/ Stat(p) \/ Change(p)
       \/ CreateTemp(p) \/ Write(p) \/ Chmod(p) \/ Rename(p) \/ Report(p)
       \/ SaveError(p) \/ Kill(p)
  \/ Loosen

ConfigSpec == ConfigInit /\ [][ConfigNext]_fvars

-----------------------------------------------------------------------------
(* Properties *)

(* The current context resolves (main.go:170-186): whoever else saves, and  *)
(* wherever a run is killed, a reader finds a whole file whose              *)
(* current-context is in it.                                                *)
LookSucceeds ==
  "unreadable" \notin Env =>
    \A p \in Procs : command[p].kind = "look" => pc[p] # "error"

(* "a crash leaves the old config intact" (kasconfig.go:116): the file is   *)
(* complete at every moment, and its current context is in it.              *)
FileIsSound ==
  file # NoFile => file.data # Torn /\ Store!CurrentIsKnown(file.data)

(* "a save must leave no temporary file behind" (kasconfig_test.go:159): a  *)
(* run that returned, with success or not, left nothing but the file.       *)
NoLitter ==
  "stuck" \notin Env => \A p \in Procs : pc[p] \in {"ok", "error"} => temp[p] = NoFile

(* "so a crash leaves the old config intact" (kasconfig.go:116) or the new  *)
(* one: one run at a time, wherever it fails or is killed, each command     *)
(* does what ConfigStore says.                                              *)
StoreSpec == Store!StoreSpec
=============================================================================
