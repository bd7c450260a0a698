----------------------------- MODULE ConfigProofs -----------------------------
(***************************************************************************)
(* The config file for any number of runs, names, fields and values: it is  *)
(* sound at every moment, readers are served, nothing is left behind.       *)
(***************************************************************************)
EXTENDS ConfigFile, TLAPS

(* What holds of one run: what it has in memory may be saved, and its       *)
(* temporary file is there from CreateTemp to Rename and nowhere else.      *)
Sound(c) == Store!CurrentIsKnown(c)

RunInv(p) ==
  /\ pc[p] = "stat" => file # NoFile
  /\ Sound(config[p])
  /\ pc[p] \in {"write", "chmod", "rename"} => temp[p] # NoFile
  /\ pc[p] \in {"chmod", "rename"} => temp[p].data = config[p]
  /\ command[p].kind = "look" => pc[p] \notin Saving
  /\ "unreadable" \notin Env /\ command[p].kind = "look" => pc[p] # "error"
  /\ "stuck" \notin Env /\ pc[p] \in {"start", "stat", "change", "create", "report", "ok", "error"}
       => temp[p] = NoFile

CInv == ConfigTypeOK /\ FileIsSound /\ \A p \in Procs : RunInv(p)

LEMMA EmptyIsConfig == Empty \in Configs /\ Sound(Empty)
  BY ConfigAssumption DEF Empty, Configs, Sound, Store!Empty, Store!Configs, Store!CurrentIsKnown, Store!Contexts

(* Changing a sound Config, in a way the command accepts, gives a sound one. *)
LEMMA ChangedIsConfig ==
  ASSUME NEW k \in Offered, NEW c \in Configs, Sound(c), k.kind # "look", Accepts(k, c)
  PROVE  Changed(k, c) \in Configs /\ Sound(Changed(k, c))
  <1> USE ConfigAssumption DEF Configs, Store!Configs
  <1>1. k \in Store!Commands
    OBVIOUS
  <1>2. CASE k.kind = "set"
    <2> DEFINE x == Apply(k, Existing(c, k.name))
    <2>1. k.name \in Names /\ k.given \in UNION {[F -> Values \cup {Unset}] : F \in SUBSET Fields}
      BY <1>1, <1>2 DEF Store!Commands
    <2>2. Existing(c, k.name) \in Contexts
      BY <2>1 DEF Existing, Has, Contexts, Store!Contexts
    <2>3. x \in Contexts
      BY <2>1, <2>2 DEF Apply, Contexts, Store!Contexts
    <2>4. Changed(k, c) = [contexts |-> [c.contexts EXCEPT ![k.name] = x],
                           current |-> IF k.current \/ c.current = NoName THEN k.name ELSE c.current]
      BY <1>2 DEF Changed, Put
    <2> HIDE DEF x
    <2>5. QED
      BY <2>1, <2>3, <2>4 DEF Sound, Store!CurrentIsKnown, Store!Known, Contexts
  <1>3. CASE k.kind = "use"
    <2>1. k.name \in Names
      BY <1>1, <1>3 DEF Store!Commands
    <2>2. QED
      BY <2>1, <1>3 DEF Changed, Accepts, Has, Sound, Store!CurrentIsKnown, Store!Known
  <1>4. CASE k.kind = "delete"
    <2>1. k.name \in Names
      BY <1>1, <1>4 DEF Store!Commands
    <2>2. Changed(k, c) = [contexts |-> [c.contexts EXCEPT ![k.name] = NoContext],
                           current |-> IF c.current = k.name THEN NoName ELSE c.current]
      BY <1>4 DEF Changed, Delete
    <2>3. QED
      BY <2>1, <2>2 DEF Sound, Store!CurrentIsKnown, Store!Known
  <1>5. QED
    BY <1>1, <1>2, <1>3, <1>4 DEF Store!Commands

LEMMA InitCInv == ConfigInit => CInv
  BY ConfigAssumption, EmptyIsConfig
  DEF ConfigInit, CInv, ConfigTypeOK, FileIsSound, RunInv, Places, Saving, Ended, Files, Modes, Sound

(* A run that ends leaves a Config in memory that nobody will save. *)
LEMMA ExitKeeps ==
  ASSUME CInv, NEW p \in Procs, NEW how \in Ended, Exit(p, how)
  PROVE  /\ loaded' \in [Procs -> Files \cup {NoFile}]
         /\ perm' \in [Procs -> Modes]
         /\ config' \in [Procs -> Configs]
         /\ pc' \in [Procs -> Places]
         /\ Sound(config'[p])
         /\ pc'[p] = how
  BY EmptyIsConfig DEF CInv, ConfigTypeOK, Exit, Goto, Places, Modes, Ended

(* A step leaves the runs it does not touch as they are, if the file does   *)
(* not disappear.                                                           *)
LEMMA FrameRun ==
  ASSUME NEW q \in Procs, RunInv(q), file # NoFile => file' # NoFile,
         pc'[q] = pc[q], config'[q] = config[q], temp'[q] = temp[q], command'[q] = command[q]
  PROVE  RunInv(q)'
  BY DEF RunInv, Sound, Store!CurrentIsKnown, Store!Known

LEMMA ReadFileStep ==
  ASSUME CInv, NEW p \in Procs, ReadFile(p)
  PROVE  CInv'
  <1> USE DEF CInv, ReadFile, Goto
  <1>1. CASE /\ config' = [config EXCEPT ![p] = Empty]
             /\ pc' = [pc EXCEPT ![p] = "change"]
             /\ UNCHANGED <<loaded, perm>>
    <2>1. ConfigTypeOK'
      BY <1>1, EmptyIsConfig DEF ConfigTypeOK, Places
    <2>2. QED
      BY <1>1, <2>1, EmptyIsConfig, FrameRun DEF ConfigTypeOK, FileIsSound, RunInv, Saving, Sound, Store!CurrentIsKnown, Store!Known
  <1>2. CASE /\ file # NoFile /\ file.data # Torn
             /\ loaded' = [loaded EXCEPT ![p] = file]
             /\ config' = [config EXCEPT ![p] = file.data]
             /\ pc' = [pc EXCEPT ![p] = "stat"]
             /\ UNCHANGED perm
    <2>1. file \in Files /\ file.data \in Configs /\ Sound(file.data)
      BY <1>2 DEF ConfigTypeOK, Files, FileIsSound, Sound
    <2>2. ConfigTypeOK'
      BY <1>2, <2>1 DEF ConfigTypeOK, Places
    <2>3. RunInv(p)'
      BY <1>2, <2>1 DEF ConfigTypeOK, RunInv, Saving, Sound, Store!CurrentIsKnown, Store!Known
    <2>4. QED
      BY <1>2, <2>2, <2>3, FrameRun DEF ConfigTypeOK, FileIsSound
  <1>3. CASE ((file.data = Torn /\ file # NoFile) \/ "unreadable" \in Env) /\ Exit(p, "error")
    <2>0. "unreadable" \in Env
      BY <1>3 DEF FileIsSound
    <2>1. ConfigTypeOK'
      BY <1>3, ExitKeeps DEF ConfigTypeOK, Ended
    <2>2. RunInv(p)'
      BY <1>3, <2>0, ExitKeeps DEF RunInv, Saving, Sound, Ended
    <2>3. QED
      BY <1>3, <2>1, <2>2, FrameRun DEF ConfigTypeOK, FileIsSound, Exit
  <1>4. QED
    BY <1>1, <1>2, <1>3

LEMMA StatStep ==
  ASSUME CInv, NEW p \in Procs, Stat(p)
  PROVE  CInv'
  <1> USE DEF CInv, Stat, Goto
  <1>1. file \in Files /\ file.mode \in Modes
    BY DEF ConfigTypeOK, RunInv, Files
  <1>2. ConfigTypeOK'
    BY <1>1 DEF ConfigTypeOK, Places
  <1>3. RunInv(p)'
    BY DEF ConfigTypeOK, RunInv, Saving, Sound, Store!CurrentIsKnown, Store!Known
  <1>4. QED
    BY <1>2, <1>3, FrameRun DEF ConfigTypeOK, FileIsSound

LEMMA ChangeStep ==
  ASSUME CInv, NEW p \in Procs, Change(p)
  PROVE  CInv'
  <1> USE DEF CInv, Change, Goto
  <1>a. command[p] \in Offered /\ config[p] \in Configs /\ Sound(config[p])
    BY DEF ConfigTypeOK, RunInv
  <1>b. UNCHANGED <<command, file, temp>> /\ FileIsSound'
    BY DEF FileIsSound
  <1>1. CASE /\ command[p].kind # "look"
             /\ Accepts(command[p], config[p])
             /\ config' = [config EXCEPT ![p] = Changed(command[p], config[p])]
             /\ pc' = [pc EXCEPT ![p] = "create"]
             /\ UNCHANGED <<loaded, perm>>
    <2>1. Changed(command[p], config[p]) \in Configs /\ Sound(Changed(command[p], config[p]))
      BY <1>a, <1>1, ChangedIsConfig
    <2>2. ConfigTypeOK'
      BY <1>b, <1>1, <2>1 DEF ConfigTypeOK, Places, Saving
    <2>3. RunInv(p)'
      BY <1>b, <1>1, <2>1 DEF ConfigTypeOK, RunInv, Saving, Sound, Store!CurrentIsKnown, Store!Known
    <2>4. QED
      BY <1>b, <1>1, <2>2, <2>3, FrameRun DEF ConfigTypeOK
  <1>2. CASE command[p].kind = "look" /\ pc' = [pc EXCEPT ![p] = "report"] /\ UNCHANGED <<loaded, perm, config>>
    <2>1. ConfigTypeOK'
      BY <1>b, <1>2 DEF ConfigTypeOK, Places
    <2>2. RunInv(p)'
      BY <1>b, <1>2 DEF ConfigTypeOK, RunInv, Saving, Sound, Store!CurrentIsKnown, Store!Known
    <2>3. QED
      BY <1>b, <1>2, <2>1, <2>2, FrameRun DEF ConfigTypeOK
  <1>3. CASE /\ ~Accepts(command[p], config[p]) \/ (command[p].kind = "set" /\ "input" \in Env)
             /\ Exit(p, "error")
    <2>0. command[p].kind # "look"
      BY <1>a, <1>3 DEF Accepts, Has, Sound, Store!CurrentIsKnown, Store!Known
    <2>1. ConfigTypeOK'
      BY <1>b, <1>3, ExitKeeps DEF ConfigTypeOK, Ended
    <2>2. RunInv(p)'
      BY <1>b, <1>3, <2>0, ExitKeeps DEF RunInv, Saving, Sound, Ended
    <2>3. QED
      BY <1>b, <1>3, <2>1, <2>2, FrameRun DEF ConfigTypeOK, Exit, Goto
  <1>4. QED
    BY <1>1, <1>2, <1>3

LEMMA CreateTempStep ==
  ASSUME CInv, NEW p \in Procs, CreateTemp(p)
  PROVE  CInv'
  <1> USE DEF CInv, CreateTemp, Goto
  <1>1. [data |-> Torn, mode |-> "private"] \in Files
    BY DEF Files, Modes
  <1>2. ConfigTypeOK'
    BY <1>1 DEF ConfigTypeOK, Places, Saving
  <1>3. RunInv(p)'
    BY <1>1, ConfigAssumption DEF ConfigTypeOK, RunInv, Saving, Sound, Store!CurrentIsKnown, Store!Known
  <1>4. QED
    BY <1>2, <1>3, FrameRun DEF ConfigTypeOK, FileIsSound

LEMMA WriteStep ==
  ASSUME CInv, NEW p \in Procs, Write(p)
  PROVE  CInv'
  <1> USE DEF CInv, Write, Goto
  <1>1. temp[p] \in Files /\ config[p] \in Configs
    BY DEF ConfigTypeOK, RunInv
  <1>2. temp'[p] \in Files /\ temp'[p].data = config[p] /\ temp'[p] # NoFile
    BY <1>1, ConfigAssumption DEF ConfigTypeOK, Files
  <1>3. ConfigTypeOK'
    BY <1>2 DEF ConfigTypeOK, Places, Saving
  <1>4. RunInv(p)'
    BY <1>2 DEF ConfigTypeOK, RunInv, Saving, Sound, Store!CurrentIsKnown, Store!Known
  <1>5. QED
    BY <1>3, <1>4, FrameRun DEF ConfigTypeOK, FileIsSound

LEMMA ChmodStep ==
  ASSUME CInv, NEW p \in Procs, Chmod(p)
  PROVE  CInv'
  <1> USE DEF CInv, Chmod, Goto
  <1>1. temp[p] \in Files /\ temp[p].data = config[p]
    BY DEF ConfigTypeOK, RunInv
  <1>2. temp'[p] \in Files /\ temp'[p].data = config[p] /\ temp'[p] # NoFile
    BY <1>1, ConfigAssumption DEF ConfigTypeOK, Files, Modes
  <1>3. ConfigTypeOK'
    BY <1>2 DEF ConfigTypeOK, Places, Saving
  <1>4. RunInv(p)'
    BY <1>2 DEF ConfigTypeOK, RunInv, Saving, Sound, Store!CurrentIsKnown, Store!Known
  <1>5. QED
    BY <1>3, <1>4, FrameRun DEF ConfigTypeOK, FileIsSound

LEMMA RenameStep ==
  ASSUME CInv, NEW p \in Procs, Rename(p)
  PROVE  CInv'
  <1> USE DEF CInv, Rename, Goto
  <1>1. temp[p] \in Files /\ temp[p] # NoFile /\ temp[p].data \in Configs /\ Sound(temp[p].data)
    BY DEF ConfigTypeOK, RunInv
  <1>2. FileIsSound'
    BY <1>1, ConfigAssumption DEF FileIsSound, Sound, Store!CurrentIsKnown, Store!Known
  <1>3. ConfigTypeOK'
    BY <1>1 DEF ConfigTypeOK, Places
  <1>4. RunInv(p)'
    BY <1>1 DEF ConfigTypeOK, RunInv, Saving, Sound, Store!CurrentIsKnown, Store!Known
  <1>5. QED
    BY <1>1, <1>2, <1>3, <1>4, FrameRun DEF ConfigTypeOK

LEMMA ReportStep ==
  ASSUME CInv, NEW p \in Procs, Report(p)
  PROVE  CInv'
  <1> USE DEF CInv, Report
  <1>1. FileIsSound'
    BY DEF FileIsSound
  <1>2. ConfigTypeOK'
    BY ExitKeeps DEF ConfigTypeOK, Ended
  <1>3. RunInv(p)'
    BY ExitKeeps DEF ConfigTypeOK, RunInv, Saving, Sound, Ended
  <1>4. QED
    BY <1>1, <1>2, <1>3, FrameRun DEF ConfigTypeOK, Exit, Goto

LEMMA SaveErrorStep ==
  ASSUME CInv, NEW p \in Procs, SaveError(p)
  PROVE  CInv'
  <1> USE DEF CInv, SaveError
  <1>1. FileIsSound'
    BY DEF FileIsSound
  <1>2. ConfigTypeOK'
    BY ExitKeeps DEF ConfigTypeOK, Ended
  <1>3. RunInv(p)'
    BY ExitKeeps DEF ConfigTypeOK, RunInv, Saving, Sound, Ended
  <1>4. QED
    BY <1>1, <1>2, <1>3, FrameRun DEF ConfigTypeOK, Exit, Goto

LEMMA KillStep ==
  ASSUME CInv, NEW p \in Procs, Kill(p)
  PROVE  CInv'
  <1> USE DEF CInv, Kill
  <1>1. FileIsSound'
    BY DEF FileIsSound
  <1>2. ConfigTypeOK'
    BY ExitKeeps DEF ConfigTypeOK, Ended
  <1>3. RunInv(p)'
    BY ExitKeeps DEF ConfigTypeOK, RunInv, Saving, Sound, Ended
  <1>4. QED
    BY <1>1, <1>2, <1>3, FrameRun DEF ConfigTypeOK, Exit, Goto

LEMMA LoosenStep ==
  ASSUME CInv, Loosen
  PROVE  CInv'
  <1> USE DEF CInv, Loosen
  <1>1. file \in Files /\ file' \in Files /\ file'.data = file.data /\ file' # NoFile
    BY ConfigAssumption DEF ConfigTypeOK, Files, Modes
  <1>2. ConfigTypeOK'
    BY <1>1 DEF ConfigTypeOK
  <1>3. FileIsSound'
    BY <1>1 DEF FileIsSound, Store!CurrentIsKnown, Store!Known
  <1>4. QED
    BY <1>1, <1>2, <1>3, FrameRun

(* CInv holds in every state, however many runs there are and whatever      *)
(* happens to them.                                                         *)
THEOREM ConfigInvariance == ConfigSpec => []CInv
  <1>1. ASSUME CInv, [ConfigNext]_fvars PROVE CInv'
    <2>1. CASE UNCHANGED fvars
      BY <1>1, <2>1, FrameRun DEF CInv, ConfigTypeOK, FileIsSound, fvars, Store!CurrentIsKnown, Store!Known
    <2>2. QED
      BY <1>1, <2>1, ReadFileStep, StatStep, ChangeStep, CreateTempStep, WriteStep, ChmodStep,
         RenameStep, ReportStep, SaveErrorStep, KillStep, LoosenStep DEF ConfigNext
  <1>2. QED
    BY InitCInv, <1>1, PTL DEF ConfigSpec

(* No step of a run stores what is no file, no Config and no place.         *)
THEOREM ConfigTypeCorrect == ConfigSpec => []ConfigTypeOK
  <1>1. CInv => ConfigTypeOK
    BY DEF CInv
  <1>2. QED
    BY ConfigInvariance, <1>1, PTL

(* The file is complete and its current context is in it at every moment    *)
(* (Save, kasconfig.go:114-156), whatever fails and whoever is killed.      *)
THEOREM SoundFile == ConfigSpec => []FileIsSound
  <1>1. CInv => FileIsSound
    BY DEF CInv
  <1>2. QED
    BY ConfigInvariance, <1>1, PTL

(* A run that only looks at the current context finds it.                   *)
THEOREM ReadersServed == ConfigSpec => []LookSucceeds
  <1>1. CInv => LookSucceeds
    BY DEF CInv, RunInv, LookSucceeds
  <1>2. QED
    BY ConfigInvariance, <1>1, PTL

(* A run that returned left no temporary file.                              *)
THEOREM NothingLeft == ConfigSpec => []NoLitter
  <1>1. CInv => NoLitter
    BY DEF CInv, RunInv, NoLitter
  <1>2. QED
    BY ConfigInvariance, <1>1, PTL

-----------------------------------------------------------------------------
(* One run at a time: the refinement of ConfigStore *)

Stored == IF file = NoFile THEN Empty ELSE file.data

(* While a run is under way it is the only one, so what it read is still    *)
(* what is stored.                                                          *)
AloneInv(p) ==
  /\ \A q \in Running : q = p
  /\ pc[p] \in {"stat", "change"} => config[p] = Stored
  /\ pc[p] \in Saving =>
       /\ command[p].kind # "look"
       /\ Accepts(command[p], Stored)
       /\ config[p] = Changed(command[p], Stored)

SerialInv == CInv /\ \A p \in Running : AloneInv(p)

LEMMA StoredIsConfig ==
  ASSUME CInv
  PROVE  Stored \in Configs /\ Sound(Stored)
  BY EmptyIsConfig DEF CInv, ConfigTypeOK, FileIsSound, Files, Stored, Sound

(* What the code computes is what ConfigStore allows. *)
LEMMA ChangedIsEffect ==
  ASSUME NEW k \in Offered, NEW c \in Configs, k.kind # "look", Accepts(k, c)
  PROVE  Store!Effect(k, c, Changed(k, c))
  <1> USE ConfigAssumption DEF Configs, Store!Configs
  <1>1. k \in Store!Commands
    OBVIOUS
  <1>2. CASE k.kind = "set"
    <2> DEFINE x == Apply(k, Existing(c, k.name))
    <2>1. k.name \in Names /\ k.given \in UNION {[F -> Values \cup {Unset}] : F \in SUBSET Fields}
      BY <1>1, <1>2 DEF Store!Commands
    <2>2. Existing(c, k.name) \in Contexts
      BY <2>1 DEF Existing, Has, Contexts, Store!Contexts
    <2>3. x \in Contexts /\ x # NoContext
      BY <2>1, <2>2 DEF Apply, Contexts, Store!Contexts
    <2>4. \A f \in Fields : x[f] = IF f \in DOMAIN k.given THEN k.given[f]
                                   ELSE IF Has(c, k.name) THEN c.contexts[k.name][f] ELSE Unset
      BY DEF Apply, Existing
    <2>5. Changed(k, c) = [contexts |-> [c.contexts EXCEPT ![k.name] = x],
                           current |-> IF k.current \/ c.current = NoName THEN k.name ELSE c.current]
      BY <1>2 DEF Changed, Put
    <2> HIDE DEF x
    <2>6. Store!Sets(k, c, Changed(k, c))
      BY <2>1, <2>3, <2>4, <2>5 DEF Store!Sets, Store!OthersKept, Store!Known, Has
    <2>7. QED
      BY <1>2, <2>6 DEF Store!Effect
  <1>3. CASE k.kind = "use"
    <2>1. Store!Uses(k, c, Changed(k, c))
      BY <1>3 DEF Changed, Accepts, Has, Store!Uses, Store!Known
    <2>2. QED
      BY <1>3, <2>1 DEF Store!Effect
  <1>4. CASE k.kind = "delete"
    <2>1. k.name \in Names
      BY <1>1, <1>4 DEF Store!Commands
    <2>2. Changed(k, c) = [contexts |-> [c.contexts EXCEPT ![k.name] = NoContext],
                           current |-> IF c.current = k.name THEN NoName ELSE c.current]
      BY <1>4 DEF Changed, Delete
    <2>3. Store!Deletes(k, c, Changed(k, c))
      BY <1>4, <2>1, <2>2 DEF Accepts, Has, Store!Deletes, Store!OthersKept, Store!Known
    <2>4. QED
      BY <1>4, <2>3 DEF Store!Effect
  <1>5. QED
    BY <1>1, <1>2, <1>3, <1>4 DEF Store!Commands

LEMMA InitSerialInv == ConfigInit => SerialInv
  BY InitCInv DEF SerialInv, ConfigInit, Running

LEMMA SerialStep ==
  ASSUME Alone, SerialInv, CInv', [ConfigNext]_fvars
  PROVE  SerialInv'
  <1> USE DEF SerialInv
  <1>1. CASE UNCHANGED fvars
    BY <1>1 DEF fvars, AloneInv, Running, Stored
  <1>2. ASSUME NEW p \in Procs, ReadFile(p) PROVE SerialInv'
    <2>1. Running = {} /\ file' = file
      BY <1>2 DEF ReadFile
    <2>2. \A q \in Running' : q = p
      BY <1>2, <2>1 DEF ReadFile, Exit, Goto, Running, CInv, ConfigTypeOK
    <2>3. CASE pc'[p] \in Ended
      BY <2>2, <2>3 DEF Running
    <2>4. CASE file = NoFile /\ config' = [config EXCEPT ![p] = Empty] /\ pc' = [pc EXCEPT ![p] = "change"]
      BY <2>1, <2>2, <2>4 DEF AloneInv, Stored, Saving, CInv, ConfigTypeOK
    <2>5. CASE file # NoFile /\ config' = [config EXCEPT ![p] = file.data] /\ pc' = [pc EXCEPT ![p] = "stat"]
      BY <2>1, <2>2, <2>5 DEF AloneInv, Stored, Saving, CInv, ConfigTypeOK
    <2>6. QED
      BY <1>2, <2>3, <2>4, <2>5 DEF ReadFile, Exit, Goto, Ended, CInv, ConfigTypeOK
  <1>3. ASSUME NEW p \in Procs, Stat(p) PROVE SerialInv'
    BY <1>3 DEF Stat, Goto, AloneInv, Running, Ended, Stored, Saving, CInv, ConfigTypeOK
  <1>4. ASSUME NEW p \in Procs, Change(p) PROVE SerialInv'
    <2>1. p \in Running /\ config[p] = Stored /\ Stored' = Stored /\ command' = command
      BY <1>4 DEF Change, Running, Ended, AloneInv, Stored
    <2>2. CASE pc' = [pc EXCEPT ![p] = "create"]
      <3>1. command[p].kind # "look" /\ Accepts(command[p], Stored)
            /\ config'[p] = Changed(command[p], Stored)
        BY <1>4, <2>1, <2>2 DEF Change, Exit, Goto, CInv, ConfigTypeOK
      <3>2. \A q \in Running' : q = p
        BY <2>1, <2>2 DEF AloneInv, Running, CInv, ConfigTypeOK
      <3>3. AloneInv(p)'
        BY <2>1, <2>2, <3>1, <3>2 DEF AloneInv, Saving, CInv, ConfigTypeOK
      <3>4. QED
        BY <3>2, <3>3
    <2>3. CASE \E place \in Ended \cup {"report"} : pc' = [pc EXCEPT ![p] = place]
      BY <2>1, <2>3 DEF AloneInv, Running, Ended, Saving, CInv, ConfigTypeOK
    <2>4. QED
      BY <1>4, <2>2, <2>3 DEF Change, Exit, Goto, Ended
  <1>5. ASSUME NEW p \in Procs, CreateTemp(p) \/ Write(p) \/ Chmod(p) PROVE SerialInv'
    BY <1>5 DEF CreateTemp, Write, Chmod, Goto, AloneInv, Running, Ended, Stored, Saving, CInv, ConfigTypeOK
  <1>6. ASSUME NEW p \in Procs, Rename(p) \/ Report(p) \/ SaveError(p) \/ Kill(p) PROVE SerialInv'
    BY <1>6 DEF Rename, Report, SaveError, Kill, Exit, Goto, AloneInv, Running, Ended, Saving, CInv, ConfigTypeOK
  <1>7. CASE Loosen
    <2>1. Stored' = Stored
      BY <1>7, ConfigAssumption DEF Loosen, Stored, CInv, ConfigTypeOK, Files, Modes
    <2>2. QED
      BY <1>7, <2>1 DEF Loosen, AloneInv, Running
  <1>8. QED
    BY <1>1, <1>2, <1>3, <1>4, <1>5, <1>6, <1>7 DEF ConfigNext

(* Every step is a step of ConfigStore, or changes nothing it sees. *)
LEMMA StoreStep ==
  ASSUME SerialInv, CInv', [ConfigNext]_fvars
  PROVE  [Store!StoreNext]_(Store!svars)
  <1> DEFINE seen(x) == CASE x \in {"ok", "error", "killed"} -> x
                          [] x = "report" -> "done"
                          [] OTHER -> "none"
             outcome == [p \in Procs |-> seen(pc[p])]
  <1>a. Store!svars = <<command, Stored, outcome>> /\ (Store!svars)' = <<command', Stored', outcome'>>
    BY DEF Store!svars, Stored, Empty, Store!Empty
  <1>b. ASSUME UNCHANGED <<command, file, pc>> PROVE UNCHANGED Store!svars
    BY <1>a, <1>b DEF Stored
  <1>c. ASSUME NEW p \in Procs, NEW place \in Places, seen(place) = seen(pc[p]),
               pc' = [pc EXCEPT ![p] = place], UNCHANGED <<command, file>>
        PROVE  UNCHANGED Store!svars
    <2>1. outcome' = outcome
      BY <1>c DEF SerialInv, CInv, ConfigTypeOK
    <2>2. QED
      BY <1>a, <1>c, <2>1 DEF Stored
  <1>d. ASSUME NEW p \in Procs, NEW place \in Places, NEW from, seen(pc[p]) \in from,
               pc' = [pc EXCEPT ![p] = place], UNCHANGED command
        PROVE  Store!Moves(p, from, seen(place))
    <2>1. outcome[p] \in from /\ outcome' = [outcome EXCEPT ![p] = seen(place)]
      BY <1>d DEF SerialInv, CInv, ConfigTypeOK
    <2>2. QED
      BY <1>d, <2>1 DEF Store!Moves
  <1>e. ASSUME NEW p \in Procs, pc[p] \notin Ended \cup {"report"},
               pc' = [pc EXCEPT ![p] = "error"], UNCHANGED <<command, file>>
        PROVE  Store!StoreNext
    <2>1. Store!Moves(p, {"none"}, "error")
      BY <1>d, <1>e DEF Ended, Places
    <2>2. QED
      BY <1>e, <2>1 DEF Store!Fail, Store!StoreNext
  <1>f. ASSUME NEW p \in Procs, pc[p] \in {"rename", "change"}, pc' = [pc EXCEPT ![p] = "report"],
               UNCHANGED command, Stored' \in Configs, Store!Effect(command[p], Stored, Stored')
        PROVE  Store!StoreNext
    <2>1. Store!Moves(p, {"none"}, "done")
      BY <1>d, <1>f DEF Places
    <2>2. Store!TakeEffect(p)
      BY <1>f, <2>1 DEF Store!TakeEffect, Stored, Empty, Store!Empty, Configs
    <2>3. QED
      BY <2>2 DEF Store!StoreNext
  <1>1. CASE UNCHANGED fvars
    BY <1>b, <1>1 DEF fvars
  <1>2. ASSUME NEW p \in Procs, ReadFile(p) PROVE [Store!StoreNext]_(Store!svars)
    BY <1>2, <1>c, <1>e DEF ReadFile, Exit, Goto, Ended, Places
  <1>3. ASSUME NEW p \in Procs, Stat(p) \/ CreateTemp(p) \/ Write(p) \/ Chmod(p)
        PROVE  [Store!StoreNext]_(Store!svars)
    BY <1>3, <1>c DEF Stat, CreateTemp, Write, Chmod, Goto, Places, Saving
  <1>4. ASSUME NEW p \in Procs, Change(p) PROVE [Store!StoreNext]_(Store!svars)
    <2>1. pc[p] = "change" /\ UNCHANGED <<command, file>>
      BY <1>4 DEF Change
    <2>2. CASE pc' = [pc EXCEPT ![p] = "create"]
      BY <2>1, <2>2, <1>c DEF Places, Saving
    <2>3. CASE pc' = [pc EXCEPT ![p] = "error"]
      BY <2>1, <2>3, <1>e DEF Ended
    <2>4. CASE command[p].kind = "look" /\ pc' = [pc EXCEPT ![p] = "report"]
      <3>1. Stored' \in Configs /\ Store!Effect(command[p], Stored, Stored')
        BY <2>1, <2>4, StoredIsConfig DEF SerialInv, Stored, Store!Effect
      <3>2. QED
        BY <2>1, <2>4, <3>1, <1>f
    <2>5. QED
      BY <1>4, <2>2, <2>3, <2>4 DEF Change, Exit, Goto
  <1>5. ASSUME NEW p \in Procs, Rename(p) PROVE [Store!StoreNext]_(Store!svars)
    <2>1. /\ pc[p] = "rename" /\ pc' = [pc EXCEPT ![p] = "report"]
          /\ file' = temp[p] /\ UNCHANGED command
      BY <1>5 DEF Rename, Goto
    <2>2. /\ command[p].kind # "look"
          /\ Accepts(command[p], Stored)
          /\ config[p] = Changed(command[p], Stored)
      BY <2>1 DEF SerialInv, AloneInv, Running, Ended, Saving
    <2>3. temp[p] # NoFile /\ temp[p].data = config[p]
      BY <2>1 DEF SerialInv, CInv, RunInv
    <2>4. Stored' = Changed(command[p], Stored)
      BY <2>1, <2>2, <2>3 DEF Stored
    <2>5. command[p] \in Offered /\ Stored \in Configs
      BY StoredIsConfig DEF SerialInv, CInv, ConfigTypeOK
    <2>6. Stored' \in Configs /\ Store!Effect(command[p], Stored, Stored')
      BY <2>2, <2>4, <2>5, ChangedIsEffect, ChangedIsConfig, StoredIsConfig DEF SerialInv
    <2>7. QED
      BY <2>1, <2>6, <1>f
  <1>6. ASSUME NEW p \in Procs, Report(p) \/ SaveError(p) \/ Kill(p) PROVE [Store!StoreNext]_(Store!svars)
    <2>1. UNCHANGED <<command, file>>
      BY <1>6 DEF Report, SaveError, Kill
    <2>2. CASE SaveError(p)
      BY <2>1, <2>2, <1>e DEF SaveError, Exit, Goto, Saving, Ended
    <2>3. CASE Report(p)
      <3>1. Store!Moves(p, {"done"}, "ok")
        BY <2>1, <2>3, <1>d DEF Report, Exit, Goto, Places, Ended
      <3>2. QED
        BY <2>1, <3>1 DEF Store!Succeed, Store!StoreNext
    <2>4. CASE Kill(p)
      <3>1. pc[p] \in Places \ ({"start"} \cup Ended) /\ pc' = [pc EXCEPT ![p] = "killed"]
        BY <2>4 DEF Kill, Exit, Goto, Running, SerialInv, CInv, ConfigTypeOK
      <3>2. Store!Moves(p, {"none", "done"}, "killed")
        BY <2>1, <3>1, <1>d DEF Places, Ended
      <3>3. QED
        BY <2>1, <3>2 DEF Store!Die, Store!StoreNext
    <2>5. QED
      BY <1>6, <2>2, <2>3, <2>4
  <1>7. CASE Loosen
    <2>1. Stored' = Stored
      BY <1>7, ConfigAssumption DEF Loosen, Stored, SerialInv, CInv, ConfigTypeOK, Files, Modes
    <2>2. QED
      BY <1>7, <1>a, <2>1 DEF Loosen
  <1>8. QED
    BY <1>1, <1>2, <1>3, <1>4, <1>5, <1>6, <1>7 DEF ConfigNext

LEMMA StoreInitial == ConfigInit => Store!StoreInit
  <1> SUFFICES ASSUME ConfigInit PROVE Store!StoreInit
    OBVIOUS
  <1>1. Stored \in Configs /\ Store!CurrentIsKnown(Stored)
    BY InitCInv, StoredIsConfig DEF Sound
  <1>2. QED
    BY <1>1 DEF ConfigInit, Store!StoreInit, Stored, Empty, Store!Empty, Configs, Store!CurrentIsKnown, Store!Known

(* If runs do not overlap, kascli keeps the promise of ConfigStore: every   *)
(* command takes effect as a whole or not at all, and changes only what it  *)
(* names (config.go:100-239), through every failure and kill, one between   *)
(* the rename and the report of the command included.                       *)
THEOREM SerialStore == Alone /\ ConfigSpec => StoreSpec
  <1> SUFFICES ASSUME Alone PROVE ConfigSpec => StoreSpec
    OBVIOUS
  <1>1. ASSUME SerialInv, CInv', [ConfigNext]_fvars PROVE SerialInv'
    BY <1>1, SerialStep
  <1>2. ConfigSpec => []SerialInv
    BY <1>1, InitSerialInv, ConfigInvariance, PTL DEF ConfigSpec
  <1>3. ASSUME SerialInv, CInv', [ConfigNext]_fvars PROVE [Store!StoreNext]_(Store!svars)
    BY <1>3, StoreStep
  <1>4. QED
    BY <1>2, <1>3, StoreInitial, ConfigInvariance, PTL DEF ConfigSpec, StoreSpec, Store!StoreSpec
=============================================================================
