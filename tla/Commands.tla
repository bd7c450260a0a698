------------------------------ MODULE Commands ------------------------------
(* The commands of kascli that talk to KAS, each as the order in which it   *)
(* checks its flags, reads files and new secrets, makes the client (which   *)
(* may ask for the account's own password) and sends its requests.          *)
EXTENDS Sequences

(* "check" is a check of the command itself, "valid" one of the service,    *)
(* made each time it is about to send a request.                            *)
Kinds == {"check", "file", "secret", "client", "valid", "request"}

None == <<>>
Check == <<"check">>
File == <<"file">>
Secret == <<"secret">>
Client == <<"client">>
Valid == <<"valid">>
Request == <<"request">>

(* A request whose service may refuse what the command lets through; where  *)
(* it checks no more than the command has, the request stands alone.        *)
Checked == Valid \o Request

(* What depends on a flag of the command line. *)
Optional(stages) == {None, stages}

(* All ways to go through the parts, one after the other. *)
Then(A, B) == {a \o b : a \in A, b \in B}

(* newSecret, optionalSecret: a secret is read when its flag asks for it. *)
newSecret == Secret
optionalSecret(on) == IF on THEN Secret ELSE None

(* newClient and what comes after it. *)
Sending(requests) == Client \o requests

(* Mutant: the client is made before the new secrets are read. *)
CreatingLate(secrets, add) == Check \o Client \o secrets \o add

(* add: the request that creates the object. *)
Creating(secrets, add) == Check \o secrets \o Sending(add)

(* DNS records and mailboxes may have to be looked up afterwards. *)
createDNSRecordCmd == {Creating(None, Request), Creating(None, Request \o Request)}
createMailAccountCmd == {Creating(newSecret, Checked), Creating(newSecret, Checked \o Request)}
createMailForwardCmd == {Creating(None, Checked)}
createSubdomainCmd == {Creating(None, Checked)}
createFTPUserCmd == {Creating(newSecret, Request)}
createDatabaseCmd == {Creating(newSecret, Request)}
createCronjobCmd == {Creating(optionalSecret(on), Checked) : on \in BOOLEAN}
createDDNSUserCmd == {Creating(newSecret, Checked)}
createMailingListCmd == {Creating(newSecret, Checked)}
createDirectoryProtectionCmd == {Creating(newSecret, Checked)}
createSambaUserCmd == {Creating(newSecret, Request)}
createAccountCmd == {Check \o Creating(newSecret \o newSecret, Checked)}

(* The new password, a request of its own, if its flag is given. *)
NewPassword(on) == IF on THEN Request ELSE None

(* Mutant: the new password is read when its request is due. *)
secretUpdateLate(update) == {Check \o Sending(Checked \o update \o Secret \o Request)}

(* The settings are read and written back, the password is sent after them; *)
(* one of the two at least.                                                 *)
secretUpdate(update) ==
  {Check \o Secret \o Sending(Checked)}
    \cup {Check \o optionalSecret(on) \o Sending(Checked \o update \o NewPassword(on)) :
             on \in BOOLEAN}

updateDNSRecordCmd == {Check \o Check \o Sending(Checked \o Request)}
updateHostCmd == {Check \o Sending(Checked)}
updateTLSCmd == Then({Check}, Then(Optional(File), Then(Optional(File), {Sending(Checked)})))
updateMailForwardCmd == {Check \o Check \o Sending(Checked)}
updateFTPUserCmd == secretUpdate(Request)
updateDatabaseCmd == secretUpdate(Checked)
updateDDNSUserCmd == secretUpdate(Checked)
updateSambaUserCmd == secretUpdate(Checked)
updateCronjobCmd == {Check \o optionalSecret(on) \o Sending(Checked \o Checked) : on \in BOOLEAN}
updateMailingListCmd == Then({Check}, Then(Optional(File), {Sending(Checked)}))
updateDirectoryProtectionCmd == {Check \o newSecret \o Sending(Checked \o Checked)}

(* parse checks state and responder flags and reads the password; steps     *)
(* sends what was given, the password first (of the seven others two stand  *)
(* for more), and the service checks the values of each step as it comes.   *)
updateMailAccountCmd ==
  {Check \o Check \o Secret \o Sending(Checked \o more) :
     more \in Optional(Checked) \cup Optional(Checked \o Checked)}
    \cup {Check \o Check \o Sending(more) : more \in {Checked, Checked \o Checked}}

(* Options and SSH, each with the checks of its service, then the password. *)
updateAccountCmd ==
  {Check \o Check \o Secret \o Sending(Checked)}
    \cup {Check \o Check \o optionalSecret(on) \o Sending(steps \o NewPassword(on)) :
             on \in BOOLEAN, steps \in {Checked, Checked \o Checked}}

updateAccountSettingsCmd ==
  {Check \o Secret \o Sending(Request)}
    \cup {Check \o optionalSecret(on) \o Sending(Checked \o NewPassword(on)) : on \in BOOLEAN}

(* The verb may turn out not to fit the resource, or --zone to be missing,  *)
(* when the client is there already.  A second request asks whether a host  *)
(* that is no domain is a subdomain.                                        *)
cmdGet == Then({Check \o Client \o Check \o Checked}, Optional(Request))
cmdDelete == {Check \o Client \o Check \o Checked}
cmdExec == {Check \o Sending(Checked)}

Creates ==
  UNION {createDNSRecordCmd, createMailAccountCmd, createMailForwardCmd, createSubdomainCmd,
         createFTPUserCmd, createDatabaseCmd, createCronjobCmd, createDDNSUserCmd,
         createMailingListCmd, createDirectoryProtectionCmd, createSambaUserCmd, createAccountCmd}

Updates ==
  UNION {updateDNSRecordCmd, updateHostCmd, updateTLSCmd, updateMailForwardCmd, updateFTPUserCmd,
         updateDatabaseCmd, updateDDNSUserCmd, updateSambaUserCmd, updateCronjobCmd,
         updateMailingListCmd, updateDirectoryProtectionCmd, updateMailAccountCmd,
         updateAccountCmd, updateAccountSettingsCmd}

AllCommands == Creates \cup Updates \cup cmdGet \cup cmdDelete \cup cmdExec
=============================================================================
