------------------------------ MODULE Resources ------------------------------
(* The resource types of kasapi and kascli: what an object of each has, how *)
(* it is created and found again, and which requests "kascli update" sends  *)
(* for the flags it is given.                                               *)
EXTENDS Sequences, FiniteSets

(* A request of an update: whether the object is read first, so that what   *)
(* no flag names is written back, and the settings the request may carry.   *)
Partial(settings) == [reads |-> FALSE, carries |-> settings]
Whole(settings) == [reads |-> TRUE, carries |-> settings]
Password == Partial({"password"})

(* What an update reads and writes back, then the password.                 *)
WithPassword(settings) == <<Whole(settings), Password>>

(* created: how the caller learns the id of a new object: KAS reports it    *)
(*   ("id"), or else it is looked up by its key ("lookup"), or it is the    *)
(*   name the caller gave ("name"); "none" if there is no Create.           *)
(* plan: the requests of an update, each sent if one of its flags is given. *)
(* fixed: attributes no update changes.  checks: settings whose value the   *)
(* service may refuse.  omits: settings that are not sent when empty.       *)
(* defaults: settings that are sent as their default when empty.  secrets:  *)
(* settings KAS does not report.  asks: settings every update has.  resets: *)
(* settings an update to nothing removes by a request of its own.           *)
Type(created, plan) ==
  [created |-> created, plan |-> plan, key |-> {}, fixed |-> {}, checks |-> {},
   omits |-> {}, defaults |-> {}, secrets |-> {"password"}, asks |-> {},
   resets |-> {},
   deletable |-> created # "none"]

DNSRecords ==
  [Type("lookup", <<Whole({"name", "data", "aux"})>>) EXCEPT
     !.fixed = {"type"}, !.key = {"name", "type", "data", "aux"}]

MailSteps ==
  <<Password, Partial({"copies"}), Partial({"aliases"}), Partial({"nets"}),
    Partial({"state"}), Partial({"autologin"}), Partial({"responder"}), Partial({"filters"})>>

MailAccounts ==
  [Type("lookup", MailSteps) EXCEPT
     !.fixed = {"address"}, !.key = {"address"},
     !.checks = {"copies", "aliases", "nets", "responder", "filters"}, !.resets = {"filters"}]

MailForwards ==
  [Type("name", <<Partial({"targets"})>>) EXCEPT !.checks = {"targets"}]

HostSettings == {"path", "redirect", "php", "active"}

Domains ==
  [Type("none", <<Partial(HostSettings)>>) EXCEPT
     !.checks = {"redirect"}, !.omits = {"path", "php"}]

Subdomains ==
  [Type("name", <<Partial(HostSettings)>>) EXCEPT
     !.checks = {"redirect"}, !.omits = {"path", "php"}]

TLSSettings == {"certificate", "bundle", "csr", "active", "https", "hsts"}

TLS ==
  [Type("none", <<Partial(TLSSettings)>>) EXCEPT
     !.checks = {"certificate", "bundle", "hsts"},
     !.omits = {"certificate", "bundle", "csr"}]

FTPUsers ==
  [Type("id", WithPassword({"path", "comment", "rights"})) EXCEPT
     !.omits = {"path"}]

Databases ==
  [Type("id", WithPassword({"comment", "hosts"})) EXCEPT
     !.checks = {"comment"}]

(* The login is the HTTP user with its password, sent together or not.  One *)
(* without the other is refused; an update with the user alone sends        *)
(* neither, which is the empty login.                                       *)
CronSettings ==
  {"url", "protocol", "comment", "schedule", "mail", "condition", "subject", "active", "login"}

Cronjobs ==
  [Type("id", <<Whole(CronSettings)>>) EXCEPT
     !.checks = {"url", "protocol", "comment", "mail", "subject", "login"},
     !.omits = {"mail", "condition", "subject", "login"},
     !.defaults = {"protocol", "schedule"},
     !.secrets = {"login"}]

DDNSUsers ==
  [Type("id", WithPassword({"comment", "dualstack"})) EXCEPT
     !.fixed = {"host"}, !.checks = {"comment"}]

SambaUsers ==
  [Type("id", WithPassword({"path", "comment"})) EXCEPT
     !.checks = {"path", "comment"}]

DirectoryProtections ==
  [Type("name", <<Whole({"authname", "password"})>>) EXCEPT
     !.checks = {"authname"}, !.asks = {"password"}]

MailingLists ==
  [Type("id", <<Partial({"subscribers", "restrict", "config", "active"})>>) EXCEPT
     !.checks = {"subscribers", "restrict"}]

AccountSteps == <<Partial({"options", "limits", "rights"}), Partial({"ssh"}), Password>>

Accounts ==
  [Type("id", AccountSteps) EXCEPT
     !.checks = {"options", "limits", "ssh"}]

AccountSettings ==
  [Type("none", <<Partial({"options"}), Password>>) EXCEPT !.checks = {"options"}]

Resource ==
  [dnsrecords |-> DNSRecords, mailaccounts |-> MailAccounts, mailforwards |-> MailForwards,
   domains |-> Domains, subdomains |-> Subdomains, tls |-> TLS, ftpusers |-> FTPUsers,
   databases |-> Databases, cronjobs |-> Cronjobs, ddnsusers |-> DDNSUsers,
   sambausers |-> SambaUsers, directoryprotections |-> DirectoryProtections,
   mailinglists |-> MailingLists, accounts |-> Accounts, accountsettings |-> AccountSettings]

(* The settings an update of a type can change, and all an object has. *)
Carried(type) == UNION {type.plan[i].carries : i \in DOMAIN type.plan}
Settings(type) == Carried(type) \cup type.fixed
=============================================================================
