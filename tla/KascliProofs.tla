----------------------------- MODULE KascliProofs -----------------------------
(* For every command, any number of PINs and of retries, and all trouble:   *)
(* no PIN is shown to KAS twice or asked for in vain, every line of the     *)
(* input is taken for what it is, nothing is read too late, and no run goes *)
(* round for ever.                                                          *)
EXTENDS KascliRun, FiniteSetTheorems, SequenceTheorems, TLAPS

-----------------------------------------------------------------------------
(* Commands *)

(* A command first asks the user, then makes the client, and has its        *)
(* requests, with the checks of their services, last.                       *)
Asking(a) == a \in Seq({"check", "file", "secret"})
Quiet(a) == a \in Seq({"check", "file", "secret", "client"})
Requests(r) == r \in Seq({"valid", "request"})
Using(u) == u \in Seq({"check", "valid", "request"})

Parted(c) == \E q, r : Quiet(q) /\ Requests(r) /\ c = q \o r
Cliented(c) == \E a, u : Asking(a) /\ Using(u) /\ c = (a \o Client) \o u
Formed(c) == Parted(c) /\ Cliented(c)

LEMMA Parts ==
  /\ Asking(None) /\ Asking(Check) /\ Asking(File) /\ Asking(Secret)
  /\ Quiet(Client) /\ Requests(None) /\ Requests(Valid) /\ Requests(Request)
  /\ Using(Check) /\ Using(None)
  BY DEF Asking, Quiet, Requests, Using, None, Check, File, Secret, Client, Valid, Request

LEMMA Wider ==
  /\ \A a : Asking(a) => Quiet(a) /\ a \in Seq(Kinds)
  /\ \A r : Requests(r) => Using(r) /\ r \in Seq(Kinds)
  /\ \A q : Quiet(q) => q \in Seq(Kinds)
  /\ \A u : Using(u) => u \in Seq(Kinds)
  BY DEF Asking, Quiet, Requests, Using, Kinds

LEMMA Joining ==
  /\ \A a, b : Asking(a) /\ Asking(b) => Asking(a \o b)
  /\ \A a, b : Quiet(a) /\ Quiet(b) => Quiet(a \o b)
  /\ \A a, b : Requests(a) /\ Requests(b) => Requests(a \o b)
  /\ \A a, b : Using(a) /\ Using(b) => Using(a \o b)
  BY ConcatProperties DEF Asking, Quiet, Requests, Using

LEMMA Associates ==
  ASSUME NEW a \in Seq(Kinds), NEW b \in Seq(Kinds), NEW c \in Seq(Kinds)
  PROVE  (a \o b) \o c = a \o (b \o c)
  BY ConcatAssociative

LEMMA JoinedKinds ==
  ASSUME NEW a \in Seq(Kinds), NEW b \in Seq(Kinds)
  PROVE  a \o b \in Seq(Kinds)
  BY ConcatProperties

LEMMA FormedAfter ==
  ASSUME NEW a, NEW b, Asking(a), Formed(b)
  PROVE  Formed(a \o b)
  <1>1. Parted(a \o b)
    <2>1. PICK q, r : Quiet(q) /\ Requests(r) /\ b = q \o r
      BY DEF Formed, Parted
    <2>2. a \o b = (a \o q) \o r
      <3>1. a \in Seq(Kinds) /\ q \in Seq(Kinds) /\ r \in Seq(Kinds)
        BY <2>1, Wider, Zenon
      <3>2. (a \o q) \o r = a \o (q \o r)
        BY <3>1, Associates, ZenonT(60)
      <3>3. QED
        BY <2>1, <3>2, Zenon
    <2>3. Quiet(a \o q)
      BY <2>1, Joining, Wider
    <2>4. QED
      BY <2>1, <2>2, <2>3 DEF Parted
  <1>2. Cliented(a \o b)
    <2>1. PICK x, u : Asking(x) /\ Using(u) /\ b = (x \o Client) \o u
      BY DEF Formed, Cliented
    <2>2. Client \in Seq(Kinds)
      BY Parts, Wider
    <2>3. a \in Seq(Kinds) /\ x \in Seq(Kinds) /\ u \in Seq(Kinds)
      BY <2>1, Wider
    <2> DEFINE y == x \o Client
    <2>4. y \in Seq(Kinds)
      BY <2>2, <2>3, JoinedKinds
    <2>5. a \o b = (a \o y) \o u
      <3>1. b = y \o u
        BY <2>1, Zenon
      <3> HIDE DEF y
      <3>2. (a \o y) \o u = a \o (y \o u)
        BY <2>3, <2>4, Associates, ZenonT(60)
      <3>3. QED
        BY <3>1, <3>2, Zenon
    <2>6. a \o (x \o Client) = (a \o x) \o Client
      BY <2>2, <2>3, Associates, ZenonT(60)
    <2>7. Asking(a \o x)
      BY <2>1, Joining
    <2>8. QED
      BY <2>1, <2>5, <2>6, <2>7 DEF Cliented
  <1>3. QED
    BY <1>1, <1>2 DEF Formed

LEMMA FormedBefore ==
  ASSUME NEW a, NEW b, Formed(a), Requests(b)
  PROVE  Formed(a \o b)
  <1>1. Parted(a \o b)
    <2>1. PICK q, r : Quiet(q) /\ Requests(r) /\ a = q \o r
      BY DEF Formed, Parted
    <2>2. a \o b = q \o (r \o b)
      <3>1. q \in Seq(Kinds) /\ r \in Seq(Kinds) /\ b \in Seq(Kinds)
        BY <2>1, Wider, Zenon
      <3>2. (q \o r) \o b = q \o (r \o b)
        BY <3>1, Associates, ZenonT(60)
      <3>3. QED
        BY <2>1, <3>2, Zenon
    <2>3. Requests(r \o b)
      BY <2>1, Joining
    <2>4. QED
      BY <2>1, <2>2, <2>3 DEF Parted
  <1>2. Cliented(a \o b)
    <2>1. PICK x, u : Asking(x) /\ Using(u) /\ a = (x \o Client) \o u
      BY DEF Formed, Cliented
    <2>2. x \o Client \in Seq(Kinds)
      BY <2>1, Parts, Wider, JoinedKinds
    <2>3. a \o b = (x \o Client) \o (u \o b)
      <3>1. u \in Seq(Kinds) /\ b \in Seq(Kinds)
        BY <2>1, Wider, Zenon
      <3>2. ((x \o Client) \o u) \o b = (x \o Client) \o (u \o b)
        BY <2>2, <3>1, Associates, ZenonT(60)
      <3>3. QED
        BY <2>1, <3>2, Zenon
    <2>4. Using(u \o b)
      BY <2>1, Joining, Wider
    <2>5. QED
      BY <2>1, <2>3, <2>4 DEF Cliented
  <1>3. QED
    BY <1>1, <1>2 DEF Formed

LEMMA FormedFirst == Formed(Client) /\ Formed((Check \o Client) \o Check)
  <1>1. Client \in Seq(Kinds) /\ Check \in Seq(Kinds) /\ None \in Seq(Kinds)
    BY Parts, Wider
  <1>2. /\ Client = (None \o Client) \o None /\ Client = Client \o None
        /\ (Check \o Client) \o Check = ((Check \o Client) \o Check) \o None
    <2>1. (Check \o Client) \o Check \in Seq(Kinds)
      BY <1>1, Associates
    <2>2. QED
      BY <1>1, <2>1, ConcatEmptySeq DEF None
  <1>3. Quiet((Check \o Client) \o Check)
    BY Parts, Wider, Joining
  <1>4. QED
    BY <1>2, <1>3, Parts DEF Formed, Parted, Cliented

LEMMA SendingFormed ==
  ASSUME NEW r, Requests(r)
  PROVE  Formed(Sending(r))
  BY FormedBefore, FormedFirst DEF Sending

LEMMA SeveralRequests ==
  /\ Requests(Checked) /\ Requests(Request \o Request) /\ Requests(Checked \o Request)
  /\ Requests(Checked \o Checked) /\ \A on \in BOOLEAN : Requests(NewPassword(on))
  <1>1. Requests(Checked)
    BY Parts, Joining DEF Checked
  <1>2. QED
    BY <1>1, Parts, Joining DEF NewPassword

LEMMA CreatingFormed ==
  ASSUME NEW a, Asking(a), NEW r, Requests(r)
  PROVE  Formed(Creating(a, r))
  <1>1. Asking(Check \o a) /\ Formed(Sending(r))
    BY Parts, Joining, SendingFormed
  <1>2. QED
    BY <1>1, FormedAfter DEF Creating

LEMMA OptionalSecret ==
  /\ Asking(newSecret) /\ \A on : Asking(optionalSecret(on))
  BY Parts DEF newSecret, optionalSecret

LEMMA CreatesFormed ==
  ASSUME NEW c \in Creates
  PROVE  Formed(c)
  <1>1. \A a, r : Asking(a) /\ Requests(r) => Formed(Creating(a, r))
    BY CreatingFormed
  <1>2. /\ Asking(newSecret) /\ Asking(None) /\ \A on \in BOOLEAN : Asking(optionalSecret(on))
        /\ Requests(Request) /\ Requests(Checked)
        /\ Requests(Request \o Request) /\ Requests(Checked \o Request)
    BY OptionalSecret, Parts, SeveralRequests
  <1>3. Formed(Check \o Creating(newSecret \o newSecret, Checked))
    BY <1>1, <1>2, Parts, Joining, FormedAfter
  <1>4. /\ \A d \in createDNSRecordCmd \cup createMailAccountCmd : Formed(d)
        /\ \A d \in createMailForwardCmd \cup createSubdomainCmd : Formed(d)
        /\ \A d \in createFTPUserCmd \cup createDatabaseCmd \cup createCronjobCmd : Formed(d)
        /\ \A d \in createDDNSUserCmd \cup createMailingListCmd : Formed(d)
        /\ \A d \in createDirectoryProtectionCmd \cup createSambaUserCmd : Formed(d)
        /\ \A d \in createAccountCmd : Formed(d)
    BY <1>1, <1>2, <1>3
    DEF createDNSRecordCmd, createMailAccountCmd, createMailForwardCmd,
        createSubdomainCmd, createFTPUserCmd, createDatabaseCmd, createCronjobCmd,
        createDDNSUserCmd, createMailingListCmd, createDirectoryProtectionCmd, createSambaUserCmd,
        createAccountCmd
  <1>5. QED
    BY <1>4 DEF Creates

LEMMA ThenFormed ==
  ASSUME NEW A, NEW B, \A a \in A : Asking(a), \A b \in B : Formed(b)
  PROVE  \A d \in Then(A, B) : Formed(d)
  <1>1. ASSUME NEW a \in A, NEW b \in B PROVE Formed(a \o b)
    BY FormedAfter
  <1>2. ASSUME NEW d \in Then(A, B) PROVE Formed(d)
    <2>1. PICK a \in A, b \in B : d = a \o b
      BY DEF Then
    <2>2. QED
      BY <1>1, <2>1
  <1>3. QED
    BY <1>2

(* An update: questions, then requests. *)
LEMMA UpdateFormed ==
  ASSUME NEW a, Asking(a), NEW r, Requests(r)
  PROVE  Formed(a \o Sending(r))
  BY SendingFormed, FormedAfter

LEMMA UpdatesFormed ==
  ASSUME NEW c \in Updates
  PROVE  Formed(c)
  <1>1. \A a, r : Asking(a) /\ Requests(r) => Formed(a \o Sending(r))
    BY UpdateFormed
  <1>2. /\ Requests(Request) /\ Requests(Checked) /\ Requests(None)
        /\ Requests(Checked \o Request) /\ Requests(Checked \o Checked)
        /\ \A on \in BOOLEAN : Requests(NewPassword(on))
    BY Parts, SeveralRequests
  <1>3. /\ Asking(Check) /\ Asking(Check \o Check) /\ Asking(Check \o newSecret)
        /\ Asking(Check \o Secret) /\ Asking((Check \o Check) \o Secret)
        /\ \A on \in BOOLEAN :
             Asking(Check \o optionalSecret(on)) /\ Asking((Check \o Check) \o optionalSecret(on))
    BY Parts, Joining, OptionalSecret
  <1>4. \A a, b : Requests(a) /\ Requests(b) => Requests(a \o b)
    BY Joining
  <1>5. \A m \in Optional(Checked) \cup Optional(Checked \o Checked) : Requests(m)
    BY <1>2 DEF Optional
  <1>7. \A s \in Optional(File) : Asking(s)
    BY Parts DEF Optional
  <1>8. ASSUME NEW update, Requests(update), NEW d \in secretUpdate(update) PROVE Formed(d)
    <2>1. Formed(Check \o Secret \o Sending(Checked))
      BY <1>1, <1>2, <1>3, Zenon
    <2>2. ASSUME NEW on \in BOOLEAN
          PROVE  Formed(Check \o optionalSecret(on) \o Sending(Checked \o update \o NewPassword(on)))
      <3>1. Requests(Checked \o update)
        BY <1>2, <1>4, <1>8, Zenon
      <3>2. Requests(Checked \o update \o NewPassword(on))
        BY <1>2, <1>4, <3>1, Zenon
      <3>3. QED
        BY <1>1, <1>3, <3>2, Zenon
    <2>3. QED
      BY <1>8, <2>1, <2>2, ZenonT(60) DEF secretUpdate
  <1>9. ASSUME NEW d \in updateMailAccountCmd PROVE Formed(d)
    <2>1. ASSUME NEW more \in Optional(Checked) \cup Optional(Checked \o Checked)
          PROVE  Formed(Check \o Check \o Secret \o Sending(Checked \o more))
      <3>1. Requests(Checked \o more)
        BY <1>2, <1>4, <1>5, Zenon
      <3>2. QED
        BY <1>1, <1>3, <3>1, Zenon
    <2>2. ASSUME NEW more \in {Checked, Checked \o Checked}
          PROVE  Formed(Check \o Check \o Sending(more))
      <3>1. Requests(more)
        BY <1>2, <2>2
      <3>2. QED
        BY <1>1, <1>3, <3>1, Zenon
    <2>3. QED
      BY <1>9, <2>1, <2>2, ZenonT(60) DEF updateMailAccountCmd
  <1>10. ASSUME NEW d \in updateAccountCmd PROVE Formed(d)
    <2>1. Formed(Check \o Check \o Secret \o Sending(Checked))
      BY <1>1, <1>2, <1>3, Zenon
    <2>2. ASSUME NEW on \in BOOLEAN, NEW steps \in {Checked, Checked \o Checked}
          PROVE  Formed(Check \o Check \o optionalSecret(on) \o Sending(steps \o NewPassword(on)))
      <3>1. Requests(steps)
        BY <1>2, <2>2
      <3>2. Requests(steps \o NewPassword(on))
        BY <1>2, <1>4, <3>1, Zenon
      <3>3. QED
        BY <1>1, <1>3, <3>2, Zenon
    <2>3. CASE d = Check \o Check \o Secret \o Sending(Checked)
      BY <2>1, <2>3, Zenon
    <2>4. CASE \E on \in BOOLEAN, steps \in {Checked, Checked \o Checked} :
                 d = Check \o Check \o optionalSecret(on) \o Sending(steps \o NewPassword(on))
      BY <2>2, <2>4, Zenon
    <2>5. QED
      BY <1>10, <2>3, <2>4, SMTT(60) DEF updateAccountCmd
  <1>11. ASSUME NEW d \in updateAccountSettingsCmd PROVE Formed(d)
    <2>1. Formed(Check \o Secret \o Sending(Request))
      BY <1>1, <1>2, <1>3, Zenon
    <2>2. ASSUME NEW on \in BOOLEAN
          PROVE  Formed(Check \o optionalSecret(on) \o Sending(Checked \o NewPassword(on)))
      <3>1. Requests(Checked \o NewPassword(on))
        BY <1>2, <1>4, Zenon
      <3>2. QED
        BY <1>1, <1>3, <3>1, Zenon
    <2>3. QED
      BY <1>11, <2>1, <2>2, ZenonT(60) DEF updateAccountSettingsCmd
  <1>12. \A d \in updateTLSCmd \cup updateMailingListCmd : Formed(d)
    <2>1. \A d \in {Sending(Checked)} : Formed(d)
      BY <1>2, SendingFormed
    <2>2. \A d \in Then(Optional(File), {Sending(Checked)}) : Formed(d)
      BY <1>7, <2>1, ThenFormed
    <2>3. \A d \in Then(Optional(File), Then(Optional(File), {Sending(Checked)})) : Formed(d)
      BY <1>7, <2>2, ThenFormed
    <2>4. \A a \in {Check} : Asking(a)
      BY <1>3
    <2>5. \A d \in Then({Check}, Then(Optional(File), {Sending(Checked)})) : Formed(d)
      BY <2>2, <2>4, ThenFormed
    <2>6. \A d \in Then({Check}, Then(Optional(File), Then(Optional(File), {Sending(Checked)}))) :
            Formed(d)
      BY <2>3, <2>4, ThenFormed
    <2>7. QED
      BY <2>5, <2>6 DEF updateTLSCmd, updateMailingListCmd
  <1>13. /\ \A d \in updateDNSRecordCmd \cup updateHostCmd \cup updateMailForwardCmd : Formed(d)
         /\ \A d \in updateCronjobCmd \cup updateDirectoryProtectionCmd : Formed(d)
    BY <1>1, <1>2, <1>3
    DEF updateDNSRecordCmd, updateHostCmd, updateMailForwardCmd, updateCronjobCmd,
        updateDirectoryProtectionCmd
  <1>14. QED
    BY <1>2, <1>8, <1>9, <1>10, <1>11, <1>12, <1>13
    DEF Updates, updateFTPUserCmd, updateDatabaseCmd, updateDDNSUserCmd, updateSambaUserCmd

LEMMA CommandsFormed ==
  ASSUME NEW c \in AllCommands
  PROVE  Formed(c)
  <1>1. Formed(((Check \o Client) \o Check) \o Checked)
    BY FormedFirst, FormedBefore, SeveralRequests
  <1>2. \A d \in cmdDelete : Formed(d)
    BY <1>1 DEF cmdDelete
  <1>3. ASSUME NEW d \in cmdGet PROVE Formed(d)
    <2>1. PICK r \in Optional(Request) : d = (((Check \o Client) \o Check) \o Checked) \o r
      BY <1>3 DEF cmdGet, Then
    <2>2. Requests(r)
      BY Parts DEF Optional
    <2>3. QED
      BY <1>1, <2>1, <2>2, FormedBefore
  <1>4. \A d \in cmdExec : Formed(d)
    BY UpdateFormed, Parts, SeveralRequests DEF cmdExec
  <1>5. QED
    BY <1>2, <1>3, <1>4, CreatesFormed, UpdatesFormed DEF AllCommands

(* Where the stages of a command are. *)
Settled(c) ==
  \A i, j \in DOMAIN c : c[i] = "request" /\ c[j] \in {"check", "file", "secret"} => j < i

OneClient(c) ==
  \E k \in DOMAIN c :
    /\ c[k] = "client"
    /\ \A i \in DOMAIN c :
         /\ c[i] = "secret" => i < k
         /\ c[i] = "request" => k < i
         /\ c[i] = "client" => i = k

LEMMA FormedSettled ==
  ASSUME NEW c, Formed(c)
  PROVE  Settled(c) /\ OneClient(c) /\ c \in Seq(Kinds)
  <1>1. PICK q, r : Quiet(q) /\ Requests(r) /\ c = q \o r
    BY DEF Formed, Parted
  <1>2. /\ c \in Seq(Kinds) /\ Len(c) = Len(q) + Len(r) /\ Len(q) \in Nat /\ Len(r) \in Nat
        /\ \A i \in 1 .. Len(c) : c[i] = IF i <= Len(q) THEN q[i] ELSE r[i - Len(q)]
    BY <1>1, Wider, ConcatProperties
  <1>3. /\ \A i \in 1 .. Len(q) : q[i] \in {"check", "file", "secret", "client"}
        /\ \A i \in 1 .. Len(r) : r[i] \in {"valid", "request"}
    BY <1>1 DEF Quiet, Requests
  <1>4. Settled(c)
    <2>1. SUFFICES ASSUME NEW i \in 1 .. Len(c), NEW j \in 1 .. Len(c),
                          c[i] = "request", c[j] \in {"check", "file", "secret"}
                   PROVE  j < i
      BY <1>2 DEF Settled
    <2>2. ASSUME i <= Len(q) PROVE FALSE
      <3>1. i \in 1 .. Len(q) /\ c[i] = q[i]
        BY <1>2, <2>1, <2>2
      <3>2. c[i] \in {"check", "file", "secret", "client"}
        BY <1>3, <3>1
      <3>3. QED
        BY <2>1, <3>2
    <2>3. ASSUME ~(j <= Len(q)) PROVE FALSE
      <3>1. j - Len(q) \in 1 .. Len(r) /\ c[j] = r[j - Len(q)]
        BY <1>2, <2>1, <2>3
      <3>2. c[j] \in {"valid", "request"}
        BY <1>3, <3>1
      <3>3. QED
        BY <2>1, <3>2
    <2>4. QED
      BY <1>2, <2>2, <2>3
  <1>5. PICK a, u : Asking(a) /\ Using(u) /\ c = (a \o Client) \o u
    BY DEF Formed, Cliented
  <1> DEFINE n == Len(a)
             b == a \o Client
  <1>6. /\ b \in Seq(Kinds) /\ n \in Nat /\ Len(b) = n + 1
        /\ \A i \in 1 .. n + 1 : b[i] = IF i <= n THEN a[i] ELSE "client"
    <2>1. Client \in Seq(Kinds) /\ Len(Client) = 1 /\ Client[1] = "client" /\ a \in Seq(Kinds)
      BY <1>5, Wider DEF Client, Kinds
    <2>2. /\ b \in Seq(Kinds) /\ Len(b) = n + Len(Client)
          /\ \A i \in 1 .. n + Len(Client) : b[i] = IF i <= n THEN a[i] ELSE Client[i - n]
      BY <2>1, ConcatProperties
    <2> HIDE DEF b
    <2>3. n \in Nat
      BY <2>1
    <2>4. ASSUME NEW i \in 1 .. n + 1 PROVE b[i] = IF i <= n THEN a[i] ELSE "client"
      BY <2>1, <2>2, <2>3, <2>4
    <2>5. QED
      BY <2>1, <2>2, <2>3, <2>4
  <1>7. /\ Len(c) = n + 1 + Len(u) /\ Len(u) \in Nat
        /\ \A i \in 1 .. Len(c) : c[i] = IF i <= n + 1 THEN b[i] ELSE u[i - (n + 1)]
    <2>1. b \in Seq(Kinds) /\ u \in Seq(Kinds) /\ c = b \o u
      BY <1>5, <1>6, Wider
    <2> HIDE DEF b, n
    <2>2. /\ Len(c) = Len(b) + Len(u)
          /\ \A i \in 1 .. Len(b) + Len(u) : c[i] = IF i <= Len(b) THEN b[i] ELSE u[i - Len(b)]
      BY <2>1, ConcatProperties
    <2>3. Len(u) \in Nat
      BY <2>1
    <2>4. QED
      BY <1>6, <2>2, <2>3
  <1>8. /\ \A i \in 1 .. n : a[i] \in {"check", "file", "secret"}
        /\ \A i \in 1 .. Len(u) : u[i] \in {"check", "valid", "request"}
    BY <1>5 DEF Asking, Using
  <1> HIDE DEF n, b
  <1>9. OneClient(c)
    <2>1. n + 1 \in 1 .. Len(c) /\ c[n + 1] = "client"
      BY <1>6, <1>7
    <2>2. ASSUME NEW i \in 1 .. Len(c)
          PROVE  \/ i < n + 1 /\ c[i] \in {"check", "file", "secret"}
                 \/ i = n + 1 /\ c[i] = "client"
                 \/ i > n + 1 /\ c[i] \in {"check", "valid", "request"}
      <3>1. CASE i <= n
        BY <1>6, <1>7, <1>8, <3>1
      <3>2. CASE i = n + 1
        BY <1>6, <2>1, <3>2
      <3>3. CASE i > n + 1
        BY <1>6, <1>7, <1>8, <3>3
      <3>4. QED
        BY <1>6, <3>1, <3>2, <3>3
    <2>3. DOMAIN c = 1 .. Len(c)
      BY <1>2
    <2>4. QED
      BY <1>6, <2>1, <2>2, <2>3 DEF OneClient
  <1>10. QED
    BY <1>2, <1>4, <1>9

-----------------------------------------------------------------------------
(* PINs *)

Lines == [kind : {"secret", "password", "pin", "blank"}, nr : Nat]

(* What is still to be read: no line twice, and none that is the given PIN. *)
Unread(s) ==
  /\ s \in Seq(Lines)
  /\ \A i, j \in 1 .. Len(s) : s[i] = s[j] /\ s[i] # Blank => i = j
  /\ \A i \in 1 .. Len(s) : s[i] # Given

(* What KAS was shown is gone from the input, and from the source. *)
PInv ==
  /\ Unread(input)
  /\ pin \in BOOLEAN
  /\ presented \in Seq(Lines \cup {NoPin})
  /\ \A i \in 1 .. Len(presented) : \A j \in 1 .. Len(input) : presented[i] # input[j]
  /\ pin => \A i \in 1 .. Len(presented) : presented[i] # Given
  /\ \A i, j \in 1 .. Len(presented) :
       presented[i] = presented[j] /\ presented[i] # NoPin => i = j

(* What the nth line is for. *)
Purpose(c, s, n) ==
  CASE n <= Count("secret", c) -> "secret"
    [] n > Count("secret", c) /\ ~s.stored /\ n = Count("secret", c) + 1 -> "password"
    [] OTHER -> "pin"

LEMMA CountIsNat ==
  ASSUME NEW kind, NEW c \in Seq(Kinds)
  PROVE  Count(kind, c) \in Nat
  <1>1. IsFiniteSet(1 .. Len(c))
    BY FS_Interval
  <1>2. {i \in DOMAIN c : c[i] = kind} \subseteq 1 .. Len(c)
    OBVIOUS
  <1>3. QED
    BY <1>1, <1>2, FS_Subset, FS_CardinalityType DEF Count

(* The lines of one kind, by number. *)
LEMMA NumberedIsUnread ==
  ASSUME NEW kind \in {"secret", "password", "pin"}, NEW n \in Nat
  PROVE  LET s == [i \in 1 .. n |-> Line(kind, i)]
         IN  s \in Seq(Lines) /\ Len(s) = n /\ \A i \in 1 .. n : s[i] = Line(kind, i)
  BY DEF Line, Lines

(* s is a, of n lines, followed by b, of k lines. *)
Joins(s, a, b, n, k) ==
  /\ s \in Seq(Lines) /\ Len(s) = n + k
  /\ \A i \in 1 .. n + k : s[i] = IF i <= n THEN a[i] ELSE b[i - n]

LEMMA Joined ==
  ASSUME NEW a \in Seq(Lines), NEW b \in Seq(Lines), NEW n \in Nat, NEW k \in Nat,
         Len(a) = n, Len(b) = k
  PROVE  Joins(a \o b, a, b, n, k)
  BY ConcatProperties DEF Joins

LEMMA ScriptIsUnread ==
  ASSUME NEW c \in Seq(Kinds), NEW s \in Setups
  PROVE  /\ Unread(Script(c, s))
         /\ \A i \in 1 .. Len(Script(c, s)) :
              Script(c, s)[i] # Blank /\ Script(c, s)[i].kind = Purpose(c, s, i)
  <1> DEFINE n == Count("secret", c)
             A == [i \in 1 .. n |-> Line("secret", i)]
             B == IF s.stored THEN <<>> ELSE <<Line("password", 1)>>
             C == [i \in 1 .. Pins |-> Line("pin", i)]
  <1>1. n \in Nat /\ Pins \in Nat
    BY CountIsNat, KascliAssumption
  <1> HIDE DEF n
  <1>2. /\ A \in Seq(Lines) /\ Len(A) = n /\ \A i \in 1 .. n : A[i] = Line("secret", i)
        /\ C \in Seq(Lines) /\ Len(C) = Pins /\ \A i \in 1 .. Pins : C[i] = Line("pin", i)
    BY <1>1, NumberedIsUnread
  <1>3. B \in Seq(Lines) /\ Len(B) \in {0, 1} /\ \A i \in 1 .. Len(B) : B[i] = Line("password", 1)
    <2>1. <<Line("password", 1)>> \in Seq(Lines) /\ Len(<<Line("password", 1)>>) = 1
      BY DEF Line, Lines
    <2>2. CASE s.stored
      BY <2>2
    <2>3. CASE ~s.stored
      <3>1. B = <<Line("password", 1)>>
        BY <2>3
      <3>2. QED
        BY <2>1, <3>1
    <2>4. QED
      BY <2>2, <2>3
  <1>a. Len(B) = 1 <=> ~s.stored
    <2>1. <<Line("password", 1)>> \in Seq(Lines) /\ Len(<<Line("password", 1)>>) = 1
      BY DEF Line, Lines
    <2>2. CASE s.stored
      BY <2>2
    <2>3. CASE ~s.stored
      <3>1. B = <<Line("password", 1)>>
        BY <2>3
      <3>2. QED
        BY <2>1, <2>3, <3>1
    <2>4. QED
      BY <2>2, <2>3
  <1> HIDE DEF A, B, C
  <1> DEFINE AB == A \o B
             S == AB \o C
             m == n + Len(B)
  <1>4. /\ AB \in Seq(Lines) /\ Len(AB) = m /\ m \in Nat
        /\ \A i \in 1 .. m : AB[i] = IF i <= n THEN A[i] ELSE B[i - n]
    <2> DEFINE k == Len(B)
    <2>1. /\ A \in Seq(Lines) /\ B \in Seq(Lines) /\ n \in Nat /\ k \in Nat
          /\ Len(A) = n /\ Len(B) = k
      BY <1>1, <1>2, <1>3
    <2> HIDE DEF k
    <2>2. Joins(A \o B, A, B, n, k)
      BY <2>1, Joined
    <2>3. Joins(AB, A, B, n, k)
      BY <2>2
    <2>4. m = n + k /\ m \in Nat
      BY <2>1 DEF k
    <2> HIDE DEF AB, m
    <2>5. QED
      BY <2>3, <2>4 DEF Joins
  <1> HIDE DEF AB
  <1>5. /\ S \in Seq(Lines) /\ Len(S) = m + Pins
        /\ \A i \in 1 .. m + Pins : S[i] = IF i <= m THEN AB[i] ELSE C[i - m]
    <2>1. AB \in Seq(Lines) /\ C \in Seq(Lines) /\ Len(AB) = m /\ Len(C) = Pins
      BY <1>2, <1>4
    <2>2. m \in Nat /\ Pins \in Nat
      BY <1>1, <1>4
    <2> HIDE DEF m
    <2>3. Joins(AB \o C, AB, C, m, Pins)
      BY <2>1, <2>2, Joined
    <2>4. Joins(S, AB, C, m, Pins)
      BY <2>3
    <2> HIDE DEF S
    <2>5. QED
      BY <2>4 DEF Joins
  <1> HIDE DEF S
  <1>6. ASSUME NEW i \in 1 .. Len(S)
        PROVE  \/ i <= n /\ S[i] = Line("secret", i)
               \/ i > n /\ i <= m /\ i = n + 1 /\ S[i] = Line("password", 1)
               \/ i > m /\ i - m \in Nat \ {0} /\ S[i] = Line("pin", i - m)
    <2>1. CASE i <= n
      BY <1>1, <1>2, <1>3, <1>4, <1>5, <2>1
    <2>2. CASE i > n /\ i <= m
      <3>1. Len(B) = 1 /\ i - n = 1 /\ i = n + 1
        BY <1>1, <1>3, <1>4, <1>5, <2>2
      <3>2. S[i] = B[1]
        BY <1>1, <1>4, <1>5, <2>2, <3>1
      <3>3. QED
        BY <1>3, <2>2, <3>1, <3>2
    <2>3. CASE i > m
      <3>1. i - m \in 1 .. Pins /\ S[i] = C[i - m]
        BY <1>1, <1>4, <1>5, <2>3
      <3>2. QED
        BY <1>1, <1>2, <2>3, <3>1
    <2>4. QED
      BY <1>1, <1>3, <1>4, <1>5, <2>1, <2>2, <2>3
  <1>7. ASSUME NEW i \in 1 .. Len(S)
        PROVE  S[i] # Blank /\ S[i] # Given /\ \A j \in 1 .. Len(S) : S[i] = S[j] => i = j
    <2>1. n \in Nat /\ m \in Nat /\ i \in Nat \ {0} /\ Len(S) \in Nat
      BY <1>1, <1>3, <1>4, <1>5
    <2>2. ASSUME NEW j \in 1 .. Len(S)
          PROVE  /\ S[j].kind \in {"secret", "password", "pin"} /\ S[j].nr # 0
                 /\ S[j].kind = "secret" => j = S[j].nr
                 /\ S[j].kind = "password" => j = n + 1
                 /\ S[j].kind = "pin" => j = m + S[j].nr
      <3>1. CASE j <= n /\ S[j] = Line("secret", j)
        BY <2>1, <3>1 DEF Line
      <3>2. CASE j = n + 1 /\ S[j] = Line("password", 1)
        BY <2>1, <3>2 DEF Line
      <3>3. CASE j - m \in Nat \ {0} /\ S[j] = Line("pin", j - m)
        BY <2>1, <3>3 DEF Line
      <3>4. QED
        BY <1>6, <3>1, <3>2, <3>3
    <2>3. S[i] # Blank /\ S[i] # Given
      BY <2>2 DEF Line, Blank, Given
    <2>4. ASSUME NEW j \in 1 .. Len(S), S[i] = S[j] PROVE i = j
      BY <2>2, <2>4
    <2>5. QED
      BY <2>3, <2>4
  <1>8. ASSUME NEW i \in 1 .. Len(S)
        PROVE  S[i].kind = IF i <= n THEN "secret"
                           ELSE IF Len(B) = 1 /\ i = n + 1 THEN "password" ELSE "pin"
    <2>1. CASE i <= n
      <3>1. S[i] = Line("secret", i)
        BY <1>1, <1>3, <1>4, <1>6, <2>1
      <3>2. QED
        BY <2>1, <3>1 DEF Line
    <2>2. CASE i > n /\ i <= m
      <3>1. Len(B) = 1 /\ i = n + 1 /\ S[i] = Line("password", 1) /\ ~(i <= n)
        BY <1>1, <1>3, <1>4, <1>5, <1>6, <2>2
      <3>2. QED
        BY <3>1 DEF Line
    <2>3. CASE i > m
      <3>1. S[i] = Line("pin", i - m)
        BY <1>1, <1>3, <1>4, <1>5, <1>6, <2>3
      <3>2. ~(i <= n)
        BY <1>1, <1>3, <1>4, <1>5, <2>3
      <3>3. ASSUME Len(B) = 1 PROVE i # n + 1
        <4>1. m = n + 1
          BY <3>3
        <4>2. QED
          BY <1>1, <2>3, <4>1
      <3>4. QED
        BY <3>1, <3>2, <3>3 DEF Line
    <2>4. QED
      BY <1>1, <1>4, <1>5, <2>1, <2>2, <2>3
  <1>9. Script(c, s) = S
    BY DEF Script, S, AB, A, B, C, n
  <1>10. ASSUME NEW i \in 1 .. Len(S) PROVE S[i].kind = Purpose(c, s, i)
    <2>1. /\ i <= n => S[i].kind = "secret"
          /\ ~(i <= n) /\ Len(B) = 1 /\ i = n + 1 => S[i].kind = "password"
          /\ ~(i <= n) /\ ~(Len(B) = 1 /\ i = n + 1) => S[i].kind = "pin"
          /\ i > n <=> ~(i <= n)
      BY <1>1, <1>5, <1>8
    <2>2. Purpose(c, s, i) = CASE i <= n -> "secret"
                               [] i > n /\ ~s.stored /\ i = n + 1 -> "password"
                               [] OTHER -> "pin"
      BY DEF Purpose, n
    <2>3. CASE i <= n
      BY <2>1, <2>2, <2>3
    <2>4. CASE ~(i <= n) /\ Len(B) = 1 /\ i = n + 1
      BY <1>a, <2>1, <2>2, <2>4
    <2>5. CASE ~(i <= n) /\ ~(Len(B) = 1 /\ i = n + 1)
      BY <1>a, <2>1, <2>2, <2>5
    <2>6. QED
      BY <2>3, <2>4, <2>5
  <1>11. QED
    BY <1>5, <1>7, <1>9, <1>10 DEF Unread

(* However much of it the user writes, and with a blank line or without.    *)
LEMMA InputsAreUnread ==
  ASSUME NEW c \in Seq(Kinds), NEW s \in Setups, NEW in \in Inputs(c, s)
  PROVE  /\ Unread(in)
         /\ \A i \in 1 .. Len(in) : in[i] # Blank => in[i].kind = Purpose(c, s, i)
  <1> DEFINE S == Script(c, s)
  <1>1. /\ S \in Seq(Lines) /\ Len(S) \in Nat
        /\ \A i, j \in 1 .. Len(S) : S[i] = S[j] => i = j
        /\ \A i \in 1 .. Len(S) : S[i] # Blank /\ S[i] # Given /\ S[i].kind = Purpose(c, s, i)
    BY ScriptIsUnread DEF Unread
  <1>2. PICK n \in 0 .. Len(S) : in \in {SubSeq(S, 1, n), Append(SubSeq(S, 1, n), Blank)}
    BY DEF Inputs
  <1> HIDE DEF S
  <1> DEFINE T == SubSeq(S, 1, n)
  <1>3. /\ T \in Seq(Lines) /\ Len(T) = n
        /\ \A i \in 1 .. n : T[i] = S[i]
    <2>1. \A i \in 1 .. n : S[i] \in Lines
      BY <1>1, ElementOfSeq
    <2>2. /\ T \in Seq(Lines) /\ Len(T) = IF 1 <= n THEN n - 1 + 1 ELSE 0
          /\ \A i \in 1 .. n - 1 + 1 : T[i] = S[1 + i - 1]
      BY <1>1, <2>1, SubSeqProperties
    <2>3. QED
      BY <1>1, <2>2
  <1> HIDE DEF T
  <1>4. CASE in = T
    <2>1. in \in Seq(Lines) /\ Len(in) = n
      BY <1>3, <1>4
    <2>2. \A i \in 1 .. n : i \in 1 .. Len(S) /\ in[i] = S[i]
      BY <1>1, <1>3, <1>4
    <2>3. \A i, j \in 1 .. n : in[i] = in[j] => i = j
      BY <1>1, <2>2
    <2>4. \A i \in 1 .. n : in[i] # Blank /\ in[i] # Given /\ in[i].kind = Purpose(c, s, i)
      BY <1>1, <2>2
    <2>5. QED
      BY <2>1, <2>3, <2>4 DEF Unread
  <1>5. CASE in = Append(T, Blank)
    <2>1. Blank \in Lines /\ Blank # Given
      BY DEF Blank, Given, Line, Lines
    <2>2. /\ in \in Seq(Lines) /\ Len(in) = n + 1
          /\ \A i \in 1 .. n + 1 : in[i] = IF i <= n THEN T[i] ELSE Blank
      BY <1>1, <1>3, <1>5, <2>1
    <2>3. \A i \in 1 .. n + 1 : in[i] # Blank => i <= n /\ in[i] = S[i]
      BY <1>1, <1>3, <2>2
    <2>4. ASSUME NEW i \in 1 .. n + 1 PROVE in[i] # Given
      <3>1. CASE in[i] = Blank
        BY <2>1, <3>1
      <3>2. CASE in[i] # Blank
        <4>1. i \in 1 .. Len(S) /\ in[i] = S[i]
          BY <1>1, <2>3, <3>2
        <4>2. QED
          BY <1>1, <4>1
      <3>3. QED
        BY <3>1, <3>2
    <2>5. ASSUME NEW i \in 1 .. n + 1, NEW j \in 1 .. n + 1, in[i] = in[j], in[i] # Blank
          PROVE  i = j
      <3>1. i \in 1 .. Len(S) /\ j \in 1 .. Len(S) /\ S[i] = S[j]
        BY <1>1, <2>3, <2>5
      <3>2. QED
        BY <1>1, <3>1
    <2>6. ASSUME NEW i \in 1 .. Len(in), in[i] # Blank PROVE in[i].kind = Purpose(c, s, i)
      <3>1. i \in 1 .. Len(S) /\ in[i] = S[i]
        BY <1>1, <2>2, <2>3, <2>6
      <3>2. QED
        BY <1>1, <3>1
    <2>7. QED
      BY <2>2, <2>4, <2>5, <2>6 DEF Unread
  <1>6. QED
    BY <1>2, <1>4, <1>5 DEF T

LEMMA InitPInv == RunInit => PInv
  <1> SUFFICES ASSUME RunInit PROVE PInv
    OBVIOUS
  <1>1. Unread(input)
    <2>1. command \in Seq(Kinds) /\ setup \in Setups /\ input \in Inputs(command, setup)
      BY KascliAssumption, CommandsFormed, FormedSettled DEF RunInit
    <2>2. QED
      BY <2>1, InputsAreUnread
  <1>2. presented = <<>> /\ pin \in BOOLEAN
    BY DEF RunInit, Setups
  <1>3. QED
    BY <1>1, <1>2 DEF PInv

(* A line that is read is gone, the others stay in order. *)
LEMMA TailIsUnread ==
  ASSUME NEW s, Unread(s), s # <<>>
  PROVE  /\ Unread(Tail(s))
         /\ Head(s) \in Lines /\ Head(s) = s[1] /\ 1 \in 1 .. Len(s)
         /\ \A i \in 1 .. Len(Tail(s)) : i + 1 \in 1 .. Len(s) /\ Tail(s)[i] = s[i + 1]
         /\ Head(s) # Blank => \A i \in 1 .. Len(Tail(s)) : Tail(s)[i] # Head(s)
  <1>1. /\ s \in Seq(Lines) /\ Len(s) \in Nat \ {0}
        /\ Tail(s) \in Seq(Lines) /\ Len(Tail(s)) = Len(s) - 1
        /\ \A i \in 1 .. Len(Tail(s)) : Tail(s)[i] = s[i + 1]
        /\ Head(s) = s[1] /\ Head(s) \in Lines
    BY HeadTailProperties, EmptySeq DEF Unread
  <1>2. \A i \in 1 .. Len(Tail(s)) : i + 1 \in 1 .. Len(s)
    BY <1>1
  <1>3. Unread(Tail(s))
    BY <1>1, <1>2 DEF Unread
  <1>4. QED
    BY <1>1, <1>2, <1>3 DEF Unread

(* A line is read, and KAS is shown nothing. *)
LEMMA ConsumeKeeps ==
  ASSUME PInv, NEW purpose,
         Consume(purpose) \/ UNCHANGED <<input, got>>, UNCHANGED presented, pin' = pin \/ pin' = FALSE
  PROVE  PInv'
  <1>a. pin' \in BOOLEAN /\ (pin' => pin)
    <2>1. pin \in BOOLEAN
      BY DEF PInv
    <2>2. CASE pin' = pin
      BY <2>1, <2>2
    <2>3. CASE pin' = FALSE
      BY <2>3
    <2>4. QED
      BY <2>2, <2>3
  <1>1. CASE input' = input
    <2>1. pin' => \A i \in 1 .. Len(presented) : presented[i] # Given
      BY <1>a DEF PInv
    <2>2. Unread(input)'
      BY <1>1 DEF PInv, Unread
    <2>3. QED
      BY <1>a, <1>1, <2>1, <2>2 DEF PInv
  <1>2. CASE input # <<>> /\ input' = Tail(input)
    <2>1. /\ Unread(input')
          /\ \A i \in 1 .. Len(input') : i + 1 \in 1 .. Len(input) /\ input'[i] = input[i + 1]
      BY <1>2, TailIsUnread DEF PInv
    <2>2. \A i \in 1 .. Len(presented) : \A j \in 1 .. Len(input') : presented[i] # input'[j]
      BY <2>1 DEF PInv
    <2>3. QED
      BY <1>a, <2>1, <2>2 DEF PInv
  <1>3. CASE Consume(purpose)
    BY <1>1, <1>2, <1>3 DEF Consume
  <1>4. QED
    BY <1>1, <1>3

(* KAS is shown something that it has not seen, and that is gone then. *)
LEMMA ShowKeeps ==
  ASSUME PInv, NEW x \in Lines \cup {NoPin}, presented' = Append(presented, x),
         Unread(input'), pin' = FALSE,
         \A j \in 1 .. Len(input') : input'[j] # x,
         \A i \in 1 .. Len(presented) : \A j \in 1 .. Len(input') : presented[i] # input'[j],
         x # NoPin => \A i \in 1 .. Len(presented) : presented[i] # x
  PROVE  PInv'
  <1>1. /\ presented' \in Seq(Lines \cup {NoPin}) /\ Len(presented') = Len(presented) + 1
        /\ Len(presented) \in Nat
        /\ \A i \in 1 .. Len(presented) + 1 :
             presented'[i] = IF i <= Len(presented) THEN presented[i] ELSE x
    BY DEF PInv
  <1>2. ASSUME NEW i \in 1 .. Len(presented')
        PROVE
          \/ i \in 1 .. Len(presented) /\ presented'[i] = presented[i]
          \/ i = Len(presented) + 1 /\ presented'[i] = x
    BY <1>1
  <1>3. \A i \in 1 .. Len(presented') : \A j \in 1 .. Len(input') : presented'[i] # input'[j]
    BY <1>2
  <1>4. \A i, j \in 1 .. Len(presented') :
          presented'[i] = presented'[j] /\ presented'[i] # NoPin => i = j
    BY <1>2 DEF PInv
  <1>5. QED
    BY <1>1, <1>3, <1>4 DEF PInv

LEMMA NoPinIsNoLine == NoPin \notin Lines /\ Given \in Lines
  BY DEF NoPin, Given, Line, Lines

LEMMA HandshakeKeeps ==
  ASSUME PInv, Handshake
  PROVE  PInv'
  <1>1. pin' = FALSE
    BY DEF Handshake, PInv, Give
  <1>2. CASE Pin = Blank
    <2>1. presented' = presented
      BY <1>2 DEF Handshake
    <2>2. Consume("pin") \/ UNCHANGED <<input, got>>
      BY DEF Handshake
    <2>3. QED
      BY <1>1, <2>1, <2>2, ConsumeKeeps
  <1>3. CASE Pin # Blank
    <2>1. presented' = Append(presented, Pin)
      BY <1>3 DEF Handshake
    <2>2. CASE ~Asks
      <3>1. Pin = NoPin /\ input' = input
        BY <2>2 DEF Pin, Handshake
      <3>2. \A j \in 1 .. Len(input) : input[j] # NoPin
        BY ElementOfSeq, NoPinIsNoLine DEF PInv, Unread
      <3>3. QED
        BY <1>1, <2>1, <3>1, <3>2, ShowKeeps DEF PInv
    <2>3. CASE Asks /\ pin
      <3>1. Pin = Given /\ input' = input
        BY <2>3 DEF Pin, Handshake
      <3>2. \A j \in 1 .. Len(input) : input[j] # Given
        BY DEF PInv, Unread
      <3>3. \A i \in 1 .. Len(presented) : presented[i] # Given
        BY <2>3 DEF PInv
      <3>4. Unread(input') /\ Given \in Lines
        BY <3>1, NoPinIsNoLine DEF PInv
      <3>5. \A i \in 1 .. Len(presented) : \A j \in 1 .. Len(input') : presented[i] # input'[j]
        BY <3>1 DEF PInv
      <3>6. QED
        BY <1>1, <2>1, <3>1, <3>2, <3>3, <3>4, <3>5, ShowKeeps
    <2>4. CASE Asks /\ ~pin
      <3>1. Pin = Head(input) /\ Readable
        BY <1>3, <2>4 DEF Pin
      <3>2. input # <<>> /\ input' = Tail(input)
        BY <2>4, <3>1 DEF Readable, Handshake, Consume
      <3>3. /\ Unread(input') /\ Pin \in Lines /\ Pin = input[1] /\ 1 \in 1 .. Len(input)
            /\ \A i \in 1 .. Len(input') : i + 1 \in 1 .. Len(input) /\ input'[i] = input[i + 1]
            /\ \A i \in 1 .. Len(input') : input'[i] # Pin
        BY <1>3, <3>1, <3>2, TailIsUnread DEF PInv
      <3>4. \A i \in 1 .. Len(presented) : \A j \in 1 .. Len(input') : presented[i] # input'[j]
        BY <3>3 DEF PInv
      <3>5. \A i \in 1 .. Len(presented) : presented[i] # Pin
        BY <3>3 DEF PInv
      <3>6. QED
        BY <1>1, <2>1, <3>3, <3>4, <3>5, ShowKeeps
    <2>5. QED
      BY <2>2, <2>3, <2>4
  <1>4. QED
    BY <1>2, <1>3

LEMMA PinsStep ==
  ASSUME PInv, [RunNext]_runVars
  PROVE  PInv'
  <1>1. CASE CheckFlags \/ Send \/ Succeed \/ UNCHANGED runVars
    <2>1. UNCHANGED <<input, pin, presented>>
      BY <1>1 DEF CheckFlags, Send, Succeed, runVars
    <2>2. QED
      BY <2>1 DEF PInv
  <1>2. CASE ReadSecret
    BY <1>2, ConsumeKeeps DEF ReadSecret
  <1>3. CASE NewClient
    BY <1>3, ConsumeKeeps DEF NewClient
  <1>4. QED
    BY <1>1, <1>2, <1>3, HandshakeKeeps DEF RunNext

(* In no run is a PIN presented twice, whatever is refused, retried or      *)
(* renewed (main.go:250-263).                                               *)
THEOREM PinsAreSpent == RunSpec => []PinOnce
  <1>1. PInv => PinOnce
    BY DEF PInv, PinOnce
  <1>2. QED
    BY InitPInv, PinsStep, <1>1, PTL DEF RunSpec

-----------------------------------------------------------------------------
(* The stages *)

RunTypes ==
  /\ command \in Offered
  /\ stage \in 1 .. Len(command) + 1
  /\ pin \in BOOLEAN /\ session \in BOOLEAN /\ reauthed \in BOOLEAN
  /\ flood \in 0 .. MaxFloodRetries
  /\ result \in Ends

(* Once KAS was shown something, the first request is not ahead. *)
Begun ==
  presented # <<>> => \E i \in DOMAIN command : command[i] = "request" /\ i <= stage

Shown == \E i \in DOMAIN presented : presented[i] = Given

Spent ==
  /\ setup.given /\ ~pin => Shown
  /\ result = "pin" => ~pin

TInv == PInv /\ RunTypes /\ Begun /\ Spent

LEMMA CommandShape ==
  ASSUME command \in Offered
  PROVE  /\ Settled(command) /\ OneClient(command) /\ command \in Seq(Kinds)
         /\ DOMAIN command = 1 .. Len(command) /\ Len(command) \in Nat
  BY KascliAssumption, CommandsFormed, FormedSettled

LEMMA AtStage ==
  ASSUME RunTypes, NEW kind, At(kind)
  PROVE  stage \in 1 .. Len(command) /\ stage + 1 \in 1 .. Len(command) + 1
  BY CommandShape DEF RunTypes, At

LEMMA InitTInv == RunInit => TInv
  <1> SUFFICES ASSUME RunInit PROVE TInv
    OBVIOUS
  <1>1. command \in Offered /\ stage = 1 /\ presented = <<>> /\ result = "none" /\ pin = setup.given
    BY DEF RunInit
  <1>2. RunTypes
    <2>1. pin \in BOOLEAN
      BY InitPInv DEF PInv
    <2>2. stage \in 1 .. Len(command) + 1 /\ 0 \in 0 .. MaxFloodRetries
      BY <1>1, CommandShape, KascliAssumption
    <2>3. QED
      BY <1>1, <2>1, <2>2 DEF RunInit, RunTypes, Ends
  <1>3. Begun /\ Spent
    BY <1>1 DEF Begun, Spent
  <1>4. QED
    BY <1>2, <1>3, InitPInv DEF TInv

(* What a step before the first request, or one that only ends the run, has *)
(* to do with what was shown: nothing.                                      *)
LEMMA QuietStep ==
  ASSUME TInv, UNCHANGED <<presented, command, setup, pin>>, stage' \in {stage, stage + 1},
         result' = "pin" => result = "pin"
  PROVE  Begun' /\ Spent'
  <1>1. stage \in Nat /\ stage <= stage'
    BY CommandShape DEF TInv, RunTypes
  <1>2. Begun'
    <2>1. SUFFICES ASSUME presented # <<>>
                   PROVE  \E i \in DOMAIN command : command[i] = "request" /\ i <= stage'
      BY DEF Begun
    <2>2. PICK i \in DOMAIN command : command[i] = "request" /\ i <= stage
      BY <2>1 DEF TInv, Begun
    <2>3. i \in Nat
      BY <2>2, CommandShape DEF TInv, RunTypes
    <2>4. QED
      BY <1>1, <2>2, <2>3
  <1>3. Spent'
    BY DEF TInv, Spent, Shown
  <1>4. QED
    BY <1>2, <1>3

LEMMA BeforeRequests ==
  ASSUME TInv, CheckFlags \/ ReadSecret \/ NewClient
  PROVE  RunTypes' /\ Begun' /\ Spent'
  <1>1. /\ UNCHANGED <<command, setup, pin, session, reauthed, flood, presented>>
        /\ \E kind : At(kind)
        /\ \/ UNCHANGED stage /\ result' \in {"usage", "file", "invalid", "config", "input"}
           \/ stage' = stage + 1 /\ UNCHANGED result
    BY DEF CheckFlags, Refusal, ReadSecret, NewClient, Exit, Proceed, Fixed, Session
  <1>2. stage' \in 1 .. Len(command) + 1
    BY <1>1, AtStage DEF TInv, RunTypes
  <1>3. RunTypes'
    BY <1>1, <1>2 DEF TInv, RunTypes, Ends
  <1>4. QED
    BY <1>1, <1>3, QuietStep

LEMMA RetryFloodTypes ==
  ASSUME RunTypes, RetryFlood
  PROVE  /\ flood' \in 0 .. MaxFloodRetries /\ UNCHANGED stage
         /\ result' \in {result, "flood"}
  BY KascliAssumption DEF RunTypes, RetryFlood, Exit

LEMMA SendStages ==
  ASSUME TInv, Send
  PROVE  RunTypes' /\ Begun' /\ Spent'
  <1>1. /\ UNCHANGED <<command, setup, pin, presented>> /\ At("request")
    BY DEF Send, Fixed
  <1>2. /\ stage' \in {stage, stage + 1} /\ session' \in BOOLEAN /\ reauthed' \in BOOLEAN
        /\ flood' \in 0 .. MaxFloodRetries
        /\ result' \in {result, "session", "flood", "fault", "unclear"}
    <2>1. RunTypes /\ 0 \in 0 .. MaxFloodRetries
      BY KascliAssumption DEF TInv
    <2>2. CASE RetryFlood /\ UNCHANGED <<session, reauthed>>
      BY <2>1, <2>2, RetryFloodTypes DEF RunTypes
    <2>3. CASE ~RetryFlood
      BY <2>1, <2>3 DEF Send, RunTypes, Exit, Session
    <2>4. CASE RetryFlood /\ ~UNCHANGED <<session, reauthed>>
      BY <2>1, <2>4 DEF Send, RunTypes, Exit, Session
    <2>5. QED
      BY <2>2, <2>3, <2>4
  <1>3. stage' \in 1 .. Len(command) + 1
    BY <1>1, <1>2, AtStage DEF TInv, RunTypes
  <1>4. RunTypes'
    BY <1>1, <1>2, <1>3 DEF TInv, RunTypes, Ends
  <1>5. QED
    BY <1>1, <1>2, <1>4, QuietStep

LEMMA HandshakeStages ==
  ASSUME TInv, Handshake
  PROVE  RunTypes' /\ Begun' /\ Spent'
  <1>1. /\ UNCHANGED <<command, setup, reauthed>> /\ At("request") /\ pin' = FALSE
    BY DEF Handshake, Fixed, TInv, RunTypes, Give
  <1>2. /\ UNCHANGED stage /\ session' \in BOOLEAN
        /\ flood' \in 0 .. MaxFloodRetries
        /\ result' \in {result, "login", "flood", "pin", "unclear"}
    <2>1. RunTypes
      BY DEF TInv
    <2>2. CASE RetryFlood /\ UNCHANGED session
      BY <2>1, <2>2, RetryFloodTypes DEF RunTypes
    <2>3. CASE ~(RetryFlood /\ UNCHANGED session)
      BY <2>1, <2>3 DEF Handshake, RunTypes, Exit
    <2>4. QED
      BY <2>2, <2>3
  <1>3. RunTypes'
    BY <1>1, <1>2 DEF TInv, RunTypes, Ends
  <1>4. Begun'
    <2>1. stage \in DOMAIN command /\ command[stage] = "request" /\ stage \in Nat
      BY <1>1, AtStage DEF At, TInv
    <2>2. QED
      BY <1>1, <1>2, <2>1 DEF Begun
  <1>5. setup.given => Shown'
    <2>1. SUFFICES ASSUME setup.given PROVE Shown'
      OBVIOUS
    <2>2. /\ presented \in Seq(Lines \cup {NoPin}) /\ Given \in Lines /\ Given # Blank
          /\ pin \in BOOLEAN
      BY NoPinIsNoLine DEF TInv, PInv, Given, Blank, Line
    <2>3. CASE pin
      <3>1. Pin = Given
        BY <2>1, <2>3 DEF Pin, Asks
      <3>2. presented' = Append(presented, Given)
        BY <2>2, <3>1 DEF Handshake
      <3>3. /\ Len(presented) + 1 \in DOMAIN presented'
            /\ presented'[Len(presented) + 1] = Given
        BY <2>2, <3>2
      <3>4. QED
        BY <3>3 DEF Shown
    <2>4. CASE ~pin
      <3>1. PICK i \in DOMAIN presented : presented[i] = Given
        BY <2>1, <2>4 DEF TInv, Spent, Shown
      <3>2. presented' = presented \/ presented' = Append(presented, Pin)
        BY DEF Handshake
      <3>3. i \in DOMAIN presented' /\ presented'[i] = Given
        BY <2>2, <3>1, <3>2
      <3>4. QED
        BY <3>3 DEF Shown
    <2>5. QED
      BY <2>2, <2>3, <2>4
  <1>6. Spent'
    BY <1>1, <1>5 DEF Spent
  <1>7. QED
    BY <1>3, <1>4, <1>6

LEMMA EndStages ==
  ASSUME TInv, Succeed \/ UNCHANGED runVars
  PROVE  RunTypes' /\ Begun' /\ Spent'
  <1>1. /\ UNCHANGED <<command, setup, pin, stage, session, reauthed, flood, presented>>
        /\ result' \in {result, "ok"}
    BY DEF Succeed, Exit, Fixed, Session, runVars
  <1>2. RunTypes'
    BY <1>1 DEF TInv, RunTypes, Ends
  <1>3. QED
    BY <1>1, <1>2, QuietStep

(* Where every run is, what it has asked for and what it has shown.         *)
THEOREM RunInvariance == RunSpec => []TInv
  <1>1. TInv /\ [RunNext]_runVars => TInv'
    <2>1. SUFFICES ASSUME TInv, [RunNext]_runVars PROVE TInv'
      OBVIOUS
    <2>2. PInv'
      BY <2>1, PinsStep DEF TInv
    <2>3. RunTypes' /\ Begun' /\ Spent'
      BY <2>1, BeforeRequests, HandshakeStages, SendStages, EndStages DEF RunNext
    <2>4. QED
      BY <2>2, <2>3 DEF TInv
  <1>2. QED
    BY InitTInv, <1>1, PTL DEF RunSpec

(* Every run is at a stage of its command, retries no request more than     *)
(* maxFloodRetries times (client.go:257), and ends in one of the known ways. *)
THEOREM RunTypeCorrect == RunSpec => []KascliTypeOK
  <1>1. TInv => KascliTypeOK
    BY DEF TInv, RunTypes, KascliTypeOK
  <1>2. QED
    BY RunInvariance, <1>1, PTL

(* A run that ends for lack of a PIN has shown KAS the one it was given     *)
(* (main.go:250-263).                                                       *)
THEOREM PinsAreUsed == RunSpec => []PinNotWasted
  <1>1. TInv => PinNotWasted
    BY DEF TInv, Spent, Shown, PinNotWasted
  <1>2. QED
    BY RunInvariance, <1>1, PTL

(* Ends the user can mend before anything is sent. *)
Unready == {"usage", "file", "config", "input"}

Unsent == result \in Unready => presented = <<>>

(* Where a run still asks the user or makes its client, nothing has left. *)
LEMMA AskingIsFirst ==
  ASSUME TInv, NEW kind \in {"check", "file", "secret", "client"}, At(kind)
  PROVE  presented = <<>>
  <1>1. SUFFICES ASSUME presented # <<>> PROVE FALSE
    OBVIOUS
  <1>2. PICK i \in DOMAIN command : command[i] = "request" /\ i <= stage
    BY <1>1 DEF TInv, Begun
  <1>3. /\ stage \in DOMAIN command /\ command[stage] = kind
        /\ i \in Nat /\ stage \in Nat /\ Settled(command) /\ OneClient(command)
    BY <1>2, CommandShape DEF At, TInv, RunTypes
  <1>4. CASE kind \in {"check", "file", "secret"}
    BY <1>2, <1>3, <1>4 DEF Settled
  <1>5. CASE kind = "client"
    <2>1. PICK k \in DOMAIN command :
            \A j \in DOMAIN command :
              (command[j] = "request" => k < j) /\ (command[j] = "client" => j = k)
      BY <1>3 DEF OneClient
    <2>2. k = stage /\ k < i
      BY <1>2, <1>3, <1>5, <2>1
    <2>3. QED
      BY <1>2, <1>3, <2>2
  <1>6. QED
    BY <1>4, <1>5

LEMMA UnsentStep ==
  ASSUME TInv, Unsent, [RunNext]_runVars
  PROVE  Unsent'
  <1>1. CASE CheckFlags
    <2>1. UNCHANGED presented /\ result = "none" /\ result' \in {"none", Refusal}
      BY <1>1 DEF CheckFlags, Exit, Proceed, At
    <2>2. CASE At("check") \/ At("file")
      BY <2>1, <2>2, AskingIsFirst DEF Unsent
    <2>3. CASE ~At("check") /\ ~At("file")
      BY <2>1, <2>3 DEF Refusal, Unsent, Unready
    <2>4. QED
      BY <2>2, <2>3
  <1>2. CASE ReadSecret \/ NewClient
    <2>1. UNCHANGED presented /\ (At("secret") \/ At("client"))
      BY <1>2 DEF ReadSecret, NewClient
    <2>2. QED
      BY <2>1, AskingIsFirst DEF Unsent
  <1>3. CASE Handshake
    <2>1. result = "none" /\ result' \in {"none", "login", "flood", "pin", "unclear"}
      BY <1>3 DEF Handshake, RetryFlood, Exit, At
    <2>2. QED
      BY <2>1 DEF Unsent, Unready
  <1>4. CASE Send
    <2>1. result = "none" /\ result' \in {"none", "session", "flood", "fault", "unclear"}
      BY <1>4 DEF Send, RetryFlood, Exit, At
    <2>2. QED
      BY <2>1 DEF Unsent, Unready
  <1>5. CASE Succeed \/ UNCHANGED runVars
    BY <1>5 DEF Succeed, Exit, runVars, Unsent, Unready
  <1>6. QED
    BY <1>1, <1>2, <1>3, <1>4, <1>5 DEF RunNext

(* A run that lacks what the user has to supply ends before KAS is shown    *)
(* anything, whatever the command, and no file or secret is read afterwards *)
(* (write.go:933).                                                          *)
THEOREM ReadsComeFirst == RunSpec => []ReadsBeforeSends
  <1>1. RunInit => Unsent
    BY DEF RunInit, Unsent
  <1>2. ASSUME TInv, presented # <<>>,
               NEW j \in DOMAIN command, command[j] \in {"file", "secret"}
        PROVE  j < stage
    <2>1. PICK i \in DOMAIN command : command[i] = "request" /\ i <= stage
      BY <1>2 DEF TInv, Begun
    <2>2. j < i /\ i \in Nat /\ j \in Nat /\ stage \in Nat
      BY <1>2, <2>1, CommandShape DEF TInv, RunTypes, Settled
    <2>3. QED
      BY <2>1, <2>2
  <1>3. TInv /\ Unsent => ReadsBeforeSends
    BY <1>2 DEF ReadsBeforeSends, Unsent, Unready
  <1>4. QED
    BY RunInvariance, <1>1, UnsentStep, <1>3, PTL DEF RunSpec

-----------------------------------------------------------------------------
(* The lines of the input *)

(* The secrets that were read before a stage. *)
Asked(st) == Cardinality({i \in 1 .. st - 1 : command[i] = "secret"})

(* What is left of the input is what the command will ask for. *)
Expected ==
  \A j \in 1 .. Len(input) :
    input[j] # Blank => input[j].kind = Purpose(command, setup, Len(got) + j)

InOrder ==
  \A k \in DOMAIN command : command[k] = "client" =>
    /\ stage <= k => Len(got) = Asked(stage)
    /\ k < stage => /\ Len(got) >= Count("secret", command)
                    /\ ~setup.stored => Len(got) >= Count("secret", command) + 1

Readings == [purpose : {"secret", "password", "pin"}, line : Lines]

LineInv ==
  /\ got \in Seq(Readings)
  /\ InputsInPlace
  /\ result = "none" => Expected /\ InOrder

LEMMA AskedSecrets ==
  ASSUME command \in Seq(Kinds), NEW st \in 1 .. Len(command) + 1
  PROVE  /\ Asked(st) \in Nat /\ Asked(st) <= Count("secret", command)
         /\ Count("secret", command) \in Nat
         /\ st = 1 => Asked(st) = 0
         /\ (\A i \in 1 .. Len(command) : command[i] = "secret" => i < st)
              => Asked(st) = Count("secret", command)
  <1> DEFINE A == {i \in 1 .. st - 1 : command[i] = "secret"}
             C == {i \in DOMAIN command : command[i] = "secret"}
  <1>1. IsFiniteSet(1 .. Len(command)) /\ DOMAIN command = 1 .. Len(command) /\ Len(command) \in Nat
    BY FS_Interval
  <1>2. A \subseteq C /\ C \subseteq 1 .. Len(command)
    BY <1>1
  <1>3. IsFiniteSet(C)
    BY <1>1, <1>2, FS_Subset
  <1>4. Cardinality(A) \in Nat /\ Cardinality(C) \in Nat /\ Cardinality(A) <= Cardinality(C)
    BY <1>2, <1>3, FS_Subset, FS_CardinalityType
  <1>5. ASSUME st = 1 PROVE Cardinality(A) = 0
    <2>1. A = {}
      BY <1>5
    <2>2. QED
      BY <2>1, FS_EmptySet
  <1>6. ASSUME \A i \in 1 .. Len(command) : command[i] = "secret" => i < st PROVE A = C
    BY <1>1, <1>6
  <1>7. QED
    BY <1>4, <1>5, <1>6 DEF Asked, Count

LEMMA AskedNext ==
  ASSUME command \in Seq(Kinds), NEW st \in 1 .. Len(command)
  PROVE  /\ command[st] = "secret" => Asked(st + 1) = Asked(st) + 1
         /\ command[st] # "secret" => Asked(st + 1) = Asked(st)
  <1> DEFINE A == {i \in 1 .. st - 1 : command[i] = "secret"}
             B == {i \in 1 .. (st + 1) - 1 : command[i] = "secret"}
  <1>1. IsFiniteSet(A)
    <2>1. IsFiniteSet(1 .. st - 1) /\ A \subseteq 1 .. st - 1
      BY FS_Interval
    <2>2. QED
      BY <2>1, FS_Subset
  <1>2. st \in Nat /\ st \notin A
    OBVIOUS
  <1>3. command[st] = "secret" => B = A \cup {st}
    BY <1>2
  <1>4. command[st] # "secret" => B = A
    BY <1>2
  <1> HIDE DEF A, B
  <1>5. command[st] = "secret" => Cardinality(B) = Cardinality(A) + 1
    BY <1>1, <1>2, <1>3, FS_AddElement
  <1>6. QED
    BY <1>4, <1>5 DEF Asked, A, B

(* A line is taken for what it is. *)
LEMMA LineRead ==
  ASSUME PInv, LineInv, result = "none", UNCHANGED <<command, setup>>,
         NEW purpose \in {"secret", "password", "pin"}, Consume(purpose),
         Purpose(command, setup, Len(got) + 1) = purpose
  PROVE  /\ got' \in Seq(Readings) /\ InputsInPlace'
         /\ Readable => Expected' /\ Len(got') = Len(got) + 1
  <1>1. CASE input = <<>>
    BY <1>1 DEF Consume, LineInv, InputsInPlace, Readable
  <1>2. CASE input # <<>>
    <2>1. /\ Head(input) \in Lines /\ Head(input) = input[1] /\ 1 \in 1 .. Len(input)
          /\ Unread(input')
          /\ \A i \in 1 .. Len(input') : i + 1 \in 1 .. Len(input) /\ input'[i] = input[i + 1]
      <3>1. Unread(input) /\ input' = Tail(input)
        BY <1>2 DEF PInv, Consume
      <3>2. QED
        BY <1>2, <3>1, TailIsUnread
    <2> DEFINE x == [purpose |-> purpose, line |-> Head(input)]
    <2>2. x \in Readings /\ got' = Append(got, x) /\ got \in Seq(Readings)
      BY <1>2, <2>1 DEF Consume, LineInv, Readings
    <2>3. x.line # Blank => x.line.kind = x.purpose
      BY <2>1 DEF LineInv, Expected
    <2> HIDE DEF x
    <2>4. /\ got' \in Seq(Readings) /\ Len(got') = Len(got) + 1 /\ Len(got) \in Nat
          /\ \A i \in 1 .. Len(got) + 1 : got'[i] = IF i <= Len(got) THEN got[i] ELSE x
      BY <2>2
    <2>5. InputsInPlace'
      <3>1. SUFFICES ASSUME NEW i \in 1 .. Len(got) + 1, got'[i].line # Blank
                     PROVE  got'[i].line.kind = got'[i].purpose
        BY <2>4 DEF InputsInPlace, Blank, Line
      <3>2. CASE i <= Len(got)
        BY <2>4, <3>1, <3>2 DEF LineInv, InputsInPlace
      <3>3. CASE ~(i <= Len(got))
        BY <2>3, <2>4, <3>1, <3>3
      <3>4. QED
        BY <3>2, <3>3
    <2>6. Expected'
      <3>1. SUFFICES ASSUME NEW j \in 1 .. Len(input'), input'[j] # Blank
                     PROVE  input'[j].kind = Purpose(command, setup, Len(got') + j)
        BY DEF Expected, Purpose, Count, Blank, Line
      <3>2. input'[j] = input[j + 1] /\ j + 1 \in 1 .. Len(input)
        BY <2>1
      <3>3. input'[j].kind = Purpose(command, setup, Len(got) + (j + 1))
        BY <3>1, <3>2 DEF LineInv, Expected
      <3>4. Len(got) + (j + 1) = Len(got') + j
        BY <2>4
      <3>5. QED
        BY <3>3, <3>4
    <2>7. QED
      BY <2>4, <2>5, <2>6
  <1>3. QED
    BY <1>1, <1>2

(* Nothing is read. *)
LEMMA NothingRead ==
  ASSUME LineInv, UNCHANGED <<command, setup, input, got>>
  PROVE  got' \in Seq(Readings) /\ InputsInPlace' /\ (Expected => Expected')
  BY DEF LineInv, InputsInPlace, Expected, Purpose, Count

(* Where the client is made: all secrets before it, all requests after.     *)
LEMMA ClientStage ==
  ASSUME RunTypes
  PROVE  \E k \in 1 .. Len(command) :
           /\ command[k] = "client"
           /\ \A i \in 1 .. Len(command) :
                /\ command[i] = "secret" => i < k
                /\ command[i] = "request" => k < i
                /\ command[i] = "client" => i = k
  BY CommandShape DEF RunTypes, OneClient

(* The count goes on with the stage. *)
LEMMA InOrderAt ==
  ASSUME RunTypes, NEW k \in 1 .. Len(command), command[k] = "client",
         \A i \in 1 .. Len(command) : command[i] = "client" => i = k
  PROVE  InOrder <=>
           /\ stage <= k => Len(got) = Asked(stage)
           /\ k < stage => /\ Len(got) >= Count("secret", command)
                           /\ ~setup.stored => Len(got) >= Count("secret", command) + 1
  BY CommandShape DEF RunTypes, InOrder

LEMMA InOrderNext ==
  ASSUME TInv, RunTypes', UNCHANGED <<command, setup>>,
         NEW k \in 1 .. Len(command), command[k] = "client",
         \A i \in 1 .. Len(command) : command[i] = "client" => i = k,
         stage' <= k => Len(got') = Asked(stage'),
         k < stage' => /\ Len(got') >= Count("secret", command)
                       /\ ~setup.stored => Len(got') >= Count("secret", command) + 1
  PROVE  InOrder'
  BY CommandShape DEF TInv, RunTypes, InOrder, Asked, Count

LEMMA CheckReads ==
  ASSUME TInv, LineInv, RunTypes', CheckFlags
  PROVE  LineInv'
  <1>1. /\ UNCHANGED <<command, setup, input, got>> /\ result = "none"
        /\ stage \in 1 .. Len(command) /\ command[stage] \in {"check", "file", "valid"}
        /\ result' # "none" \/ stage' = stage + 1
    BY AtStage DEF TInv, CheckFlags, Refusal, At, Fixed, Exit, Proceed
  <1>2. PICK k \in 1 .. Len(command) :
          /\ command[k] = "client"
          /\ \A i \in 1 .. Len(command) :
               /\ command[i] = "secret" => i < k
               /\ command[i] = "request" => k < i
               /\ command[i] = "client" => i = k
    BY ClientStage DEF TInv
  <1>3. ASSUME result' = "none" PROVE InOrder'
    <2>1. stage' = stage + 1 /\ stage # k /\ Len(got') = Len(got)
      BY <1>1, <1>2, <1>3
    <2>2. /\ stage <= k => Len(got) = Asked(stage)
          /\ k < stage => /\ Len(got) >= Count("secret", command)
                          /\ ~setup.stored => Len(got) >= Count("secret", command) + 1
      BY <1>1, <1>2 DEF LineInv, InOrder, TInv, RunTypes
    <2>3. Asked(stage + 1) = Asked(stage)
      BY <1>1, AskedNext, CommandShape DEF TInv, RunTypes
    <2>4. InOrder'
      BY <1>1, <1>2, <2>1, <2>2, <2>3, InOrderNext
    <2>5. QED
      BY <2>4
  <1>4. QED
    BY <1>1, <1>3, NothingRead DEF LineInv

LEMMA SecretReads ==
  ASSUME TInv, LineInv, RunTypes', ReadSecret
  PROVE  LineInv'
  <1>1. /\ UNCHANGED <<command, setup>> /\ result = "none" /\ Consume("secret")
        /\ stage \in 1 .. Len(command) /\ command[stage] = "secret"
        /\ \/ ~Readable /\ result' = "input"
           \/ Readable /\ stage' = stage + 1 /\ result' = "none"
    BY AtStage DEF TInv, ReadSecret, At, Fixed, Exit, Proceed
  <1>2. PICK k \in 1 .. Len(command) :
          /\ command[k] = "client"
          /\ \A i \in 1 .. Len(command) :
               /\ command[i] = "secret" => i < k
               /\ command[i] = "request" => k < i
               /\ command[i] = "client" => i = k
    BY ClientStage DEF TInv
  <1>3. stage < k /\ Len(got) = Asked(stage)
    BY <1>1, <1>2 DEF LineInv, InOrder, TInv, RunTypes
  <1>4. /\ Asked(stage + 1) = Asked(stage) + 1 /\ Asked(stage + 1) <= Count("secret", command)
        /\ Count("secret", command) \in Nat
    BY <1>1, AskedNext, AskedSecrets, CommandShape DEF TInv, RunTypes
  <1>5. Purpose(command, setup, Len(got) + 1) = "secret"
    BY <1>3, <1>4 DEF Purpose
  <1>6. /\ got' \in Seq(Readings) /\ InputsInPlace'
        /\ Readable => Expected' /\ Len(got') = Len(got) + 1
    BY <1>1, <1>5, LineRead DEF TInv
  <1>7. ASSUME Readable PROVE InOrder'
    <2>1. stage' <= k /\ ~(k < stage') /\ Len(got') = Asked(stage')
      BY <1>1, <1>3, <1>4, <1>6, <1>7
    <2>2. \A i \in 1 .. Len(command) : command[i] = "client" => i = k
      BY <1>2
    <2>3. stage' <= k => Len(got') = Asked(stage')
      BY <2>1
    <2>4. k < stage' => /\ Len(got') >= Count("secret", command)
                        /\ ~setup.stored => Len(got') >= Count("secret", command) + 1
      BY <2>1
    <2>5. InOrder'
      BY <1>1, <1>2, <2>2, <2>3, <2>4, InOrderNext
    <2>6. QED
      BY <2>5
  <1>8. QED
    BY <1>1, <1>6, <1>7 DEF LineInv

LEMMA PasswordReads ==
  ASSUME TInv, LineInv, RunTypes', NewClient
  PROVE  LineInv'
  <1>1. /\ UNCHANGED <<command, setup>> /\ result = "none"
        /\ stage \in 1 .. Len(command) /\ command[stage] = "client"
    BY AtStage DEF TInv, NewClient, At, Fixed
  <1>2. PICK k \in 1 .. Len(command) :
          /\ command[k] = "client"
          /\ \A i \in 1 .. Len(command) :
               /\ command[i] = "secret" => i < k
               /\ command[i] = "request" => k < i
               /\ command[i] = "client" => i = k
    BY ClientStage DEF TInv
  <1>3. /\ stage = k /\ Len(got) = Count("secret", command)
        /\ Count("secret", command) \in Nat
    <2>1. stage = k
      BY <1>1, <1>2
    <2>2. Len(got) = Asked(stage)
      BY <1>1, <1>2, <2>1 DEF LineInv, InOrder, TInv, RunTypes
    <2>3. QED
      BY <1>2, <2>1, <2>2, AskedSecrets, CommandShape DEF TInv, RunTypes
  <1>4. CASE UNCHANGED <<input, got>> /\ result' = "config"
    BY <1>1, <1>4, NothingRead DEF LineInv
  <1>5. CASE setup.stored /\ stage' = stage + 1 /\ UNCHANGED <<input, got, result>>
    <2>1. ~(stage' <= k) /\ Len(got') >= Count("secret", command)
      BY <1>3, <1>5
    <2>2. stage' <= k => Len(got') = Asked(stage')
      BY <2>1
    <2>3. k < stage' => /\ Len(got') >= Count("secret", command)
                        /\ ~setup.stored => Len(got') >= Count("secret", command) + 1
      <3>1. setup.stored
        BY <1>5
      <3>2. Len(got') >= Count("secret", command)
        BY <2>1
      <3>3. QED
        BY <3>1, <3>2, Zenon
    <2>4. InOrder'
      BY <1>1, <1>2, <2>2, <2>3, InOrderNext
    <2>5. QED
      BY <1>1, <1>5, <2>4, NothingRead DEF LineInv
  <1>6. CASE /\ ~setup.stored /\ Consume("password")
             /\ \/ ~Readable /\ result' = "input"
                \/ Readable /\ stage' = stage + 1 /\ UNCHANGED result
    <2>1. Purpose(command, setup, Len(got) + 1) = "password"
      BY <1>3, <1>6 DEF Purpose
    <2>2. /\ got' \in Seq(Readings) /\ InputsInPlace'
          /\ Readable => Expected' /\ Len(got') = Len(got) + 1
      BY <1>1, <1>6, <2>1, LineRead DEF TInv
    <2>3. ASSUME Readable PROVE InOrder'
      <3>1. ~(stage' <= k) /\ Len(got') >= Count("secret", command) + 1
        BY <1>3, <1>6, <2>2, <2>3
      <3>2. Len(got') >= Count("secret", command)
        BY <1>3, <2>2, <2>3
      <3>3. InOrder'
        BY <1>1, <1>2, <3>1, <3>2, InOrderNext
      <3>4. QED
        BY <3>3
    <2>4. QED
      BY <1>1, <1>6, <2>2, <2>3 DEF LineInv
  <1>7. QED
    BY <1>4, <1>5, <1>6 DEF NewClient, Exit, Proceed

LEMMA PinReads ==
  ASSUME TInv, LineInv, RunTypes', Handshake
  PROVE  LineInv'
  <1>1. /\ UNCHANGED <<command, setup, stage>> /\ result = "none"
        /\ stage \in 1 .. Len(command) /\ command[stage] = "request"
    BY AtStage DEF TInv, Handshake, At, Fixed, Exit, RetryFlood
  <1>2. PICK k \in 1 .. Len(command) :
          /\ command[k] = "client"
          /\ \A i \in 1 .. Len(command) :
               /\ command[i] = "secret" => i < k
               /\ command[i] = "request" => k < i
               /\ command[i] = "client" => i = k
    BY ClientStage DEF TInv
  <1>3. /\ k < stage /\ Count("secret", command) \in Nat /\ Len(got) \in Nat
        /\ Len(got) >= Count("secret", command)
        /\ ~setup.stored => Len(got) >= Count("secret", command) + 1
    <2>1. k < stage
      BY <1>1, <1>2
    <2>2. Count("secret", command) \in Nat
      BY CountIsNat, CommandShape DEF TInv, RunTypes
    <2>3. QED
      BY <1>1, <1>2, <2>1, <2>2 DEF LineInv, InOrder, TInv, RunTypes
  <1>4. ASSUME Len(got') >= Len(got), Len(got') \in Nat PROVE InOrder'
    <2>1. ~(stage' <= k) /\ Len(got') >= Count("secret", command)
      BY <1>1, <1>3, <1>4
    <2>2. ~setup.stored => Len(got') >= Count("secret", command) + 1
      BY <1>3, <1>4
    <2>3. InOrder'
      BY <1>1, <1>2, <2>1, <2>2, InOrderNext
    <2>4. QED
      BY <2>3
  <1>5. CASE UNCHANGED <<input, got>>
    <2>1. InOrder'
      BY <1>3, <1>4, <1>5
    <2>2. QED
      BY <1>1, <1>5, <2>1, NothingRead DEF LineInv
  <1>6. CASE Consume("pin") /\ (Readable \/ result' = "pin")
    <2>1. Purpose(command, setup, Len(got) + 1) = "pin"
      BY <1>3 DEF Purpose
    <2>2. /\ got' \in Seq(Readings) /\ InputsInPlace'
          /\ Readable => Expected' /\ Len(got') = Len(got) + 1
      BY <1>1, <1>6, <2>1, LineRead DEF TInv
    <2>3. ASSUME Readable PROVE InOrder'
      BY <1>3, <1>4, <2>2, <2>3
    <2>4. QED
      BY <1>1, <1>6, <2>2, <2>3 DEF LineInv
  <1>7. Consume("pin") /\ ~Readable => UNCHANGED <<input, got>> \/ result' = "pin"
    <2>1. SUFFICES ASSUME Consume("pin"), ~Readable, ~UNCHANGED <<input, got>>
                   PROVE  result' = "pin"
      OBVIOUS
    <2>2. Asks /\ ~pin
      BY <2>1 DEF Handshake
    <2>3. Pin = Blank
      BY <2>1, <2>2 DEF Pin
    <2>4. QED
      BY <2>3 DEF Handshake, Exit
  <1>8. QED
    BY <1>5, <1>6, <1>7 DEF Handshake

LEMMA OthersRead ==
  ASSUME TInv, LineInv, RunTypes', Send \/ Succeed \/ UNCHANGED runVars
  PROVE  LineInv'
  <1>1. /\ UNCHANGED <<command, setup, input, got>>
        /\ \/ stage' = stage /\ (result' = "none" => result = "none")
           \/ stage' = stage + 1 /\ At("request") /\ result = "none"
    BY DEF Send, Succeed, runVars, Fixed, At, Exit, RetryFlood
  <1>2. PICK k \in 1 .. Len(command) :
          /\ command[k] = "client"
          /\ \A i \in 1 .. Len(command) :
               /\ command[i] = "secret" => i < k
               /\ command[i] = "request" => k < i
               /\ command[i] = "client" => i = k
    BY ClientStage DEF TInv
  <1>3. ASSUME result' = "none" PROVE InOrder'
    <2>1. /\ stage <= k => Len(got) = Asked(stage)
          /\ k < stage => /\ Len(got) >= Count("secret", command)
                          /\ ~setup.stored => Len(got) >= Count("secret", command) + 1
      BY <1>1, <1>2, <1>3 DEF LineInv, InOrder, TInv, RunTypes
    <2>2. stage' = stage \/ (k < stage /\ k < stage')
      BY <1>1, <1>2, AtStage DEF At, TInv
    <2>3. /\ stage' <= k => Len(got') = Asked(stage')
          /\ k < stage' => /\ Len(got') >= Count("secret", command)
                           /\ ~setup.stored => Len(got') >= Count("secret", command) + 1
      <3>1. CASE stage' = stage
        BY <1>1, <2>1, <3>1
      <3>2. CASE k < stage /\ k < stage'
        <4>1. ~(stage' <= k)
          BY <3>2 DEF RunTypes
        <4>2. QED
          BY <1>1, <2>1, <3>2, <4>1
      <3>3. QED
        BY <2>2, <3>1, <3>2
    <2>4. InOrder'
      BY <1>1, <1>2, <2>3, InOrderNext
    <2>5. QED
      BY <2>4
  <1>4. QED
    BY <1>1, <1>3, NothingRead DEF LineInv

LEMMA InitLines == RunInit => LineInv
  <1> SUFFICES ASSUME RunInit PROVE LineInv
    OBVIOUS
  <1>1. /\ command \in Offered /\ setup \in Setups /\ input \in Inputs(command, setup)
        /\ stage = 1 /\ got = <<>>
    BY DEF RunInit
  <1>2. command \in Seq(Kinds) /\ DOMAIN command = 1 .. Len(command) /\ Len(command) \in Nat
    BY <1>1, CommandShape
  <1>3. got \in Seq(Readings) /\ InputsInPlace
    BY <1>1 DEF InputsInPlace
  <1>4. Expected
    <2>1. ASSUME NEW j \in 1 .. Len(input), input[j] # Blank
          PROVE  input[j].kind = Purpose(command, setup, Len(got) + j)
      <3>1. input[j].kind = Purpose(command, setup, j)
        BY <1>1, <1>2, <2>1, InputsAreUnread
      <3>2. Len(got) + j = j
        BY <1>1
      <3>3. QED
        BY <3>1, <3>2
    <2>2. QED
      BY <2>1 DEF Expected
  <1>5. InOrder
    <2>1. Asked(1) = 0 /\ 1 \in 1 .. Len(command) + 1
      BY <1>2, AskedSecrets
    <2>2. Len(got) = 0
      BY <1>1
    <2>3. QED
      BY <1>1, <1>2, <2>1, <2>2 DEF InOrder
  <1>6. QED
    BY <1>3, <1>4, <1>5 DEF LineInv

(* Standard input is read in the order it is documented in: the new         *)
(* secrets, the password of the account, then PINs (README.md:490-507,      *)
(* auth_test.go:76). For every command, however often it logs in, a line is *)
(* taken for what it was written for.                                       *)
THEOREM LinesInPlace == RunSpec => []InputsInPlace
  <1>1. ASSUME TInv, TInv', LineInv, [RunNext]_runVars PROVE LineInv'
    <2>1. RunTypes'
      BY <1>1 DEF TInv
    <2>2. QED
      BY <1>1, <2>1, CheckReads, SecretReads, PasswordReads, PinReads, OthersRead DEF RunNext
  <1>2. LineInv => InputsInPlace
    BY DEF LineInv
  <1>3. QED
    BY RunInvariance, InitLines, <1>1, <1>2, PTL DEF RunSpec

-----------------------------------------------------------------------------
(* The end of a run *)

(* A stage is worth more than all its retries. *)
LEMMA WorthOfStages ==
  ASSUME NEW m \in Nat, NEW n \in Nat
  PROVE  (m + 4) * n \in Nat /\ (n > 0 => (m + 4) * n = (m + 4) * (n - 1) + m + 4)
  OBVIOUS

LEMMA RetriesBounded ==
  ASSUME RunTypes
  PROVE  RetriesLeft \in 0 .. MaxFloodRetries + 3
  BY KascliAssumption DEF RunTypes, RetriesLeft

LEMMA SumOfRetries ==
  ASSUME NEW m \in Nat, NEW f \in 0 .. m, NEW r \in BOOLEAN, NEW l \in BOOLEAN
  PROVE  2 * (IF r THEN 0 ELSE 1) + (IF l THEN 0 ELSE 1) + m - f \in 0 .. m + 3
  OBVIOUS

(* A retry less, and a stage less, leave less. *)
LEMMA LessLeft ==
  ASSUME NEW m \in Nat, NEW w \in Nat, NEW a \in 0 .. m + 3, NEW b \in 0 .. m + 3
  PROVE  /\ b < a => w + b + 1 \in 0 .. (w + a + 1) - 1
         /\ w + b + 1 \in 0 .. (w + m + 4 + a + 1) - 1
         /\ 0 \in 0 .. (w + a + 1) - 1
  OBVIOUS

(* A step ends the run, uses up a retry, or goes on to the next stage.      *)
LEMMA StepUses ==
  ASSUME RunTypes, RunNext
  PROVE  /\ result = "none" /\ UNCHANGED command
         /\ \/ result' # "none"
            \/ UNCHANGED stage /\ RetriesLeft' < RetriesLeft
            \/ stage' = stage + 1 /\ stage \in 1 .. Len(command)
  <1>1. flood \in Nat /\ MaxFloodRetries \in Nat
    BY KascliAssumption DEF RunTypes
  <1>2. CASE CheckFlags \/ ReadSecret \/ NewClient
    <2>1. /\ \E kind : At(kind)
          /\ UNCHANGED command
          /\ stage' = stage + 1 \/ result' # "none"
      BY <1>2 DEF CheckFlags, Refusal, ReadSecret, NewClient, Exit, Proceed, Fixed
    <2>2. QED
      BY <2>1, AtStage DEF At
  <1>3. CASE Handshake
    <2>1. result = "none" /\ UNCHANGED <<command, reauthed>> /\ ~session
      BY <1>3 DEF Handshake, At, Fixed
    <2>2. \/ result' # "none"
          \/ session' = TRUE /\ UNCHANGED <<stage, flood>>
          \/ flood' = flood + 1 /\ UNCHANGED <<stage, session>>
      BY <1>3 DEF Handshake, Exit, RetryFlood
    <2>3. QED
      BY <1>1, <2>1, <2>2 DEF RetriesLeft
  <1>4. CASE Send
    <2>1. At("request") /\ result = "none" /\ UNCHANGED command /\ session
      BY <1>4 DEF Send, At, Fixed
    <2>2. \/ result' # "none"
          \/ stage' = stage + 1
          \/ ~reauthed /\ reauthed' = TRUE /\ session' = FALSE /\ UNCHANGED <<stage, flood>>
          \/ flood' = flood + 1 /\ UNCHANGED <<stage, session, reauthed>>
      BY <1>4 DEF Send, Exit, RetryFlood
    <2>3. CASE stage' = stage + 1
      BY <2>1, <2>3, AtStage
    <2>4. CASE ~reauthed /\ reauthed' = TRUE /\ session' = FALSE /\ UNCHANGED <<stage, flood>>
      <3>1. RetriesLeft = 2 + MaxFloodRetries - flood /\ RetriesLeft' = 1 + MaxFloodRetries - flood
        BY <1>1, <2>1, <2>4 DEF RetriesLeft
      <3>2. QED
        BY <1>1, <2>1, <2>4, <3>1
    <2>5. CASE flood' = flood + 1 /\ UNCHANGED <<stage, session, reauthed>>
      BY <1>1, <2>1, <2>5 DEF RetriesLeft
    <2>6. QED
      BY <2>1, <2>2, <2>3, <2>4, <2>5
  <1>5. CASE Succeed
    BY <1>5 DEF Succeed, Exit, Fixed
  <1>6. QED
    BY <1>2, <1>3, <1>4, <1>5 DEF RunNext

(* Whatever KAS answers and however often it ends the session or asks for   *)
(* patience, a run makes no more steps than its command, its retries and    *)
(* its bound on flood delays allow (client.go:257-278).                     *)
THEOREM RunsWearOut == RunSpec => RunWearsOut
  <1>1. ASSUME RunTypes, RunTypes', RunNext
        PROVE  StepsLeft' \in 0 .. StepsLeft - 1
    <2> DEFINE n == Len(command) + 1 - stage
    <2>1. n \in Nat /\ Len(command) \in Nat /\ stage \in Nat
      BY <1>1, CommandShape DEF RunTypes
    <2>2. MaxFloodRetries \in Nat
      BY KascliAssumption
    <2>3. (MaxFloodRetries + 4) * n \in Nat
      BY <2>1, <2>2, WorthOfStages
    <2>4. RetriesLeft \in 0 .. MaxFloodRetries + 3
      BY <1>1, RetriesBounded
    <2>5. RetriesLeft' \in 0 .. MaxFloodRetries + 3
      <3>1. flood' \in 0 .. MaxFloodRetries /\ session' \in BOOLEAN /\ reauthed' \in BOOLEAN
        BY <1>1 DEF RunTypes
      <3>2. RetriesLeft' = 2 * (IF reauthed' THEN 0 ELSE 1) + (IF session' THEN 0 ELSE 1)
                             + MaxFloodRetries - flood'
        BY DEF RetriesLeft
      <3>3. QED
        BY <2>2, <3>1, <3>2, SumOfRetries
    <2>6. result = "none" /\ StepsLeft = (MaxFloodRetries + 4) * n + RetriesLeft + 1
      BY <1>1, StepUses DEF StepsLeft
    <2>7. CASE result' # "none"
      BY <2>2, <2>3, <2>4, <2>6, <2>7, LessLeft DEF StepsLeft
    <2>8. CASE result' = "none" /\ UNCHANGED <<command, stage>> /\ RetriesLeft' < RetriesLeft
      <3>1. StepsLeft' = (MaxFloodRetries + 4) * n + RetriesLeft' + 1
        BY <2>8 DEF StepsLeft
      <3> DEFINE w == (MaxFloodRetries + 4) * n
      <3>2. w \in Nat /\ StepsLeft = w + RetriesLeft + 1 /\ StepsLeft' = w + RetriesLeft' + 1
        BY <2>3, <2>6, <3>1
      <3> HIDE DEF w
      <3>3. w + RetriesLeft' + 1 \in 0 .. (w + RetriesLeft + 1) - 1
        BY <2>2, <2>4, <2>5, <2>8, <3>2, LessLeft
      <3>4. QED
        BY <3>2, <3>3
    <2>9. CASE result' = "none" /\ UNCHANGED command /\ stage' = stage + 1 /\ stage \in 1 .. Len(command)
      <3>1. n > 0 /\ Len(command) + 1 - stage' = n - 1
        BY <2>1, <2>9
      <3>2. (MaxFloodRetries + 4) * n = (MaxFloodRetries + 4) * (n - 1) + MaxFloodRetries + 4
        BY <2>1, <2>2, <3>1, WorthOfStages
      <3>3. (MaxFloodRetries + 4) * (n - 1) \in Nat
        BY <2>1, <2>2, <3>1, WorthOfStages
      <3>4. StepsLeft' = (MaxFloodRetries + 4) * (n - 1) + RetriesLeft' + 1
        BY <2>9, <3>1 DEF StepsLeft
      <3> DEFINE w == (MaxFloodRetries + 4) * (n - 1)
      <3>5. /\ w \in Nat /\ StepsLeft = w + MaxFloodRetries + 4 + RetriesLeft + 1
            /\ StepsLeft' = w + RetriesLeft' + 1
        BY <2>6, <3>2, <3>3, <3>4
      <3> HIDE DEF w
      <3>6. w + RetriesLeft' + 1 \in 0 .. (w + MaxFloodRetries + 4 + RetriesLeft + 1) - 1
        BY <2>2, <2>4, <2>5, <3>5, LessLeft
      <3>7. QED
        BY <3>5, <3>6
    <2>10. QED
      BY <1>1, <2>7, <2>8, <2>9, StepUses
  <1>2. TInv => RunTypes
    BY DEF TInv
  <1>3. QED
    BY RunInvariance, <1>1, <1>2, PTL DEF RunSpec, RunWearsOut
=============================================================================
