# kasapi, verified

`kasapi` is a Go client for the KAS API of a hosting provider, with a command
line tool, `kascli`. This directory holds TLA+ models of its parts that are
hard to test, the TLC runs that check them, and proofs, checked by TLAPS, that
the results hold for every instance.

## The system

| part | state | operations | models |
|---|---|---|---|
| Client core (`client.go`, `auth.go`, `flood.go`) | the turn `sem`, session token and `tokenExp`, `notBefore`, the password; per call the retry counters | `Exec`, `Logout`, `setPassword` (from `Accounts.UpdateOwnPassword`) | `KasProtocol`, `KasClient`, `KasSystem` |
| KAS, and its fake `kasapitest` | password, sessions and their lifetime, flood window, effects of actions | `KasAuth`, `KasApi` | `KasServer` |
| SOAP transport and decoder (`soap.go`, `convert.go`) | the open elements while a body is read | `soapCall`, `parseXMLTree`, `toValue`, `asString`, `asFloat` | `SoapReader`, `SoapCall`, `SoapUse`; failures of the transport in `KasClient` |
| Fault classes and parameters (`params.go`) | none | `list`, `getOne`, `update`, `remove`; `listItems`, `createdID` | `Services`; the last two in `SoapUse` |
| Services (`account.go`, `dns.go`, `mail.go`, `domain.go`, `subdomain.go`, `host.go`, `tls.go`, `ftp.go`, `database.go`, `cronjob.go`, `ddns.go`, `samba.go`, `mailinglist.go`, `directoryprotection.go`, `statistics.go`) | none of their own; objects at KAS | List, Get, Create, Update, Delete | `Resources`, `Services` |
| Config file (`internal/kasconfig`, `cmd/kascli/config.go`) | one file per user, a temporary file per save | Load, Save, Get, Set, Delete; `config use-context`, `set-context`, `delete-context` and the readers | `ConfigStore`, `ConfigFile` |
| `kascli` (`cmd/kascli`) | standard input, the PIN that was given | get, create, update, delete, exec | `Commands`, `KascliRun`; the effects in `Services`, redaction in `SoapUse` |

A service validates its input, builds parameters and calls `Client.Exec`.
`Exec` takes the turn, logs in if there is no usable session, waits for the
flood window, posts one SOAP request and decodes the answer; on a fault it may
go round again. Goroutines share one `Client` and meet at `sem`. The client
and KAS share nothing but the wire: KAS counts sessions and windows on its
own clock, and a request may reach it after its caller has given up. Runs of
`kascli` share the config file and no lock. One run of `kascli` checks its
flags, reads files and new secrets, makes a client from context, environment
and perhaps a prompt, and sends its requests; any of them may log in, and a
login may ask for a PIN. Secrets, password and PINs come from one stream.

### What is hard, and what must hold

* Retries against lost answers, timeouts and cancellation: an action is
  carried out at most once, and what a call returns is true.
* Several goroutines, one turn: exclusive, never given back by a call that
  does not have it, free again in the end.
* Two clocks: flood windows and session lifetimes are predicted by the
  client and decided by KAS.
* A password that changes at KAS first and in the client later.
* A file that several runs load, change and save; runs that are killed
  between two system calls.
* Services: operations made of several requests, with other clients in
  between and failures after the first; objects that are read, changed and
  written back without a lock; an id that has to be looked up after the
  object was created; faults that must not be mistaken for "not there".
* Answers whose shapes look alike: a map, a struct, a list with one entry and
  the echo of the request; bodies that end early; secrets anywhere in them.
* One stream of lines for several purposes, PINs that are good for one login,
  retries and renewed sessions that need another one.

`PROJECT.json` lists each hazard with its line and the properties that watch it.

## The modules

### KasProtocol, KasServer, KasClient, KasSystem

`KasProtocol` has what both sides see: requests, answers, what each call asks
for. `KasServer` is KAS, `KasClient` is the client, `KasSystem` composes them
with the passing of time, and states the properties. `MCKas` instantiates it.

| code | model |
|---|---|
| `c.sem` | `sem`: the call that has the turn |
| `c.token`, `c.cfg.Password` | `token`, `password` |
| `c.tokenExp`, `c.notBefore` | countdowns `trust`, `backoff` |
| `retries` of one `Exec` | `reauthed[c]`, `flood[c]` |
| where a goroutine is | `pc[c]`, between two points at which it waits or another goroutine can see what it did |
| context | `ctxDone[c]` |
| an HTTP request on its way | `request[c]`; `open` is FALSE once the caller has given it up |
| an HTTP answer on its way | `answer[c]` |
| `http.Client.Timeout` | `waited`, which no tick takes over `HttpTimeout` |

`Acquire`, `GiveUp` are the two branches of the select in `lock`: Go picks
either when both are ready, and so does the model. `EnsureSession` is
`ensureSessionLocked` up to its flood wait; `SendLogin`, `SendAction` leave
the wait and send; `AbortWindow` is the context ending in it. `RecvOk`,
`RecvOdd`, `RecvFault`, `RecvLogin`, `RecvLoginFault` are the answers,
`Break` every failure of the transport, after which KAS may or may not serve
the request. `Settle` is the loop of `Exec` with `retries.again`; `Logout`
does not loop. `RecvOk` of `UpdateOwnPassword` gives the turn back and
`StorePassword` takes it again: two turns, as in the code.

A call is one goroutine that makes one call; there are as many as `Calls`. A
password is named by the call that introduces it, so passwords differ and
`nothing_to_do` cannot be the answer to a change. The kinds of error are kept
apart as far as a property needs it: `session_token_invalid` behaves as
`session_expired` and is left out, an ended context is `"cancelled"` before a
request was sent and `"transport"` after. The age of a one-time PIN, the
content of parameters and what the HTTP layer does inside one request are
left out. `Trouble` lists what may go wrong; each run allows a part (`Env`).

`RemoteCall` is the abstract specification: a call is open, then ok, refused
or unclear; ok means carried out (or gone, for a logout), refused means never
carried out, and nothing is carried out twice.

`LogoutEnds` relates what Logout reports to what KAS knows: success for an
answer of KAS - carried out, or a code that says there is no such session -
means that the session is over; it is an action property, as the token is
forgotten in the same step.

### ConfigStore and ConfigFile

`ConfigFile` has one step for each system call of `Load` and `Save`, for any
number of runs; `Kill` may come between any two, `SaveError` in place of any
call of `Save`. A run goes on after its rename: `Report` is the rest of it, the
deferred `Remove` and what the command prints, and a run that is killed before
it has stored its change all the same. A config is a function from names to contexts, which stands
for the list sorted by name that `Set` and `Load` keep; duplicate names a user
writes by hand are left out. A context is a function from fields to values,
so that all flags of set-context are treated alike; `Required` is the login.
What a run has in memory is dropped when it ends. `ConfigStore` is the
promise: each command takes effect once, as a whole, or not at all, and changes
only what it names. One that reports success has taken effect, one that reports
an error has not, and one that is killed may have or not.

### Resources and Services

The services are alike: `Get` asks KAS for one object, `Create` adds one,
`Update` and `Delete` name one by its id, and `getOne`, `update` and `remove`
of `params.go` class the faults. What differs is a table, `Resources`: for
each of the 15 resource types the settings of an object, how a caller learns
the id of a new one, which requests "kascli update" sends for which flags and
whether it reads the object first, and which settings are checked, left out
when empty, replaced by a default when empty, or never reported by KAS.

`Services` is one machine for all of them: several clients, each with one
command, and the objects at KAS. A request is one step; that several requests
of one client do not overlap and none is repeated is what `RemoteCall`
promises. Between two requests of a command other clients can do anything.

| code | model |
|---|---|
| a run of kascli, or a goroutine that calls a service | `command[p]`, `pc[p]`, `step[p]` |
| the object a command has read | `held[p]` |
| the error or success of the command | `result[p]`: `"notfound"` is `ErrNotFound`, `"fault"` an `*APIError`, `"unclear"` a failed transport, `"invalid"` an error found before sending, `"created"` an error that says the object was created |
| objects at KAS, and ids it has given away | `objects`, `used` |
| a request whose answer was lost | `late[p]`, carried out at any later time or never |

`Read` is `Get`; `Write` is one request of an update with its input checks;
`Add` and `Lookup` are `Create`; `Remove` is `Delete`. `Advance` is
`runSteps`. `made`, `effects`, `absent` and `touched` only record what
happened. That the faults KAS reports are true, that an update changes what it
is sent and nothing else, that ids are not used again and that no two
mailboxes share an address are assumptions about KAS the code relies on.
That KAS names every missing object with a code of `notFoundCodes` is
generous: where it does not, a command gets a plain fault, as for any other.
A setting is set to a value, the empty value or one the service refuses;
checks that relate two settings are refused values as well. `Steps` are the
requests of an update by their place in the plan, `Advance` goes to the next
one. An update of the filters to nothing is the request of `DeleteFilters`,
whose faults `remove` classes (`Resets`, `ResultOf`).

### SoapReader

`parseXMLTree`, one token a step: `StartElement`, `EndElement` and `CharData`
are its cases, `EndOfBody` its end; `verdict` is what it returns, a root or an
error. The decoder of Go is strict and is part of it: a tag that closes
another element, or one that is open at the end, is an error. A node is the
place of its start tag in the body and 0 the root, and `owner` has for each
token that is past the node it went into: the children and the text of a node
are the tokens it owns, in their order. `Damage` loses the rest of the body or
one tag of it; what is lost has no node (`Gone`).

A body is a document (`IsDocument`): it closes what it opens (`Depth`), has one
element that contains all others (`Rooted`), and an end tag has the name of the
element it is in (`Nested`). All three count tags in the document and know
nothing of a stack; so does `ReadAsWritten`, which says that a document that
arrives whole is no error and each token of it in the innermost element around
it (`Surrounds`).

### SoapCall and SoapUse

`SoapCall` is one answer on its way from KAS to a caller. `Read` is a step of
`SoapReader`, `Decode` the rest of `soapCall`, and `Exec` and `Login` take out
of the value what they need. `SoapUse` adds the two ends of the way. KAS writes
a value in one of the notations the decoder accepts (`Written`), in an envelope
with the echo of the request, indented or not. A caller uses the result in one
of five ways: as a list (`listItems`), as statistics (`entriesOf`), as an id
(`createdID`), as settings (`AccountService.Settings`) or for printing
(`redactSecrets`). A use changes nothing of `SoapCall` and another step is one
of `SoapCall`: what is proved of `SoapSpec` holds of `UseSpec`, which TLC runs.

| code | model |
|---|---|
| `stack` in `parseXMLTree` | `stack` |
| `children`, `text` of an `xmlNode` | `children(n)`, `text(n)`, from `owner` |
| `map[string]any`, `[]any`, `string` | records tagged `entries`, `items`, `str` |
| a text | a sequence of words, with `Blank` for white space; a number is a word `Number` knows |
| a float | in microseconds; a word in `Oversize` stands for a NaN, an infinite or a huge one |
| `c.notBefore` after the answer | `window`, in milliseconds |
| an error | `outcome` |

`Durations` is the conversion at the end of `applyFloodDelayLocked`: whole
milliseconds, so a delay below one leaves no window, and any of several windows
for a float no duration holds, as Go leaves that conversion to the machine. Such
a delay is above zero for both checks (`IsPositive`), so the default does not
stand in for it. `WindowAsReported` says what must hold for all other reports
and is silent about these.

`AnswerAsMeant` compares the result with `Meant`, which is defined on values
and knows nothing of notations, tokens or trees. Three shapes KAS does not
send as a struct are sent as an apache Map only: a list of structs with a
field `key`, a struct with a list of one, and an empty index.

### Commands and KascliRun

`Commands` is a table of what each command does and in which order: check
flags, read a file, read a new secret, make the client, send a request. A
service checks its input when it is called, right before its request, so these
checks (`"valid"`) come between the requests of a command; they stand where the
service may refuse what the command has let through (`Checked`). It
has one operator for each function of `cmd/kascli` that builds a command;
flags that make a command do more give more than one sequence. `KascliRun` is
one run of such a command.

| code | model |
|---|---|
| the lines of standard input | `input`; each line knows what the user wrote it for |
| `pin` captured by `otpSource` | `pin` |
| `c.token` | `session` |
| `retries` of one `Exec` | `reauthed`, `flood` |
| context, environment, flags | `setup`: password stored, context marked two-factor, PIN given, PIN wanted by KAS |

`Script` is the input of a user who knows the order: the new secrets, the
password of the account if it is not stored, then PINs; it may end anywhere
or have a blank line. `Handshake` is `ensureSessionLocked` with the PIN
callback, `Send` one request with its retries. A file, flag or value that is
wrong is `bad`, by the stage that finds out. `ReadsBeforeSends` is about what
the user has to supply: the flags the command checks, files, new secrets,
settings and the password are complete before anything is sent. That every flag
is checked before (write.go:748) is not so, as a run may end `"invalid"` after
its first request; `svc_invalid` shows what that leaves behind. Lines for the wrong purpose are possible in the model; that none is
ever taken so is `InputsInPlace`. The flood wait, the turn and the clocks are
those of `KasClient` and left out here.

## The runs

Times are in ticks. Tokens must be one more than what messages and the client
can refer to at a time; with two calls three are enough.

| run | bounds | shows |
|---|---|---|
| kas_safety | 2 calls of any kind, 3 tokens, lifetime 1, all trouble | `IInv` holds; at most once, true results, final handshakes, a logout that succeeds has ended the session; no call goes round for ever (`CallsWearOut`); `RemoteCall` is implemented |
| kas_windows | 3 calls, delays 0, 1 and 3, default 2, lifetime 4, faults | no flood protection for a client that has the account for itself, expiry never surfaces |
| kas_returns | one change and one other call, sessions revoked at will, loss, other clients | every queued call returns, and the password is settled |
| kas_expiry | margin as long as the timeout | **violated**: the margin of the code is not enough |
| kas_twochanges | two changes | **violated**: the client keeps the older password |
| config_crash | 3 runs, 2 names, one command of each kind on one name | the file is sound, readers are served, failures clean up |
| config_serial | 2 runs one after the other, every command on 2 names, 2 fields | `ConfigStore` is implemented, with kills on either side of the rename |
| svc_safety | 2 clients, 15 resource types, 3 ids, all trouble | `ErrNotFound` is true, updates stop at the first failure, creations tell what they made and find their own object, what no flag names survives |
| svc_overlap | 2 updates of one DNS record | **violated**: the later one undoes the other's change |
| soap_answers | 89 answers: results as maps or structs, with up to three records and lists in lists, delays below a millisecond, below zero, that are no number or too large, in either place or both, faults, pages, logins; indented or not; the end or one tag lost | the tree is that of the document and no whole document an error, no tree is made of a damaged body and nothing of it believed, callers get what KAS meant, the window is as reported in whole milliseconds, records, ids and settings are found, secrets are not printed |
| kascli_run | every command, every way to supply credentials, input that ends anywhere, 3 PINs, 2 flood retries, all trouble | no PIN twice or in vain, every line for its purpose, all the user has to supply complete before the first request, no run goes round for ever (`RunWearsOut`), every run ends |
| svc_invalid | updates of a mailbox | **violated**: requests are sent for an invalid command |

Two calls are enough for the safety of the turn: every interference is
between the call that has the turn and one that waits or has given up, and
the proofs cover any number. One flood retry instead of three
(`MaxFloodRetries`) keeps the counter at its limit within reach. Three runs
of kascli cover two writers and a reader. In `svc_safety` a command of each kind is
given with one flag of each class of a request (settings that are checked,
left out, defaulted and hidden alike stand for each other), or with flags of
two requests in a row; two clients are one that acts and one that interferes,
and three ids are the object there is and one new one each. `config_*` and
`svc_*` runs stop when all commands have ended, `soap_answers` when the answer is taken and
`kascli_run` when the run has exited, so deadlock is not checked there. `MaxFloodRetries`, `Lifetime`,
`HttpTimeout`, `Delays` and `Pins` are all the bounds there are: no action is
guarded by anything the code does not check.

Fairness (`FairSpec`): a goroutine that can go on does, KAS answers a
request somebody still waits for or the HTTP client times out (a tick is not
allowed past `HttpTimeout`, so one of the two happens), and time passes.
Weak fairness is enough for the turn because the calls are finitely many and
Go keeps blocked senders in line. Callers, contexts and trouble owe nothing.
`RunSpec` of kascli asks only that the run goes on: it is one goroutine, its
standard input is a pipe, and that each request returns is what
`EveryCallReturns` shows.

Every property of a passing run has a mutant: a plausible slip in the code,
written beside the definition it replaces, that makes the run fail.

## The proofs

`KasProofs` proves `IInv` inductive, one lemma per action. The invariants
the runs check are not inductive: that no action is repeated needs to know
that a request under way means nothing has been carried out yet, that an
answer under way says whether something was, and that a call that can go
round has a fault in its hands. `CallInv` says that for each call, `TurnHolder`
ties it to the turn, `HasToken` says a request never leaves without a token.
From `IInv`: `TypeCorrect`, `TurnIsExclusive`, `Serialized`, `NeverTwice`,
`SuccessIsTrue`, `RefusalIsTrue`. Two more results rest on it. With at most
one call that changes the password (`OneChanges`) the client ends with the one
KAS has (`PasswordIsSettled`; `PasswordInv`: KAS has the new password exactly
when the change was carried out, the client when it has reported so). And no
call goes round for ever, whatever KAS and the network do (`CallsAreBounded`):
`Left`, which counts the retries a call has left before the places it has left,
gets smaller with every step of the call and bigger with none of another. What
the scheduler then owes for a call to return is `EveryCallReturns`, and stays
with TLC.

`KasSessions` is about what the client knows of KAS:

* `LogoutIsTrue`: a logout that succeeds has ended its session. It knows
  only the answer; so `LInv` adds to `IInv` that a request in flight carries
  the token the client has, and that an answer to a logout that ends the
  session is true. A session that is over must stay over until the answer is
  read (`OverStaysOver`): KAS gives no token twice that the client still
  refers to.
* `WindowsAreKept`: a client that reads every answer and has the account for
  itself (`Undisturbed`) never runs into flood protection, for all delays KAS
  may report, and however long the program stands still. `HeldBack` compares
  the two clocks: KAS' window is open while a request is under way, after
  it the answer that reports the window is under way, and then `backoff` is no
  shorter than what is left of it.
* `ExpiryIsHidden`: on a network that answers in time (`Healthy`: nothing
  lost, nobody else on the account, two timeouts shorter than a session) no
  session that runs out surfaces as an error of a call. `Fresh` follows a call that
  was told its session is over: the handshake that follows is accepted, leaves
  no window, and the token goes out while it lives, so a second refusal cannot
  come. `kas_windows` is an instance of both assumptions.
* `MarginSuffices`: a token never arrives too late if the margin is at least
  two timeouts of the HTTP client and the longest wait for a window
  (`MarginCovers`, which also asks that KAS ends no session early and that code
  between two waits takes no time), with lost requests and other users. `Punctual` counts what
  the session of a call has left at each place it goes through. The bound
  explains `kas_expiry`: the margin of the code is a minute, the timeout of
  its HTTP client is a minute too.

`KasRefinement` proves that every step is a step of `RemoteCall` or invisible
(`ImplementsRemoteCall`), and that a rejected handshake ends its call
(`RejectedIsFinal`).

`ConfigProofs` proves the types of what every run has in memory
(`ConfigTypeCorrect`), the file sound for any number of
overlapping, failing and killed runs (`SoundFile`, `ReadersServed`,
`NothingLeft`), and that runs that do not overlap implement `ConfigStore`
(`SerialStore`): while a run is under way alone, what it read is what is
stored, and a step of `ConfigStore` is a rename, an end, or nothing one sees.

`ServicesProofs` proves `NotFoundIsTrue` and `CreateTold` for any
number of clients, any commands and any behaviour of the network
(`NotFoundTrue`, `CreationsTold`). Alone they are not inductive: a client
that is about to ask for an object must have been told if the object is gone
already, ids that were never given away name nothing, and a request whose
answer was lost may still create or delete later (`SInv`: `World` for KAS,
`ProcInv` for each client). It also proves `StepsInOrder`
(`UpdatesInOrder`): `Order` says that before a request of an update exactly
the earlier ones of its plan are carried out, and after its last that a
request still on its way is the only one in doubt. `ServicesKeep` proves
`ServicesTypeOK` (`TypesKept`), `OnlyGivenChange` (`UnnamedKept`) and
`CreateFindsOwn` (`CreationsFound`). `OnlyGivenChange` needs that what is about
to be written back is what KAS reported and still has (`Holds`, a part of
`KInv`), that the step is the client's own request, not one already carried out
(`Order`), and of every resource type that a whole object is written back
only where its secrets are left out when empty or always given
(`TypesWriteBack`). `CreateFindsOwn` needs that no two objects share a key
(`UniqueKeys`).

`KascliProofs` proves every invariant of `KascliRun`, for any of the commands
in `Commands`, any number of PINs and of retries. `PinOnce` (`PinsAreSpent`):
no PIN that was shown is still in the input or in the source, and no two lines
of the input are the same (`PInv`). The others rest on the shape of commands:
each first asks the user, makes the client, and ends with its requests and the
checks of their services (`Formed`, from the definitions in `Commands`). So
nothing has left before the first request is reached, and the PIN that was given
is shown before another is asked for (`TInv`): `PinNotWasted`. `ReadsBeforeSends`
(`ReadsComeFirst`) follows the end of a run too: where it still asks the user or
makes its client nothing has left (`AskingIsFirst`), and no step after that ends
it for lack of what the user supplies (`Unsent`). For `InputsInPlace`
(`LinesInPlace`), what is left of the input is what the command will ask for
(`Expected`), and the lines read are as many as the secrets it has passed and,
after the client, the password (`InOrder`).
`RunWearsOut` (`RunsWearOut`): `StepsLeft` counts the stages ahead and the
retries of this one, a session to obtain among them; a stage is worth more than
all its retries (`WorthOfStages`), so every step leaves less. `RunEnds` adds the
fairness that the run goes on, and stays with TLC.

`SoapProofs` proves what is read of a body, for documents of any length and
depth. `ReaderInv` compares the stack with the document: while a whole body is
read, as many elements are open as the document has open there
(`Len(stack) - 1 = Depth(body, at)`), and the k-th of them is k - 1 deep and
has not been closed since (`Level`). So a token goes into the innermost element
around it (`LastSurrounds`; `TreeIsDocument` for `ReadAsWritten`), and an end
tag finds its name on the stack: the document has it closing the element it is
in, and only one element that is still open has that depth (`EndFits`;
`TreeIsDocument` again). Of a damaged body the two counts always
differ. A tag that is lost changes the one and not the other, and no token that
is read afterwards mends that; for a lost end it must be known that between the
first tag of a document and its last an element is open (`Rooted`). The only
exception is a body that is lost before its first tag, which has no element
(`DamageIsSeen` for `NoGuessedTree`). `CallInv` carries that to the caller:
nothing is decoded of a damaged body, as a tree without an element has neither
a fault nor a result (`DamageNotBelieved` for `DamageIsNoticed`), and the
window is a natural number whatever KAS reports, as every conversion of a delay
gives one (`Delays`; `SoapTypeCorrect`).

All from the assumptions the modules name: the mark for no message is no
message (`MessageAssumption`), sets are disjoint where
the code's values are, lifetimes and delays are natural numbers, the commands
of a run are those of `Commands`, and what commands of the services give are settings
of the type, refused values only where the service checks
(`GivenAssumption`).

Only model-checked: `EveryCallReturns` and `RunEnds`, as liveness is out of the
prover's reach, and the five properties of `SoapUse` (`AnswerAsMeant`,
`WindowAsReported`, `RecordsAsSent`, `IdAsSent`, `SecretsHidden`). They are
about values: notation, decoder and redaction are recursive, and that one gives
back what another wrote is an induction over data.

## Not modelled

* What a power failure leaves of a rename that was not synced; a crash is
  the death of a process.
* The HTTP layer below `soapCall`, TLS, redirects, the size limit of a
  body, and of XML entities, comments, namespaces and attributes.
* What the user sees at a terminal, signals, the time a prompt takes (it is
  not bounded by `--timeout`), and the parsing of single flags.
* What the machine makes of a delay that is a NaN, infinite or too large for a
  duration: the model lets it leave any of a few windows, none among them, and
  no property asks for more. A delay below a millisecond leaves none either.
* Rendering: tables, JSON, YAML, and the strings KAS wants for lists,
  schedules and Booleans.
* Of the services: the numeric fields of statistics, resources and server
  information; the second lookup of `TLS.Get`; the input checks in detail.
* Between the update and `setPassword` of `UpdateOwnPassword`
  (`account.go:520-524`) the turn is free: a call that needs a session in that
  gap presents the old password and fails, although nothing is wrong with
  it. The model has this behaviour (`RecvOk`, `StorePassword`), and no
  property forbids it: `kas_windows` has no change of password.
* An update of an FTP user or host to the empty path is not sent and reports
  success, or that there is nothing to change (`ftp.go:59-61`); `omits` in
  `Resources` says for which settings, and no property asks for more.
* After `update accountsettings --password-stdin` the config file still has
  the old password.
* `kascli config` runs that overlap undo each other's changes, as updates of
  objects do: `config_serial` says what holds without overlap.

## The plan

1. Done: the client core, the config file, the services with their fault
   classes, lookups and updates in steps; the decoder with what callers take
   out of it; the commands of kascli with their inputs.
2. Done: theorems for every safety property of the runs except those of
   `SoapUse`, about the values the decoder gives.
3. The input checks of hosts, cronjobs, filters and responders against the
   requests they let through, with the renderings of `params.go`.
4. A composition of `Services` with `RemoteCall`, in place of the assumption
   that a request is one step.
