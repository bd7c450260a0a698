----------------------------- MODULE KascliRun -----------------------------
(* One run of kascli from its command line to its exit: what is read from   *)
(* standard input and when, and which handshakes and requests leave.        *)
(* The client behind it is that of KasClient, with one call at a time.      *)
EXTENDS Commands, Naturals, FiniteSets

CONSTANTS
  Offered,          \* the commands that may be given, a subset of AllCommands
  Pins,             \* the most one-time PINs the user writes to the input
  MaxFloodRetries,  \* maxFloodRetries
  Env               \* what may go wrong, a subset of Trouble

Trouble == {"config", "fault", "flood", "expiry", "loss"}

ASSUME KascliAssumption ==
  /\ Offered \subseteq AllCommands
  /\ Pins \in Nat
  /\ MaxFloodRetries \in Nat
  /\ Env \subseteq Trouble

VARIABLES
  command,    \* the stages of the command
  bad,        \* the stage the command line is wrong for, or 0
  setup,      \* what the context, the environment and the flags supply
  input,      \* the lines of standard input that have not been read
  pin,        \* otpSource: whether the given PIN is still there
  stage,      \* the next stage
  session,    \* whether the client has a session token
  reauthed, flood,   \* the retries of the current request
  result,     \* "none", or how the run ended
  (* what really happened, for the properties *)
  got,        \* what each line was read for
  presented   \* the PINs KAS was shown, one for each handshake

runVars == <<command, bad, setup, input, pin, stage, session, reauthed, flood, result,
             got, presented>>

(* A line by what the user wrote it for; the PIN of the flags has number 0. *)
Line(kind, nr) == [kind |-> kind, nr |-> nr]
Blank == Line("blank", 0)
Given == Line("pin", 0)
NoPin == Line("none", 0)

Count(kind, stages) == Cardinality({i \in DOMAIN stages : stages[i] = kind})

(* What a user who knows the order writes: the new secrets, the password of *)
(* the account if it is not stored, then PINs (README.md:490-507).          *)
Script(c, s) ==
  [i \in 1 .. Count("secret", c) |-> Line("secret", i)]
    \o (IF s.stored THEN <<>> ELSE <<Line("password", 1)>>)
    \o [i \in 1 .. Pins |-> Line("pin", i)]

(* The input may end early, with or without a blank line. *)
Inputs(c, s) ==
  UNION {{SubSeq(Script(c, s), 1, n), Append(SubSeq(Script(c, s), 1, n), Blank)} :
           n \in 0 .. Len(Script(c, s))}

(* stored: the password is; marked: the context says two-factor; given:     *)
(* --otp or KAS_OTP is set; twoFactor: KAS asks for a PIN.                  *)
Setups == [stored : BOOLEAN, marked : BOOLEAN, given : BOOLEAN, twoFactor : BOOLEAN]

Ends == {"none", "ok", "usage", "file", "invalid", "config", "input", "pin", "login", "session",
         "flood", "fault", "unclear"}

RunInit ==
  /\ command \in Offered
  /\ bad \in {0} \cup {i \in DOMAIN command : command[i] \in {"check", "file", "valid"}}
  /\ setup \in Setups
  /\ input \in Inputs(command, setup)
  /\ pin = setup.given
  /\ stage = 1
  /\ session = FALSE
  /\ reauthed = FALSE
  /\ flood = 0
  /\ result = "none"
  /\ got = <<>>
  /\ presented = <<>>

-----------------------------------------------------------------------------
(* The stages that are no requests *)

At(kind) == result = "none" /\ stage \in DOMAIN command /\ command[stage] = kind

Session == <<session, reauthed, flood>>
Fixed == <<command, bad, setup>>

Exit(r) == result' = r /\ UNCHANGED stage
Proceed == stage' = stage + 1 /\ UNCHANGED result

(* What the user gets to see of a flag that is wrong. *)
Refusal ==
  CASE At("check") -> "usage"
    [] At("file") -> "file"
    [] OTHER -> "invalid"

(* Flags are checked, a file is read that a flag names, or a service checks *)
(* what it is about to send.                                                *)
CheckFlags ==
  /\ At("check") \/ At("file") \/ At("valid")
  /\ IF bad = stage THEN Exit(Refusal) ELSE Proceed
  /\ UNCHANGED <<Fixed, input, pin, Session, got, presented>>

(* readSecretLine: a line that is missing or blank is an error. *)
Readable == input # <<>> /\ Head(input) # Blank

Consume(purpose) ==
  IF input = <<>> THEN UNCHANGED <<input, got>>
  ELSE /\ input' = Tail(input)
       /\ got' = Append(got, [purpose |-> purpose, line |-> Head(input)])

ReadSecret ==
  /\ At("secret")
  /\ Consume("secret")
  /\ IF Readable THEN Proceed ELSE Exit("input")
  /\ UNCHANGED <<Fixed, pin, Session, presented>>

(* resolveCredentials and New. *)
NewClient ==
  /\ At("client")
  /\ \/ "config" \in Env /\ Exit("config") /\ UNCHANGED <<input, got>>
     \/ setup.stored /\ Proceed /\ UNCHANGED <<input, got>>
     \/ /\ ~setup.stored
        /\ Consume("password")
        /\ IF Readable THEN Proceed ELSE Exit("input")
  /\ UNCHANGED <<Fixed, pin, Session, presented>>

-----------------------------------------------------------------------------
(* The requests *)

(* Mutant: a given PIN serves every login. *)
GiveAlways(p) == p

(* What is left of the given PIN once it was asked for. *)
Give(p) == FALSE

(* otpSource; TRUE if there is a callback at all. *)
Asks == setup.given \/ setup.marked

(* Mutant: the PIN is asked for although one was given. *)
PinPrompted ==
  CASE ~Asks -> NoPin
    [] OTHER -> IF Readable THEN Head(input) ELSE Blank

(* The PIN of the next handshake. *)
Pin ==
  CASE ~Asks -> NoPin
    [] Asks /\ pin -> Given
    [] OTHER -> IF Readable THEN Head(input) ELSE Blank

Accepted(p) == setup.twoFactor => p.kind = "pin"

(* Mutants: with a session the count begins again; there is one too many. *)
RetryFloodForever ==
  IF flood < MaxFloodRetries \/ session
    THEN flood' = (flood + 1) % (MaxFloodRetries + 1) /\ UNCHANGED <<stage, result>>
    ELSE Exit("flood") /\ UNCHANGED flood

RetryFloodOnceMore ==
  IF flood <= MaxFloodRetries
    THEN flood' = flood + 1 /\ UNCHANGED <<stage, result>>
    ELSE Exit("flood") /\ UNCHANGED flood

(* A handshake KAS refuses with flood protection is retried like any        *)
(* request, with another PIN.                                               *)
RetryFlood ==
  IF flood < MaxFloodRetries
    THEN flood' = flood + 1 /\ UNCHANGED <<stage, result>>
    ELSE Exit("flood") /\ UNCHANGED flood

(* ensureSession: the PIN is obtained, then KAS is asked for a session. *)
Handshake ==
  /\ At("request")
  /\ ~session
  /\ pin' = IF pin THEN Give(pin) ELSE pin
  /\ IF Asks /\ ~pin THEN Consume("pin") ELSE UNCHANGED <<input, got>>
  /\ IF Pin = Blank
       THEN Exit("pin") /\ UNCHANGED <<session, flood, presented>>
       ELSE /\ presented' = Append(presented, Pin)
            /\ \/ /\ Accepted(Pin)
                  /\ session' = TRUE
                  /\ UNCHANGED <<stage, result, flood>>
               \/ /\ ~Accepted(Pin) \/ "fault" \in Env
                  /\ Exit("login")
                  /\ UNCHANGED <<session, flood>>
               \/ "flood" \in Env /\ RetryFlood /\ UNCHANGED session
               \/ "loss" \in Env /\ Exit("unclear") /\ UNCHANGED <<session, flood>>
  /\ UNCHANGED <<Fixed, reauthed>>

(* One request: the next stage begins with retries of its own. *)
Send ==
  /\ At("request")
  /\ session
  /\ \/ /\ stage' = stage + 1
        /\ reauthed' = FALSE
        /\ flood' = 0
        /\ UNCHANGED <<session, result>>
     \/ /\ "expiry" \in Env
        /\ IF reauthed
             THEN Exit("session") /\ UNCHANGED <<session, reauthed>>
             ELSE session' = FALSE /\ reauthed' = TRUE /\ UNCHANGED <<stage, result>>
        /\ UNCHANGED flood
     \/ "flood" \in Env /\ RetryFlood /\ UNCHANGED <<session, reauthed>>
     \/ "fault" \in Env /\ Exit("fault") /\ UNCHANGED Session
     \/ "loss" \in Env /\ Exit("unclear") /\ UNCHANGED Session
  /\ UNCHANGED <<Fixed, input, pin, got, presented>>

Succeed ==
  /\ result = "none"
  /\ stage = Len(command) + 1
  /\ Exit("ok")
  /\ UNCHANGED <<Fixed, input, pin, Session, got, presented>>

RunNext == CheckFlags \/ ReadSecret \/ NewClient \/ Handshake \/ Send \/ Succeed

(* The run goes on by itself: standard input is a pipe, and KasClient shows *)
(* that every request returns.                                              *)
RunSpec == RunInit /\ [][RunNext]_runVars /\ WF_runVars(RunNext)

-----------------------------------------------------------------------------
(* Properties *)

KascliTypeOK ==
  /\ command \in Offered
  /\ stage \in 1 .. Len(command) + 1
  /\ pin \in BOOLEAN /\ session \in BOOLEAN /\ reauthed \in BOOLEAN
  /\ flood \in 0 .. MaxFloodRetries
  /\ result \in Ends

(* "A given PIN serves one login" (main.go:250): whatever is refused,       *)
(* retried or renewed, no PIN is shown to KAS twice.                        *)
PinOnce ==
  \A i, j \in DOMAIN presented :
    presented[i] = presented[j] /\ presented[i] # NoPin => i = j

(* "Password and PIN are read from the same stream, in that order"          *)
(* (auth_test.go:76), after the new secrets: for every command, however     *)
(* often it logs in, a line is taken for what it was written for.           *)
InputsInPlace ==
  \A i \in DOMAIN got : got[i].line # Blank => got[i].line.kind = got[i].purpose

(* What the user has to supply is complete before the first request         *)
(* (write.go:933): a flag the command refuses, a file, a new secret, a      *)
(* setting or the password that is missing ends a run that has shown KAS    *)
(* nothing, and no file or secret is read once it has.  The checks of the   *)
(* services are no part of it: they may refuse a later request.             *)
ReadsBeforeSends ==
  presented # <<>> =>
    /\ result \notin {"usage", "file", "config", "input"}
    /\ \A i \in DOMAIN command : command[i] \in {"file", "secret"} => i < stage

(* A run that ends for lack of a PIN has shown KAS the one it was given.    *)
PinNotWasted ==
  result = "pin" /\ setup.given => \E i \in DOMAIN presented : presented[i] = Given

(* What a run may still do: the requests that are left, each with all its   *)
(* retries, and for the present one the new session, the handshake and the  *)
(* flood retries it has not used.                                           *)
RetriesLeft ==
  2 * (IF reauthed THEN 0 ELSE 1) + (IF session THEN 0 ELSE 1) + MaxFloodRetries - flood

StepsLeft ==
  IF result # "none" THEN 0
  ELSE (MaxFloodRetries + 4) * (Len(command) + 1 - stage) + RetriesLeft + 1

(* No handshake, session that ends or flood delay starts a run anew         *)
(* (client.go:257-278): a session KAS ends again at once, or a window it    *)
(* never opens, uses up the retries, whatever the command and the input.    *)
RunWearsOut == [][StepsLeft' \in 0 .. StepsLeft - 1]_runVars

(* Every run comes to an end: the retries of each request are bounded, and  *)
(* no PIN is asked for forever.                                             *)
RunEnds == <>(result # "none")
=============================================================================
