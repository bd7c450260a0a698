------------------------------- MODULE SoapUse -------------------------------
(* What KAS writes into an answer, in which notation, and what a service or *)
(* kascli takes out of the result of SoapCall: records, identifiers,        *)
(* settings, or a text to print.                                            *)
EXTENDS SoapCall

CONSTANT PasswordKeys  \* the keys that end in "_password"

VARIABLES
  use,    \* what the caller makes of the result
  taken   \* what it gets

useVars == <<soapVars, use, taken>>

-----------------------------------------------------------------------------
(* What KAS sends: its notation for values, and the tokens of an answer.    *)

Spoken(words) == [i \in DOMAIN words |-> Said(words[i])]

Element(name, content) == <<Start(name)>> \o content \o <<End(name)>>

MapItem(key, content) ==
  Element("item", Element("key", <<Said(key)>>) \o Element("value", content))

(* A map as an apache Map, or as a struct, where a list repeats its name.   *)
RECURSIVE Written(_, _)
Written(v, notation) ==
  CASE IsText(v) -> Spoken(v.str)
    [] IsList(v) ->
         FlattenSeq([i \in DOMAIN v.items |-> Element("item", Written(v.items[i], notation))])
    [] IsMap(v) ->
         LET keys == SetToSeq(DOMAIN v.entries)
             field(k) ==
               CASE notation = "map" -> MapItem(k[1], Written(v.entries[k], notation))
                 [] notation = "struct" /\ IsList(v.entries[k]) ->
                      FlattenSeq([i \in DOMAIN v.entries[k].items |->
                        Element(k[1], Written(v.entries[k].items[i], notation))])
                 [] OTHER -> Element(k[1], Written(v.entries[k], notation))
         IN FlattenSeq([i \in DOMAIN keys |-> field(keys[i])])

Optional(key, words) ==
  IF words = <<>> THEN <<>> ELSE MapItem(key, Spoken(words))

(* The request is echoed before the response. *)
Content(a) ==
  CASE a.kind = "fault" ->
         Element("Fault", Element("faultcode", Spoken(a.faultcode))
                            \o Element("faultstring", Spoken(a.faultstring)))
    [] a.kind = "token" -> Element("return", Written(a.info, "map"))
    [] a.kind = "page" -> Element("html", <<Said("error")>>)
    [] a.kind = "result" ->
         Element("return",
           MapItem("Request", MapItem("KasRequestParams", Written(a.echo, "map")))
           \o MapItem("Response",
                Optional("KasFloodDelay", a.delay)
                \o MapItem("ReturnString", <<Said(a.string)>>)
                \o MapItem("ReturnInfo", Written(a.info, a.notation)))
           \o Optional("KasFloodDelay", a.above))

Indented(tokens) == FlattenSeq([i \in DOMAIN tokens |-> <<tokens[i], Said(Blank)>>])

Tokens(a) ==
  LET envelope == Element("Envelope", Element("Body", Content(a))) IN
    IF a.indented THEN Indented(envelope) ELSE envelope

(* An answer as KAS sends it. *)
Sendable(a) == [body |-> Tokens(a)] @@ a

(* What a value means: KAS writes an empty list or map like an empty text.  *)
RECURSIVE Meant(_)
Meant(v) ==
  CASE IsText(v) -> v
    [] IsList(v) ->
         IF v.items = <<>> THEN Nothing
         ELSE [items |-> [i \in DOMAIN v.items |-> Meant(v.items[i])]]
    [] IsMap(v) ->
         IF DOMAIN v.entries = {} THEN Nothing
         ELSE [entries |-> [k \in DOMAIN v.entries |-> Meant(v.entries[k])]]

-----------------------------------------------------------------------------
(* What a service or kascli takes out of the result *)

ListItems(v) == IF IsList(v) THEN SelectSeq(v.items, IsMap) ELSE <<>>

(* Mutant: a map of entries is taken for an entry. *)
EntriesOfFlat(v) == IF IsList(v) THEN ListItems(v) ELSE IF IsMap(v) THEN <<v>> ELSE <<>>

(* A list, a map of entries keyed by index (in some order), or one entry.   *)
EntriesOf(v) ==
  CASE IsList(v) -> ListItems(v)
    [] IsMap(v) ->
         IF \A k \in DOMAIN v.entries : IsMap(v.entries[k])
           THEN LET keys == SetToSeq(DOMAIN v.entries) IN [i \in DOMAIN keys |-> v.entries[keys[i]]]
           ELSE <<v>>
    [] OTHER -> <<>>

(* Mutant: whatever add_* returns is an identifier. *)
CreatedIDAny(v) == asString(v)

CreatedID(v) == IF IsText(v) /\ Trim(v.str) # <<"TRUE">> THEN Trim(v.str) ELSE <<>>

(* The settings may be a map inside the map. *)
SettingsOf(v) ==
  IF IsMap(Field(v, "settings")) THEN <<Field(v, "settings")>>
  ELSE IF IsMap(v) THEN <<v>> ELSE <<>>

IsSecretKey(key) ==
  key \in {<<k>> : k \in PasswordKeys \ {"show_password"}} \cup {<<"ssl_certificate_sni_key">>}

(* Mutant: lists are printed as they are. *)
RECURSIVE RedactMaps(_)
RedactMaps(v) ==
  IF IsMap(v)
    THEN [entries |-> [k \in DOMAIN v.entries |->
            IF IsText(v.entries[k]) /\ IsSecretKey(k) THEN Text(<<"REDACTED">>)
                                                      ELSE RedactMaps(v.entries[k])]]
    ELSE v

RECURSIVE Redact(_)
Redact(v) ==
  CASE IsMap(v) ->
         [entries |-> [k \in DOMAIN v.entries |->
            IF IsText(v.entries[k]) /\ v.entries[k] # Nothing /\ IsSecretKey(k)
              THEN Text(<<"REDACTED">>) ELSE Redact(v.entries[k])]]
    [] IsList(v) -> [items |-> [i \in DOMAIN v.items |-> Redact(v.items[i])]]
    [] OTHER -> v

(* One use of the result: it changes nothing of SoapCall. *)
Use(u, what) ==
  /\ phase = "returned"
  /\ use = "none"
  /\ use' = u
  /\ taken' = what
  /\ UNCHANGED soapVars

UseList == Use("list", [items |-> ListItems(ret)])
UseEntries == Use("entries", [items |-> EntriesOf(ret)])
UseId == Use("id", Text(CreatedID(ret)))
UseSettings == Use("settings", [items |-> SettingsOf(ret)])
UsePrint == Use("print", Redact(ret))

UseInit == SoapInit /\ use = "none" /\ taken = Nothing

UseNext ==
  \/ SoapNext /\ UNCHANGED <<use, taken>>
  \/ UseList \/ UseEntries \/ UseId \/ UseSettings \/ UsePrint

UseSpec == UseInit /\ [][UseNext]_useVars

-----------------------------------------------------------------------------
(* Properties *)

Whole == phase \in {"returned", "done"} /\ ~damaged

(* "decode into a generic tree and convert it" (soap.go:88): the caller     *)
(* gets the result KAS meant, whatever of the three notations it is in and  *)
(* whatever the echo of the request before it says; a failed action and a   *)
(* fault are told as what they are, with the code KAS gave.                 *)
AnswerAsMeant ==
  Whole =>
    CASE sent.kind = "fault" ->
           outcome = "fault" /\ code = Trim(IF Trim(sent.faultstring) = <<>>
                                              THEN sent.faultcode ELSE sent.faultstring)
      [] sent.kind = "page" -> outcome \in {"status", "noreturn"}
      [] sent.kind = "token" -> outcome = "ok" /\ ret = Text(sent.token)
      [] sent.kind = "result" /\ sent.string = "TRUE" -> outcome = "ok" /\ ret = Meant(sent.info)
      [] sent.kind = "result" /\ sent.string # "TRUE" -> outcome = "failed"

(* "The client honors it proactively" (flood.go:13): after any whole answer *)
(* of KasApi the next request is held back for the whole milliseconds of    *)
(* the first delay above zero that KAS reported, in Response or else at the *)
(* top, and for the default if it reported none. A delay no Duration holds  *)
(* promises nothing.                                                        *)
WindowAsReported ==
  phase \in {"returned", "done"} /\ sent.kind = "result" /\ ~damaged =>
    LET reported == SelectSeq(<<Text(sent.delay), Text(sent.above)>>, IsPositive) IN
      IF reported = <<>> THEN window = DefaultDelay
      ELSE LET delay == Head(reported) IN
        IsOversize(delay) \/ (1000 * window <= asFloat(delay) /\ asFloat(delay) < 1000 * (window + 1))

(* A list action, the statistics ("a list, a map of entries keyed by index, *)
(* or a single entry", statistics.go:144-145) and the account settings find *)
(* exactly the records KAS sent, each once.                                 *)
Forms(u) ==
  CASE u = "list" -> {"list"}
    [] u = "entries" -> {"list", "index", "single"}
    [] u = "settings" -> {"single", "settings"}
    [] OTHER -> {}

RecordsAsSent ==
  Whole /\ sent.kind = "result" /\ use # "none" /\ sent.form \in Forms(use) =>
    ToBag(taken.items)
      = ToBag([i \in DOMAIN sent.records |-> Meant(sent.records[i])])

(* "the identifier an add_* action reports" (params.go:135): only what KAS  *)
(* sent as an identifier is one; a map, a list and "TRUE" are none.         *)
IdAsSent ==
  Whole /\ use = "id" => taken = IF sent.form = "id" THEN sent.info ELSE Nothing

RECURSIVE Words(_)
Words(v) ==
  CASE IsText(v) -> Range(v.str)
    [] IsList(v) -> UNION {Words(v.items[i]) : i \in DOMAIN v.items}
    [] IsMap(v) -> UNION {Words(v.entries[k]) : k \in DOMAIN v.entries}

(* "passwords and keys in the response are redacted" (commands.go:264): no  *)
(* secret is printed, however deep it is, and everything else is.           *)
SecretsHidden ==
  Whole /\ use = "print" =>
    /\ Words(taken) \cap sent.secrets = {}
    /\ Words(Meant(sent.info)) \ sent.secrets \subseteq Words(taken)
=============================================================================
