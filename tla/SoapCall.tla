------------------------------ MODULE SoapCall ------------------------------
(* One answer of KAS on its way to a caller: soapCall has the XML read into  *)
(* a tree (SoapReader) and turns that into a value of maps, lists and        *)
(* strings; Exec takes the result out of it.                                *)
(* A text is a sequence of words; a value is tagged by what it is.          *)
EXTENDS SoapReader

CONSTANTS
  Answers,       \* the answers KAS may send, each with its body
  Blank,         \* the word of white space
  Number,        \* the words that are numbers: delays in microseconds
  Oversize,      \* the words that are floats no Duration holds, and what is left of them
  DefaultDelay   \* what is waited when no delay is reported, in milliseconds

ASSUME SoapAssumption ==
  /\ DefaultDelay \in Nat \ {0}
  /\ \A w \in DOMAIN Number : Number[w] \in Int
  /\ \A w \in DOMAIN Oversize : Oversize[w] \subseteq Nat
  /\ Blank \notin DOMAIN Number \cup DOMAIN Oversize
  /\ Bodies = {a.body : a \in Answers}

VARIABLES
  sent,     \* the answer KAS sends
  phase,    \* "reading", "decoded", "returned", "done"
  outcome,  \* the error, or "ok"
  ret,      \* what soapCall, then Exec returned
  code,     \* the code of a fault
  window    \* how long the next request is held back, in milliseconds

callVars == <<sent, phase, outcome, ret, code, window>>
soapVars == <<readerVars, callVars>>

-----------------------------------------------------------------------------
(* Values *)

Text(words) == [str |-> words]
Nothing == Text(<<>>)

IsText(v) == "str" \in DOMAIN v
IsList(v) == "items" \in DOMAIN v
IsMap(v) == "entries" \in DOMAIN v

Trim(words) ==
  LET solid == {i \in DOMAIN words : words[i] # Blank} IN
    IF solid = {} THEN <<>> ELSE SubSeq(words, Min(solid), Max(solid))

(* The field of a map; of anything else there is none. *)
Field(v, key) ==
  IF IsMap(v) /\ <<key>> \in DOMAIN v.entries THEN v.entries[<<key>>] ELSE Nothing

asString(v) == IF IsText(v) THEN v.str ELSE <<>>

IsOne(v, words) == IsText(v) /\ Len(v.str) = 1 /\ v.str[1] \in words

(* What is no number is 0; what is no finite one is told by IsOversize. *)
asFloat(v) == IF IsOne(v, DOMAIN Number) THEN Number[v.str[1]] ELSE 0

(* "NaN", "Inf" and numbers too large: floats, and none of them is <= 0.    *)
IsOversize(v) == IsOne(v, DOMAIN Oversize)

-----------------------------------------------------------------------------
(* The tree and its value *)

(* What is in a node, in the order of the body. *)
Inside(n, tag) ==
  SelectSeq([i \in DOMAIN owner |-> i], LAMBDA i : owner[i] = n /\ body[i].tag = tag)

children(n) == Inside(n, "start")
text(n) == LET said == Inside(n, "text") IN [i \in DOMAIN said |-> body[said[i]].word]

Named(n, name) == SelectSeq(children(n), LAMBDA c : body[c].word = name)

(* find goes to an element before those it contains: the first in the body. *)
Find(name) == {i \in Elements : body[i].word = name}

ChildText(n, name) == IF Named(n, name) = <<>> THEN <<>> ELSE text(Head(Named(n, name)))

AllNamed(n, name) ==
  children(n) # <<>> /\ \A c \in Range(children(n)) : body[c].word = name

(* Mutant: items that contain something are entries of a map. *)
IsKeyValueMapLoose(n) ==
  AllNamed(n, "item") /\ \A c \in Range(children(n)) : children(c) # <<>>

IsKeyValueMap(n) ==
  AllNamed(n, "item") /\ \A c \in Range(children(n)) : Named(c, "key") # <<>>

toValue[n \in DOMAIN body] ==
  LET key(item) == IF Named(item, "key") = <<>> THEN <<>> ELSE Trim(text(Last(Named(item, "key"))))
      value(item) ==
        IF Named(item, "value") = <<>> THEN Nothing ELSE toValue[Last(Named(item, "value"))]
      put(m, item) == (key(item) :> value(item)) @@ m
      collect(m, c) ==
        LET k == <<body[c].word>>
            v == toValue[c]
        IN IF k \notin DOMAIN m THEN (k :> v) @@ m
           ELSE [m EXCEPT ![k] = IF IsList(@) THEN [items |-> Append(@.items, v)]
                                              ELSE [items |-> <<@, v>>]]
  IN CASE children(n) = <<>> -> Text(Trim(text(n)))
       [] IsKeyValueMap(n) -> [entries |-> FoldLeft(put, <<>>, children(n))]
       [] ~IsKeyValueMap(n) /\ AllNamed(n, "item") ->
            [items |-> [i \in DOMAIN children(n) |-> toValue[children(n)[i]]]]
       [] OTHER -> [entries |-> FoldLeft(collect, <<>>, children(n))]

-----------------------------------------------------------------------------
(* soapCall *)

SoapInit ==
  /\ ReaderInit
  /\ sent \in Answers
  /\ body = sent.body
  /\ phase = "reading"
  /\ outcome = "none"
  /\ ret = Nothing
  /\ code = <<>>
  /\ window = 0

Finish(o) ==
  /\ phase' = "done"
  /\ outcome' = o

Read == ReaderNext /\ UNCHANGED callVars

FaultCode(fault) ==
  LET string == Trim(ChildText(fault, "faultstring")) IN
    IF string # <<>> THEN string ELSE Trim(ChildText(fault, "faultcode"))

(* Once the body is read: a fault, a broken answer, or the value of <return>. *)
Decode ==
  LET faults == Find("Fault")
      returns == Find("return")
  IN
  /\ phase = "reading"
  /\ verdict # "none"
  /\ CASE verdict = "syntax" -> Finish("syntax") /\ UNCHANGED <<ret, code>>
       [] verdict = "root" /\ faults # {} ->
            Finish("fault") /\ code' = FaultCode(Min(faults)) /\ UNCHANGED ret
       [] verdict = "root" /\ faults = {} /\ sent.status # 200 ->
            Finish("status") /\ UNCHANGED <<ret, code>>
       [] verdict = "root" /\ faults = {} /\ sent.status = 200 /\ returns = {} ->
            Finish("noreturn") /\ UNCHANGED <<ret, code>>
       [] OTHER ->
            /\ phase' = "decoded"
            /\ ret' = toValue[Min(returns)]
            /\ UNCHANGED <<outcome, code>>
  /\ UNCHANGED <<readerVars, sent, window>>

-----------------------------------------------------------------------------
(* What the caller of soapCall makes of the value *)

IsPositive(v) == IsOversize(v) \/ asFloat(v) > 0

(* time.Duration(delay*1000) * time.Millisecond: whole milliseconds. Of a   *)
(* float that is out of range the build decides what is left.               *)
Durations(v) == IF IsOversize(v) THEN Oversize[v.str[1]] ELSE {asFloat(v) \div 1000}

(* Mutant: a delay that is no positive number is no delay. *)
FloodDelayRaw(v) == Durations(Field(Field(v, "Response"), "KasFloodDelay"))

FloodDelay(v) ==
  LET inside == Field(Field(v, "Response"), "KasFloodDelay")
      above == Field(v, "KasFloodDelay")
  IN CASE IsPositive(inside) -> Durations(inside)
       [] ~IsPositive(inside) /\ IsPositive(above) -> Durations(above)
       [] OTHER -> {DefaultDelay}

(* execLocked, after KasApi. *)
Exec ==
  LET response == Field(ret, "Response") IN
  /\ phase = "decoded"
  /\ sent.kind # "token"
  /\ window' \in IF IsMap(ret) THEN FloodDelay(ret) ELSE {window}
  /\ CASE ~IsMap(response) -> Finish("malformed") /\ UNCHANGED ret
       [] IsMap(response) /\ asString(Field(response, "ReturnString")) # <<"TRUE">> ->
            Finish("failed") /\ UNCHANGED ret
       [] OTHER ->
            /\ phase' = "returned"
            /\ outcome' = "ok"
            /\ ret' = Field(response, "ReturnInfo")
  /\ UNCHANGED <<readerVars, sent, code>>

(* ensureSessionLocked, after KasAuth. *)
Login ==
  LET response == asString(Field(ret, "Response"))
      token == IF response # <<>> THEN response ELSE asString(ret)
  IN
  /\ phase = "decoded"
  /\ sent.kind = "token"
  /\ Finish(IF token = <<>> THEN "notoken" ELSE "ok")
  /\ ret' = Text(token)
  /\ UNCHANGED <<readerVars, sent, code, window>>

SoapNext == Read \/ Decode \/ Exec \/ Login

SoapSpec == SoapInit /\ [][SoapNext]_soapVars

-----------------------------------------------------------------------------
(* Properties *)

(* The types of the state; the open elements start with the root.           *)
SoapTypeOK ==
  /\ body = sent.body
  /\ owner \in Seq({Gone} \cup 0 .. Len(body)) /\ Len(owner) <= Len(body)
  /\ stack \in Seq(0 .. Len(owner)) /\ stack # <<>> /\ Head(stack) = 0
  /\ verdict \in {"none", "root", "syntax"}
  /\ damaged \in BOOLEAN
  /\ phase \in {"reading", "decoded", "returned", "done"}
  /\ outcome \in {"none", "ok", "syntax", "fault", "status", "noreturn",
                  "malformed", "failed", "notoken"}
  /\ window \in Nat

(* "a malformed body is an error rather than a guessed tree" (soap.go:99):  *)
(* of a body that lost its end or a tag nothing is believed, no value, no   *)
(* refusal and no fault, wherever it happened.                              *)
DamageIsNoticed == damaged => outcome \in {"none", "syntax", "status", "noreturn"}
=============================================================================
