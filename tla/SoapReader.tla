------------------------------ MODULE SoapReader ------------------------------
(* parseXMLTree of soap.go: the body of an answer is read token by token    *)
(* into a tree.  A body may lose its end or one of its tags on the way.     *)
(* A node is the place of its start tag, and 0 the root.                    *)
EXTENDS SequencesExt, Integers

CONSTANT Bodies  \* the bodies KAS may send, as sequences of tokens

VARIABLES
  body,     \* the body that is sent
  owner,    \* for each token that is past the node it is in, or Gone
  stack,    \* the open nodes, the root first
  verdict,  \* what parseXMLTree returns: "root" or an error, "syntax"
  damaged   \* whether the body lost something

readerVars == <<body, owner, stack, verdict, damaged>>

Start(name) == [tag |-> "start", word |-> name]
End(name) == [tag |-> "end", word |-> name]
Said(word) == [tag |-> "text", word |-> word]

IsStart(token) == token.tag = "start"
IsTag(token) == token.tag # "text"

(* How many elements are open before the n-th token. *)
Before(tokens, n, tag) == {i \in 1 .. n - 1 : tokens[i].tag = tag}
Depth(tokens, n) ==
  Cardinality(Before(tokens, n, "start")) - Cardinality(Before(tokens, n, "end"))

(* The n-th token is in the element that starts at h, and in none in it. *)
Surrounds(tokens, h, n) ==
  /\ IsStart(tokens[h])
  /\ Depth(tokens, n) = Depth(tokens, h) + 1
  /\ \A k \in h + 1 .. n : Depth(tokens, k) > Depth(tokens, h)

(* Between its first start and its last tag an element is open: the body    *)
(* has one element, and that contains the others.                           *)
Rooted(tokens) ==
  \A n \in DOMAIN tokens :
    /\ \E i \in 1 .. n - 1 : IsStart(tokens[i])
    /\ \E i \in n .. Len(tokens) : IsTag(tokens[i])
    => Depth(tokens, n) > 0

(* An end tag has the name of the element it is in. *)
Nested(tokens) ==
  \A n \in DOMAIN tokens :
    tokens[n].tag = "end" =>
      \E h \in 1 .. n - 1 :
        tokens[h].word = tokens[n].word /\ Surrounds(tokens, h, n)

IsDocument(tokens) ==
  /\ tokens \in Seq(Range(tokens))
  /\ \A n \in DOMAIN tokens : tokens[n].tag \in {"start", "end", "text"}
  /\ \A n \in 1 .. Len(tokens) : Depth(tokens, n) >= 0
  /\ Depth(tokens, Len(tokens) + 1) = 0
  /\ Rooted(tokens)
  /\ Nested(tokens)

ASSUME BodiesAssumption == \A tokens \in Bodies : IsDocument(tokens)

-----------------------------------------------------------------------------

Gone == -1

(* The nodes of the tree besides its root. *)
Elements == {i \in DOMAIN owner : IsStart(body[i]) /\ owner[i] # Gone}

ReaderInit ==
  /\ body \in Bodies
  /\ owner = <<>>
  /\ stack = <<0>>
  /\ verdict = "none"
  /\ damaged = FALSE

at == Len(owner) + 1

Token(tag) ==
  /\ verdict = "none"
  /\ at <= Len(body)
  /\ body[at].tag = tag

(* What comes goes into the innermost node that is open. *)
Attach == owner' = Append(owner, Last(stack))

StartElement ==
  /\ Token("start")
  /\ Attach
  /\ stack' = Append(stack, at)
  /\ UNCHANGED <<body, verdict, damaged>>

(* Mutant: the decoder is not strict. *)
EndElementAny ==
  /\ Token("end")
  /\ Attach
  /\ stack' = IF Len(stack) > 1 THEN Front(stack) ELSE stack
  /\ UNCHANGED <<body, verdict, damaged>>

(* The decoder is strict: a tag that closes another element is an error.    *)
EndElement ==
  /\ Token("end")
  /\ Attach
  /\ IF Len(stack) > 1 /\ body[Last(stack)].word = body[at].word
       THEN stack' = Front(stack) /\ UNCHANGED verdict
       ELSE verdict' = "syntax" /\ UNCHANGED stack
  /\ UNCHANGED <<body, damaged>>

(* Mutant: text goes on in the element that was opened last. *)
CharDataLast ==
  /\ Token("text")
  /\ owner' = Append(owner, Max({0} \cup Before(body, at, "start")))
  /\ UNCHANGED <<body, stack, verdict, damaged>>

CharData ==
  /\ Token("text")
  /\ Attach
  /\ UNCHANGED <<body, stack, verdict, damaged>>

(* Mutant: the decoder does not insist on what is missing at the end. *)
CompleteAny == TRUE

Complete == Len(stack) = 1

EndOfBody ==
  /\ verdict = "none"
  /\ at > Len(body)
  /\ verdict' = IF Complete THEN "root" ELSE "syntax"
  /\ UNCHANGED <<body, owner, stack, damaged>>

(* The body ends early, or a tag of it is missing. *)
Damage ==
  /\ verdict = "none"
  /\ ~damaged
  /\ at <= Len(body)
  /\ \E n \in {at, Len(body)} :
       /\ {i \in at .. n : IsTag(body[i])} # {}
       /\ owner' = owner \o [i \in 1 .. n + 1 - at |-> Gone]
  /\ damaged' = TRUE
  /\ UNCHANGED <<body, stack, verdict>>

ReaderNext == StartElement \/ EndElement \/ CharData \/ EndOfBody \/ Damage

ReaderSpec == ReaderInit /\ [][ReaderNext]_readerVars

-----------------------------------------------------------------------------
(* Properties *)

(* "a malformed body is an error rather than a guessed tree" (soap.go:99):  *)
(* of a body that lost its end or a tag no tree is made that has an element *)
(* in it, wherever it happened.                                             *)
NoGuessedTree == damaged /\ verdict = "root" => Elements = {}

InPlace(n) ==
  \/ owner[n] = 0 /\ Depth(body, n) = 0
  \/ owner[n] \in 1 .. n - 1 /\ Surrounds(body, owner[n], n)

(* "KAS answers well-formed XML" (soap.go:98): a document that arrives as   *)
(* it was sent is no error, and the tree has its structure: every element   *)
(* and every text is a child of the innermost element that is open there,   *)
(* and only what is in none is one of the root (soap.go:116-124).           *)
ReadAsWritten ==
  ~damaged /\ verdict # "none" =>
    verdict = "root" /\ \A n \in DOMAIN body : InPlace(n)
=============================================================================
