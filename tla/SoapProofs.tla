----------------------------- MODULE SoapProofs -----------------------------
(***************************************************************************)
(* Reading a body, for documents of any length and depth: of one that       *)
(* arrives whole the tree is made that it has, and of one that lost its end *)
(* or a tag none, so that soapCall believes nothing of it.                  *)
(***************************************************************************)
EXTENDS SoapCall, TLAPS, FiniteSetTheorems, SequenceTheorems

-----------------------------------------------------------------------------
(* Counting tags *)

LEMMA CountBefore ==
  ASSUME NEW tokens, NEW n \in Nat \ {0}, NEW tag
  PROVE  /\ Cardinality(Before(tokens, n, tag)) \in Nat
         /\ Cardinality(Before(tokens, n + 1, tag))
              = Cardinality(Before(tokens, n, tag)) + IF tokens[n].tag = tag THEN 1 ELSE 0
  <1>1. IsFiniteSet(Before(tokens, n, tag))
    <2>1. IsFiniteSet(1 .. n - 1)
      BY FS_Interval
    <2>2. QED
      BY <2>1, FS_Subset DEF Before
  <1>2. n \notin Before(tokens, n, tag)
    BY DEF Before
  <1>3. Cardinality(Before(tokens, n, tag)) \in Nat
    BY <1>1, FS_CardinalityType
  <1>4. CASE tokens[n].tag = tag
    <2>1. Before(tokens, n + 1, tag) = Before(tokens, n, tag) \cup {n}
      BY <1>4 DEF Before
    <2>2. QED
      BY <1>1, <1>2, <1>3, <1>4, <2>1, FS_AddElement
  <1>5. CASE tokens[n].tag # tag
    <2>1. Before(tokens, n + 1, tag) = Before(tokens, n, tag)
      BY <1>5 DEF Before
    <2>2. QED
      BY <1>3, <1>5, <2>1
  <1>6. QED
    BY <1>4, <1>5

(* A start tag goes one deeper, an end tag one back. *)
LEMMA DepthMoves ==
  ASSUME NEW tokens, NEW n \in Nat \ {0}
  PROVE  /\ Depth(tokens, n) \in Int /\ Depth(tokens, n + 1) \in Int
         /\ tokens[n].tag = "start" => Depth(tokens, n + 1) = Depth(tokens, n) + 1
         /\ tokens[n].tag = "end" => Depth(tokens, n + 1) = Depth(tokens, n) - 1
         /\ tokens[n].tag = "text" => Depth(tokens, n + 1) = Depth(tokens, n)
  <1> DEFINE s == Cardinality(Before(tokens, n, "start"))
             e == Cardinality(Before(tokens, n, "end"))
             t == Cardinality(Before(tokens, n + 1, "start"))
             f == Cardinality(Before(tokens, n + 1, "end"))
  <1>1. /\ s \in Nat /\ t = s + IF tokens[n].tag = "start" THEN 1 ELSE 0
        /\ e \in Nat /\ f = e + IF tokens[n].tag = "end" THEN 1 ELSE 0
    BY CountBefore
  <1>2. Depth(tokens, n) = s - e /\ Depth(tokens, n + 1) = t - f
    BY DEF Depth
  <1> HIDE DEF s, e, t, f
  <1>3. QED
    BY <1>1, <1>2

LEMMA DepthAtStart == ASSUME NEW tokens PROVE Depth(tokens, 1) = 0
  <1>1. \A tag : Before(tokens, 1, tag) = {}
    BY DEF Before
  <1>2. QED
    BY <1>1, FS_EmptySet DEF Depth

-----------------------------------------------------------------------------
(* Reading *)

ReaderTypes ==
  /\ body \in Bodies
  /\ owner \in Seq({Gone} \cup 0 .. Len(body)) /\ Len(owner) <= Len(body)
  /\ stack \in Seq(0 .. Len(owner)) /\ stack # <<>> /\ Head(stack) = 0
  /\ verdict \in {"none", "root", "syntax"}
  /\ damaged \in BOOLEAN

(* The k-th open node is k - 1 deep, and has not been closed since. *)
Level(k) ==
  /\ stack[k] \in 1 .. Len(owner)
  /\ IsStart(body[stack[k]])
  /\ Depth(body, stack[k]) = k - 2
  /\ \A m \in stack[k] + 1 .. at : Depth(body, m) >= k - 1

(* Of a whole body as many elements are open as the document has open; of a *)
(* damaged one never, or the body was lost before its first tag.            *)
ReaderInv ==
  /\ ReaderTypes
  /\ ~damaged =>
       /\ verdict # "syntax"
       /\ \A n \in DOMAIN owner : InPlace(n)
       /\ verdict = "none" =>
            /\ Len(stack) - 1 = Depth(body, at)
            /\ \A k \in 2 .. Len(stack) : Level(k)
       /\ verdict = "root" => at > Len(body)
  /\ damaged /\ verdict = "none" =>
       Len(stack) - 1 # Depth(body, at) \/ (at > Len(body) /\ Elements = {})
  /\ NoGuessedTree

LEMMA Documents ==
  ASSUME ReaderTypes
  PROVE  /\ IsDocument(body)
         /\ Len(body) \in Nat /\ DOMAIN body = 1 .. Len(body)
         /\ Len(owner) \in Nat /\ DOMAIN owner = 1 .. Len(owner)
         /\ at \in Nat \ {0} /\ at <= Len(body) + 1
         /\ Len(stack) \in Nat \ {0} /\ stack[1] = 0
         /\ Last(stack) = stack[Len(stack)]
  <1>1. IsDocument(body)
    BY BodiesAssumption DEF ReaderTypes
  <1>2. body \in Seq(Range(body))
    BY <1>1 DEF IsDocument
  <1> HIDE DEF IsDocument
  <1>3. Len(body) \in Nat /\ DOMAIN body = 1 .. Len(body)
    BY <1>2
  <1>4. Len(owner) \in Nat /\ DOMAIN owner = 1 .. Len(owner) /\ Len(owner) <= Len(body)
    BY DEF ReaderTypes
  <1>5. Len(stack) \in Nat \ {0} /\ stack[1] = 0
    BY DEF ReaderTypes
  <1>6. QED
    BY <1>1, <1>3, <1>4, <1>5 DEF at, Last

LEMMA ReaderInitial == ReaderInit => ReaderInv
  <1> SUFFICES ASSUME ReaderInit PROVE ReaderInv
    OBVIOUS
  <1>1. ReaderTypes
    <2>1. body \in Seq(Range(body))
      BY BodiesAssumption DEF ReaderInit, IsDocument
    <2>2. Len(body) \in Nat
      BY <2>1
    <2>3. owner = <<>> /\ stack = <<0>> /\ Len(owner) = 0
      BY DEF ReaderInit
    <2>4. owner \in Seq({Gone} \cup 0 .. Len(body)) /\ Len(owner) <= Len(body)
      BY <2>2, <2>3
    <2>5. stack \in Seq(0 .. Len(owner)) /\ stack # <<>> /\ Head(stack) = 0
      <3>1. 0 \in 0 .. Len(owner)
        BY <2>3
      <3>2. QED
        BY <2>3, <3>1
    <2>6. QED
      BY <2>4, <2>5 DEF ReaderInit, ReaderTypes
  <1>2. at = 1 /\ Len(stack) = 1 /\ DOMAIN owner = {}
    BY DEF ReaderInit, at
  <1>3. QED
    BY <1>1, <1>2, DepthAtStart DEF ReaderInit, ReaderInv, NoGuessedTree

(* Where a token is put is the innermost element it is in. *)
LEMMA LastSurrounds ==
  ASSUME ReaderInv, verdict = "none", ~damaged, at <= Len(body)
  PROVE  \/ Len(stack) = 1 /\ Last(stack) = 0 /\ Depth(body, at) = 0
         \/ Len(stack) > 1 /\ Last(stack) \in 1 .. at - 1 /\ Surrounds(body, Last(stack), at)
  <1>1. ReaderTypes /\ Len(stack) - 1 = Depth(body, at) /\ \A k \in 2 .. Len(stack) : Level(k)
    BY DEF ReaderInv
  <1>2. Len(stack) \in Nat \ {0} /\ stack[1] = 0 /\ Last(stack) = stack[Len(stack)]
    BY <1>1, Documents
  <1>3. CASE Len(stack) = 1
    BY <1>1, <1>2, <1>3
  <1>4. CASE Len(stack) > 1
    <2> DEFINE h == Last(stack)
    <2>1. Level(Len(stack))
      BY <1>1, <1>2, <1>4
    <2>2. /\ h \in 1 .. Len(owner) /\ IsStart(body[h]) /\ Depth(body, h) = Len(stack) - 2
          /\ \A m \in h + 1 .. at : Depth(body, m) >= Len(stack) - 1
      BY <1>2, <2>1 DEF Level
    <2>3. \A m \in h + 1 .. at : Depth(body, m) \in Int
      <3>1. SUFFICES ASSUME NEW m \in h + 1 .. at PROVE Depth(body, m) \in Int
        OBVIOUS
      <3>2. m \in Nat \ {0}
        BY <1>1, <2>2, Documents
      <3>3. QED
        BY <3>2, DepthMoves
    <2>4. Depth(body, at) = Depth(body, h) + 1
      BY <1>1, <1>2, <2>2
    <2>5. \A m \in h + 1 .. at : Depth(body, m) > Depth(body, h)
      BY <1>2, <2>2, <2>3
    <2>6. h \in 1 .. at - 1
      BY <1>1, <2>2, Documents DEF at
    <2>7. QED
      BY <1>4, <2>2, <2>4, <2>5, <2>6 DEF Surrounds
  <1>5. QED
    BY <1>2, <1>3, <1>4

(* An end tag of a whole body has the name of the innermost open element. *)
LEMMA EndFits ==
  ASSUME ReaderInv, ~damaged, Token("end")
  PROVE  Len(stack) > 1 /\ body[Last(stack)].word = body[at].word
  <1>1. /\ ReaderTypes /\ verdict = "none" /\ at <= Len(body) /\ body[at].tag = "end"
    BY DEF ReaderInv, Token
  <1>2. /\ IsDocument(body) /\ at \in DOMAIN body /\ at \in Nat \ {0} /\ Len(body) \in Nat
        /\ DOMAIN body = 1 .. Len(body)
    BY <1>1, Documents
  <1>3. PICK h \in 1 .. at - 1 : body[h].word = body[at].word /\ Surrounds(body, h, at)
    BY <1>1, <1>2 DEF IsDocument, Nested
  <1>4. \A m \in 1 .. at : Depth(body, m) \in Int /\ Depth(body, m) >= 0
    <2>1. SUFFICES ASSUME NEW m \in 1 .. at PROVE Depth(body, m) \in Int /\ Depth(body, m) >= 0
      OBVIOUS
    <2>2. m \in Nat \ {0} /\ m \in 1 .. Len(body)
      BY <1>1, <1>2
    <2>3. QED
      BY <1>2, <2>2, DepthMoves DEF IsDocument
  <1>5. /\ Depth(body, at) = Depth(body, h) + 1
        /\ \A m \in h + 1 .. at : Depth(body, m) > Depth(body, h)
    BY <1>3 DEF Surrounds
  <1>6. Depth(body, at) > 0
    BY <1>2, <1>3, <1>4, <1>5
  <1>7. PICK l \in 1 .. at - 1 : l = Last(stack) /\ Len(stack) > 1 /\ Surrounds(body, l, at)
    BY <1>1, <1>6, LastSurrounds
  <1>8. /\ Depth(body, at) = Depth(body, l) + 1
        /\ \A m \in l + 1 .. at : Depth(body, m) > Depth(body, l)
    BY <1>7 DEF Surrounds
  <1>9. h = l
    <2>1. CASE h < l
      <3>1. l \in h + 1 .. at
        BY <1>2, <1>7, <2>1
      <3>2. QED
        BY <1>2, <1>4, <1>5, <1>7, <1>8, <1>3, <3>1
    <2>2. CASE l < h
      <3>1. h \in l + 1 .. at
        BY <1>2, <1>3, <2>2
      <3>2. QED
        BY <1>2, <1>4, <1>5, <1>7, <1>8, <1>3, <3>1
    <2>3. QED
      BY <1>2, <1>3, <1>7, <2>1, <2>2
  <1>10. QED
    BY <1>3, <1>7, <1>9

LEMMA PlacesOf == ASSUME NEW S, NEW s \in Seq(S) PROVE DOMAIN s = 1 .. Len(s) /\ Len(s) \in Nat
  OBVIOUS

LEMMA OneLess ==
  ASSUME NEW S, NEW s \in Seq(S), Len(s) > 1
  PROVE  /\ Front(s) \in Seq(S) /\ Len(Front(s)) = Len(s) - 1
         /\ \A k \in 1 .. Len(s) - 1 : Front(s)[k] = s[k]
  <1> DEFINE n == Len(s) - 1
  <1>1. Len(s) \in Nat /\ \A i \in 1 .. Len(s) : s[i] \in S
    OBVIOUS
  <1>2. n \in Nat \ {0} /\ 1 \in 1 .. Len(s) /\ n \in 1 .. Len(s)
    BY <1>1
  <1>3. \A i \in 1 .. n : s[i] \in S
    BY <1>1, <1>2
  <1>4. /\ SubSeq(s, 1, n) \in Seq(S) /\ Len(SubSeq(s, 1, n)) = n
        /\ \A i \in 1 .. n : SubSeq(s, 1, n)[i] = s[i]
    BY <1>1, <1>2, <1>3, SubSeqProperties
  <1>5. QED
    BY <1>4 DEF Front

(* A token goes into the innermost open node. *)
LEMMA Attached ==
  ASSUME ReaderTypes, at <= Len(body), Attach, UNCHANGED body
  PROVE  /\ owner' \in Seq({Gone} \cup 0 .. Len(body)) /\ Len(owner') = Len(owner) + 1
         /\ Len(owner') <= Len(body) /\ at' = at + 1
         /\ DOMAIN owner' = 1 .. at
         /\ owner'[at] = Last(stack)
         /\ \A n \in 1 .. Len(owner) : owner'[n] = owner[n]
  <1>1. /\ Len(owner) \in Nat /\ Len(body) \in Nat /\ Len(stack) \in Nat \ {0}
        /\ Last(stack) = stack[Len(stack)] /\ at = Len(owner) + 1
    BY Documents DEF at
  <1>2. stack[Len(stack)] \in 0 .. Len(owner)
    BY <1>1 DEF ReaderTypes
  <1>3. Last(stack) \in {Gone} \cup 0 .. Len(body)
    BY <1>1, <1>2 DEF ReaderTypes
  <1>4. /\ owner' \in Seq({Gone} \cup 0 .. Len(body)) /\ Len(owner') = Len(owner) + 1
        /\ \A n \in 1 .. Len(owner) : owner'[n] = owner[n]
        /\ owner'[Len(owner) + 1] = Last(stack)
    BY <1>3, AppendProperties DEF ReaderTypes, Attach
  <1>5. DOMAIN owner' = 1 .. Len(owner')
    BY <1>4
  <1>6. at' = at + 1
    BY <1>1, <1>4 DEF at
  <1>7. QED
    BY <1>1, <1>4, <1>5, <1>6

(* What was in place stays there, and so is what comes. *)
LEMMA StaysInPlace ==
  ASSUME ReaderInv, verdict = "none", ~damaged, at <= Len(body), Attach, UNCHANGED body
  PROVE  \A n \in DOMAIN owner' : InPlace(n)'
  <1>1. ReaderTypes /\ \A n \in DOMAIN owner : InPlace(n)
    BY DEF ReaderInv
  <1>2. SUFFICES ASSUME NEW n \in DOMAIN owner'
                 PROVE  \/ owner'[n] = 0 /\ Depth(body, n) = 0
                        \/ owner'[n] \in 1 .. n - 1 /\ Surrounds(body, owner'[n], n)
    BY DEF InPlace
  <1>3. CASE n = at
    <2>1. owner'[n] = Last(stack)
      BY <1>1, <1>3, Attached
    <2>2. QED
      BY <1>3, <2>1, LastSurrounds
  <1>4. CASE n # at
    <2>1. n \in DOMAIN owner /\ owner'[n] = owner[n]
      BY <1>1, <1>2, <1>4, Attached, Documents DEF at
    <2>2. QED
      BY <1>1, <2>1 DEF InPlace
  <1>5. QED
    BY <1>3, <1>4

(* A level stays open while nothing goes out of it. *)
LEMMA LevelStays ==
  ASSUME ReaderTypes, at <= Len(body), Attach, UNCHANGED body,
         NEW k \in Nat, k >= 2, Level(k), stack'[k] = stack[k], Depth(body, at + 1) >= k - 1
  PROVE  Level(k)'
  <1>1. /\ stack[k] \in 1 .. Len(owner) /\ IsStart(body[stack[k]]) /\ Depth(body, stack[k]) = k - 2
        /\ \A m \in stack[k] + 1 .. at : Depth(body, m) >= k - 1
    BY DEF Level
  <1>2. Len(owner') = Len(owner) + 1 /\ at' = at + 1 /\ Len(owner) \in Nat /\ at \in Nat
    BY Attached, Documents
  <1>3. \A m \in stack[k] + 1 .. at + 1 : m = at + 1 \/ m \in stack[k] + 1 .. at
    BY <1>1, <1>2
  <1>4. stack[k] \in 1 .. Len(owner')
    BY <1>1, <1>2
  <1>5. \A m \in stack[k] + 1 .. at' : Depth(body, m) >= k - 1
    BY <1>1, <1>2, <1>3
  <1>6. QED
    BY <1>1, <1>4, <1>5 DEF Level

(* A token that opens or closes as much here as in the document. *)
LEMMA InStep ==
  ASSUME ReaderInv, verdict = "none", at <= Len(body), Attach, UNCHANGED <<body, verdict, damaged>>,
         stack' \in Seq(0 .. at), stack' # <<>>, Head(stack') = 0,
         Len(stack') - Len(stack) = Depth(body, at + 1) - Depth(body, at),
         ~damaged => \A k \in 2 .. Len(stack') : Level(k)'
  PROVE  ReaderInv'
  <1>1. ReaderTypes
    BY DEF ReaderInv
  <1>2. /\ at \in Nat \ {0} /\ Len(stack) \in Nat /\ Len(stack') \in Nat /\ Len(body) \in Nat
        /\ at = Len(owner) + 1 /\ at' = at + 1 /\ Len(owner') = Len(owner) + 1
        /\ Len(owner) \in Nat
    BY <1>1, Documents, Attached DEF at
  <1>3. Depth(body, at) \in Int /\ Depth(body, at + 1) \in Int
    BY <1>2, DepthMoves
  <1>4. Depth(body, at)' = Depth(body, at + 1)
    BY <1>2
  <1>5. ReaderTypes'
    <2>1. /\ owner' \in Seq({Gone} \cup 0 .. Len(body')) /\ Len(owner') <= Len(body')
      BY <1>1, Attached
    <2>2. stack' \in Seq(0 .. Len(owner'))
      BY <1>2
    <2>3. QED
      BY <1>1, <2>1, <2>2 DEF ReaderTypes
  <1>6. ASSUME ~damaged'
        PROVE  /\ verdict' # "syntax"
               /\ \A n \in DOMAIN owner' : InPlace(n)'
               /\ verdict' = "none" =>
                    /\ Len(stack') - 1 = Depth(body, at)'
                    /\ \A k \in 2 .. Len(stack') : Level(k)'
               /\ verdict' = "root" => at' > Len(body')
    <2>1. \A n \in DOMAIN owner' : InPlace(n)'
      BY <1>6, StaysInPlace
    <2>2. Len(stack) - 1 = Depth(body, at)
      BY <1>6 DEF ReaderInv
    <2>3. Len(stack') - 1 = Depth(body, at)'
      <3>1. Len(stack') = Len(stack) + (Depth(body, at + 1) - Depth(body, at))
        BY <1>2, <1>3
      <3>2. QED
        BY <1>2, <1>3, <1>4, <2>2, <3>1
    <2>4. \A k \in 2 .. Len(stack') : Level(k)'
      BY <1>6
    <2>5. verdict' = "none"
      OBVIOUS
    <2>6. QED
      BY <2>1, <2>3, <2>4, <2>5
  <1>7. ASSUME damaged'
        PROVE  Len(stack') - 1 # Depth(body, at)'
    <2>1. Len(stack) - 1 # Depth(body, at)
      BY <1>2, <1>7 DEF ReaderInv
    <2>2. QED
      BY <1>2, <1>3, <1>4, <2>1
  <1>8. NoGuessedTree'
    BY DEF NoGuessedTree
  <1>9. QED
    BY <1>5, <1>6, <1>7, <1>8 DEF ReaderInv

LEMMA StartKept == ReaderInv /\ StartElement => ReaderInv'
  <1> SUFFICES ASSUME ReaderInv, StartElement PROVE ReaderInv'
    OBVIOUS
  <1>1. /\ ReaderTypes /\ verdict = "none" /\ at <= Len(body) /\ body[at].tag = "start"
        /\ Attach /\ stack' = Append(stack, at) /\ UNCHANGED <<body, verdict, damaged>>
    BY DEF StartElement, Token, ReaderInv
  <1>2. /\ at \in Nat \ {0} /\ at = Len(owner) + 1 /\ at' = at + 1 /\ Len(owner') = at
        /\ Len(owner) \in Nat /\ Len(stack) \in Nat \ {0} /\ stack[1] = 0
    BY <1>1, Documents, Attached DEF at
  <1>3. /\ stack' \in Seq(0 .. at) /\ Len(stack') = Len(stack) + 1
        /\ \A k \in 1 .. Len(stack) : stack'[k] = stack[k]
        /\ stack'[Len(stack) + 1] = at
    <2>1. stack \in Seq(0 .. at)
      BY <1>1, <1>2, SeqMonotonic DEF ReaderTypes
    <2>2. at \in 0 .. at
      BY <1>2
    <2>3. QED
      BY <1>1, <2>1, <2>2, AppendProperties
  <1>4. stack' # <<>> /\ Head(stack') = 0
    <2>1. Len(stack') > 0 /\ stack'[1] = 0
      BY <1>2, <1>3
    <2>2. QED
      BY <1>3, <2>1
  <1>5. Depth(body, at) \in Int /\ Depth(body, at + 1) = Depth(body, at) + 1
    BY <1>1, <1>2, DepthMoves
  <1>6. ASSUME ~damaged, NEW k \in 2 .. Len(stack')
        PROVE  Level(k)'
    <2>1. Len(stack) - 1 = Depth(body, at) /\ \A l \in 2 .. Len(stack) : Level(l)
      BY <1>1, <1>6 DEF ReaderInv
    <2>2. CASE k \in 2 .. Len(stack)
      <3>1. stack'[k] = stack[k] /\ Level(k) /\ k \in Nat /\ k >= 2 /\ Depth(body, at + 1) >= k - 1
        BY <1>2, <1>3, <1>5, <2>1, <2>2
      <3>2. QED
        BY <1>1, <3>1, LevelStays
    <2>3. CASE k = Len(stack) + 1
      <3>1. stack'[k] = at /\ Depth(body, at) = k - 2 /\ Depth(body, at + 1) = k - 1
        BY <1>2, <1>3, <1>5, <2>1, <2>3
      <3>2. \A m \in at + 1 .. at' : m = at + 1
        BY <1>2
      <3>3. \A m \in at + 1 .. at' : Depth(body, m) >= k - 1
        BY <1>2, <2>3, <3>1, <3>2
      <3>4. at \in 1 .. Len(owner')
        BY <1>2
      <3>5. QED
        BY <1>1, <3>1, <3>3, <3>4 DEF Level, IsStart
    <2>4. QED
      BY <1>2, <1>3, <1>6, <2>2, <2>3
  <1>7. Len(stack') - Len(stack) = Depth(body, at + 1) - Depth(body, at)
    BY <1>2, <1>3, <1>5
  <1>8. QED
    BY <1>1, <1>3, <1>4, <1>6, <1>7, InStep

LEMMA TextKept == ReaderInv /\ CharData => ReaderInv'
  <1> SUFFICES ASSUME ReaderInv, CharData PROVE ReaderInv'
    OBVIOUS
  <1>1. /\ ReaderTypes /\ verdict = "none" /\ at <= Len(body) /\ body[at].tag = "text"
        /\ Attach /\ UNCHANGED <<body, stack, verdict, damaged>>
    BY DEF CharData, Token, ReaderInv
  <1>2. /\ at \in Nat \ {0} /\ at = Len(owner) + 1 /\ Len(owner) \in Nat
        /\ Len(stack) \in Nat \ {0}
    BY <1>1, Documents DEF at
  <1>3. stack' \in Seq(0 .. at) /\ stack' # <<>> /\ Head(stack') = 0
    BY <1>1, <1>2, SeqMonotonic DEF ReaderTypes
  <1>4. Depth(body, at) \in Int /\ Depth(body, at + 1) = Depth(body, at)
    BY <1>1, <1>2, DepthMoves
  <1>5. ASSUME ~damaged, NEW k \in 2 .. Len(stack')
        PROVE  Level(k)'
    <2>1. Len(stack) - 1 = Depth(body, at) /\ \A l \in 2 .. Len(stack) : Level(l)
      BY <1>1, <1>5 DEF ReaderInv
    <2>2. stack'[k] = stack[k] /\ Level(k) /\ k \in Nat /\ k >= 2 /\ Depth(body, at + 1) >= k - 1
      BY <1>1, <1>2, <1>4, <1>5, <2>1
    <2>3. QED
      BY <1>1, <2>2, LevelStays
  <1>6. Len(stack') - Len(stack) = Depth(body, at + 1) - Depth(body, at)
    BY <1>1, <1>2, <1>4
  <1>7. QED
    BY <1>1, <1>3, <1>5, <1>6, InStep

LEMMA EndKept == ReaderInv /\ EndElement => ReaderInv'
  <1> SUFFICES ASSUME ReaderInv, EndElement PROVE ReaderInv'
    OBVIOUS
  <1>1. /\ ReaderTypes /\ verdict = "none" /\ at <= Len(body) /\ body[at].tag = "end"
        /\ Attach /\ UNCHANGED <<body, damaged>>
    BY DEF EndElement, Token, ReaderInv
  <1>2. /\ at \in Nat \ {0} /\ at = Len(owner) + 1 /\ Len(owner) \in Nat
        /\ Len(stack) \in Nat \ {0} /\ stack[1] = 0
    BY <1>1, Documents DEF at
  <1>3. CASE Len(stack) > 1 /\ body[Last(stack)].word = body[at].word
    <2>1. stack' = Front(stack) /\ UNCHANGED verdict
      BY <1>3 DEF EndElement
    <2>2. /\ stack' \in Seq(0 .. at) /\ Len(stack') = Len(stack) - 1
          /\ \A k \in 1 .. Len(stack) - 1 : stack'[k] = stack[k]
      <3>1. stack \in Seq(0 .. at)
        BY <1>1, <1>2, SeqMonotonic DEF ReaderTypes
      <3>2. QED
        BY <1>3, <2>1, <3>1, OneLess
    <2>3. stack' # <<>> /\ Head(stack') = 0
      <3>1. Len(stack') > 0 /\ stack'[1] = 0
        BY <1>2, <1>3, <2>2
      <3>2. QED
        BY <2>2, <3>1
    <2>4. Depth(body, at) \in Int /\ Depth(body, at + 1) = Depth(body, at) - 1
      BY <1>1, <1>2, DepthMoves
    <2>5. ASSUME ~damaged, NEW k \in 2 .. Len(stack')
          PROVE  Level(k)'
      <3>1. Len(stack) - 1 = Depth(body, at) /\ \A l \in 2 .. Len(stack) : Level(l)
        BY <1>1, <2>5 DEF ReaderInv
      <3>2. k \in 2 .. Len(stack) - 1 /\ Len(stack) \in Nat
        BY <1>2, <2>2, <2>5
      <3>3. stack'[k] = stack[k] /\ Level(k) /\ k \in Nat /\ k >= 2
        BY <2>2, <3>1, <3>2
      <3>4. Depth(body, at + 1) >= k - 1
        BY <2>4, <3>1, <3>2
      <3>5. QED
        BY <1>1, <3>3, <3>4, LevelStays
    <2>6. Len(stack') - Len(stack) = Depth(body, at + 1) - Depth(body, at)
      BY <1>2, <2>2, <2>4
    <2>7. QED
      BY <1>1, <2>1, <2>2, <2>3, <2>5, <2>6, InStep
  <1>4. CASE ~(Len(stack) > 1 /\ body[Last(stack)].word = body[at].word)
    <2>1. damaged /\ verdict' = "syntax" /\ UNCHANGED stack
      BY <1>4, EndFits DEF EndElement, ReaderInv
    <2>2. /\ owner' \in Seq({Gone} \cup 0 .. Len(body)) /\ Len(owner') = Len(owner) + 1
          /\ Len(owner') <= Len(body)
      BY <1>1, Attached
    <2>3. stack' \in Seq(0 .. Len(owner'))
      BY <1>1, <1>2, <2>1, <2>2, SeqMonotonic DEF ReaderTypes
    <2>4. ReaderTypes'
      BY <1>1, <2>1, <2>2, <2>3 DEF ReaderTypes
    <2>5. QED
      BY <1>1, <2>1, <2>4 DEF ReaderInv, NoGuessedTree
  <1>5. QED
    BY <1>3, <1>4

LEMMA EndOfBodyKept == ReaderInv /\ EndOfBody => ReaderInv'
  <1> SUFFICES ASSUME ReaderInv, EndOfBody PROVE ReaderInv'
    OBVIOUS
  <1>1. /\ ReaderTypes /\ verdict = "none" /\ at > Len(body)
        /\ UNCHANGED <<body, owner, stack, damaged>>
        /\ verdict' = IF Complete THEN "root" ELSE "syntax"
    BY DEF EndOfBody, ReaderInv
  <1>2. Depth(body, at) = 0 /\ Len(stack) \in Nat /\ at' = at
    <2>1. at = Len(body) + 1
      BY <1>1, Documents
    <2>2. Depth(body, Len(body) + 1) = 0
      BY <1>1, Documents DEF IsDocument
    <2>3. QED
      BY <1>1, <2>1, <2>2, Documents DEF at
  <1>3. ReaderTypes'
    BY <1>1 DEF ReaderTypes
  <1>4. CASE damaged
    <2>1. Complete => Elements = {}
      BY <1>1, <1>2, <1>4 DEF ReaderInv, Complete
    <2>2. Elements' = Elements
      BY <1>1 DEF Elements
    <2>3. QED
      BY <1>1, <1>3, <1>4, <2>1, <2>2 DEF ReaderInv, NoGuessedTree
  <1>5. CASE ~damaged
    <2>1. Complete
      BY <1>1, <1>2, <1>5 DEF ReaderInv, Complete
    <2>2. \A n \in DOMAIN owner' : InPlace(n)'
      BY <1>1, <1>5 DEF ReaderInv, InPlace
    <2>3. QED
      BY <1>1, <1>2, <1>3, <1>5, <2>1, <2>2 DEF ReaderInv, NoGuessedTree
  <1>6. QED
    BY <1>1, <1>4, <1>5 DEF ReaderTypes

(* What is lost has no place. *)
LEMMA Lost ==
  ASSUME ReaderTypes, NEW n \in at .. Len(body), UNCHANGED body,
         owner' = owner \o [i \in 1 .. n + 1 - at |-> Gone]
  PROVE  /\ owner' \in Seq({Gone} \cup 0 .. Len(body)) /\ Len(owner') = n /\ at' = n + 1
         /\ DOMAIN owner' = 1 .. n
         /\ \A i \in 1 .. Len(owner) : owner'[i] = owner[i]
         /\ \A i \in at .. n : owner'[i] = Gone
  <1> DEFINE lost == [i \in 1 .. n + 1 - at |-> Gone]
             S == {Gone} \cup 0 .. Len(body)
  <1>1. /\ at = Len(owner) + 1 /\ Len(owner) \in Nat /\ n \in Nat /\ Len(body) \in Nat
        /\ n + 1 - at \in Nat /\ owner \in Seq(S)
    BY Documents DEF at, ReaderTypes
  <1>2. /\ lost \in Seq(S) /\ Len(lost) = n + 1 - at
        /\ \A i \in 1 .. n + 1 - at : lost[i] = Gone
    BY <1>1
  <1> HIDE DEF lost, S
  <1>3. owner' = owner \o lost
    BY DEF lost
  <1>4. /\ owner' \in Seq(S) /\ Len(owner') = Len(owner) + Len(lost)
        /\ \A i \in 1 .. Len(owner) + Len(lost) :
              owner'[i] = IF i <= Len(owner) THEN owner[i] ELSE lost[i - Len(owner)]
    BY <1>1, <1>2, <1>3, ConcatProperties
  <1>5. Len(owner') = n /\ at' = n + 1
    BY <1>1, <1>2, <1>4 DEF at
  <1>6. \A i \in 1 .. Len(owner) : owner'[i] = owner[i]
    BY <1>1, <1>2, <1>4
  <1>7. ASSUME NEW i \in at .. n PROVE owner'[i] = Gone
    <2>1. i - Len(owner) \in 1 .. n + 1 - at /\ i \in 1 .. Len(owner) + Len(lost) /\ ~(i <= Len(owner))
      BY <1>1, <1>2
    <2>2. QED
      BY <1>2, <1>4, <2>1
  <1>8. DOMAIN owner' = 1 .. Len(owner')
    BY <1>4, PlacesOf
  <1>9. QED
    BY <1>4, <1>5, <1>6, <1>7, <1>8 DEF S

(* A tag that is lost was opened or closed in the document only, and of a   *)
(* body that ends early something is still open, once it has begun.         *)
LEMMA DamageKept == ReaderInv /\ Damage => ReaderInv'
  <1> SUFFICES ASSUME ReaderInv, Damage PROVE ReaderInv'
    OBVIOUS
  <1>1. /\ ReaderTypes /\ verdict = "none" /\ ~damaged /\ damaged' = TRUE /\ at <= Len(body)
        /\ UNCHANGED <<body, stack, verdict>>
        /\ Len(stack) - 1 = Depth(body, at)
    BY DEF Damage, ReaderInv
  <1>2. PICK n :
          /\ n = at \/ n = Len(body)
          /\ \E i \in at .. n : IsTag(body[i])
          /\ owner' = owner \o [i \in 1 .. n + 1 - at |-> Gone]
    BY DEF Damage
  <1>3. /\ at \in Nat \ {0} /\ at = Len(owner) + 1 /\ Len(owner) \in Nat /\ Len(body) \in Nat
        /\ IsDocument(body) /\ DOMAIN body = 1 .. Len(body) /\ DOMAIN owner = 1 .. Len(owner)
    BY <1>1, Documents DEF at
  <1>4. n \in at .. Len(body)
    <2>1. at \in Nat /\ Len(body) \in Nat /\ at <= Len(body)
      BY <1>1, <1>3
    <2>2. n = at \/ n = Len(body)
      BY <1>2
    <2>3. QED
      BY <2>1, <2>2
  <1>5. /\ owner' \in Seq({Gone} \cup 0 .. Len(body)) /\ Len(owner') = n /\ at' = n + 1
        /\ DOMAIN owner' = 1 .. n
        /\ \A i \in 1 .. Len(owner) : owner'[i] = owner[i]
        /\ \A i \in at .. n : owner'[i] = Gone
    BY <1>1, <1>2, <1>4, Lost
  <1>6. ReaderTypes'
    <2>1. n \in Nat /\ Len(owner) <= n /\ n <= Len(body)
      BY <1>3, <1>4
    <2>2. 0 .. Len(owner) \subseteq 0 .. Len(owner')
      BY <1>3, <1>5, <2>1
    <2>3. stack' \in Seq(0 .. Len(owner'))
      BY <1>1, <2>2, SeqMonotonic DEF ReaderTypes
    <2>4. Len(owner') <= Len(body)
      BY <1>5, <2>1
    <2>5. QED
      BY <1>1, <1>5, <2>3, <2>4 DEF ReaderTypes
  <1>7. Depth(body, at) \in Int
    BY <1>3, DepthMoves
  <1>8. CASE n = at
    <2>1. body[at].tag \in {"start", "end"}
      <3>1. PICK i \in at .. n : IsTag(body[i])
        BY <1>2
      <3>2. i = at
        BY <1>3, <1>8
      <3>3. body[at].tag # "text"
        BY <3>1, <3>2 DEF IsTag
      <3>4. at \in DOMAIN body
        BY <1>1, <1>3
      <3>5. QED
        BY <1>3, <3>3, <3>4 DEF IsDocument
    <2>2. Depth(body, at + 1) = Depth(body, at) + 1 \/ Depth(body, at + 1) = Depth(body, at) - 1
      <3>1. at \in Nat \ {0}
        BY <1>3
      <3>2. QED
        BY <2>1, <3>1, DepthMoves
    <2>3. Len(stack') - 1 # Depth(body, at)'
      <3>1. Depth(body, at)' = Depth(body, at + 1) /\ Len(stack') - 1 = Depth(body, at)
        BY <1>1, <1>5, <1>8
      <3>2. QED
        BY <1>7, <2>2, <3>1
    <2>4. QED
      BY <1>1, <1>6, <2>3 DEF ReaderInv, NoGuessedTree
  <1>9. CASE n = Len(body)
    <2>1. at' > Len(body') /\ Depth(body, at)' = 0
      BY <1>1, <1>3, <1>5, <1>9 DEF IsDocument
    <2>2. ASSUME Elements' # {} PROVE Depth(body, at) > 0
      <3>1. PICK i \in DOMAIN owner' : IsStart(body[i]) /\ owner'[i] # Gone
        BY <1>1, <2>2 DEF Elements
      <3>2. i \in 1 .. at - 1
        <4>1. i \in 1 .. n /\ i \notin at .. n
          BY <1>5, <3>1
        <4>2. at \in Nat /\ n \in Nat
          BY <1>3, <1>4
        <4>3. QED
          BY <4>1, <4>2
      <3>3. at \in DOMAIN body /\ \E j \in at .. Len(body) : IsTag(body[j])
        BY <1>1, <1>2, <1>3, <1>9
      <3>4. QED
        BY <1>3, <3>1, <3>2, <3>3 DEF IsDocument, Rooted
    <2>3. Len(stack') - 1 # Depth(body, at)' \/ Elements' = {}
      <3>1. Depth(body, at)' = 0 /\ Len(stack') - 1 = Depth(body, at)
        BY <1>1, <2>1
      <3>2. CASE Elements' # {}
        <4>1. Depth(body, at) > 0
          BY <2>2, <3>2
        <4>2. Depth(body, at) # 0
          BY <1>7, <4>1
        <4>3. QED
          BY <3>1, <4>2
      <3>3. QED
        BY <3>2
    <2>4. QED
      BY <1>1, <1>6, <2>1, <2>3 DEF ReaderInv, NoGuessedTree
  <1>10. QED
    BY <1>2, <1>8, <1>9

LEMMA ReaderStutters == ReaderInv /\ UNCHANGED readerVars => ReaderInv'
  <1> SUFFICES ASSUME ReaderInv, UNCHANGED readerVars PROVE ReaderInv'
    OBVIOUS
  <1>1. UNCHANGED <<body, owner, stack, verdict, damaged>> /\ at' = at
    BY DEF readerVars, at
  <1>2. ReaderTypes' /\ NoGuessedTree' /\ Elements' = Elements
    BY <1>1 DEF ReaderInv, ReaderTypes, NoGuessedTree, Elements
  <1>3. (\A n \in DOMAIN owner : InPlace(n)) => \A n \in DOMAIN owner' : InPlace(n)'
    BY <1>1 DEF InPlace
  <1>4. (\A k \in 2 .. Len(stack) : Level(k)) => \A k \in 2 .. Len(stack') : Level(k)'
    BY <1>1 DEF Level
  <1>5. QED
    BY <1>1, <1>2, <1>3, <1>4 DEF ReaderInv

LEMMA ReaderSteps == ReaderInv /\ [ReaderNext]_readerVars => ReaderInv'
  BY StartKept, EndKept, TextKept, EndOfBodyKept, DamageKept, ReaderStutters DEF ReaderNext

-----------------------------------------------------------------------------
(* soapCall *)

(* While the body is read nothing is decoded, and what was damaged is not.  *)
CallInv ==
  /\ sent \in Answers /\ body = sent.body
  /\ phase \in {"reading", "decoded", "returned", "done"}
  /\ outcome \in {"none", "ok", "syntax", "fault", "status", "noreturn",
                  "malformed", "failed", "notoken"}
  /\ window \in Nat
  /\ phase # "reading" => verdict # "none"
  /\ phase \in {"reading", "decoded"} => outcome = "none"
  /\ damaged => phase \in {"reading", "done"} /\ outcome \in {"none", "syntax", "status", "noreturn"}

LEMMA DurationsAreNat ==
  ASSUME NEW v, IsPositive(v)
  PROVE  Durations(v) \subseteq Nat
  <1>1. CASE IsOversize(v)
    BY <1>1, SoapAssumption DEF Durations, IsOversize, IsOne
  <1>2. CASE ~IsOversize(v)
    <2>1. asFloat(v) \in Int /\ asFloat(v) > 0
      BY <1>2, SoapAssumption DEF IsPositive, asFloat, IsOne
    <2>2. asFloat(v) \div 1000 \in Nat
      BY <2>1
    <2>3. QED
      BY <1>2, <2>2 DEF Durations
  <1>3. QED
    BY <1>1, <1>2

LEMMA Delays == \A v : FloodDelay(v) \subseteq Nat
  BY DurationsAreNat, SoapAssumption DEF FloodDelay

LEMMA CallInitial == SoapInit => CallInv
  BY DEF SoapInit, ReaderInit, CallInv

LEMMA ReadKept == CallInv /\ Read => CallInv'
  <1> SUFFICES ASSUME CallInv, Read PROVE CallInv'
    OBVIOUS
  <1>1. verdict = "none" /\ UNCHANGED callVars /\ UNCHANGED body
    BY DEF Read, ReaderNext, StartElement, EndElement, CharData, Token, EndOfBody, Damage
  <1>2. phase = "reading" /\ outcome = "none"
    BY <1>1 DEF CallInv
  <1>3. QED
    BY <1>1, <1>2 DEF CallInv, callVars

LEMMA DecodeKept == CallInv /\ ReaderInv /\ Decode => CallInv'
  <1> SUFFICES ASSUME CallInv, ReaderInv, Decode PROVE CallInv'
    OBVIOUS
  <1>1. phase = "reading" /\ verdict # "none" /\ UNCHANGED <<readerVars, sent, window>> /\ outcome = "none"
    BY DEF Decode, CallInv
  <1>2. UNCHANGED <<body, verdict, damaged>>
    BY <1>1 DEF readerVars
  <1>3. \/ phase' = "done" /\ outcome' \in {"syntax", "status", "noreturn"}
        \/ phase' = "done" /\ outcome' = "fault" /\ verdict = "root" /\ Find("Fault") # {}
        \/ phase' = "decoded" /\ UNCHANGED outcome /\ verdict = "root" /\ Find("return") # {}
    <2>1. verdict \in {"root", "syntax"}
      BY <1>1 DEF ReaderInv, ReaderTypes
    <2>2. QED
      BY <2>1 DEF Decode, Finish
  <1>4. damaged /\ verdict = "root" => \A name : Find(name) = {}
    BY DEF ReaderInv, NoGuessedTree, Find
  <1>5. QED
    BY <1>1, <1>2, <1>3, <1>4 DEF CallInv

LEMMA ExecKept == CallInv /\ Exec => CallInv'
  <1> SUFFICES ASSUME CallInv, Exec PROVE CallInv'
    OBVIOUS
  <1>1. phase = "decoded" /\ UNCHANGED <<readerVars, sent>>
    BY DEF Exec
  <1>2. window' \in Nat
    BY Delays DEF Exec, CallInv
  <1>3. phase' \in {"returned", "done"} /\ outcome' \in {"ok", "malformed", "failed"}
    BY DEF Exec, Finish
  <1>4. ~damaged /\ verdict # "none" /\ UNCHANGED <<body, verdict, damaged>>
    BY <1>1 DEF CallInv, readerVars
  <1>5. QED
    BY <1>1, <1>2, <1>3, <1>4 DEF CallInv

LEMMA LoginKept == CallInv /\ Login => CallInv'
  <1> SUFFICES ASSUME CallInv, Login PROVE CallInv'
    OBVIOUS
  <1>1. phase = "decoded" /\ UNCHANGED <<readerVars, sent, window>>
    BY DEF Login
  <1>2. phase' = "done" /\ outcome' \in {"ok", "notoken"}
    BY DEF Login, Finish
  <1>3. ~damaged /\ verdict # "none" /\ UNCHANGED <<body, verdict, damaged>>
    BY <1>1 DEF CallInv, readerVars
  <1>4. QED
    BY <1>1, <1>2, <1>3 DEF CallInv

LEMMA CallSteps == ReaderInv /\ CallInv /\ [SoapNext]_soapVars => ReaderInv' /\ CallInv'
  <1> SUFFICES ASSUME ReaderInv, CallInv, [SoapNext]_soapVars PROVE ReaderInv' /\ CallInv'
    OBVIOUS
  <1>1. [ReaderNext]_readerVars
    BY DEF SoapNext, Read, Decode, Exec, Login, soapVars
  <1>2. ReaderInv'
    BY <1>1, ReaderSteps
  <1>3. CASE UNCHANGED soapVars
    <2>1. UNCHANGED <<body, verdict, damaged, sent, phase, outcome, window>>
      BY <1>3 DEF soapVars, readerVars, callVars
    <2>2. CallInv'
      BY <2>1 DEF CallInv
    <2>3. QED
      BY <1>2, <2>2
  <1>4. QED
    BY <1>2, <1>3, ReadKept, DecodeKept, ExecKept, LoginKept DEF SoapNext

-----------------------------------------------------------------------------
(* Theorems *)

(* Reading keeps the tree as deep as the document, for all documents.       *)
THEOREM ReaderInvariance == ReaderSpec => []ReaderInv
  BY ReaderInitial, ReaderSteps, PTL DEF ReaderSpec

(* The same while soapCall reads an answer, and what it makes of it         *)
(* (soap.go:53-85).                                                         *)
THEOREM CallInvariance == SoapSpec => [](ReaderInv /\ CallInv)
  <1>1. SoapInit => ReaderInv /\ CallInv
    BY ReaderInitial, CallInitial DEF SoapInit
  <1>2. QED
    BY <1>1, CallSteps, PTL DEF SoapSpec

(* No answer takes soapCall out of its types: no window is negative, and    *)
(* the root is never closed.                                                *)
THEOREM SoapTypeCorrect == SoapSpec => []SoapTypeOK
  <1>1. ReaderInv /\ CallInv => SoapTypeOK
    BY DEF ReaderInv, ReaderTypes, CallInv, SoapTypeOK
  <1>2. QED
    BY <1>1, CallInvariance, PTL

(* Of a damaged body no tree is made that has an element (soap.go:98-99).   *)
THEOREM DamageIsSeen == SoapSpec => []NoGuessedTree
  <1>1. ReaderInv => NoGuessedTree
    BY DEF ReaderInv
  <1>2. QED
    BY <1>1, CallInvariance, PTL

(* And nothing in it is believed, wherever it happened (soap.go:62-85).     *)
THEOREM DamageNotBelieved == SoapSpec => []DamageIsNoticed
  <1>1. CallInv => DamageIsNoticed
    BY DEF CallInv, DamageIsNoticed
  <1>2. QED
    BY <1>1, CallInvariance, PTL

(* No document that arrives whole is refused, and its tree has its structure. *)
THEOREM TreeIsDocument == SoapSpec => []ReadAsWritten
  <1>1. ASSUME ReaderInv, ~damaged, verdict # "none"
        PROVE  verdict = "root" /\ at > Len(body)
    BY <1>1 DEF ReaderInv, ReaderTypes
  <1>2. ASSUME ReaderInv, ~damaged, verdict # "none", NEW n \in DOMAIN body
        PROVE  InPlace(n)
    <2>1. ReaderTypes /\ \A m \in DOMAIN owner : InPlace(m)
      BY <1>2 DEF ReaderInv
    <2>2. n \in DOMAIN owner
      BY <1>1, <1>2, <2>1, Documents DEF at
    <2>3. QED
      BY <2>1, <2>2
  <1>3. ReaderInv => ReadAsWritten
    BY <1>1, <1>2 DEF ReadAsWritten
  <1>4. QED
    BY <1>3, CallInvariance, PTL
=============================================================================
