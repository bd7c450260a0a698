------------------------------- MODULE MCSoap -------------------------------
(* Instances of SoapUse: the results KAS sends, in each of its notations.  *)
EXTENDS SoapUse

Map(f) == [entries |-> f]
List(s) == [items |-> s]
Word(w) == Text(<<w>>)

Alice == Map(<<"login">> :> Word("w1") @@ <<"size">> :> Word("10"))
Bob == Map(<<"login">> :> Word("w2") @@ <<"size">> :> Nothing)
Tagged == Map(<<"login">> :> Word("w3") @@ <<"tags">> :> List(<<Word("a"), Word("b")>>))
Stored ==
  Map(<<"login">> :> Word("w4") @@ <<"ftp_password">> :> Word("hidden")
        @@ <<"show_password">> :> Word("Y") @@ <<"old_password">> :> Nothing)
Deep == Map(<<"login">> :> Word("w5") @@ <<"hosts">> :> List(<<Stored, Stored>>))

Info(form, info, records) == [form |-> form, info |-> info, records |-> records]

Single(r) == Info("single", r, <<r>>)
Listed(rs) == Info("list", List(rs), rs)

(* What KAS sends as a struct as well as it sends it as an apache Map. *)
Plain ==
  {Single(Alice), Single(Tagged), Single(Stored), Listed(<<Alice, Bob>>), Listed(<<Stored>>),
   Listed(<<Tagged, Alice, Alice>>), Info("settings", Map(<<"settings">> :> Stored), <<Stored>>)}

MapsOnly ==
  {Listed(<<>>), Listed(<<Deep>>), Single(Deep),
   Info("index", Map(<<"0">> :> Alice @@ <<"1">> :> Bob), <<Alice, Bob>>),
   Info("index", Map(<<"0">> :> Stored), <<Stored>>),
   Info("id", Word("w9"), <<>>), Info("other", Word("TRUE"), <<>>),
   Info("other", Nothing, <<>>), Info("other", Map(<<>>), <<>>)}

Echo ==
  Map(<<"ReturnString">> :> Word("TRUE") @@ <<"KasFloodDelay">> :> Word("3")
        @@ <<"Fault">> :> Word("flood_protection"))

Result(i, notation) ==
  [kind |-> "result", status |-> 200, indented |-> TRUE, notation |-> notation, echo |-> Echo,
   string |-> "TRUE", delay |-> <<"0.5">>, above |-> <<>>, secrets |-> {"hidden"},
   form |-> i.form, info |-> i.info, records |-> i.records]

Results ==
  {Result(i, "map") : i \in Plain \cup MapsOnly} \cup {Result(i, "struct") : i \in Plain}

Delays ==
  {[Result(Listed(<<>>), "map") EXCEPT !.delay = d, !.above = a, !.string = s, !.indented = FALSE] :
     d \in {<<>>} \cup {<<w>> : w \in {"0.5", "0.0015", "0.0004", "-1", "often", "NaN", "1e14"}},
     a \in {<<>>, <<"3">>, <<"NaN">>}, s \in {"TRUE", "FALSE"}}

Faults ==
  {[kind |-> "fault", status |-> s, indented |-> i, form |-> "other",
    faultcode |-> <<Blank, "Server">>, faultstring |-> f] :
     s \in {200, 500}, i \in BOOLEAN, f \in {<<>>, <<Blank>>, <<Blank, "refused", Blank>>}}

Pages == {[kind |-> "page", status |-> s, indented |-> FALSE, form |-> "other"] : s \in {200, 502}}

Logins ==
  {[kind |-> "token", status |-> 200, indented |-> i, form |-> "other", info |-> v, token |-> <<"t1">>] :
     i \in BOOLEAN, v \in {Word("t1"), Map(<<"Response">> :> Word("t1"))}}

AllAnswers == {Sendable(a) : a \in Results \cup Delays \cup Faults \cup Pages \cup Logins}
AllBodies == {a.body : a \in AllAnswers}

Numbers ==
  "0.5" :> 500000 @@ "3" :> 3000000 @@ "-1" :> -1000000 @@ "10" :> 10000000
    @@ "0.0015" :> 1500 @@ "0.0004" :> 400

(* Of no number nothing is left; a number too large wraps to any duration.  *)
Oversizes == "NaN" :> {0} @@ "1e14" :> {0, 7000}
=============================================================================
