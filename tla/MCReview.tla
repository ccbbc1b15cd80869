------------------------------- MODULE MCReview -------------------------------
(* Drafts for Review, in families that each vary something else. *)
EXTENDS ReviewProperties

Characters ==
    {"x", "y", "z", " ", ".", ",", "0", "1", "2", "3", "4", "5", "6", "7", "8", "9",
     "this", "that", "other", "en", "GB", "owner", "shop", "invalid"}

\* The decimal rounded to ExactDigits digits, for the decimals of this instance that
\* of the nearest double.
Numerals == <<"0", "1", "2", "3", "4", "5", "6", "7", "8", "9">>
Successor(digit) == Numerals[CHOOSE i \in 2..10 : Numerals[i - 1] = digit]
Incremented(digits) ==
    LET at == Max({i \in DOMAIN digits : digits[i] # "9"})
    IN  [i \in DOMAIN digits |->
            IF i < at THEN digits[i] ELSE IF i = at THEN Successor(digits[i]) ELSE "0"]
RoundedDecimal(v) ==
    LET digits == <<"0">> \o v.whole \o v.part
        point == Len(v.whole) + 1
        first == SubSeq(digits, 1, ExactDigits + 1)
        goesUp == digits[ExactDigits + 2] \in {"5", "6", "7", "8", "9"}
        kept == (IF goesUp THEN Incremented(first) ELSE first)
                    \o [i \in 1..(point - ExactDigits - 1) |-> "0"]
    IN  IF Len(v.whole) > 308 THEN Infinity
        ELSE Value(SubSeq(kept, 1, point), SubSeq(kept, point + 1, Len(kept)))

Text(value) == [kind |-> "string", value |-> value]
Number(whole, part) == [kind |-> "number", value |-> [whole |-> whole, part |-> part]]

\* A merchant with a number in its name, rated 1.2, with 1211 reviews, in its first year.
Record ==
    [name |-> Text(<<"x", " ", "1", "2", "0">>),
     locale |-> Text(<<"en", "GB">>),
     contactEmail |-> Text(<<"owner", "shop", "invalid">>),
     websiteUrl |-> Text(<<"shop", "invalid">>),
     rating |-> Number(<<"1">>, <<"2">>),
     reviewCount |-> Number(<<"1", "2", "1", "1">>, <<>>),
     seatsOrCapacity |-> Number(<<"2", "1", "1", "2", "1", "1", "1">>, <<>>),
     yearsInBusiness |-> Number(<<>>, <<>>),
     hasActiveOffer |-> [kind |-> "boolean", value |-> <<"true">>],
     lastOfferEndedAt |-> [kind |-> "null"]]

Lower(string) == SelectSeq([i \in DOMAIN string |-> IF string[i] = "TRUE" THEN "true" ELSE string[i]],
                           LAMBDA char : char # " ")
Hosts == {<<"partners", "example", "invalid">>}

NoHits == [inSubject |-> FALSE, spans |-> {}]
Ref(claim) == [claim |-> claim, sourceField |-> "name", sourceValue |-> Record.name.value]
Wrong(claim) == [Ref(claim) EXCEPT !.sourceField = "lastOfferEndedAt"]

\* The draft that passes.
Sample ==
    [misshapen |-> {}, subjectLength |-> 40, words |-> 100, overflow |-> 4,
     body |-> <<"x", "y", "z", " ", "1", ".", "2">>,
     evidence |-> <<Ref(<<"x">>), Ref(<<"y">>), Ref(<<"z">>)>>,
     name |-> [exact |-> TRUE, near |-> None],
     placeholders |-> NoHits, banned |-> NoHits, contacts |-> {},
     locale |-> <<"en", "GB">>, functionWords |-> [en |-> 9, de |-> 2],
     americanSpellings |-> {},
     asks |-> [reply |-> {[start |-> 0, end |-> 1]}, meeting |-> {}],
     urgency |-> {}, spam |-> {}, shouting |-> {}, exclamations |-> {}]

Here == [start |-> 1, end |-> 3]
There == [start |-> 2, end |-> 5]
Matches == {[inSubject |-> TRUE, spans |-> {}], [inSubject |-> FALSE, spans |-> {Here, There}]}
Evidence(field, value) == <<[claim |-> <<"x">>, sourceField |-> field, sourceValue |-> value]>>

\* What each field of a draft may be instead.
Otherwise ==
    [misshapen |-> {{"createdAt"}},
     subjectLength |-> {60, 61},
     words |-> {59, 60, 180, 181},
     name |-> {[exact |-> FALSE, near |-> There], [exact |-> FALSE, near |-> None]},
     placeholders |-> Matches,
     banned |-> Matches,
     contacts |-> {{[kind |-> "email", at |-> at, span |-> Here]} :
                      at \in {<<"owner", "shop", "invalid">>, <<"sales", "shop", "invalid">>,
                              <<"us", "partners", "example", "invalid">>}}
                  \cup {{[kind |-> "link", at |-> at, span |-> Here]} :
                      at \in {<<"shop", "invalid">>, <<"www", "shop", "invalid">>, None,
                              <<"a", "partners", "example", "invalid">>}}
                  \cup {{[kind |-> "phone", digits |-> n, span |-> There]} : n \in {8, 9}},
     locale |-> {<<"en", "US">>, <<"de", "DE">>},
     functionWords |-> {[en |-> 2, de |-> 4], [en |-> 2, de |-> 5]},
     americanSpellings |-> {{There}},
     asks |-> {[reply |-> {}, meeting |-> {}], [reply |-> {Here}, meeting |-> {There}]},
     urgency |-> {{Here}}, spam |-> {{There}}, shouting |-> {{There}},
     exclamations |-> {{Here}, {Here, [start |-> 3, end |-> 4]}},
     evidence |-> {<<>>, <<Ref(<<"x">>)>>, <<Ref(<<"x">>), Ref(<<"x">>), Ref(<<"y">>)>>,
                   <<Wrong(<<"x">>), Ref(<<"z">>), Wrong(<<"y", "z">>)>>}
                  \cup {Evidence("hasActiveOffer", <<v>>) : v \in {"TRUE", "no"}}
                  \cup {Evidence("rating", v) : v \in {<<"1", ",", "2">>, <<"1">>}},
     body |-> {<<"x", "y">>, <<"z", "y", "x", "1">>}]

Changed(draft) ==
    UNION {{[draft EXCEPT ![f] = v] : v \in Otherwise[f]} : f \in DOMAIN Otherwise}

Input(draft, sends, edits, parts) ==
    [draft |-> draft, sends |-> sends, edits |-> edits, parts |-> parts,
     now |-> 64, campaign |-> "this"]

\* One or two fields are not those of the sample.
Edit == <<"x", "y", "z">>
PlainInputs ==
    {Input(d, {}, {Edit, d.body}, <<>>) : d \in {Sample} \cup Changed(Sample)}
    \cup {Input(d, {}, {}, <<>>) : d \in UNION {Changed(e) : e \in Changed(Sample)}}

\* Up to three earlier sends, of this campaign and of two others, in half days.
Sends == [campaign : {"this", "that", "other"}, sentAt : {0, 3, 4, 5, 64}]
CapInputs == {Input(Sample, sends, {}, <<>>) : sends \in kSubset(1, Sends) \cup kSubset(2, Sends)
                                                   \cup kSubset(3, Sends)}

\* Every text of up to five characters of a number, up to six of some, and some
\* with zeros.
Written == BoundedSeq({"1", "2", " ", ".", ","}, 5) \cup BoundedSeq({"1", " ", ","}, 6)
               \cup BoundedSeq({"0", "1", "2", ".", ","}, 4)

\* Numbers that round to 1.2, to 1211 and to 2111211 and numbers that do not, alone
\* and two in a body.
Nines == [i \in 1..16 |-> "9"]
Noughts == [i \in 1..16 |-> "0"]
LongNumbers ==
    {<<"1", ".", "1">> \o Nines, <<"1", ".", "2">> \o Noughts \o <<"1">>,
     <<"1", ",", "2">> \o Noughts, <<"1", ".", "2", "0", "0", "1">>,
     <<"1", "2", "1", "0", ".">> \o Nines, <<"9", ".">> \o Nines, Nines \o Nines,
     <<"2", ",", "1", "1", "1", ",", "2", "1", "0", ".">> \o Nines}
LongBodies ==
    LongNumbers \cup {a \o <<"x">> \o b : a \in LongNumbers,
                                          b \in LongNumbers \cup {<<"1", ".", "2">>, <<"3">>}}
NumberInputs ==
    {Input([Sample EXCEPT !.body = body, !.evidence = <<>>], {}, {}, <<>>) :
        body \in HonestBodies \cup Written \cup LongBodies}

\* Every body of two letters, and claims.
Letters(n) == BoundedSeq({"x", "y"}, n) \ {<<>>}
ClaimInputs ==
    {Input([Sample EXCEPT !.body = body, !.evidence = [i \in DOMAIN claims |-> Ref(claims[i])]],
           {}, {}, <<>>) : body \in Letters(4), claims \in BoundedSeq(Letters(2), 3)}
MarkInputs ==
    {Input([Sample EXCEPT !.body = body, !.banned.spans = {s},
                          !.evidence = [i \in DOMAIN claims |-> Wrong(claims[i])]],
           {}, {}, <<>>) : body \in Letters(4), claims \in BoundedSeq(Letters(2), 2),
                           s \in {t \in [start : 0..3, end : 1..4] : t.start < t.end}}

\* Bodies composed of up to four parts.
Parts == [text : Letters(2), isClaim : BOOLEAN]
ComposedInputs ==
    {Input([Sample EXCEPT !.body = BodyOf(parts),
                          !.evidence = LET claims == ComposedClaims(parts)
                                       IN  [i \in DOMAIN claims |-> Ref(claims[i])]],
           {}, {}, parts) : parts \in BoundedSeq(Parts, 3) \ {<<>>}}

AllInputs ==
    <<PlainInputs, CapInputs, NumberInputs, ClaimInputs, MarkInputs, ComposedInputs>>
=============================================================================
