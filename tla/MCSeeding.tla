------------------------------- MODULE MCSeeding -------------------------------
(* Draws that meet each edge case alone, and posts at the bounds of what is *)
(* valid.                                                                   *)
EXTENDS SeedingProperties

MCSymbols == STRING
MCCountries == {"GB", "FR"}
MCLocales == {"en-GB", "fr-FR"}
MCIndexable(text) == Len(text) <= 8
MCRounded(v) == v    \* no number is so long
MCLetters == {"D", "Z", "a", "d", "e", "f", "h", "i", "k", "l", "m", "n", "o", "r", "s", "t", "y", "z"}
MCDecomposed == [e_diaeresis |-> "e"]
MCLower == [D |-> "d", Z |-> "z"]
MCAdjectives == {<<"o", "l", "d">>}
MCOwners == {<<"D", "a", "r", "a">>}
\* Zoe with a diaeresis, and Sorina with a stroke.
MCAccented == {<<"Z", "o", "e_diaeresis">>, <<"s", "o_stroke", "r">>}
Yard == <<"y", "a", "r", "d">>
MCNouns == [category \in MERCHANT_CATEGORIES |-> {Yard}]
Place(city, countryCode, locale) == [city |-> city, countryCode |-> countryCode, locale |-> locale]
London == Place(<<"l">>, "GB", "en-GB")
Lyon == Place(<<"f">>, "FR", "fr-FR")
MCPlaces == {London, Lyon}

MCReference == 26 * 360 * MinutesPerDay + 210 * MinutesPerDay
\* Ninety days after the later of the offers, in the month before a season.
MCNows == {MCReference + 70 * MinutesPerDay}

Plain ==
    [category |-> "restaurant", place |-> London, name |-> DescribedBy(<<"o", "l", "d">>, Yard),
     raw |-> 457, reviewCount |-> 31, active |-> FALSE, endedDaysAgo |-> 200,
     website |-> TRUE, years |-> 1, seats |-> 120]
MCDraws ==
    <<Plain,
      [Plain EXCEPT !.website = FALSE, !.raw = None, !.reviewCount = None, !.years = 0],
      [Plain EXCEPT !.raw = 479, !.reviewCount = 10, !.endedDaysAgo = None],
      [Plain EXCEPT !.place = Lyon, !.category = "beauty", !.seats = 12, !.endedDaysAgo = 20],
      [Plain EXCEPT !.active = TRUE, !.years = None],
      [Plain EXCEPT !.name = OwnedBy(<<"Z", "o", "e_diaeresis">>, Yard), !.website = FALSE]>>

\* A merchant that another caller posts, and what each of its fields may be instead.
Posted ==
    [BuildMerchant(1, Plain, {}) EXCEPT !.rating = 450, !.reviewCount = 1200]
TooLong == [i \in 1..9 |-> "a"]
Otherwise ==
    [id |-> {<<>>, <<"U+0000">>, TooLong},
     name |-> {<<Space, "a">>, <<"a", Space>>, <<Space>>, <<"a", "4">>, <<"a", "U+0000">>},
     category |-> {"gallery"},
     countryCode |-> {"gb"},
     locale |-> {"english"},
     websiteUrl |-> {None, [scheme |-> "ftp", host |-> <<"a">>]},
     contactEmail |-> {[local |-> <<>>, domain |-> SYNTHETIC_EMAIL_DOMAIN],
                       [local |-> <<"a">>, domain |-> "example.com"]},
     rating |-> {None, -1, 0, 455, 496, 500, 501},
     reviewCount |-> {-100, 650, 100 * MaxInteger, 100 * (MaxInteger + 1)},
     yearsInBusiness |-> {0, 200, 250},
     lastOfferEndedAt |->
         {None,
          [minute |-> None, zone |-> 0, stored |-> None],
          [minute |-> MCReference, zone |-> 0, stored |-> None],
          [Instant(MCReference - 20 * MinutesPerDay - 30) EXCEPT !.zone = 60],
          [Instant(MCReference - 20 * MinutesPerDay) EXCEPT !.stored = @ + 60]},
     seatsOrCapacity |-> {None, 0, 100, 8000}]
Variants ==
    {Posted} \cup UNION {{[Posted EXCEPT ![f] = v] : v \in Otherwise[f]} : f \in DOMAIN Otherwise}
Post(merchants) == [batch |-> merchants, size |-> Len(merchants) + 1]

\* One at a time, in an order other than that of the ids, and some of them again.
Rated(number, rating) == [Posted EXCEPT !.id = Id(number), !.rating = rating]
Of(category, number) == [Rated(number, 450) EXCEPT !.category = category]
Singly(merchants) == [batch |-> merchants, size |-> 1]

MCPosts ==
    {Post(<<>>), Post(<<Posted, Posted>>),
     Post([i \in 1..(MAX_BATCH_SIZE + 1) |-> Rated(i, 450)]),
     Singly(<<Rated(3, 430), Rated(1, None), Rated(2, 440), Rated(1, 450), Rated(2, 470)>>),
     Singly(<<Rated(1, 450), Rated(3, 430), Rated(2, 440), Rated(3, 480), Rated(4, 410)>>),
     Singly([i \in 1..4 |-> Rated(i, 450)] \o <<Of("beauty", 1), Of("beauty", 3)>>),
     Singly(<<Of("beauty", 1)>> \o [i \in 1..3 |-> Rated(i + 1, 450)] \o <<Rated(1, 450)>>)}
    \cup {Post(<<v>>) : v \in Variants}
    \cup {Post(<<[Posted EXCEPT !.id = Id(2)], v>>) : v \in Variants}
MCLimits == {0, 2, 9}
MCCategories == {None, "restaurant", "gallery"}

\* Padded to four digits, ids are ordered as their numbers.
InOrder == <<<<>>, <<"U+0000">>, TooLong>> \o [n \in 1..Count |-> Id(n)]
MCBefore(a, b) ==
    \E i, j \in DOMAIN InOrder : i < j /\ a = InOrder[i] /\ b = InOrder[j]
=============================================================================
