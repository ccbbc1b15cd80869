------------------------------- MODULE Generator -------------------------------
(***************************************************************************)
(* scripts/generate-merchants.ts: what a merchant is made of, and the edge *)
(* cases.  The random numbers of a merchant are one draw, given from       *)
(* outside; a letter that NFD takes apart is in Decomposed.                *)
(***************************************************************************)
EXTENDS Signals

CONSTANTS
    AsciiLetters,
    Decomposed,          \* an accented letter |-> the letter under the accent
    LowerCase,           \* a capital |-> the small letter
    Adjectives, OwnerNames, AccentedOwnerNames,
    Nouns,               \* of each category
    CityProfiles,        \* [city, countryCode, locale]
    DefaultLocale,
    ReferenceDate,       \* in minutes
    Draws                \* the draws considered, in the order they may come in

HasDiacritics(text) == \E i \in DOMAIN text : text[i] \in DOMAIN Decomposed
HasApostrophe(text) == \E i \in DOMAIN text : text[i] \in {"'", "right single quote"}

\* Accents and capitals go, every run of other characters is one dash, and none is
\* left at the ends.
Slugify(text) ==
    LET base(char) == IF char \in DOMAIN Decomposed THEN Decomposed[char] ELSE char
        lower(char) == IF char \in DOMAIN LowerCase THEN LowerCase[char] ELSE char
        dashed == [i \in DOMAIN text |->
            IF base(text[i]) \in AsciiLetters \cup Digits THEN lower(base(text[i])) ELSE "-"]
        isKept(i) ==
            \/ dashed[i] # "-"
            \/ /\ i > 1 /\ dashed[i - 1] # "-"
               /\ \E j \in i..Len(text) : dashed[j] # "-"
        kept == Ascending({i \in DOMAIN text : isKept(i)})
    IN  [i \in DOMAIN kept |-> dashed[kept[i]]]

\* The local part of uniqueEmail: the first candidate nobody has.
UniqueLocal(name, taken) ==
    LET base == IF Slugify(name) = <<>> THEN <<"m">> ELSE Slugify(name)
        candidate(n) == IF n = 1 THEN base ELSE base \o <<"-">> \o Written(n)
    IN  candidate(Min({n \in 1..(Cardinality(taken) + 1) : candidate(n) \notin taken}))

Email(local) == [local |-> local, domain |-> SYNTHETIC_EMAIL_DOMAIN]
WebsiteFor(email) == [scheme |-> "https", host |-> email.local]

\* buildName
The == <<"t", "h", "e", Space>>
OwnedBy(owner, noun) == owner \o <<"'", "s", Space>> \o noun
DescribedBy(adjective, noun) == adjective \o <<Space>> \o noun
NamesFor(category) ==
    UNION {{OwnedBy(owner, noun) : owner \in OwnerNames \cup AccentedOwnerNames}
           \cup {DescribedBy(adjective, noun) : adjective \in Adjectives}
           \cup {The \o DescribedBy(adjective, noun) : adjective \in Adjectives} :
              noun \in Nouns[category]}

CAPACITY_RANGES ==
    [restaurant |-> 24..180, spa_wellness |-> 8..60, fitness |-> 20..220,
     beauty |-> 3..18, activity |-> 10..120, class_workshop |-> 6..40]

\* What the random numbers can be.  raw is the rating before it is rounded, and
\* endedDaysAgo is drawn though no use is made of it while an offer runs.
IsDraw(draw) ==
    /\ draw.category \in MERCHANT_CATEGORIES
    /\ draw.place \in CityProfiles
    /\ draw.name \in NamesFor(draw.category)
    /\ \/ draw.raw = None /\ draw.reviewCount = None
       \/ draw.raw \in 310..500 /\ draw.reviewCount \in 1..4000
    /\ draw.active \in BOOLEAN
    /\ draw.website \in BOOLEAN
    /\ NoneOr(draw.endedDaysAgo, LAMBDA n : n \in 15..900)
    /\ NoneOr(draw.years, LAMBDA n : n \in 0..38)
    /\ NoneOr(draw.seats, LAMBDA n : n \in CAPACITY_RANGES[draw.category])

\* A word or several, with a character other than a space at each end.
Wordings ==
    Adjectives \cup OwnerNames \cup AccentedOwnerNames
    \cup UNION {Nouns[category] : category \in MERCHANT_CATEGORIES}

\* The characters that a template writes.
Literals == {"-", "_", "'", Space} \cup {"c", "e", "h", "m", "r", "s", "t"}

ASSUME SymbolsAssumption ==
    /\ Decomposed \in [DOMAIN Decomposed -> Symbols]
    /\ LowerCase \in [DOMAIN LowerCase -> AsciiLetters]
    /\ AsciiLetters \cup Literals \cup {"https"} \subseteq Symbols
    /\ Nul \notin AsciiLetters \cup Literals

\* The counts drawn fit a column of type INTEGER, the texts a column of type TEXT,
\* and the reference date, which is of 2026 unless a caller says otherwise, is of
\* the years 2000 to 4000.
ASSUME GeneratorAssumption ==
    /\ \A i \in DOMAIN Draws : IsDraw(Draws[i])
    /\ \A words \in Wordings : words \in Text /\ words # <<>> /\ IsTrimmed(words) /\ FitsText(words)
    /\ \A place \in CityProfiles :
          /\ place.city \in Text /\ IsNonEmpty(place.city)
          /\ FitsText(place.city) /\ Indexable(place.city)
          /\ place.countryCode \in Countries /\ place.locale \in Locales
    /\ ReferenceDate \in 0..(2000 * 360 * MinutesPerDay)
    /\ MaxInteger >= 4000

Hundredths(number) == IF number = None THEN None ELSE number * 100

\* Mutant: the rating is not rounded.
MutBuiltRating(raw) == raw

\* Math.round(rating * 10) / 10
BuiltRating(raw) == IF raw = None THEN None ELSE ToTenths(raw)

\* isoDay
Midnight(minute) == Instant(minute - (minute % MinutesPerDay))

Id(number) == <<"m", "r", "c", "_">> \o Padded(number, 4)

BuildMerchant(number, draw, taken) ==
    LET email == Email(UniqueLocal(draw.name, taken))
    IN  [id |-> Id(number),
         name |-> draw.name,
         category |-> draw.category,
         city |-> draw.place.city,
         countryCode |-> draw.place.countryCode,
         locale |-> draw.place.locale,
         websiteUrl |-> IF draw.website THEN WebsiteFor(email) ELSE None,
         contactEmail |-> email,
         rating |-> BuiltRating(draw.raw),
         reviewCount |-> Hundredths(draw.reviewCount),
         yearsInBusiness |-> Hundredths(draw.years),
         hasActiveOffer |-> draw.active,
         lastOfferEndedAt |->
             IF draw.active \/ draw.endedDaysAgo = None THEN None
             ELSE Midnight(ReferenceDate - draw.endedDaysAgo * MinutesPerDay),
         seatsOrCapacity |-> Hundredths(draw.seats)]

-----------------------------------------------------------------------------
EDGE_CASES == <<"no_website_no_rating", "high_rating_few_reviews", "non_default_locale",
                "active_offer", "diacritics_and_apostrophe">>

NothingToUse(m) == m.websiteUrl = None /\ m.rating = None /\ m.reviewCount = None
HighOnFew(m) ==
    /\ m.rating # None /\ m.rating >= 480
    /\ m.reviewCount # None /\ m.reviewCount <= 1000

Matches(case, m) ==
    \/ case = "no_website_no_rating" /\ NothingToUse(m)
    \/ case = "high_rating_few_reviews" /\ HighOnFew(m)
    \/ case = "non_default_locale" /\ m.locale # DefaultLocale
    \/ case = "active_offer" /\ m.hasActiveOffer
    \/ case = "diacritics_and_apostrophe" /\ HasDiacritics(m.name) /\ HasApostrophe(m.name)

Covering(case, merchants) == {i \in DOMAIN merchants : Matches(case, merchants[i])}

\* Mutants: any merchant that is not of this case may be patched; a forced name
\* leaves the website as it was.
MutNeutral(case, merchants) == {i \in DOMAIN merchants : ~Matches(case, merchants[i])}
MutWebsiteOf(m, email) == m.websiteUrl

\* The merchants that match no case at all.
MatchesNone(m) == \A k \in DOMAIN EDGE_CASES : ~Matches(EDGE_CASES[k], m)
Neutral(case, merchants) == {i \in DOMAIN merchants : MatchesNone(merchants[i])}

WebsiteOf(m, email) == IF m.websiteUrl = None THEN None ELSE WebsiteFor(email)

\* force, by what the random numbers picked.
Places == {place \in CityProfiles : place.locale # DefaultLocale}
Renamed(m, name, taken) ==
    LET email == Email(UniqueLocal(name, taken))
    IN  [m EXCEPT !.name = name, !.contactEmail = email, !.websiteUrl = WebsiteOf(m, email)]

Forced(case, m, taken) ==
    CASE case = "no_website_no_rating" ->
            {[m EXCEPT !.websiteUrl = None, !.rating = None, !.reviewCount = None]}
      [] case = "high_rating_few_reviews" ->
            {[m EXCEPT !.rating = 490, !.reviewCount = 600]}
      [] case = "non_default_locale" ->
            {[m EXCEPT !.city = p.city, !.countryCode = p.countryCode, !.locale = p.locale] :
                 p \in Places}
      [] case = "active_offer" ->
            {[m EXCEPT !.hasActiveOffer = TRUE, !.lastOfferEndedAt = None]}
      [] case = "diacritics_and_apostrophe" ->
            {Renamed(m, OwnedBy(owner, noun), taken) :
                 owner \in AccentedOwnerNames, noun \in Nouns[m.category]}
=============================================================================
