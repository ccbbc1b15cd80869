------------------------------- MODULE Merchants -------------------------------
(***************************************************************************)
(* A merchant on its way into the table: what validation asks of it        *)
(* (services/ingest/validation.ts), what the columns and the constraints   *)
(* of 1_merchants.up.sql keep of it, and what is read back                 *)
(* (services/ingest/rows.ts).                                              *)
(*                                                                         *)
(* A number is in hundredths, so that 4.8 is 480.  A text is a sequence of *)
(* characters, as in Numbers.  A timestamp is an instant in minutes and    *)
(* the offset it is written with, in a calendar of months of thirty days;  *)
(* JavaScript and Postgres may read different instants in one text.        *)
(***************************************************************************)
EXTENDS Numbers

CONSTANTS
    None,
    Symbols,          \* characters, and the names and codes that are only compared
    Nul,              \* U+0000, which a column of type TEXT refuses
    Indexable(_),     \* a text fits an entry of an index
    MaxInteger,       \* the largest value of a column of type INTEGER
    Countries,        \* the country codes that are two capitals
    Locales           \* the locales of the shape that LOCALE_PATTERN has


MERCHANT_CATEGORIES ==
    {"restaurant", "spa_wellness", "fitness", "beauty", "activity", "class_workshop"}
MERCHANT_FIELDS ==
    {"id", "name", "category", "city", "countryCode", "locale", "websiteUrl",
     "contactEmail", "rating", "reviewCount", "yearsInBusiness", "hasActiveOffer",
     "lastOfferEndedAt", "seatsOrCapacity"}

SYNTHETIC_EMAIL_DOMAIN == "example.invalid"

\* What the fields can hold.  Of a timestamp, minute is the instant that Date reads
\* in its text, stored the one that ::timestamptz reads, and None is for a text in
\* which there is none to be read.
Text == Seq(Symbols)
Amount == {None} \cup Int
Website == [scheme : Symbols, host : Text]
Timestamp == [minute : Amount, zone : Int, stored : Amount]
Merchant ==
    [id : Text, name : Text, category : Symbols, city : Text,
     countryCode : Symbols, locale : Symbols,
     websiteUrl : {None} \cup Website,
     contactEmail : [local : Text, domain : Symbols],
     rating : Amount, reviewCount : Amount, yearsInBusiness : Amount,
     hasActiveOffer : BOOLEAN,
     lastOfferEndedAt : {None} \cup Timestamp,
     seatsOrCapacity : Amount]

ASSUME MerchantsAssumption ==
    /\ MaxInteger \in Nat
    /\ Digits \cup {SYNTHETIC_EMAIL_DOMAIN} \cup MERCHANT_CATEGORIES \subseteq Symbols
    /\ Nul \notin Digits
    /\ Countries \cup Locales \subseteq Symbols

ASSUME NoneIsNoValue == None \notin Int /\ None \notin Website /\ None \notin Timestamp

-----------------------------------------------------------------------------
\* How a number and a timestamp are written.
NumberChars == <<"0", "1", "2", "3", "4", "5", "6", "7", "8", "9">>
Written(number) ==
    LET digits[n \in Nat] ==
            IF n < 10 THEN <<NumberChars[n + 1]>>
            ELSE Append(digits[n \div 10], NumberChars[(n % 10) + 1])
    IN  digits[number]

\* An integer of a column, and its hundredths, are exact as a double.
ASSUME IntegersAreExact == \A n \in 0..MaxInteger : Len(Written(n)) + 2 <= ExactDigits

\* padStart
Padded(number, width) ==
    LET digits == Written(number)
    IN  [i \in 1..(width - Len(digits)) |-> "0"] \o digits

\* String(number): no decimals that are zero.
Shown(number) ==
    LET decimals == IF number % 10 = 0 THEN Written((number % 100) \div 10)
                    ELSE Padded(number % 100, 2)
    IN  Written(number \div 100)
        \o (IF number % 100 = 0 THEN <<>> ELSE <<Point>> \o decimals)

MinutesPerDay == 24 * 60
DayOf(minute) == minute \div MinutesPerDay
MonthOf(minute) == ((DayOf(minute) \div 30) % 12) + 1
LocalMinute(timestamp) == timestamp.minute + timestamp.zone

\* isoDatePart: the first ten characters, which are those of the local day.
IsoDatePart(timestamp) ==
    LET local == LocalMinute(timestamp)
    IN  Written(2000 + DayOf(local) \div 360) \o <<"-">> \o Padded(MonthOf(local), 2)
        \o <<"-">> \o Padded((DayOf(local) % 30) + 1, 2)

\* toISOString, to the minute.
IsoTimestamp(timestamp) ==
    LET local == LocalMinute(timestamp)
    IN  IsoDatePart(timestamp) \o <<"T">> \o Padded((local % MinutesPerDay) \div 60, 2)
        \o <<":">> \o Padded(local % 60, 2)
        \o <<":", "0", "0", ".", "0", "0", "0", "Z">>

-----------------------------------------------------------------------------
IsWhole(number) == number % 100 = 0
IsNonEmpty(text) == \E i \in DOMAIN text : text[i] # Space
IsTrimmed(text) == Head(text) # Space /\ Last(text) # Space

\* An address is what stands before and after its last @, and a website has a
\* scheme and a host; None is for what is not a URL.
IsSynthetic(email) == email.domain = SYNTHETIC_EMAIL_DOMAIN
IsHttp(url) == url.scheme \in {"http", "https"}

NoneOr(value, Holds(_)) == value # None => Holds(value)

InRange(rating) == rating \in 0..500
IsCount(number) == number >= 0 /\ IsWhole(number)

\* Mutant: no seats at all are a capacity.
MutIsCapacity(number) == number >= 0 /\ IsWhole(number)

IsCapacity(number) == number > 0 /\ IsWhole(number)
IsTimestamp(timestamp) == timestamp.minute # None    \* Date reads something in it

\* validateMerchant has no problem to report.
IsValid(merchant) ==
    /\ IsNonEmpty(merchant.id)
    /\ IsNonEmpty(merchant.name) /\ IsTrimmed(merchant.name)
    /\ merchant.category \in MERCHANT_CATEGORIES
    /\ IsNonEmpty(merchant.city)
    /\ merchant.countryCode \in Countries
    /\ merchant.locale \in Locales
    /\ NoneOr(merchant.websiteUrl, IsHttp)
    /\ IsSynthetic(merchant.contactEmail) /\ merchant.contactEmail.local # <<>>
    /\ NoneOr(merchant.rating, InRange)
    /\ NoneOr(merchant.reviewCount, IsCount)
    /\ NoneOr(merchant.yearsInBusiness, IsCount)
    /\ merchant.hasActiveOffer \in BOOLEAN
    /\ NoneOr(merchant.lastOfferEndedAt, IsTimestamp)
    /\ NoneOr(merchant.seatsOrCapacity, IsCapacity)

\* validateBatch has none for the whole batch.
IsValidBatch(batch, limit) ==
    /\ Len(batch) \in 1..limit
    /\ \A i \in DOMAIN batch : IsValid(batch[i])
    /\ \A i, j \in DOMAIN batch : batch[i].id = batch[j].id => i = j

-----------------------------------------------------------------------------
\* NUMERIC(2, 1) rounds to one decimal, half away from zero.
ToTenths(number) == 10 * ((number + 5) \div 10)
FitsRating(number) == ToTenths(number) \in 0..500
FitsInteger(number) == number \div 100 \in 0..MaxInteger

FitsText(text) == \A i \in DOMAIN text : text[i] # Nul
FitsTimestamp(timestamp) == timestamp.stored # None

IntegerColumns == {"reviewCount", "yearsInBusiness", "seatsOrCapacity"}

\* The statement goes through: every column and every index takes its value, and
\* every CHECK holds.
FitsColumns(merchant) ==
    /\ \A column \in IntegerColumns : NoneOr(merchant[column], FitsInteger)
    /\ NoneOr(merchant.lastOfferEndedAt, FitsTimestamp)
    /\ \A column \in {"id", "name", "city"} : FitsText(merchant[column])
    /\ FitsText(merchant.contactEmail.local)
    /\ NoneOr(merchant.websiteUrl, LAMBDA url : FitsText(url.host))
    /\ Indexable(merchant.id) /\ Indexable(merchant.city)
MeetsChecks(merchant) ==
    /\ merchant.category \in MERCHANT_CATEGORIES
    /\ merchant.countryCode \in Countries
    /\ IsSynthetic(merchant.contactEmail)
    /\ NoneOr(merchant.rating, FitsRating)
    /\ \A column \in IntegerColumns : NoneOr(merchant[column], LAMBDA n : n >= 0)
    /\ NoneOr(merchant.seatsOrCapacity, LAMBDA n : n > 0)

Instant(minute) == [minute |-> minute, zone |-> 0, stored |-> minute]

\* What rowToMerchant reads from the row: the rating as it was rounded, and the
\* instant of the timestamp that was stored, without the offset it came with.
ReadBack(merchant) ==
    [merchant EXCEPT
        !.rating = IF @ = None THEN None ELSE ToTenths(@),
        !.lastOfferEndedAt = IF @ = None THEN None ELSE Instant(@.stored)]

\* The fields as the gates see them.
AsField(merchant, field) ==
    LET value == merchant[field]
        text(chars) == [kind |-> "string", value |-> chars]
    IN  CASE value = None -> [kind |-> "null"]
          [] value # None /\ field \in IntegerColumns \cup {"rating"} ->
                [kind |-> "number",
                 value |-> AsDouble(Value(Written(value \div 100), Padded(value % 100, 2)))]
          [] value # None /\ field = "lastOfferEndedAt" -> text(IsoTimestamp(value))
          [] value # None /\ field = "contactEmail" -> text(value.local)
          [] value # None /\ field = "websiteUrl" -> text(value.host)
          [] value # None /\ field \in {"id", "name", "city"} -> text(value)
          [] OTHER -> [kind |-> "other"]

AsFields(merchant) == [field \in MERCHANT_FIELDS |-> AsField(merchant, field)]
=============================================================================
