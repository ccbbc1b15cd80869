--------------------------- MODULE SeedingProperties ---------------------------
(* What holds of a generated batch, of its way into the table, and of the  *)
(* signals that are stored with it.                                        *)
EXTENDS Seeding

Generated == origin = "generator" /\ pc \notin {"sampling", "forcing", "patching", "gave up"}

IsCoveredIn(case_, merchants) == Cardinality(Covering(case_, merchants)) >= MIN_PER_EDGE_CASE

\* Test "covers every edge case at least 2x in a batch" (generate-merchants.test.ts):
\* a batch that is returned covers every edge case.
EveryCaseIsCovered ==
    Generated => \A k \in DOMAIN EDGE_CASES : IsCoveredIn(EDGE_CASES[k], batch)

\* ensureEdgeCases does not let the cases take each other's merchants: a case
\* that was covered once stays covered, whatever is forced in after it.  The last
\* case has none after it.
CasesStayCovered ==
    \A k \in DOMAIN EDGE_CASES :
        /\ origin = "generator"
        /\ pc # "sampling"
        /\ k < case
        /\ EDGE_CASES[k] # "diacritics_and_apostrophe"
        => IsCoveredIn(EDGE_CASES[k], batch)

\* uniqueEmail and websiteFor, through every forced name: no two merchants have
\* one address, and a website is that of its merchant's address.
AddressesAreOwn ==
    origin = "generator" =>
        \A i, j \in DOMAIN batch :
            /\ batch[i].contactEmail = batch[j].contactEmail => i = j
            /\ batch[i].websiteUrl # None =>
                   batch[i].websiteUrl.host = batch[i].contactEmail.local

\* seed-merchants.ts: what was generated goes through the validation and into the
\* table, whole.
SeedIsAccepted == origin = "generator" => pc \notin {"refused", "failed"}

\* validation.ts stands in for the CHECKs of 1_merchants.up.sql: no value that it
\* accepts, as its column rounds it, violates one.  A chunk that it accepts and the
\* table refuses has a value that a column or an index cannot hold at all: a large
\* integer, a timestamp or a character that Postgres does not read, a long text.
AcceptedMeetsChecks ==
    pc = "failed" => \A i \in DOMAIN Chunk(next) : MeetsChecks(Chunk(next)[i])

\* listMerchants is "ordered by id, which is stable ... so paging is repeatable"
\* (ingest.ts:196-197): a reader that goes on to a page that is not full misses no
\* merchant that was listed when it began and is listed still, whatever is posted
\* between two pages, unless a merchant it has read or passed is posted again with
\* a category it does not ask for.  (Then the pages move up, and it misses one.)
PagingMissesNone == listing.limit = 0 /\ ~listing.shrunk => listing.due = {}

-----------------------------------------------------------------------------
SignalsOf(id) == Range(rows[id].signals)
Shows(text, number) ==
    AsDouble(Value(Written(number \div 100), Padded(number % 100, 2))) \in ReadIn(text)

\* README "Each signal carries a sourceField ... and its text quotes that field's
\* actual value": the field as it is stored, when a number or a date is quoted.
QuotesItsField(signal, merchant) ==
    LET value == merchant[signal.sourceField]
    IN  /\ signal.sourceField \in {"rating", "seatsOrCapacity"}
            => value # None /\ Shows(signal.value, value)
        /\ signal.sourceField = "yearsInBusiness"
            => value # None /\ (value # 0 => Shows(signal.value, value))
        /\ signal.sourceField = "lastOfferEndedAt"
            => value # None /\ signal.value = Words \o IsoDatePart(value) \o Words

\* No configuration lists it: TLC refutes it on the instance of Seeding.cfg, with a
\* merchant that another caller posts (its rating is rounded by the column after
\* the signal has quoted it).  What is generated does keep to it, as is said next.
SignalsQuoteTheRecord ==
    \A id \in DOMAIN rows : \A s \in SignalsOf(id) : QuotesItsField(s, rows[id].merchant)

\* The whole way of a generated merchant: its stored signals can be read, quote
\* the stored fields, and have no number that gate G06 would find invented, but
\* for the 5 of the scale.
GeneratedSignalsAreGrounded ==
    pc = "seeded" /\ origin = "generator" =>
        \A id \in DOMAIN rows :
            LET merchant == rows[id].merchant
                grounded == GroundedNumbers(AsFields(merchant))
            IN  \A s \in SignalsOf(id) :
                    /\ IsReadable(s)
                    /\ QuotesItsField(s, merchant)
                    /\ \A token \in NumberTokens(s.value) :
                           \/ TextOf(s.value, token) = RatingScale
                           \/ IsGrounded(TextOf(s.value, token), grounded)
=============================================================================
