--------------------------------- MODULE Gates ---------------------------------
(***************************************************************************)
(* services/gates: thirteen checks of a draft against the record of its    *)
(* merchant, their report, and how the dashboard reads it.                 *)
(*                                                                         *)
(* The claims and the numbers of a body are looked up in its text.  What   *)
(* the patterns of the other gates match is part of the draft: the spans,  *)
(* the words and the hosts that a regular expression found in it.          *)
(***************************************************************************)
EXTENDS Claims, Numbers

CONSTANTS
    Fold(_),          \* a string, trimmed and in lower case
    TicksPerDay
GateOrder == <<"G01_schema", "G02_length", "G03_placeholders", "G04_merchant_name",
    "G05_evidence_grounding", "G06_no_invented_numbers", "G07_banned_claims", "G08_pii",
    "G09_locale", "G10_single_cta", "G11_frequency_cap", "G12_compliance", "G13_claim_count">>

WarningGates == {"G10_single_cta", "G13_claim_count"}
GateSeverity(gate) == IF gate \in WarningGates THEN "warning" ELSE "blocking"

\* pass and fail: a gate fails when it has something to object to.
Outcome(gate, objected, spans) ==
    [gate |-> gate, severity |-> GateSeverity(gate),
     passed |-> ~objected, spans |-> IF objected THEN spans ELSE {}]

IsBlockingFailure(outcome) == ~outcome.passed /\ outcome.severity = "blocking"

-----------------------------------------------------------------------------
\* structure.ts.  A field of the wrong shape leaves nothing to point at.
G01Schema(draft) == Outcome("G01_schema", draft.misshapen # {}, {})

SubjectMaxLength == 60
BodyMinWords == 60
BodyMaxWords == 180

\* Too short, all of the body is marked; too long, what follows the last word
\* there is room for.
G02Length(draft) ==
    LET short == draft.words < BodyMinWords
        long == draft.words > BodyMaxWords
        marked == [start |-> IF long THEN draft.overflow ELSE 0, end |-> Len(draft.body)]
    IN  Outcome("G02_length", short \/ long \/ draft.subjectLength > SubjectMaxLength,
            {s \in {marked} : (short \/ long) /\ s.start < s.end})

\* Of what is found in the subject there is no span: a span is an offset into
\* the body.
Scanned(gate, hits) == Outcome(gate, hits.inSubject \/ hits.spans # {}, hits.spans)

G03Placeholders(draft) == Scanned("G03_placeholders", draft.placeholders)
G07BannedClaims(draft) == Scanned("G07_banned_claims", draft.banned)

\* identity.ts.  near is the span of the name in other letters or cut short.
G04MerchantName(draft) ==
    Outcome("G04_merchant_name", ~draft.name.exact, {draft.name.near} \ {None})

\* A host is the sequence of its labels: an allowed one, or under one.
IsAllowedHost(host, allowed) == \E a \in allowed : IsSuffix(a, host)

MinPhoneDigits == 9
IsOffending(contact, merchant, allowed) ==
    \/ /\ contact.kind = "email"
       /\ contact.at # merchant.contactEmail.value
       /\ ~IsAllowedHost(Tail(contact.at), allowed)
    \/ /\ contact.kind = "link"
       /\ contact.at # None =>      \* None: not a URL
             /\ merchant.websiteUrl.kind # "null" => contact.at # merchant.websiteUrl.value
             /\ ~IsAllowedHost(contact.at, allowed)
    \/ contact.kind = "phone" /\ contact.digits >= MinPhoneDigits

G08Pii(draft, merchant, context) ==
    LET offending == {c \in draft.contacts : IsOffending(c, merchant, context.allowedLinkHosts)}
    IN  Outcome("G08_pii", offending # {}, {c.span : c \in offending})

-----------------------------------------------------------------------------
\* grounding.ts.  Numbers agree as numbers, a boolean in any case, a string only
\* letter by letter; a string is compared after Fold, which is what trim and
\* toLowerCase leave of it.
CheckSourceValue(actual, sourceValue) ==
    \/ actual.kind = "number" /\ actual.value \in NumericInterpretations(sourceValue)
    \/ actual.kind = "boolean" /\ actual.value = Fold(sourceValue)
    \/ actual.kind = "string" /\ actual.value = sourceValue

ClaimsOf(draft) == [i \in DOMAIN draft.evidence |-> draft.evidence[i].claim]

G05EvidenceGrounding(draft, merchant) ==
    LET located == GroundClaims(draft.body, ClaimsOf(draft))
        refs == DOMAIN located
        disproved == {i \in refs : /\ located[i] # None
                                   /\ ~CheckSourceValue(merchant[draft.evidence[i].sourceField],
                                                        draft.evidence[i].sourceValue)}
    IN  Outcome("G05_evidence_grounding",
            disproved # {} \/ \E i \in refs : located[i] = None,
            {located[i] : i \in disproved})

G06NoInventedNumbers(draft, merchant) ==
    LET grounded == GroundedNumbers(merchant)
        ungrounded == {t \in NumberTokens(draft.body) :
                          ~IsGrounded(TextOf(draft.body, t), grounded)}
    IN  Outcome("G06_no_invented_numbers", ungrounded # {}, ungrounded)

\* claims.ts.
RequiredClaimCount == 3
G13ClaimCount(draft) ==
    Outcome("G13_claim_count", Len(draft.evidence) # RequiredClaimCount,
        Found(GroundClaims(draft.body, ClaimsOf(draft))))

-----------------------------------------------------------------------------
\* language.ts.
LanguageMargin == 3
MinWordsForDetection == 20
BritishEnglishRegions == {"GB", "IE", "AU", "NZ"}

\* The body has so many more function words of another language.
ReadsOtherwise(draft) ==
    LET score == draft.functionWords
        language == draft.locale[1]
    IN  /\ language \in DOMAIN score
        /\ draft.words >= MinWordsForDetection
        /\ \E other \in DOMAIN score \ {language} :
               score[other] - score[language] >= LanguageMargin

\* A locale is the sequence of its parts.
IsBritish(locale) ==
    Len(locale) > 1 /\ locale[1] = "en" /\ locale[2] \in BritishEnglishRegions

G09Locale(draft, merchant) ==
    LET elsewhere == draft.locale # merchant.locale.value \/ ReadsOtherwise(draft)
        american == {s \in draft.americanSpellings : IsBritish(draft.locale)}
    IN  Outcome("G09_locale", elsewhere \/ american # {}, IF elsewhere THEN {} ELSE american)

\* content.ts.  asks has the spans of each kind of call to action.
G10SingleCta(draft) ==
    LET matched == {kind \in DOMAIN draft.asks : draft.asks[kind] # {}}
    IN  Outcome("G10_single_cta", Cardinality(matched) # 1,
            UNION {draft.asks[kind] : kind \in matched})

MaxExclamations == 1
G12Compliance(draft) ==
    LET exclamations == IF Cardinality(draft.exclamations) > MaxExclamations
                        THEN draft.exclamations ELSE {}
        spans == draft.urgency \cup draft.spam \cup draft.shouting \cup exclamations
    IN  Outcome("G12_compliance", spans # {}, spans)

\* frequency.ts.  Instants are in ticks, of which a day has TicksPerDay.
CapHasPassed(elapsed, days) == elapsed >= days * TicksPerDay

G11FrequencyCap(context) ==
    Outcome("G11_frequency_cap",
        /\ context.previousApproach # None
        /\ ~CapHasPassed(context.now - context.previousApproach.sentAt, context.frequencyCapDays),
        {})
-----------------------------------------------------------------------------
\* runner.ts.  Every gate runs, whatever the others say.
RunGates(draft, merchant, context) ==
    LET outcomes ==
            <<G01Schema(draft), G02Length(draft), G03Placeholders(draft),
              G04MerchantName(draft), G05EvidenceGrounding(draft, merchant),
              G06NoInventedNumbers(draft, merchant), G07BannedClaims(draft),
              G08Pii(draft, merchant, context), G09Locale(draft, merchant),
              G10SingleCta(draft), G11FrequencyCap(context), G12Compliance(draft),
              G13ClaimCount(draft)>>
    IN  [outcomes |-> outcomes,
         blocked |-> \E i \in DOMAIN outcomes : IsBlockingFailure(outcomes[i]),
         evaluatedAt |-> context.now]

FailuresOf(report, severity) ==
    LET failures == Filter(report.outcomes, LAMBDA o : ~o.passed /\ o.severity = severity)
    IN  [i \in DOMAIN failures |-> failures[i].gate]
BlockingFailures(report) == FailuresOf(report, "blocking")
WarningFailures(report) == FailuresOf(report, "warning")

\* Mutant: the last gate of the contract is dropped with the one after it.
MutIsContractGate(gate) == gate \notin {"G12_compliance", "G13_claim_count"}
IsContractGate(gate) == gate # "G13_claim_count"

ToContractReport(report) ==
    [report EXCEPT !.outcomes = Filter(@, LAMBDA o : IsContractGate(o.gate))]

-----------------------------------------------------------------------------
\* dashboard/lib/gates.ts.
GateIds == SubSeq(GateOrder, 1, 12)

OutcomesOf(report, gate) == {o \in Range(report.outcomes) : o.gate = gate}

\* What a segment of the strip shows.
GateSegmentState(report, gate) ==
    IF OutcomesOf(report, gate) = {} THEN "pending"
    ELSE LET outcome == CHOOSE o \in OutcomesOf(report, gate) : TRUE
         IN  CASE outcome.passed -> "pass"
               [] IsBlockingFailure(outcome) -> "fail"
               [] OTHER -> "warn"

Strip(report) == [i \in DOMAIN GateIds |-> GateSegmentState(report, GateIds[i])]

BlockingGate(report) ==
    LET failing == {i \in DOMAIN GateIds : Strip(report)[i] = "fail"}
    IN  IF failing = {} THEN None ELSE GateIds[Min(failing)]

GatesThatWarn(report) ==
    Filter(GateIds, LAMBDA gate : GateSegmentState(report, gate) = "warn")
=============================================================================
