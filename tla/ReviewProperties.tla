--------------------------- MODULE ReviewProperties ---------------------------
(***************************************************************************)
(* What the gates found is true of the draft, it reaches the reviewer, and *)
(* what the reviewer decides on is what the gates saw.                     *)
(***************************************************************************)
EXTENDS Review

Judged == report # None /\ screen = None
Opened == screen # None /\ screen = [screen EXCEPT !.isEditing = FALSE, !.decision = None]

OutcomeOf(gate) == CHOOSE o \in Range(report.outcomes) : o.gate = gate
Passed(gate) == OutcomeOf(gate).passed

DraftClaims == ClaimsOf(Draft)
Grounded == GroundClaims(Draft.body, DraftClaims)
Linked == LocateClaims(Draft.body, DraftClaims)

-----------------------------------------------------------------------------
\* The verdict survives the way to the reviewer: the dashboard works out from the
\* saved outcomes what the runner worked out from its own, with one gate fewer.
\* It finds a blocking gate exactly if the report is blocked, the same one that
\* the API names first, no gate is pending, and of the warnings only that of G13
\* is missing (runner.ts:74-133, dashboard/lib/gates.ts:102-136).
VerdictReachesReviewer ==
    Judged =>
        /\ saved.blocked <=> BlockingGate(saved) # None
        /\ saved.blocked => BlockingGate(saved) = BlockingFailures(report)[1]
        /\ "pending" \notin Range(Strip(saved))
        /\ GatesThatWarn(saved) = Filter(WarningFailures(report), IsContractGate)

\* Outside of the editor the screen has the text that the gates saw, unless an
\* edit was approved: an abandoned edit is neither shown, nor rejected, nor
\* approved as if it had been read (DraftDetail.tsx:78-81, 287-299).
ScreenHasGatedText ==
    screen # None /\ ~screen.isEditing /\ IsModified => screen.decision = "approved"

\* "One approach per N days" (frequency.ts:47-49): G11 passes exactly if every
\* send of other campaigns to the merchant is that old, though it is only given
\* the last of them.
CapIsExact ==
    Judged =>
        (Passed("G11_frequency_cap") <=>
            \A s \in input.sends : s.campaign # input.campaign =>
                input.now - s.sentAt >= FrequencyCapDays * TicksPerDay)

-----------------------------------------------------------------------------
\* The digits of a text, zeros aside.
NonZero == Digits \ {"0"}
Figures(text) == Filter(text, LAMBDA char : char \in NonZero)
RecordDigits == {Figures(v.whole \o v.part) : v \in GroundedNumbers(Merchant)} \ {<<>>}

\* The sequence is some of the words one after another.
IsMadeOf(seq, words) ==
    LET made[n \in 0..Len(seq)] ==
            \/ n = 0
            \/ \E w \in words : /\ Len(w) <= n
                                /\ SubSeq(seq, n - Len(w) + 1, n) = w
                                /\ made[n - Len(w)]
    IN  made[Len(seq)]

\* The digits of the numbers that are too long for a double and that it does not
\* tell from one in the record, as 4.79999999999999999999 from a rating of 4.8.
IsLookAlike(token) ==
    \E v \in Denoted(token) : ~IsExact(v) /\ Rounded(v) \in GroundedNumbers(Merchant)
LookAlikes ==
    {Figures(token) : token \in
        {u \in {TextOf(Draft.body, t) : t \in NumberTokens(Draft.body)} : IsLookAlike(u)}}
    \ {<<>>}

\* No digit slips past G06 between two tokens or in one that cannot be read: the
\* digits of a body that passes are the digits of numbers in the record, or of
\* numbers of more than fifteen digits that round to one, one after another,
\* zeros aside (numbers.ts:46-145).
NoNumberInvented ==
    Judged /\ Passed("G06_no_invented_numbers") =>
        IsMadeOf(Figures(Draft.body), RecordDigits \cup LookAlikes)

\* A whole number with a mark between its thousands.
Marked(digits, mark) ==
    LET n == Len(digits)
    IN  FlattenSeq([i \in 1..n |->
            IF i < n /\ (n - i) % 3 = 0 THEN <<digits[i], mark>> ELSE <<digits[i]>>])

Wholes(whole, decimal) ==
    IF whole = <<>> THEN {<<"0">>}
    ELSE {whole} \cup {Marked(whole, m) : m \in {Space, Comma, Point} \ {decimal}}

\* The ways to write a number that numbers.ts:5-6 and 74-80 names.
Spellings(v) ==
    IF v.part = <<>> THEN Wholes(v.whole, None)
    ELSE UNION {{w \o <<d>> \o v.part : w \in Wholes(v.whole, d)} : d \in {Point, Comma}}

NumbersOf(merchant) ==
    {merchant[f].value : f \in {g \in DOMAIN merchant : merchant[g].kind = "number"}}

HonestBodies ==
    {<<"x">> \o s \o <<"x">> : s \in UNION {Spellings(v) : v \in NumbersOf(Merchant)}}

\* "A gate that only recognised one of those would report a hallucination every
\* time the model wrote a number correctly in a European locale" (numbers.ts:6-8):
\* a number of the record passes in all of them.
HonestNumbersPass ==
    Judged /\ Draft.body \in HonestBodies => Passed("G06_no_invented_numbers")

-----------------------------------------------------------------------------
\* No two claims are grounded in the same words of the body: the spans that G05
\* gives out never overlap (text.ts:33-38, grounding.ts:96-98).
GroundsAreDisjoint ==
    Judged => \A i, j \in DOMAIN Grounded :
        /\ i # j
        /\ Grounded[i] # None
        /\ Grounded[j] # None
        => ~Overlap(Grounded[i], Grounded[j])

\* A claim the gate could ground is one the dashboard can link and the draft
\* agent would not reject, though each looks for it in its own way; and the
\* dashboard never links what the agent would reject.
GroundedIsLinked ==
    Judged => \A i \in DOMAIN Linked :
        /\ Grounded[i] # None => Linked[i] # None
        /\ Linked[i] # None => i \notin FindUngroundedClaims(Draft.body, DraftClaims)

\* "Either the claim is absent from the body, or every occurrence of it is
\* already spoken for" (spans.ts:76-77): a claim that the dashboard leaves
\* unlinked is cited by more refs than the body has occurrences of it, and no
\* two refs are linked to one occurrence.
UnlinkedIsOverCited ==
    Judged => \A i \in DOMAIN Linked :
        IF Linked[i] = None
        THEN Cardinality({j \in 1..i : DraftClaims[j] = DraftClaims[i]})
                > Cardinality(Occurrences(Draft.body, DraftClaims[i]))
        ELSE \A j \in 1..(i - 1) : Linked[j] # Linked[i]

\* What composeBody is for (dashboard/lib/mock/build.ts): in a body put together
\* from parts and not refused as ambiguous, each claim is linked to the place
\* where it was put, though only its text is kept.
ClaimsLandWhereComposed ==
    LET parts == input.parts
        at == ClaimParts(parts)
    IN  Judged /\ parts # <<>> /\ AreUnambiguous(Draft.body, DraftClaims) =>
            \A i \in DOMAIN at : Linked[i].start = Len(BodyOf(SubSeq(parts, 1, at[i] - 1)))

\* "Concatenating segment.text reproduces the body exactly" (spans.ts:82-85),
\* with no empty segment.
SegmentsReproduceBody ==
    Opened =>
        /\ FlattenSeq([i \in DOMAIN screen.segments |-> screen.segments[i].text]) = Draft.body
        /\ \A i \in DOMAIN screen.segments : screen.segments[i].text # <<>>

LiesIn(span, at) == span.start <= at /\ at < span.end

\* Every character of the body carries exactly the claims linked to it and the
\* gates that marked it: cutting at the marks neither spreads a highlight nor
\* loses part of one, and what the runner marked is marked on the screen
\* (spans.ts:12-15, DraftDetail.tsx:94-99).
SegmentsCarryTheirMarks ==
    Opened => \A i \in DOMAIN screen.segments :
        LET segment == screen.segments[i]
        IN  \A at \in segment.start..(segment.start + Len(segment.text) - 1) :
                /\ segment.evidence =
                      {r \in DOMAIN Linked : Linked[r] # None /\ LiesIn(Linked[r], at)}
                /\ segment.gates \cup {"G13_claim_count"} =
                      {o.gate : o \in {p \in Range(report.outcomes) :
                                          \E s \in p.spans : LiesIn(s, at)}}
                      \cup {"G13_claim_count"}

-----------------------------------------------------------------------------
(***************************************************************************)
(* Two things the repository says that its code does not keep to.  They    *)
(* are listed in no configuration: TLC refutes both on the instance of     *)
(* Review.cfg.                                                             *)
(***************************************************************************)
\* G05 says of a claim that is in the body and that it will not ground that it
\* "appears N time(s) in the body but is cited more often than that"
\* (grounding.ts:108-109).
UngroundedIsOverCited ==
    Judged => \A i \in DOMAIN Grounded :
        /\ Grounded[i] = None
        /\ SpansOf(Draft.body, DraftClaims[i]) # {}
        => Cardinality({j \in 1..i : DraftClaims[j] = DraftClaims[i]})
              > Cardinality(SpansOf(Draft.body, DraftClaims[i]))

\* "The count is reported, visible in the report and in the strip"
\* (claims.ts:18-19).
ClaimCountIsSeen ==
    Judged /\ ~Passed("G13_claim_count") =>
        \E i \in DOMAIN GateIds : GateIds[i] = "G13_claim_count" /\ Strip(saved)[i] = "warn"
=============================================================================
