-------------------------------- MODULE Review --------------------------------
(***************************************************************************)
(* A draft goes through the gates, its report is saved, and a reviewer     *)
(* opens it in the dashboard (components/DraftDetail.tsx), may edit it and *)
(* decides.  What the decision does to the attempt is in Outreach.         *)
(***************************************************************************)
EXTENDS Gates

CONSTANTS
    Merchant,            \* the record of the draft's merchant
    AllowedLinkHosts,
    Inputs               \* families of inputs: a draft, its texts after an edit, the
                         \* sends before it, and the parts it is composed of, if it is

Send == [campaign : Symbols, sentAt : Int]
Hits == [inSubject : BOOLEAN, spans : SUBSET Span]
Part == [text : Seq(Symbols), isClaim : BOOLEAN]

\* The fields that a property looks into.  That a claim is not empty is checked
\* where the draft agent's answer is decoded (services/agents/schemas.ts:220).
IsDraft(draft) ==
    /\ draft.body \in Seq(Symbols)
    /\ ClaimsOf(draft) \in Seq(Seq(Symbols) \ {<<>>})
    /\ draft.overflow \in Nat
    /\ draft.name.near \in Span \cup {None}
    /\ {draft.placeholders, draft.banned} \subseteq Hits
    /\ {c.span : c \in draft.contacts} \subseteq Span
    /\ UNION {draft.asks[kind] : kind \in DOMAIN draft.asks} \subseteq Span
    /\ draft.americanSpellings \cup draft.urgency \cup draft.spam
           \cup draft.shouting \cup draft.exclamations \subseteq Span

IsInput(given) ==
    /\ IsDraft(given.draft)
    /\ given.now \in Int
    /\ given.sends \subseteq Send /\ IsFiniteSet(given.sends)
    /\ given.parts \in Seq(Part)
    /\ given.parts # <<>> =>
           /\ given.draft.body = BodyOf(given.parts)
           /\ ClaimsOf(given.draft) = ComposedClaims(given.parts)

Decimals == [whole : Seq(Digits), part : Seq(Digits)]

\* A string of the record is a text.  A number has its digits without the zeros
\* that do not count; rating, which is NUMERIC(2, 1), is the only one that is not an
\* INTEGER (1_merchants.up.sql:16), so none has more than two decimals or more
\* digits than a double keeps.  What a string denotes is written in digits, too.
IsRecord(merchant) ==
    /\ \A f \in DOMAIN merchant :
          /\ merchant[f].kind = "string" => merchant[f].value \in Seq(Symbols)
          /\ merchant[f].kind = "number" =>
                LET v == merchant[f].value
                IN  /\ v \in Decimals
                    /\ v = Value(v.whole, v.part)
                    /\ Len(v.part) <= 2
                    /\ IsExact(v)
    /\ GroundedNumbers(merchant) \subseteq Decimals

ASSUME ReviewAssumption ==
    /\ TicksPerDay \in Nat
    /\ Digits \subseteq Symbols
    /\ IsRecord(Merchant)
    /\ \A i \in DOMAIN Inputs : \A given \in Inputs[i] : IsInput(given)

ASSUME NoneIsNoValue ==
    None \notin Send \cup Range(GateOrder) \cup {"approved", "rejected"}

FrequencyCapDays == 30

VARIABLES
    input,
    report,      \* of runGates, or None
    saved,       \* the row of gate_reports, or None
    state,       \* of the attempt
    screen       \* of DraftDetail, or None

vars == <<input, report, saved, state, screen>>

Draft == input.draft

-----------------------------------------------------------------------------
OthersSends(sends) == {s \in sends : s.campaign # input.campaign}

\* Mutant: the send that comes first.
MutMostRecent(sends) == CHOOSE s \in sends : \A other \in sends : s.sentAt <= other.sentAt
MostRecent(sends) == CHOOSE s \in sends : \A other \in sends : s.sentAt >= other.sentAt

\* loadPreviousApproach.
LoadPreviousApproach(sends) ==
    IF OthersSends(sends) = {} THEN None ELSE MostRecent(OthersSends(sends))

GateContext ==
    [now |-> input.now, frequencyCapDays |-> FrequencyCapDays,
     previousApproach |-> LoadPreviousApproach(input.sends),
     allowedLinkHosts |-> AllowedLinkHosts]

\* runGates and saveGateReport, as editAndApprove calls them: the draft is BLOCKED
\* or QUEUED.  What puts one that passed before a reviewer is not in the repository;
\* the sample data has it PENDING_APPROVAL.
Gate ==
    /\ report = None
    /\ report' = RunGates(Draft, Merchant, GateContext)
    /\ saved' = ToContractReport(report')
    /\ state' \in IF report'.blocked THEN {"BLOCKED"} ELSE {"PENDING_APPROVAL", "QUEUED"}
    /\ UNCHANGED <<input, screen>>

-----------------------------------------------------------------------------
FailingOutcomes == {o \in Range(saved.outcomes) : ~o.passed}

\* DraftDetail is rendered.
Open ==
    /\ saved # None /\ screen = None
    /\ screen' = [segments |-> BuildBodySegments(Draft.body, ClaimsOf(Draft), FailingOutcomes),
                  isEditing |-> FALSE, editedBody |-> Draft.body, decision |-> None]
    /\ UNCHANGED <<input, report, saved, state>>

CurrentBody ==
    IF screen.isEditing \/ screen.editedBody # Draft.body THEN screen.editedBody ELSE Draft.body
IsModified == CurrentBody # Draft.body

DecidedStates == {"APPROVED", "QUEUED", "SENT", "REJECTED", "FAILED"}
AlreadyDecided == state \in DecidedStates

CanApprove == BlockingGate(saved) = None /\ ~AlreadyDecided

\* A step of the reviewer, before there is a decision.
Undecided == screen # None /\ screen.decision = None
Shows(next) == screen' = next /\ UNCHANGED <<input, report, saved, state>>

EditAndApprove ==
    /\ Undecided
    /\ ~screen.isEditing
    /\ ~AlreadyDecided
    /\ Shows([screen EXCEPT !.isEditing = TRUE])

Type ==
    /\ Undecided
    /\ screen.isEditing
    /\ \E text \in input.edits : Shows([screen EXCEPT !.editedBody = text])

\* Mutant: the text of the cancelled edit is kept.
MutWithoutEdit == [screen EXCEPT !.isEditing = FALSE]
WithoutEdit == [screen EXCEPT !.isEditing = FALSE, !.editedBody = Draft.body]

CancelEdit ==
    /\ Undecided
    /\ screen.isEditing
    /\ Shows(WithoutEdit)

\* "Save and approve" while editing, "Approve and send" otherwise.
Approve ==
    /\ Undecided
    /\ CanApprove
    /\ Shows([screen EXCEPT !.isEditing = FALSE, !.decision = "approved"])

Reject ==
    /\ Undecided
    /\ ~screen.isEditing
    /\ ~AlreadyDecided
    /\ Shows([screen EXCEPT !.decision = "rejected"])

-----------------------------------------------------------------------------
Init ==
    /\ \E i \in DOMAIN Inputs : input \in Inputs[i]
    /\ report = None
    /\ saved = None
    /\ state = "DRAFTED"
    /\ screen = None

Next == Gate \/ Open \/ EditAndApprove \/ Type \/ CancelEdit \/ Approve \/ Reject

Spec == Init /\ [][Next]_vars
=============================================================================
