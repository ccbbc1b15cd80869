------------------------------- MODULE Outreach -------------------------------
(***************************************************************************)
(* From a human decision to a delivered message: the approval API          *)
(* (services/approval), the transactional outbox, the outbox workers and   *)
(* the delivery provider (services/sender), over the tables and unique     *)
(* indexes of shared/migrations/4_lifecycle.up.sql.                        *)
(*                                                                         *)
(* An approval call that reads before it writes is two steps, Begin and    *)
(* Commit, with the row lock of SELECT ... FOR UPDATE held in between; a   *)
(* worker's tick is a claim, a series of requests to the provider and a    *)
(* recording transaction, each a step, with a crash possible between any   *)
(* two of them.                                                            *)
(***************************************************************************)
EXTENDS Lifecycle, Sequences

CONSTANTS
    Attempts,      \* rows of outreach_attempts, each with a draft of its own
    Merchants, Campaigns,
    MerchantOf, CampaignOf,     \* the attempt's foreign keys
    Reviewers,     \* people who may approve
    Addresses,     \* values of merchants.contact_email
    Texts,         \* subject and body of a draft, as one value
    Contents,      \* subject and body concatenated, what contentHash reads
    ContentHash,   \* [Texts -> Contents]: two splits of a text may agree
    Prints,        \* subject and body joined, what fingerprintOf reads
    Fingerprint,   \* [Texts -> Prints]
    InitialText,   \* [Attempts -> Texts]: the text the model drafted
    InitialEmail,  \* [Merchants -> Addresses]
    FailingTexts,  \* texts a blocking gate rejects on their content
    Workers,
    MaxTries       \* RetryPolicy.maxAttempts

Keys == Merchants \X Campaigns \X Contents
DedupKey(a, text) == <<MerchantOf[a], CampaignOf[a], ContentHash[text]>>
SamePair(a, b) == MerchantOf[a] = MerchantOf[b] /\ CampaignOf[a] = CampaignOf[b]

AttemptRows == [state : OutreachState, dedupKey : Keys,
                approvedBy : Reviewers \cup {None}, providerMessageId : Nat,
                failureReason : BOOLEAN, attemptCount : 0..MaxCount]
Transactions == [op : {"approve", "edit"}, by : Reviewers, text : Texts,
                 to : Addresses, approached : BOOLEAN]
GateReports == [text : Texts, blocked : BOOLEAN]
OutboxRows == [to : Addresses, text : Texts, key : Keys,
               claim : {"none", "fresh", "expired"}, processed : BOOLEAN,
               lastError : BOOLEAN, claims : 0..MaxCount]
Deliveries == [id : Nat, to : Addresses, text : Texts]

ASSUME IdentityAssumption ==
    /\ MerchantOf \in [Attempts -> Merchants]
    /\ CampaignOf \in [Attempts -> Campaigns]
    /\ ContentHash \in [Texts -> Contents]
    /\ Fingerprint \in [Texts -> Prints]
    /\ InitialText \in [Attempts -> Texts]
    /\ InitialEmail \in [Merchants -> Addresses]
    /\ FailingTexts \subseteq Texts
    /\ MaxTries \in Nat \ {0}

\* uq_attempt_dedup holds of the rows the run starts with.
ASSUME InitialKeysDiffer ==
    \A a, b \in Attempts :
        DedupKey(a, InitialText[a]) = DedupKey(b, InitialText[b]) => a = b

ASSUME NoneAssumption ==
    /\ None \notin Reviewers
    /\ None \notin Attempts
    /\ None \notin Transactions
    /\ None \notin GateReports
    /\ None \notin OutboxRows
    /\ None \notin Deliveries

VARIABLES
    attempt,     \* [Attempts -> AttemptRows], table outreach_attempts
    draft,       \* [Attempts -> Texts], table drafts
    report,      \* table gate_reports, None where a draft has no report
    email,       \* [Merchants -> Addresses], merchants.contact_email
    tx,          \* the open transaction that holds the attempt's row lock
    outbox,      \* table outbox by attempt (uq_outbox_attempt), None if no row
    created,     \* the attempts of the outbox rows by created_at
    provider,    \* the provider's messages by Idempotency-Key
    accepted,    \* how many messages the provider has accepted
    worker       \* what each worker process is doing

vars == <<attempt, draft, report, email, tx, outbox, created, provider,
          accepted, worker>>
tables == <<attempt, draft, report, outbox, created>>
delivery == <<provider, accepted>>

Idle == [pc |-> "idle", row |-> None, tries |-> 0, messageId |-> 0]
WorkerStates == [pc : {"idle", "delivering", "sent", "failed"},
                 row : Attempts \cup {None}, tries : 0..MaxTries, messageId : Nat]

Init ==
    /\ attempt = [a \in Attempts |->
          [state |-> "PENDING_APPROVAL", dedupKey |-> DedupKey(a, InitialText[a]),
           approvedBy |-> None, providerMessageId |-> 0,
           failureReason |-> FALSE, attemptCount |-> 0]]
    /\ draft = InitialText
    /\ report = [a \in Attempts |-> None]
    /\ email = InitialEmail
    /\ tx = [a \in Attempts |-> None]
    /\ outbox = [a \in Attempts |-> None]
    /\ created = <<>>
    /\ provider = [k \in Keys |-> None]
    /\ accepted = 0
    /\ worker = [w \in Workers |-> Idle]

-----------------------------------------------------------------------------
(***************************************************************************)
(* The approval API.  A call on an attempt that is not PENDING_APPROVAL    *)
(* answers or fails without a write, and so is no step at all.             *)
(***************************************************************************)

\* Mutant: the state is not checked under the lock.
MutDecidable(a) == tx[a] = None

\* loadAttemptForUpdate, duplicateOf and requireState let the call through.
Decidable(a) == tx[a] = None /\ attempt[a].state = "PENDING_APPROVAL"

\* loadPreviousApproach: the merchant has a committed SENT row from another
\* campaign.  A run of the model is shorter than frequencyCapDays.
PreviousApproach(a) ==
    \E b \in Attempts : /\ MerchantOf[b] = MerchantOf[a]
                        /\ CampaignOf[b] # CampaignOf[a]
                        /\ attempt[b].state = "SENT"

BeginApprove(a, by) ==
    /\ Decidable(a)
    /\ tx' = [tx EXCEPT ![a] =
          [op |-> "approve", by |-> by, text |-> draft[a],
           to |-> email[MerchantOf[a]], approached |-> FALSE]]
    /\ UNCHANGED <<tables, email, delivery, worker>>

BeginEdit(a, by, text) ==
    /\ Decidable(a)
    /\ tx' = [tx EXCEPT ![a] =
          [op |-> "edit", by |-> by, text |-> text,
           to |-> email[MerchantOf[a]], approached |-> PreviousApproach(a)]]
    /\ UNCHANGED <<tables, email, delivery, worker>>

\* uq_attempt_dedup lets the attempt's row carry this key.
KeyIsFree(a, key) == \A b \in Attempts \ {a} : attempt[b].dedupKey # key

\* created_at is NOW(), the start of a transaction that may have waited for the
\* row lock: the row may be older than rows that were committed before it.
CreatedAfter(i, a) ==
    SubSeq(created, 1, i) \o <<a>> \o SubSeq(created, i + 1, Len(created))

\* queueForDelivery: PENDING_APPROVAL -> APPROVED -> QUEUED and the outbox
\* insert, ON CONFLICT DO NOTHING but only when the row there has this key.
QueueForDelivery(a, by, to, text, key) ==
    LET approved == ApproveMove(attempt[a], by)
    IN  /\ CanTransition(attempt[a].state, "APPROVED")
        /\ CanTransition("APPROVED", "QUEUED")
        /\ KeyIsFree(a, key)
        /\ attempt' = [attempt EXCEPT ![a] =
                          [QueueMove(approved) EXCEPT !.dedupKey = key]]
        /\ outbox[a] # None => outbox[a].key = key
        /\ outbox' = [outbox EXCEPT ![a] = IF @ # None THEN @ ELSE
              [to |-> to, text |-> text, key |-> key, claim |-> "none",
               processed |-> FALSE, lastError |-> FALSE, claims |-> 0]]
        /\ IF outbox[a] # None THEN UNCHANGED created
           ELSE \E i \in 0..Len(created) : created' = CreatedAfter(i, a)

CommitApprove(a) ==
    /\ tx[a] # None
    /\ tx[a].op = "approve"
    /\ QueueForDelivery(a, tx[a].by, tx[a].to, tx[a].text, attempt[a].dedupKey)
    /\ tx' = [tx EXCEPT ![a] = None]
    /\ UNCHANGED <<draft, report, email, delivery, worker>>

\* runGates over the edited text: its content, and G11 on the previous approach.
GatesBlock(t) == t.text \in FailingTexts \/ t.approached

\* Mutant: an edit keeps the key of the text it replaces.
MutEditKey(a) == attempt[a].dedupKey

\* editAndApprove recomputes the key over the edited text.
EditKey(a) == DedupKey(a, tx[a].text)

CommitEdit(a) ==
    /\ tx[a] # None
    /\ tx[a].op = "edit"
    /\ draft' = [draft EXCEPT ![a] = tx[a].text]
    /\ report' = [report EXCEPT ![a] =
                     [text |-> tx[a].text, blocked |-> GatesBlock(tx[a])]]
    /\ \/ /\ GatesBlock(tx[a])
          /\ CanTransition(attempt[a].state, "BLOCKED")
          /\ KeyIsFree(a, EditKey(a))
          /\ attempt' = [attempt EXCEPT ![a] =
                            [BlockMove(attempt[a]) EXCEPT !.dedupKey = EditKey(a)]]
          /\ UNCHANGED <<outbox, created>>
       \/ /\ ~GatesBlock(tx[a])
          /\ QueueForDelivery(a, tx[a].by, tx[a].to, tx[a].text, EditKey(a))
    /\ tx' = [tx EXCEPT ![a] = None]
    /\ UNCHANGED <<email, delivery, worker>>

\* A refused key, a database error or a crash of the API process: ROLLBACK.
Rollback(a) ==
    /\ tx[a] # None
    /\ tx' = [tx EXCEPT ![a] = None]
    /\ UNCHANGED <<tables, email, delivery, worker>>

Reject(a) ==
    /\ Decidable(a)
    /\ CanTransition(attempt[a].state, "REJECTED")
    /\ attempt' = [attempt EXCEPT ![a] = RejectMove(attempt[a])]
    /\ UNCHANGED <<draft, report, email, tx, outbox, created, delivery, worker>>

\* ingestMerchants upserts a merchant whose address changed at the source.
Reingest(m, address) ==
    /\ email' = [email EXCEPT ![m] = address]
    /\ UNCHANGED <<tables, tx, delivery, worker>>

-----------------------------------------------------------------------------
(***************************************************************************)
(* The outbox worker, one tick at a time: claimNextOutboxRow, then         *)
(* deliverClaimedRow, then recordTickResult.                               *)
(***************************************************************************)

\* Mutant: the claim does not keep the row back until it expires.
MutClaimable(a) == outbox[a] # None /\ ~outbox[a].processed

Claimable(a) ==
    /\ outbox[a] # None
    /\ ~outbox[a].processed
    /\ outbox[a].claim \in {"none", "expired"}

OldestClaimable(a) ==
    \E i \in 1..Len(created) :
        /\ created[i] = a
        /\ Claimable(a)
        /\ \A j \in 1..(i - 1) : ~Claimable(created[j])

Claimed(row) == [row EXCEPT !.claim = "fresh", !.claims = Bump(@)]
Expired(row) == [row EXCEPT !.claim = "expired"]

ClaimNextOutboxRow(w, a) ==
    /\ worker[w].pc = "idle"
    /\ OldestClaimable(a)
    /\ outbox' = [outbox EXCEPT ![a] = Claimed(@)]
    /\ worker' = [worker EXCEPT ![w] =
          [pc |-> "delivering", row |-> a, tries |-> 1, messageId |-> 0]]
    /\ UNCHANGED <<attempt, draft, report, email, tx, created, delivery>>

\* CLAIM_TIMEOUT_MINUTES pass since the row was claimed.
ClaimExpires(a) ==
    /\ outbox[a] # None
    /\ outbox[a].claim = "fresh"
    /\ outbox' = [outbox EXCEPT ![a] = Expired(@)]
    /\ UNCHANGED <<attempt, draft, report, email, tx, created, delivery, worker>>

Receipt(tick, id) ==
    [pc |-> "sent", row |-> tick.row, tries |-> 0, messageId |-> id]
Failure(tick) ==
    [pc |-> "failed", row |-> tick.row, tries |-> 0, messageId |-> 0]

\* withRetry after a retryable error: the next try, or the last error.
AfterRetryableError(tick) ==
    IF tick.tries < MaxTries THEN [tick EXCEPT !.tries = @ + 1] ELSE Failure(tick)

Delivering(w) == worker[w].pc = "delivering"

\* Mutants: the worker reads the recipient when it sends; the provider forgets.
MutRowOf(w) ==
    LET a == worker[w].row IN [outbox[a] EXCEPT !.to = email[MerchantOf[a]]]
MutKnown(w) == None

RowOf(w) == outbox[worker[w].row]
Known(w) == provider[RowOf(w).key]
SamePrint(stored, row) ==
    stored.to = row.to /\ Fingerprint[stored.text] = Fingerprint[row.text]

\* record(): the provider stores the message under its key with a fresh id.
Accept(w) ==
    LET row == RowOf(w)
    IN  /\ accepted' = accepted + 1
        /\ provider' = [provider EXCEPT ![row.key] =
                           [id |-> accepted + 1, to |-> row.to, text |-> row.text]]

\* A known key is answered with the message it named, or, when it was used for
\* other content, with an error that is not retryable.
SendKnownKey(w) ==
    /\ Delivering(w)
    /\ Known(w) # None
    /\ worker' = [worker EXCEPT ![w] =
          IF SamePrint(Known(w), RowOf(w)) THEN Receipt(@, Known(w).id) ELSE Failure(@)]
    /\ UNCHANGED <<tables, email, tx, delivery>>

SendAccepted(w) ==
    /\ Delivering(w)
    /\ Known(w) = None
    /\ Accept(w)
    /\ worker' = [worker EXCEPT ![w] = Receipt(@, accepted + 1)]
    /\ UNCHANGED <<tables, email, tx>>

SendTimesOutButAccepted(w) ==
    /\ Delivering(w)
    /\ Known(w) = None
    /\ Accept(w)
    /\ worker' = [worker EXCEPT ![w] = AfterRetryableError(@)]
    /\ UNCHANGED <<tables, email, tx>>

SendFails(w) ==
    /\ Delivering(w)
    /\ Known(w) = None
    /\ worker' = [worker EXCEPT ![w] = AfterRetryableError(@)]
    /\ UNCHANGED <<tables, email, tx, delivery>>

\* Mutants: the indexes and the state machine are not consulted; an old error
\* stays on the row that was sent.
MutPairIsUnsent(a) == TRUE
MutOutcomeLegal(a, outcome) == Authorised(attempt[a])
MutProcessed(row) == [row EXCEPT !.processed = TRUE]

RequeueIfFailed(row) == IF row.state = "FAILED" THEN QueueMove(row) ELSE row

\* uq_attempt_sent lets this row become SENT.
PairIsUnsent(a) ==
    \A b \in Attempts \ {a} : SamePair(a, b) => attempt[b].state # "SENT"

\* applyTransition accepts the recorded outcome; it asks for an approver where
\* the row passes through QUEUED or becomes SENT.
OutcomeLegal(a, outcome) ==
    /\ CanTransition(RequeueIfFailed(attempt[a]).state, outcome)
    /\ attempt[a].state = "FAILED" \/ outcome = "SENT" => Authorised(attempt[a])

\* What the recording transaction writes to the attempt and to the outbox row.
RecordedSent(row, id) ==
    [SendMove(RequeueIfFailed(row), id) EXCEPT !.failureReason = FALSE]
RecordedFailed(row) == FailMove(RequeueIfFailed(row))
Processed(row) == [row EXCEPT !.processed = TRUE, !.lastError = FALSE]
Erred(row) == [row EXCEPT !.lastError = TRUE]

MarkSent(w) ==
    LET a == worker[w].row
    IN  /\ worker[w].pc = "sent"
        /\ OutcomeLegal(a, "SENT")
        /\ PairIsUnsent(a)
        /\ attempt' = [attempt EXCEPT ![a] = RecordedSent(@, worker[w].messageId)]
        /\ outbox' = [outbox EXCEPT ![a] = Processed(@)]
        /\ worker' = [worker EXCEPT ![w] = Idle]
        /\ UNCHANGED <<draft, report, email, tx, created, delivery>>

MarkFailed(w) ==
    LET a == worker[w].row
    IN  /\ worker[w].pc = "failed"
        /\ OutcomeLegal(a, "FAILED")
        /\ attempt' = [attempt EXCEPT ![a] = RecordedFailed(@)]
        /\ outbox' = [outbox EXCEPT ![a] = Erred(@)]
        /\ worker' = [worker EXCEPT ![w] = Idle]
        /\ UNCHANGED <<draft, report, email, tx, created, delivery>>

\* recordTickResult throws (illegal transition or uq_attempt_sent) and rolls back.
RecordRefused(w) ==
    LET a == worker[w].row
    IN  /\ \/ worker[w].pc = "sent" /\ ~(OutcomeLegal(a, "SENT") /\ PairIsUnsent(a))
           \/ worker[w].pc = "failed" /\ ~OutcomeLegal(a, "FAILED")
        /\ worker' = [worker EXCEPT ![w] = Idle]
        /\ UNCHANGED <<tables, email, tx, delivery>>

\* The process dies (or loses the database) in mid-tick and comes back idle.
Crash(w) ==
    /\ worker[w].pc # "idle"
    /\ worker' = [worker EXCEPT ![w] = Idle]
    /\ UNCHANGED <<tables, email, tx, delivery>>

-----------------------------------------------------------------------------
Decide(a) ==
    \/ \E by \in Reviewers : BeginApprove(a, by)
    \/ \E by \in Reviewers, text \in Texts : BeginEdit(a, by, text)
    \/ CommitApprove(a)
    \/ CommitEdit(a)
    \/ Rollback(a)
    \/ Reject(a)

Claim(w) == \E a \in Attempts : ClaimNextOutboxRow(w, a)

Send(w) ==
    \/ SendKnownKey(w)
    \/ SendAccepted(w)
    \/ SendTimesOutButAccepted(w)
    \/ SendFails(w)

Record(w) == MarkSent(w) \/ MarkFailed(w) \/ RecordRefused(w)

Next ==
    \/ \E a \in Attempts : Decide(a) \/ ClaimExpires(a)
    \/ \E m \in Merchants, address \in Addresses : Reingest(m, address)
    \/ \E w \in Workers : Claim(w) \/ Send(w) \/ Record(w) \/ Crash(w)

Spec == Init /\ [][Next]_vars
=============================================================================
