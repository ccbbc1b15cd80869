-------------------------- MODULE OutreachProperties --------------------------
(***************************************************************************)
(* What the approval and delivery half of the pipeline promises.           *)
(***************************************************************************)
EXTENDS Outreach, FiniteSets

InOutbox(a) == outbox[a] # None
Delivered(a) == InOutbox(a) /\ provider[outbox[a].key] # None

\* Every variable keeps its type; a row lock is held only by an undecided attempt.
TypeOK ==
    /\ attempt \in [Attempts -> AttemptRows]
    /\ draft \in [Attempts -> Texts]
    /\ report \in [Attempts -> GateReports \cup {None}]
    /\ email \in [Merchants -> Addresses]
    /\ tx \in [Attempts -> Transactions \cup {None}]
    /\ outbox \in [Attempts -> OutboxRows \cup {None}]
    /\ created \in Seq(Attempts)
    /\ provider \in [Keys -> Deliveries \cup {None}]
    /\ accepted \in Nat
    /\ worker \in [Workers -> WorkerStates]

\* A worker in mid-tick works on an outbox row, and outbox rows never go away.
WorkersHoldRows ==
    \A w \in Workers : worker[w].pc # "idle" =>
        worker[w].row \in Attempts /\ InOutbox(worker[w].row)

\* The two tables tell one story at every commit: a row in the outbox exactly
\* when the attempt was approved, processed exactly when it is SENT, an error
\* on it exactly when it is FAILED (approval.ts:4-8, worker.ts:117-121).
OutboxAgreesWithAttempt ==
    \A a \in Attempts :
        /\ InOutbox(a) <=> attempt[a].state \in {"QUEUED", "SENT", "FAILED"}
        /\ InOutbox(a) =>
              /\ outbox[a].processed <=> attempt[a].state = "SENT"
              /\ outbox[a].lastError <=> attempt[a].state = "FAILED"

\* The dedup key always names the text in the draft row, through every edit,
\* and a queued message carries that key and that text: no edit can be
\* deduplicated against the message it replaced (dedup.ts:15-23).
KeyNamesItsMessage ==
    \A a \in Attempts :
        /\ attempt[a].dedupKey = DedupKey(a, draft[a])
        /\ InOutbox(a) => /\ outbox[a].text = draft[a]
                          /\ outbox[a].key = attempt[a].dedupKey

\* Whatever the provider accepted is, to the letter and to the address, a
\* message that a person approved, and that was not rejected or blocked.
DeliveredAsApproved ==
    \A k \in Keys : provider[k] # None =>
        \E a \in Attempts :
            /\ InOutbox(a)
            /\ outbox[a].key = k
            /\ provider[k].to = outbox[a].to
            /\ provider[k].text = outbox[a].text
            /\ attempt[a].approvedBy # None

\* A SENT row carries the receipt of the acceptance of its own message,
\* whichever worker recorded it and however often it was retried.
ReceiptIsReal ==
    \A a \in Attempts : attempt[a].state = "SENT" =>
        /\ Delivered(a)
        /\ attempt[a].providerMessageId = provider[outbox[a].key].id

\* The strengthening that makes the invariants above inductive: a locked
\* attempt is undecided and an approval in flight still reads the draft's text;
\* no two attempts share a key; whoever is queued has an approver; a worker
\* about to record a receipt holds the one the provider gave for its row.
LockedIsUndecided ==
    \A a \in Attempts : tx[a] # None =>
        /\ attempt[a].state = "PENDING_APPROVAL"
        /\ tx[a].op = "approve" => tx[a].text = draft[a]

KeysAreUnique ==
    \A a, b \in Attempts : attempt[a].dedupKey = attempt[b].dedupKey => a = b

QueuedHasApprover ==
    \A a \in Attempts : InOutbox(a) => attempt[a].approvedBy \in Reviewers

ReceiptsHeld ==
    \A w \in Workers : worker[w].pc = "sent" =>
        /\ Delivered(worker[w].row)
        /\ worker[w].messageId = provider[outbox[worker[w].row].key].id

\* Everything above at once: the inductive invariant of the approval and
\* delivery code (approval.ts and worker.ts), from which the others are proved.
IndInv ==
    /\ TypeOK
    /\ WorkersHoldRows
    /\ OutboxAgreesWithAttempt
    /\ KeyNamesItsMessage
    /\ DeliveredAsApproved
    /\ ReceiptIsReal
    /\ LockedIsUndecided
    /\ KeysAreUnique
    /\ QueuedHasApprover
    /\ ReceiptsHeld

\* Retries, crashes, timeouts and two workers on one row never make the
\* provider accept an approved message twice.
AcceptedOncePerApproval ==
    accepted = Cardinality({a \in Attempts : Delivered(a)})

\* The stored gate report is the verdict on the text now in the draft row, and
\* an attempt is BLOCKED exactly when its report says so (approval.ts:494-500).
ReportIsCurrent ==
    \A a \in Attempts : report[a] # None =>
        /\ report[a].text = draft[a]
        /\ report[a].blocked <=> attempt[a].state = "BLOCKED"

\* Once a message is queued its recipient, text, key and approver are fixed,
\* whatever is edited, re-ingested, retried or recorded later.
MessageFixed(a) ==
    /\ outbox'[a] # None
    /\ outbox'[a].to = outbox[a].to
    /\ outbox'[a].text = outbox[a].text
    /\ outbox'[a].key = outbox[a].key
    /\ attempt'[a].approvedBy = attempt[a].approvedBy
    /\ draft'[a] = draft[a]

ApprovedMessageIsFixed ==
    [][\A a \in Attempts : InOutbox(a) => MessageFixed(a)]_vars

\* Every commit moves an attempt along the table of legal transitions; SENT,
\* REJECTED and BLOCKED are never left (state-machine.ts:27-29, 60-72).
LifecycleObeyed ==
    [][\A a \in Attempts : attempt'[a].state # attempt[a].state =>
          CommitReaches(attempt[a].state, attempt'[a].state)]_vars

\* The recipient gets at most one message per campaign: "a partial unique index
\* makes a second send to the same merchant in the same campaign impossible at
\* the database level" (4_lifecycle.up.sql:44-45).
OneMessagePerPair ==
    \A a, b \in Attempts : Delivered(a) /\ Delivered(b) /\ SamePair(a, b) => a = b

\* "The cap is one approach per N days" (frequency.ts:48): no merchant is sent
\* messages from two campaigns within the cap.
OneApproachPerMerchant ==
    \A a, b \in Attempts :
        /\ attempt[a].state = "SENT"
        /\ attempt[b].state = "SENT"
        /\ MerchantOf[a] = MerchantOf[b]
        => a = b

\* A request for this row that ends with a receipt.
SendSucceeds(a) ==
    \E w \in Workers : worker[w].row = a /\ (SendKnownKey(w) \/ SendAccepted(w))

\* Nothing is left to claim and no worker is in the middle of a tick: the moment
\* a tick answers "idle" (delivery.ts:50).
Drained ==
    /\ \A a \in Attempts : ~Claimable(a)
    /\ \A w \in Workers : worker[w].pc = "idle"

(***************************************************************************)
(* Fairness of what the code and its surroundings do by themselves.  A     *)
(* tick that has begun does not stop in the middle: a request is answered  *)
(* and an outcome recorded, unless the process crashes.  The clock runs:   *)
(* a claim does not outlast infinitely many moments with nothing to do.    *)
(* Out of infinitely many requests for a row one is not failed by the      *)
(* provider, and out of infinitely many receipts one is recorded before a  *)
(* crash.  Nothing here calls the worker: see PolledPromptly.              *)
(***************************************************************************)
Fairness ==
    /\ \A w \in Workers : WF_vars(Send(w) \/ Record(w))
    /\ \A a \in Attempts : /\ SF_vars(Drained /\ ClaimExpires(a))
                          /\ SF_vars(SendSucceeds(a))
    /\ SF_vars(\E w \in Workers : MarkSent(w))

FairSpec == Spec /\ Fairness

(***************************************************************************)
(* What is asked of the caller of runOutboxWorkerOnce, which the           *)
(* repository does not have: it keeps calling while a row is claimable,    *)
(* and from some point on the calls drain the queue, as the loop of        *)
(* idempotency.integration.test.ts:102 does, before the five minutes of    *)
(* any claim are over.                                                     *)
(***************************************************************************)
PolledPromptly ==
    /\ WF_vars(\E w \in Workers : Claim(w))
    /\ <>[][\A a \in Attempts : ClaimExpires(a) => Drained]_vars

\* With such a caller every approved message is in the end, and for good,
\* recorded as sent, unless another attempt of the same merchant and campaign
\* was: a row that is refused for ever by uq_attempt_sent, and is always the
\* oldest, is kept back by its claim long enough for the younger rows
\* (worker.ts:104-109, 186-193).
ApprovedIsResolved ==
    PolledPromptly =>
        <>[](\A a \in Attempts : InOutbox(a) =>
                \E b \in Attempts : SamePair(a, b) /\ attempt[b].state = "SENT")
=============================================================================
