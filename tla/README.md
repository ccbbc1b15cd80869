# A TLA+ verification of the merchant outreach agent

The program finds merchants, asks a model to judge them and to draft a message,
checks the draft with deterministic gates, puts it before a person, and, once
that person has approved it, delivers it. This directory holds the TLA+ models
of those parts, the TLC configurations that check them on small instances, and
theorems that TLAPS proves for all instances.

`PROJECT.json` lists the components, runs, mutants, findings, hazards, theorems,
and for every definition that models code the lines it stands for. This file
explains them.

## 1. Inventory

Paths are relative to `src/`.

| Component | State it keeps | Operations | What makes it correct |
|---|---|---|---|
| Lifecycle state machine, `services/approval/state-machine.ts` | one row of `outreach_attempts`: state, approver, receipt, failure, count | `applyTransition`, `canTransition` | no move off the table; nothing is approved, queued or sent without an approver; SENT, REJECTED, BLOCKED are final |
| Approval API, `services/approval/approval.ts` | `outreach_attempts`, `drafts`, `gate_reports`, `outbox` | `approve`, `reject`, `editAndApprove` | one decision per attempt; attempt and outbox row change together; an edit moves text, key and report as one |
| Dedup key, `services/approval/dedup.ts` | none | `dedupKey`, `contentHash` | a key always names the text of its draft |
| Schema, `shared/migrations/*.sql` | unique indexes, checks | – | an attempt per key, a SENT row per merchant and campaign, an outbox row per attempt |
| Outbox worker, `services/sender/worker.ts` | claims, `processed_at`, `last_error`; the tick in hand | claim, deliver, record | nothing approved is lost, nothing is delivered twice, no record without a delivery |
| Delivery, retry, `services/sender/delivery.ts`, `retry.ts` | the number of the try | `withRetry` | only retryable errors are repeated, and only so often |
| Provider, `services/sender/provider.ts` | messages by Idempotency-Key | `send` | a key is accepted once, and answers with the message it named |
| Triage and draft agents, `services/agents/triage.ts`, `draft.ts` | the calls made for one result | `runTriage`, `runDraft` | a result costs what its calls cost; a claim is in the body |
| Cost guard, call runner, `services/agents/cost.ts`, `runner.ts` | none beyond `llm_calls` | `assertCanSpend`, `invokeModel` | overspending is bounded; every call made is on the books |
| LLM client, `services/agents/llm.ts` | fixtures on disk | `call` in the modes live, record, fixture | what was recorded can be replayed |
| Agent store, `services/agents/store.ts` | `llm_calls`, `triage_results`, `drafts` | inserts and an upsert, `campaignSpendUsd` | – |
| Ingest, `services/ingest/` | `merchants`, `enrichments` | `ingestMerchants`, `listMerchants`, validation, derivation of signals | a batch is there whole or not at all; a merchant never without its signals; the count of new rows is right; what is accepted violates no CHECK; a signal quotes its field; paging misses no row |
| Quality gates, `services/gates/` | none: a function of draft, record and context | `runGates`, G01–G13, `toContractReport` | no number passes that the record does not have, an honest one always does; one claim grounds one ref; the cap is kept to the instant |
| Dashboard, `dashboard/` | the text and the decision on screen, filters | reading of a report, span linking, segments, edit, approve, reject | the verdict shown is the gates'; what is highlighted is what was found; what is approved was seen by the gates or is an edit |
| Evals, `evals/` | `baseline.json`, the judge's fixtures | the metrics, `check_metric`, `calibrate` in three modes, `record_baseline.py` | a replayed score answers the prompt in force; a green suite was earned; what the judge may overspend is bounded |
| Scripts, `scripts/` | the batch and the addresses taken while it is made | `generateMerchants`, `ensureEdgeCases`, seeding in chunks, recording of fixtures | every edge case is in every batch; addresses are unique and match; what is generated is accepted |

How they interact. Everything meets in one Postgres database; there are no
messages between services but the provider's HTTP request. Ingest writes
merchants and signals. The agents read those, pay for calls in `llm_calls` and
write triage results and drafts. The approval API moves a drafted attempt to a
decision in one transaction and, when it is an approval, puts a row in `outbox`
in the same transaction. A call of the worker, `runOutboxWorkerOnce`, claims a row of
`outbox`, delivers it and records the outcome on the attempt and the row together;
outside of the tests nothing in the repository makes that call. Ingest also changes
the address a later decision will use.

Behaviours that are hard: a row lock held across reads that may be stale; the gap between a
claim, a request and its record, with crashes and an expiring claim; a request
that times out and was accepted; two attempts for one merchant; agents that
share a budget and only see what others have already paid; batches that
overlap; three places that locate a claim in a text each in its own way; a
report that loses a gate on the way to the screen that interprets it; edge
cases forced into one batch after another; a rating that is quoted before it is
rounded; recordings that a run leaves half done when the prompt is edited
between runs.
`hazards` in `PROJECT.json` lists them line by line with the properties aimed at each.

## 2. Modules

| Module | Models | EXTENDS / uses |
|---|---|---|
| `Lifecycle` | the transition table and `applyTransition`'s effect on a row | – |
| `Outreach` | approval API, outbox, workers, retry, provider | `Lifecycle` |
| `OutreachProperties` | the properties of the above, the inductive invariant, fairness | `Outreach` |
| `ApprovedDelivery` | what approval and delivery promise, with no mechanism | – |
| `OutreachRefinement` | the refinement mapping | `INSTANCE ApprovedDelivery` |
| `OutreachProofs` | TLAPS proofs, of the refinement too | `OutreachRefinement` |
| `Agents`, `AgentsProperties`, `AgentsProofs` | agents, guard, client, store | – (the proofs: `DataLemmas`) |
| `Ingest`, `IngestProperties`, `IngestProofs` | ingest of concurrent batches | – |
| `Ordered` | numbers in ascending order, and what of a sequence passes a test | – |
| `DataLemmas` | lemmas for the proofs: least numbers, induction and recursion, sums and counts over finite sets, ascending order, what is kept of a sequence | `Ordered` |
| `Merchants` | what validation, columns and constraints ask of a merchant, what is read back | `Numbers` |
| `Signals` | the five signals of a merchant at a moment | `Merchants` |
| `Generator` | how a merchant is made, the edge cases and their forcing | `Signals` |
| `Seeding`, `SeedingProperties`, `SeedingProofs` | generate, post in chunks, store with signals, read page by page | `Generator` (the proofs: `NumbersProofs`) |
| `Evals`, `EvalsProperties`, `EvalsProofs` | the suite, its baseline, the judge and who edits and records | – |
| `Claims` | locating, composing and highlighting claims | `Ordered` |
| `Numbers` | the numbers written in a text and what they may denote | `Ordered` |
| `NumbersProofs` | lemmas about them: where numbers begin and end, and as what each spelling is read | `Numbers`, `DataLemmas` |
| `Gates` | the thirteen gates, the runner, the report and the dashboard's reading of it | `Claims`, `Numbers` |
| `Review`, `ReviewProperties`, `ReviewProofs` | a draft from the gates to a reviewer's decision | `Gates` (the proofs: `NumbersProofs`) |
| `MC*` | constants for TLC | – |

### Outreach

`attempt`, `draft`, `report`, `email`, `outbox` are the committed tables by
attempt or merchant; `tx` is the open transaction that holds an attempt's row
lock, with what it has read; `created` is the order of `outbox.created_at`;
`provider` the provider's store; `worker` what each worker process has in hand.

* A call of the API is `Begin…` (lock, load, check) and `Commit…` or `Rollback`.
  What it read in between (the address, the text, whether the merchant was
  approached) is kept in `tx` and may be stale at the commit. `Reject` reads
  nothing it writes and is one step. A call that is turned away writes nothing
  and is no step.
* `QueueForDelivery` is part of both commits; it makes the two moves
  PENDING_APPROVAL → APPROVED → QUEUED and the insert with ON CONFLICT.
* `created_at` is the start of a transaction that may have waited for its lock,
  so a new row may take any place among the old ones (`CreatedAfter`).
* A tick is `ClaimNextOutboxRow`, then a `Send…` for each try, then `MarkSent`,
  `MarkFailed` or `RecordRefused`; `Crash` may happen between any two and
  `ClaimExpires` at any time, also while a worker is still at work on the row.
* `SendTimesOutButAccepted` is the provider's `timeoutButAccepted`; which of
  the outcomes a request meets is drawn from a seeded generator in the code and
  is a free choice here.
* `contentHash` hashes subject and body concatenated, the provider's fingerprint
  joins them differently; `ContentHash` and `Fingerprint` are constants, and in the
  runs one pair of texts shares a hash and not a fingerprint.

Abstracted: timestamps that only stamp a move, the wording of errors, the audit
text of a rejection, back-off delays. A run of the model is shorter than
`frequencyCapDays`, so every SENT row counts as a previous approach. Counters of
claims and deliveries stop at `MaxCount`.

### Agents

A job is `Start`, and for each call `CheckBudget`, one of the ends of a call,
`RecordCall` (or `RecordFails`), then `Escalate`, a save or `PayloadRejected`.
Every one of these is a step because each is an `await` in the code; other agents
of the campaign run between. Money is in units: a call costs 1 to `MaxCost`.
Which answers parse, refuse or are truncated is a free choice. `lost` is a
history variable: why a charged call is not in `llm_calls`.

### Ingest

A request validates its batch and fixes the batch's moment (`Receive`), upserts
one merchant at a time under row locks (`Upsert`), and commits. `merchants` and
`enrichments` are the committed tables: what a batch wrote appears at `Commit`.
`Fail` is a failed statement or a dead process at any point, `DeadlockDetected`
what Postgres does to a cycle of waiters. Signals are a function of the record
and the moment, so they are represented by that pair here; what they say is in
`Seeding`.

### Merchants, Signals, Generator, Seeding

These follow one merchant from the random numbers it is made of to the signals
that are stored with it. `Sample` is one round of the loop of `generateMerchants`;
`CaseIsCovered`, `CannotGuarantee`, `BeginPatching`, `Patch` and `CaseIsPatched` are
`ensureEdgeCases`, one merchant at a time, because a case forced later may undo one
that was counted earlier. `Land` and `Fail` are one request of `seed-merchants.ts`, or
of another caller, with everything ingest does to a batch that is alone;
`BeginListing` and `ReadPage` are `listMerchants` called for page after page, of one
category or of all, with posts between the pages. `listing` notes in `shrunk` that a
merchant before the offset has left the category that is read (`Relist`).

`IsValid` has a conjunct for each check of `validateMerchant`; `FitsColumns`,
`MeetsChecks` and `ReadBack` are the table. `FitsColumns` is what a statement may fail
of before any CHECK is looked at: a count beyond INTEGER, a text with U+0000 (`Nul`), a
text that no entry of an index holds (`Indexable`), a timestamp that `::timestamptz`
refuses. JavaScript's Date and Postgres read timestamps each in its own way, so a
timestamp has two instants: `minute` is Date's and `stored` is Postgres's, and either may
be missing. Signals are derived from the one, the row keeps the other. `DeriveSignals` is `enrich.ts`, signal by
signal in its order; `Matches` and `Forced` are the list of edge cases.

Abstracted: a number is in hundredths, so that the rounding of NUMERIC(2, 1) is
exact; of the wording of a signal the figures are kept; a calendar has months of thirty
days, and the text of a timestamp, which a signal quotes the beginning of, is that of
`toISOString` at some offset, though Date also reads others; an address and a URL are
their parts. The random generator is not
modelled: the draws are given, and any of what `IsDraw` admits may be. The letters
that Unicode takes apart are a constant, which is how "ø" and "ł" are told from "ë".
An id is padded to four digits, so the order of ids is that of their numbers for as
many merchants as the model has.

### Evals

`corpus` is what the gates find in each draft, `prompt` the version in force,
`fixtures` the judge's recordings by key (a hash of all that may change the
answer, so the key is the prompt and the draft), `baseline` the file with the state it
was measured on, `verdict` the last run of the suite if nothing has changed since.
A person edits the code or the prompt, runs the suite, records a baseline, or lets the
judge work in the modes `record` and `live`; the judge takes one draft a step: `Score`,
`AnswerIsUnusable` (written to its fixture before it is parsed), `Refuse`,
`CapIsReached`. `Status` is `check_metric`, and replay in fixture mode is part of
`Measured`.

Abstracted: rates and means are in thousandths, rounded down; a score has one
axis of the several; triage accuracy is left out, it is measured and compared as
the other metrics are. As a bound, files are edited only while the judge is idle.

### Gates and Review

`Claims` and `Numbers` work on text, a sequence of characters, because their
hazards are offsets and digits. `GroundClaims` is gate G05's loop, `LocateClaims`
the dashboard's, `FindUngroundedClaims` the draft agent's test, `BuildBodySegments`
the cutting of a body at its marks. `NumberTokens` finds the matches of the
code's two-armed pattern, `NumericInterpretations` has one line for each of its seven
shapes (`Denoted`) and then makes them doubles, as `Number` does. A value is its digits
without the zeros that do not count. A double is represented by the shortest decimal that is
read as it: a decimal of up to `ExactDigits` digits (fifteen, for IEEE doubles) is its
own, and what a longer one is rounded to is the constant `Rounded`, of which the proofs
assume nothing. The run rounds as doubles do on the few long decimals in it.

`Gates` has one definition per gate. What the regular expressions of the other gates
match is part of the draft: spans, words, hosts, the function words of each
language. So is what G01 finds misshapen. Kept are the limits and their
boundaries, what is marked, which hosts and addresses the record allows, what
counts as another language, how the kinds of an ask are counted. Instants are in
half days and always parse.

`Review` is the way of a draft: `Gate` runs and saves, `Open` shows the draft
screen, then `EditAndApprove`, `Type`, `CancelEdit`, `Approve` and `Reject` are the
buttons with the conditions under which they are enabled. The screen keeps
its decision to itself in this build; what `approve` and `editAndApprove` do with one is in
`Outreach`, which keeps of a gate run only the verdict.

## 3. What is checked

| Run | Instance | Shows |
|---|---|---|
| `pair` | two attempts of one merchant in one campaign; four texts, of which one fails the gates and two share a hash; two workers, two tries | the inductive invariant and with it table agreement, keys, receipts; exactly one acceptance per delivered approval; current reports; `Outreach` implements `ApprovedDelivery` |
| `rivals` | two attempts of one merchant in two campaigns, an address that changes, two workers | delivered as approved, the queued message is fixed, the transition table is obeyed, where the frequency cap is in play |
| `live` | three attempts, two of one pair and one of another merchant, one worker, one try, fair | nothing approved is lost, if the worker is called promptly (section 4) |
| `two_messages`, `two_campaigns` | as `pair`, `rivals` | the two findings on delivery, below |
| `agents` | two agents, one merchant, cap 3, cost up to 2 | the overspend bound, accounting, replay |
| `unpaid` | the same | the finding on cost |
| `ingest` | two requests, two merchants, two valid records and an invalid one, a clock of two moments, fair | atomicity, signals, counts; locks are released and a cycle of waiters is broken |
| `review` | six families of drafts, each varying something else against one record (below) | the gates' verdict is true of the draft, reaches the reviewer, and is what is decided on; claims, numbers and segments |
| `seeding` | batches of ten with one merchant per edge case, drawn to meet each case alone or none, in chunks of five; posts of one or two merchants whose fields lie on both sides of each limit, posts that are too long, empty or repeat an id; timestamps that Postgres does not read, or reads as another instant than Date; four sequences of single posts, two of which change the category of a merchant, read in pages of one, of two and of the largest size, of all categories and of one | the cases do not take each other's merchants, addresses are own, what is generated is accepted and quoted truly, what validation accepts violates no CHECK, paging misses nothing unless the list has shrunk |
| `seed_cases` | the same | the finding on forced names |
| `evals` | two drafts, four states of the code, two prompts, two scores, costs 1 and 2 against a cap of 2 | replayed scores are of this prompt, green is earned, overspend is less than a call |

The families of `review`: the sample that passes with any one or two fields of it
changed, to the values on both sides of each gate's limits (and, with one
changed, an edit); up to three earlier sends of three campaigns around 30
days; every text of up to five characters of `1`, `2`, space, point and comma, some
longer, some with zeros, and every spelling of the record's numbers; every body
of up to four letters of two, with up to three claims of up to two letters; the
same with up to two claims that fail and a mark of another gate; every
composition of up to three parts, claims or not.

Why the bounds are enough. The hazards of `Outreach` are between two actors on one
row or two rows of one pair: two attempts and two workers give every
such order. For every safety property but the three that section 5 lists as only
checked the proofs remove the bounds. A budget race needs two agents; the
bound is proved for any number. A lock cycle needs two requests. Overlap,
repetition and containment of claims appear with claims of two letters over a
body of four. A number has a first group, a separator, a group of three and a
decimal mark; five characters hold any two of these next to each other, and the
spellings of a seven-digit capacity hold them all. No gate reads what another
wrote, so a pair of changed fields shows every way two gates meet in a report.
One merchant per edge case and ten merchants leave exactly the merchants the
generator demands (`MIN_COUNT`), the tightest batch there is; `MaxNeutral` limits how
many of them meet no case at all to three, and draws come in one order, since
`ensureEdgeCases` looks at the set of merchants and not at their order. The largest
INTEGER is the constant `MaxInteger`, small in the run so that counts on both sides of it are
small too; `IdBefore`, the order of ids in the database, is a constant because a
collation decides it, and the run gives it as the order of the numbers of ids.
Stale or half-done recordings need two drafts and two prompts; a green
suite with more untrue drafts needs a corpus where one draft is more than the slack,
and `GreenMeansEarned` proves it up to ninety.

The two workers of `pair` and `rivals` are interchangeable, which these runs use
(`SYMMETRY`): a property of them is the same under any renaming of
workers, and neither run checks liveness. `live` has no symmetry.

Deadlock is checked everywhere but in `Review`, which ends with the reviewer's
decision, and in `Seeding`, which ends when everything is posted, refused or given up.

### Findings

Places where a comment says one thing and the code does another, each with the
run that shows it.

1. `OneMessagePerPair` (`two_messages`). `4_lifecycle.up.sql` says its partial
   index makes a second send to a merchant in a campaign impossible. The index is on
   SENT rows, which are written after delivery: two attempts with different texts
   can both be delivered, and the second is only refused in the record. The row
   stays unprocessed and is claimed and refused again each time its claim expires.
2. `OneApproachPerMerchant` (`two_campaigns`). "One approach per N days" holds
   of approvals made after a send is recorded. A plain approval looks at no
   gate, and an edit looks at SENT rows only.
3. `CallsArePaidFor` (`unpaid`). A refusal or an answer cut at `max_tokens` is
   charged and throws before there is anything to record.
4. `EveryCaseIsCovered` (`seed_cases`). A merchant that is forced to have a name with a
   diacritic may get Sørina or Jarosław, whose letters NFD does not take apart, so
   it does not match the case it was forced into, and nobody counts again.

Others are stated in the modules and have no configuration of their own, so as to keep
the runs few; TLC refutes each on the instance its comment names.

* `CapIsCeiling` (`AgentsProperties`): "the ceiling is a ceiling" (`cost.ts:6-7`).
  The guard compares recorded spend with the cap, so the cap is passed by the
  call that crosses it, once for each agent. What holds is `SpendIsBounded`.
* `UngroundedIsOverCited` (`ReviewProperties`): G05 reports a claim as cited more
  often than it appears when its words are partly taken by another claim.
* `ClaimCountIsSeen` (`ReviewProperties`): "visible in the report and in the strip";
  G13 is dropped from the report that is saved, and the strip has twelve segments.
* `SignalsQuoteTheRecord` (`SeedingProperties`): signals are derived from the
  merchant as posted, and the row keeps its rating rounded and its timestamp in
  UTC, so a signal may quote 4.55 or a day that the stored record does not have.
  Generated merchants are rounded before they are posted, so theirs do quote it.

Seen while modelling, without a property:

* The draft screen tells the reviewer of a blocked draft to "fix the draft or
  reject it", and its approve buttons stay disabled while it is edited; BLOCKED is
  final in the lifecycle. A segment that two claims cover offers only the first of
  them for pointing at (`segment.evidence[0]`).
* The scale in "out of 5" is a number that is in no field: G06 would refuse a
  draft that repeats the signal word for word (`RatingScale` is the exception in
  `GeneratedSignalsAreGrounded`).
* Validation does not stand in for the columns themselves. A count beyond INTEGER,
  a text with U+0000, an id or a city that is too long for its index, and a timestamp
  that Date reads and `::timestamptz` does not, as "2026-08", pass validation
  and fail in their column: the whole batch is rolled back, and the request ends with
  an error of the database and not with the list of problems. `AcceptedMeetsChecks` says
  that nothing else does: a CHECK never refuses what validation accepted.
* A listing by category skips a merchant if one that was read before is posted again
  with another category between two pages (`PagingMissesNone` without `~shrunk` is
  refuted on the instance of `Seeding.cfg`). Of all categories nothing leaves the list.
* A number of more digits than a double keeps is grounded by the one it is rounded to:
  4.79999999999999999999 passes G06 for a rating of 4.8 (`LookAlikes` in
  `NoNumberInvented`).
* `MIN_COUNT` does not make `ensureEdgeCases` succeed: a batch of that size in which
  too few merchants are free to be patched still throws (`CannotGuarantee`).
* The cap of `judge.py` too is passed by its last call, and what a run that ends with an
  error had scored is lost with it, though it was charged; in record mode drafts
  that were recorded are called for and paid again.

## 4. Fairness

* `Outreach` (`live`). `Fairness` is what the code and its surroundings do by themselves.
  A call of the worker that has begun takes its next step or crashes: weak fairness of
  `Send` or `Record`, one call being one thread of control. The clock runs: if there is
  nothing to do again and again, a claim expires at last. Out of infinitely many
  requests for a row one succeeds (the provider's failures are drawn with a
  probability below one), and out of infinitely many receipts one is recorded
  before a crash. Nothing is assumed of reviewers.

  Nothing in the repository calls `runOutboxWorkerOnce`: there is no loop and no
  schedule, only the tests. What its caller has to do is therefore a premise of the
  property and not part of the specification: `PolledPromptly` says that the worker is called
  while a row is claimable, and that from some point on the calls drain the queue before
  the five minutes of a claim are over, as the loop of
  `idempotency.integration.test.ts:102` does. It is an assumption on a caller that is
  still to be written, and one is needed. A row whose pair is already SENT is refused
  by `uq_attempt_sent` each time, is never processed, and is the oldest claimable
  row as soon as its claim has expired. A caller that comes by less often than claims
  expire claims it each time, and the messages behind it, of whatever merchant, are
  never sent. The instance of `live` has such a row, two attempts of one pair, and a message
  of another merchant behind it; the mutant `MutClaimable`, in which a claim keeps no
  row back, starves it.
* `Ingest` (`ingest`). A request takes the row lock it waits for if it is
  released again and again (Postgres queues waiters: strong), commits when it has
  written everything, and a cycle of waiters is detected (`deadlock_timeout`).
  `Fail` is not fair: no request is saved by an error.

## 5. What is proved

All proofs are checked by TLAPS, for any sets of attempts, merchants, texts,
workers and agents, under the named assumptions of the modules: the
attempt's foreign keys are functions, the hash and the fingerprint are functions,
the rows at the start have different keys, `None` is no row and no decision. Nothing is assumed
of the hash being injective, nor of how a double is rounded. What the proofs about texts assume
is named with them below.

* `OutreachProofs`. The inductive invariant is `IndInv`. The properties alone
  are not inductive: that a commit leaves the tables in agreement needs that a
  locked attempt is undecided (`LockedIsUndecided`); that what is delivered was
  approved needs that the message under the provider's key is this row's, that is,
  that keys are unique (`KeysAreUnique`) and name the draft's text
  (`KeyNamesItsMessage`), which in turn needs that an open approval still holds
  the text of the draft; that a receipt is real needs that a worker holding one
  got it from its own row (`ReceiptsHeld`, `WorkersHoldRows`). There is a lemma
  per action, and under it a step per conjunct the action can disturb.
  `Invariance` gives `TypeCorrect`, `TablesAgree`, `KeysNameMessages`,
  `OnlyApprovedIsDelivered`, `SentWasDelivered`; the action properties
  `ApprovedNeverAltered` and `TableIsObeyed` follow from it step by step.
  `AcceptedOnce` counts: the set of delivered attempts is
  finite, an acceptance adds the worker's row and, as keys are unique, no other, and
  a commit adds none, because what the provider holds belongs to a queued row
  (`DeliveredAsApproved`) and the committed key is nobody else's (`KeyIsFree`).
  `ReportsAreCurrent`: only the commit of an edit writes a report, together with
  the text, and BLOCKED and everything after QUEUED are out of reach of each other.
  `Implements`: under the mapping of
  `OutreachRefinement` every step of `Outreach` is one step of `ApprovedDelivery`
  or a stutter. A commit that queues is `Approve`, a rejection or a blocked edit
  is `Refuse`, a first acceptance is `Deliver`, a recording is `Acknowledge`.
  `IndInv` supplies that a decided attempt is not decided again and a delivered
  key not delivered again.
* `AgentsProofs`. `BudgetInv` says that room under the bound is kept for every call
  let through; passing the guard uses `spent < Cap` and that one more agent
  than before is under way, which is a fact about the cardinality of a finite
  set. `OverspendIsBounded` follows, and `SpendIsFinalAtCap` from the guard.
  `RecordedIsReplayable` needs that an agent that has an answer has it on disk, and
  one that escalated has the first answer there too (`AnswersAreOnDisk`).
  `ResultsAreInAccounts` compares what is on the books with sums over results and
  running jobs: recording a call adds its cost to both sides, saving a result moves
  the job's cost to it, which replaces the cost of the merchant's earlier triage or is
  added to that of its earlier drafts. It needs what a sum does when one of its
  terms changes (`SumChangesBy`), and that there are finitely many agents and merchants.
* `IngestProofs`. That a stored merchant was reported as new once is a count, and a
  request's own count is right only while the rows it found new stay new: that
  is what its locks are for. So `IngestInv` adds to the properties that a request
  at work holds exactly the locks of the rows it has written (`LocksAreExact`)
  and that its count is of those not yet stored (`CountIsExact`). `BatchesLandWhole`
  follows from it step by step.
* `EvalsProofs`. `EvalsInv` says that a fixture answers the request its key was made
  of, that a verdict is of the files as they are, that the baseline is what was
  measured at its commit, and what the judge has counted. `GreenMeansEarned` then
  needs arithmetic: with at most ninety drafts (`SmallCorpus`) one more untrue draft
  raises the rate by more than the slack of ten thousandths, however it is rounded. The
  suite of the repository is far below that; from a hundred drafts on one more untrue
  draft would pass the code as well.
* `SeedingProofs`. Six invariants, each with the part of the induction it needs.
  `GeneratedIsSound` says that every merchant of the batch in the making has an id
  and an address nobody else in it has, words that are trimmed and not empty, and figures
  a column takes; that a patched merchant is still such a merchant is a case for
  each edge case. From it `AddressesAreAlwaysOwn` and `SeedIsAlwaysAccepted`:
  an address is the owner's name and a number put behind it until it is free, so
  the proof needs that two numbers are written differently, padded or not
  (`WrittenDiffer`, `PaddedDiffer`) and that some suffix is free, there being
  fewer merchants than numbers (`LocalIsFree`). `CasesAlwaysStayCovered` needs
  that only merchants that match no case are left to be patched, so that none that
  covers an earlier case is, and that those still missing add up (`CasesAreKept`); it
  leaves out the case of finding 4, for which this fails. `AcceptedAlwaysMeetsChecks`:
  a chunk that failed had been accepted, and validation implies every CHECK of the table
  whatever is posted, the rating's on the rounded value; so what refused it is a column
  or an index.
  `PagingNeverMisses`: unless the list has shrunk, an id that is due is listed at or
  after the offset that is read next (`DueIsAhead`). If none of those before the
  offset leaves the list, there are still as many that come before what is due
  (`StayersStayAhead`), since an id that stands before another comes first
  (`PositionsAreInOrder`) and every place before the offset is taken
  (`PositionsAreAll`); rows that come in, or leave behind the offset, move none forward.
  `GeneratedSignalsAreAlwaysGrounded` needs to know what a stored row is: `RInv`
  adds that the rows are merchants of the batch with signals of some moment, that a
  merchant's rating has one decimal and its offer's end a date (`RowsAreOfBatch`), so
  that the columns change nothing and what is quoted is what is stored. The rest is what
  the signals say. Each is words around figures or around a date; in such a text the gate finds
  those figures, or the year, the month and the day, and nothing else (`TokensOfOne`,
  `TokensOfThree`, `TokensOfDate`). A number as `String` writes it is read as
  itself (`ShownIsRead`), and the timestamp of the record has the same three numbers as the
  date, among others (`TokensOfTimestamp`); so each token is the field (`NumberIsQuoted`) or a number of its date (`DateIsGrounded`).
  Assumed are words that are trimmed and not
  empty, without U+0000, draws in their ranges, counts of the generator within an INTEGER, a
  moment of the years 2000 to 4000 to count from, that ids and cities of the generator fit an
  index entry, that an INTEGER with two decimals is exact as a double (`IntegersAreExact`),
  and that ids are totally ordered (`IdsAreOrdered`).
* `ReviewProofs`. `ScreenHasGatedText` is not inductive: cancelling must be known
  to restore the text, and no other button to leave the editor. `TypedIsHeld` says
  that typed text stays in the editor until it is approved; it needs `None` to be
  no decision. The other properties hold because report and screen are computed
  once, from the input (`ReportInv`, inductive), and because of what is computed:
  - Claims. Gate and dashboard go through the claims in turn, each taking a span
    that the earlier ones left (`TurnsAre`; `FirstFreeIs` and `LocateIs` say which).
    `GroundsAreAlwaysDisjoint` is an induction over the turns. That a claim the
    dashboard does not find is cited too often (`UnlinkedIsAlwaysOverCited`) and
    that a claim the gate grounds is one the dashboard finds
    (`GroundedIsAlwaysLinked`) are counts: the occurrences of one text are taken only by claims
    of that text (`SpanTellsClaim`), so what is taken has as many members as
    there were claims (`UnlinkedIsTaken`, `GroundedIsSpared`).
    `ClaimsAlwaysLandWhereComposed`: the n-th claim of a composed body is placed in it
    at the end of the parts before it (`PartIsThere`); in a body that is not ambiguous
    a claim's text has no other occurrences than the places of the claims that have this text,
    so in turn each takes its own (`LinkedWherePlaced`).
  - The report. `CapIsAlwaysExact`: the most recent send of others decides
    (`MostRecentIs`), and every gate's outcome is its own (`OutcomesAre`).
    `VerdictAlwaysReachesReviewer`: what is saved is the report without G13, which never
    blocks (`SavedIs`); the strip shows each of the others once (`StripIs`).
  - Numbers. `NoNumberIsEverInvented`: reading a body goes from digit to digit, each token
    beginning at the first digit after the last token (`ScanIs`, `NextTokenIs`), so no digit
    is between two tokens; whatever a token may denote has the token's digits, zeros
    aside (`ReadingKeepsDigits`), because its groups put together are the token without
    its marks (`GroupsKeepDigits`) and what is cut off a value are zeros (`ValueKeeps`).
    A body of which each token is grounded is thus one number of the record after another,
    or of a longer decimal that is rounded to one (`LookAlikesAre`, `TokensMakeText`). That this is what `IsMadeOf` computes needs that the sequences made of
    words are the least set closed under adding a word (`MadeOfIs`, `MadeOfWords`).
    `HonestNumbersAlwaysPass` is the other direction: the shapes of a token
    must be told apart. A whole number with a mark between its thousands is digits
    and then groups of the mark and three digits, with one to three digits in front
    (`MarkedIsSpelt`, three more digits at a time); the longest match from its first
    digit is all of it (`OneTokenBetween`); and of its readings one is
    the number that was written, whether the last mark is taken for a decimal
    point or for thousands (`SpellingIsRead`).
  - Segments. The cuts are ascending, from 0 to the length of the body
    (`BoundsAre`), so the segments put together are the body
    (`SegmentsAlwaysReproduceBody`), and a mark begins and ends at a cut, so that a
    segment is either inside of it or outside (`SegmentsAlwaysCarryTheirMarks`).

  Assumed of an input is what parsing grants: a claim is not empty
  (`schemas.ts:220`), there are finitely many sends, spans are of integers, and a
  composed body is that of its parts; and of the record that its strings are texts and
  its numbers written in digits, exact as doubles, without zeros that say nothing and with at
  most two decimals (`IsRecord`): the only one that is not whole is `rating`, a NUMERIC(2, 1).
  `HonestNumbersPass` itself speaks of a body that is one number between two letters;
  what stands around a number in a longer text does not change how it is read, as long as
  a letter parts them (`TokensOfBoth`, below).
* `NumbersProofs`. Lemmas of both. The tokens of two texts put together are those of the
  one and of the other, if something that no token contains parts them (`TokensOfBoth`); a
  text that is digits, or digits with a decimal point, or marked in threes, is one token
  (`WholeToken`, `OneToken`); what is left when the marks are taken out are its
  groups (`OneMoreGroup`, `MarksAre`, by induction on the groups), and from them
  the value (`WholeIsRead`, `DecimalIsRead`). Nothing is assumed here but what `Numbers`
  says.
* `DataLemmas`. The library states induction and recursive definition for an
  operator, which the provers cannot instantiate. Here a predicate is a set and a step
  of a recursion a function: `LeastNatural` follows from the well-foundedness of
  `<`, `RankInduction` from that, and `RecursionExists` and `RecursionIsUnique` give the
  value of a function that is defined by recursion on a rank, one step at a time. On these rest the
  sums, the turns, numbers as they are written and the order of `Ascending`.

Only model-checked: the two liveness properties, `ApprovedIsResolved` and
`EveryRequestEnds`, which the prover does not do. Every invariant and every action
property of the passing runs is a theorem.

## 6. Not modelled

* The services' HTTP handling, the metrics answer, configuration and the
  database handle: no state of their own.
* Which words are urgent, banned or American, prompts, the price table: data. What
  the patterns of the gates match is part of a draft.
* The random generator and the command lines of the scripts; `record-fixtures.ts`,
  which runs the agents in record mode, as `Agents` does with any jobs.
* Of the evals: triage accuracy, which is measured and compared as the other
  metrics are, the judge's agreement with people, which is printed and decides
  nothing, and reading data sets and calling the gates across the bridge.
* Of the listing: the count of its rows, `total`, which is read in a statement of its own
  and may be of another moment than the page; nobody in the repository pages by it.
* The back-off between tries and the provider's draw of outcomes: a time that
  nothing reads, and a free choice here.
* The dashboard's rendering, the queue's filters and the focus on a claim, its
  metrics and evals pages, its sample records: they select and lay out what the
  modelled parts have computed, and write nothing.

## 7. Plan

Done: `Lifecycle` and `Outreach` with their refinement and proofs, `Agents`,
`Ingest`, the gates with `Review`, `Seeding`, `Evals`, and the proofs of section 5.
Next, in this order:

1. A composition of `Ingest` with `Outreach`, in place of `Reingest`, which lets
   an address change at any moment and so allows more than ingest does.
2. The focus on a claim and the queue's filters.
