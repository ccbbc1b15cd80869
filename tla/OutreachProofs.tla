---------------------------- MODULE OutreachProofs ----------------------------
(***************************************************************************)
(* Theorems about Outreach for every set of attempts, workers, texts and   *)
(* keys, and every bound.                                                  *)
(***************************************************************************)
EXTENDS OutreachRefinement, FiniteSetTheorems, TLAPS

-----------------------------------------------------------------------------
(* Type correctness. *)

\* Each legal move yields a well-typed row (applyTransition).
LEMMA MovesTyped ==
    ASSUME NEW row \in AttemptRows, NEW by \in Reviewers, NEW key \in Keys,
           NEW id \in Nat
    PROVE  /\ ApproveMove(row, by) \in AttemptRows
           /\ QueueMove(row) \in AttemptRows
           /\ [QueueMove(ApproveMove(row, by)) EXCEPT !.dedupKey = key] \in AttemptRows
           /\ RejectMove(row) \in AttemptRows
           /\ FailMove(row) \in AttemptRows
           /\ [BlockMove(row) EXCEPT !.dedupKey = key] \in AttemptRows
           /\ [SendMove(row, id) EXCEPT !.failureReason = FALSE] \in AttemptRows
           /\ RequeueIfFailed(row) \in AttemptRows
<1>1. Bump(row.attemptCount) \in 0..MaxCount
  BY MaxCountAssumption DEF AttemptRows, Bump
<1>2. ApproveMove(row, by) \in AttemptRows
  BY DEF AttemptRows, OutreachState, ApproveMove, MoveTo
<1>3. QueueMove(row) \in AttemptRows
  BY <1>1 DEF AttemptRows, OutreachState, QueueMove, MoveTo
<1>4. [QueueMove(ApproveMove(row, by)) EXCEPT !.dedupKey = key] \in AttemptRows
  BY <1>1 DEF AttemptRows, OutreachState, ApproveMove, QueueMove, MoveTo
<1>5. RejectMove(row) \in AttemptRows /\ FailMove(row) \in AttemptRows
  BY DEF AttemptRows, OutreachState, RejectMove, FailMove, MoveTo
<1>6. [BlockMove(row) EXCEPT !.dedupKey = key] \in AttemptRows
  BY DEF AttemptRows, OutreachState, BlockMove, MoveTo
<1>7. [SendMove(row, id) EXCEPT !.failureReason = FALSE] \in AttemptRows
  BY DEF AttemptRows, OutreachState, SendMove, MoveTo
<1>8. RequeueIfFailed(row) \in AttemptRows
  BY <1>3 DEF RequeueIfFailed
<1> QED BY <1>2, <1>3, <1>4, <1>5, <1>6, <1>7, <1>8

LEMMA KeysTyped ==
    ASSUME NEW a \in Attempts, NEW text \in Texts
    PROVE  DedupKey(a, text) \in Keys
BY IdentityAssumption DEF DedupKey, Keys

\* The initial state of every variable has its type.
LEMMA InitTyped == Init => TypeOK
BY KeysTyped, IdentityAssumption, MaxCountAssumption
   DEF Init, TypeOK, AttemptRows, OutreachState, WorkerStates, Idle

\* Queueing an attempt keeps the types of the two tables it writes.
LEMMA QueueTyped ==
    ASSUME TypeOK, NEW a \in Attempts, NEW by \in Reviewers, NEW to \in Addresses,
           NEW text \in Texts, NEW key \in Keys,
           QueueForDelivery(a, by, to, text, key)
    PROVE  /\ attempt' \in [Attempts -> AttemptRows]
           /\ outbox' \in [Attempts -> OutboxRows \cup {None}]
           /\ created' \in Seq(Attempts)
<1>1. attempt' \in [Attempts -> AttemptRows]
  BY MovesTyped DEF TypeOK, QueueForDelivery
<1>2. outbox' \in [Attempts -> OutboxRows \cup {None}]
  BY MaxCountAssumption DEF TypeOK, QueueForDelivery, OutboxRows
<1>3. created' \in Seq(Attempts)
  <2>1. created \in Seq(Attempts)
    BY DEF TypeOK
  <2>2. ASSUME NEW i \in 0..Len(created) PROVE CreatedAfter(i, a) \in Seq(Attempts)
    <3>1. SubSeq(created, 1, i) \in Seq(Attempts)
      BY <2>1
    <3>2. SubSeq(created, i + 1, Len(created)) \in Seq(Attempts)
      BY <2>1
    <3> QED BY <3>1, <3>2 DEF CreatedAfter
  <2> QED BY <2>1, <2>2 DEF QueueForDelivery
<1> QED BY <1>1, <1>2, <1>3

\* A step of the worker leaves its record well-typed.
LEMMA TicksTyped ==
    ASSUME NEW tick \in WorkerStates
    PROVE  /\ \A id \in Nat : Receipt(tick, id) \in WorkerStates
           /\ Failure(tick) \in WorkerStates
           /\ AfterRetryableError(tick) \in WorkerStates
<1>1. Failure(tick) \in WorkerStates
  BY IdentityAssumption DEF WorkerStates, Failure
<1>2. ASSUME NEW id \in Nat PROVE Receipt(tick, id) \in WorkerStates
  BY IdentityAssumption DEF WorkerStates, Receipt
<1>3. AfterRetryableError(tick) \in WorkerStates
  BY <1>1, IdentityAssumption DEF WorkerStates, AfterRetryableError
<1> QED BY <1>1, <1>2, <1>3

LEMMA NewTicksTyped ==
    /\ Idle \in WorkerStates
    /\ \A a \in Attempts :
          [pc |-> "delivering", row |-> a, tries |-> 1, messageId |-> 0] \in WorkerStates
BY IdentityAssumption DEF WorkerStates, Idle

\* Each UPDATE of an outbox row keeps its type and its message.
LEMMA RowUpdates ==
    ASSUME NEW row \in OutboxRows
    PROVE  /\ \A s \in {Claimed(row), Expired(row), Processed(row), Erred(row)} :
                 s \in OutboxRows /\ s.to = row.to /\ s.text = row.text /\ s.key = row.key
           /\ \A s \in {Claimed(row), Expired(row)} :
                 s.processed = row.processed /\ s.lastError = row.lastError
           /\ Processed(row).processed /\ ~Processed(row).lastError
           /\ Erred(row).processed = row.processed /\ Erred(row).lastError
<1>1. Bump(row.claims) \in 0..MaxCount
  BY MaxCountAssumption DEF OutboxRows, Bump
<1>2. /\ Claimed(row) \in OutboxRows
      /\ Claimed(row).to = row.to /\ Claimed(row).text = row.text
      /\ Claimed(row).key = row.key
      /\ Claimed(row).processed = row.processed
      /\ Claimed(row).lastError = row.lastError
  BY <1>1 DEF OutboxRows, Claimed
<1>3. /\ Expired(row) \in OutboxRows
      /\ Expired(row).to = row.to /\ Expired(row).text = row.text
      /\ Expired(row).key = row.key
      /\ Expired(row).processed = row.processed
      /\ Expired(row).lastError = row.lastError
  BY DEF OutboxRows, Expired
<1>4. /\ Processed(row) \in OutboxRows
      /\ Processed(row).to = row.to /\ Processed(row).text = row.text
      /\ Processed(row).key = row.key
      /\ Processed(row).processed /\ ~Processed(row).lastError
  BY DEF OutboxRows, Processed
<1>5. /\ Erred(row) \in OutboxRows
      /\ Erred(row).to = row.to /\ Erred(row).text = row.text
      /\ Erred(row).key = row.key
      /\ Erred(row).processed = row.processed /\ Erred(row).lastError
  BY DEF OutboxRows, Erred
<1> QED BY <1>2, <1>3, <1>4, <1>5

\* The row a worker holds, and the transition it would record, are well-typed.
LEMMA RowsTyped ==
    ASSUME TypeOK, WorkersHoldRows, NEW w \in Workers, worker[w].pc # "idle"
    PROVE  /\ worker[w].row \in Attempts
           /\ RowOf(w) \in OutboxRows
           /\ RowOf(w).key \in Keys
           /\ outbox[worker[w].row] \in OutboxRows
BY DEF TypeOK, WorkersHoldRows, InOutbox, RowOf, OutboxRows

LEMMA RecordedRows ==
    ASSUME NEW row \in AttemptRows, NEW id \in Nat
    PROVE  /\ RecordedFailed(row) \in AttemptRows
           /\ RecordedFailed(row).state = "FAILED"
           /\ RecordedFailed(row).dedupKey = row.dedupKey
           /\ RecordedFailed(row).approvedBy = row.approvedBy
           /\ RecordedSent(row, id) \in AttemptRows
           /\ RecordedSent(row, id).state = "SENT"
           /\ RecordedSent(row, id).providerMessageId = id
           /\ RecordedSent(row, id).dedupKey = row.dedupKey
           /\ RecordedSent(row, id).approvedBy = row.approvedBy
<1> DEFINE q == RequeueIfFailed(row)
<1>1. Bump(row.attemptCount) \in 0..MaxCount
  BY MaxCountAssumption DEF AttemptRows, Bump
<1>2. q \in AttemptRows /\ q.dedupKey = row.dedupKey /\ q.approvedBy = row.approvedBy
  BY <1>1 DEF AttemptRows, OutreachState, RequeueIfFailed, QueueMove, MoveTo
<1> HIDE DEF q
<1>3. /\ FailMove(q) \in AttemptRows
      /\ FailMove(q).state = "FAILED"
      /\ FailMove(q).dedupKey = q.dedupKey
      /\ FailMove(q).approvedBy = q.approvedBy
  BY <1>2 DEF AttemptRows, OutreachState, FailMove, MoveTo
<1>4. /\ [SendMove(q, id) EXCEPT !.failureReason = FALSE] \in AttemptRows
      /\ [SendMove(q, id) EXCEPT !.failureReason = FALSE].state = "SENT"
      /\ [SendMove(q, id) EXCEPT !.failureReason = FALSE].providerMessageId = id
      /\ [SendMove(q, id) EXCEPT !.failureReason = FALSE].dedupKey = q.dedupKey
      /\ [SendMove(q, id) EXCEPT !.failureReason = FALSE].approvedBy = q.approvedBy
  BY <1>2 DEF AttemptRows, OutreachState, SendMove, MoveTo
<1> QED BY <1>2, <1>3, <1>4 DEF q, RecordedFailed, RecordedSent

LEMMA NextTyped == TypeOK /\ WorkersHoldRows /\ [Next]_vars => TypeOK'
<1> SUFFICES ASSUME TypeOK, WorkersHoldRows, [Next]_vars PROVE TypeOK'
  OBVIOUS
<1> USE DEF tables, delivery
<1>1. ASSUME NEW a \in Attempts, NEW by \in Reviewers, BeginApprove(a, by)
      PROVE  TypeOK'
  BY <1>1, IdentityAssumption DEF BeginApprove, TypeOK, Transactions
<1>2. ASSUME NEW a \in Attempts, NEW by \in Reviewers, NEW text \in Texts,
             BeginEdit(a, by, text)
      PROVE  TypeOK'
  <2>1. PreviousApproach(a) \in BOOLEAN
    BY DEF PreviousApproach
  <2> QED BY <1>2, <2>1, IdentityAssumption DEF BeginEdit, TypeOK, Transactions
<1>3. ASSUME NEW a \in Attempts, CommitApprove(a) PROVE TypeOK'
  <2>1. tx[a] \in Transactions /\ attempt[a].dedupKey \in Keys
    BY <1>3 DEF CommitApprove, TypeOK, AttemptRows
  <2>2. QueueForDelivery(a, tx[a].by, tx[a].to, tx[a].text, attempt[a].dedupKey)
    BY <1>3 DEF CommitApprove
  <2>3. tx[a].by \in Reviewers /\ tx[a].to \in Addresses /\ tx[a].text \in Texts
    BY <2>1 DEF Transactions
  <2>4. /\ attempt' \in [Attempts -> AttemptRows]
        /\ outbox' \in [Attempts -> OutboxRows \cup {None}]
        /\ created' \in Seq(Attempts)
    BY <2>1, <2>2, <2>3, QueueTyped
  <2> QED BY <1>3, <2>4 DEF CommitApprove, TypeOK
<1>4. ASSUME NEW a \in Attempts, CommitEdit(a) PROVE TypeOK'
  <2>1. tx[a] \in Transactions
    BY <1>4 DEF CommitEdit, EditKey, TypeOK
  <2>2. tx[a].by \in Reviewers /\ tx[a].to \in Addresses /\ tx[a].text \in Texts
    BY <2>1 DEF Transactions
  <2>3. GatesBlock(tx[a]) \in BOOLEAN
    BY <2>1 DEF GatesBlock, Transactions
  <2>4. /\ attempt' \in [Attempts -> AttemptRows]
        /\ outbox' \in [Attempts -> OutboxRows \cup {None}]
        /\ created' \in Seq(Attempts)
    <3>1. DedupKey(a, tx[a].text) \in Keys
      BY <2>2, KeysTyped
    <3>2. CASE QueueForDelivery(a, tx[a].by, tx[a].to, tx[a].text,
                                DedupKey(a, tx[a].text))
      BY <2>2, <3>1, <3>2, QueueTyped
    <3>3. CASE /\ attempt' = [attempt EXCEPT ![a] =
                    [BlockMove(attempt[a]) EXCEPT !.dedupKey = DedupKey(a, tx[a].text)]]
               /\ UNCHANGED <<outbox, created>>
      <4>1. attempt[a] \in AttemptRows
        BY DEF TypeOK
      <4>2. [BlockMove(attempt[a]) EXCEPT !.dedupKey = DedupKey(a, tx[a].text)]
                \in AttemptRows
        BY <2>2, <3>1, <4>1 DEF AttemptRows, OutreachState, BlockMove, MoveTo
      <4> QED BY <3>3, <4>2 DEF TypeOK
    <3> QED BY <1>4, <3>2, <3>3 DEF CommitEdit, EditKey
  <2>5. draft' \in [Attempts -> Texts] /\ report' \in [Attempts -> GateReports \cup {None}]
    BY <1>4, <2>2, <2>3 DEF CommitEdit, EditKey, TypeOK, GateReports
  <2> QED BY <1>4, <2>4, <2>5 DEF CommitEdit, EditKey, TypeOK
<1>5. ASSUME NEW a \in Attempts, Rollback(a) PROVE TypeOK'
  BY <1>5 DEF Rollback, TypeOK
<1>6. ASSUME NEW a \in Attempts, Reject(a) PROVE TypeOK'
  <2>1. RejectMove(attempt[a]) \in AttemptRows
    BY DEF TypeOK, RejectMove, MoveTo, AttemptRows, OutreachState
  <2> QED BY <1>6, <2>1 DEF Reject, TypeOK
<1>7. ASSUME NEW m \in Merchants, NEW address \in Addresses, Reingest(m, address)
      PROVE  TypeOK'
  BY <1>7 DEF Reingest, TypeOK
<1>8. ASSUME NEW w \in Workers, NEW a \in Attempts, ClaimNextOutboxRow(w, a)
      PROVE  TypeOK'
  <2>1. outbox[a] \in OutboxRows
    BY <1>8 DEF ClaimNextOutboxRow, OldestClaimable, Claimable, TypeOK
  <2>2. outbox' \in [Attempts -> OutboxRows \cup {None}]
    BY <1>8, <2>1, RowUpdates DEF ClaimNextOutboxRow, TypeOK
  <2> QED BY <1>8, <2>2, TicksTyped, NewTicksTyped DEF ClaimNextOutboxRow, TypeOK
<1>9. ASSUME NEW a \in Attempts, ClaimExpires(a) PROVE TypeOK'
  <2>1. outbox[a] \in OutboxRows
    BY <1>9 DEF ClaimExpires, TypeOK
  <2>2. Expired(outbox[a]) \in OutboxRows
    BY <2>1, RowUpdates
  <2> QED BY <1>9, <2>1, <2>2 DEF ClaimExpires, TypeOK
<1>10. ASSUME NEW w \in Workers, SendKnownKey(w) PROVE TypeOK'
  <2>1. Known(w) \in Deliveries
    BY <1>10, RowsTyped DEF SendKnownKey, Delivering, Known, TypeOK
  <2> QED BY <1>10, <2>1, TicksTyped, NewTicksTyped DEF SendKnownKey, TypeOK, Deliveries
<1>11. ASSUME NEW w \in Workers, Accept(w), Delivering(w),
              worker' = [worker EXCEPT ![w] = Receipt(worker[w], accepted + 1)]
                \/ worker' = [worker EXCEPT ![w] = AfterRetryableError(worker[w])],
              UNCHANGED <<tables, email, tx>>
       PROVE  TypeOK'
  <2>1. provider' \in [Keys -> Deliveries \cup {None}] /\ accepted' \in Nat
    BY <1>11, RowsTyped DEF Accept, Delivering, TypeOK, OutboxRows, Deliveries
  <2>2. /\ Receipt(worker[w], accepted + 1) \in WorkerStates
        /\ AfterRetryableError(worker[w]) \in WorkerStates
    <3>1. worker[w] \in WorkerStates /\ accepted + 1 \in Nat
      BY DEF TypeOK
    <3> QED BY <3>1, TicksTyped
  <2>3. worker' \in [Workers -> WorkerStates]
    BY <1>11, <2>2 DEF TypeOK
  <2> QED BY <1>11, <2>1, <2>3 DEF TypeOK
<1>12. ASSUME NEW w \in Workers, SendAccepted(w) \/ SendTimesOutButAccepted(w)
       PROVE  TypeOK'
  BY <1>11, <1>12 DEF SendAccepted, SendTimesOutButAccepted
<1>13. ASSUME NEW w \in Workers, SendFails(w) PROVE TypeOK'
  BY <1>13, TicksTyped, NewTicksTyped DEF SendFails, TypeOK
<1>14. ASSUME NEW w \in Workers, MarkSent(w) PROVE TypeOK'
  <2> DEFINE a == worker[w].row
  <2>1. /\ a \in Attempts /\ outbox[a] \in OutboxRows
        /\ attempt[a] \in AttemptRows /\ worker[w].messageId \in Nat
    BY <1>14, RowsTyped DEF MarkSent, TypeOK, WorkerStates
  <2>2. /\ RecordedSent(attempt[a], worker[w].messageId) \in AttemptRows
        /\ Processed(outbox[a]) \in OutboxRows
    BY <2>1, RecordedRows, RowUpdates
  <2> QED BY <1>14, <2>1, <2>2, NewTicksTyped DEF MarkSent, TypeOK
<1>15. ASSUME NEW w \in Workers, MarkFailed(w) PROVE TypeOK'
  <2> DEFINE a == worker[w].row
  <2>1. a \in Attempts /\ outbox[a] \in OutboxRows /\ attempt[a] \in AttemptRows
    BY <1>15, RowsTyped DEF MarkFailed, TypeOK
  <2>2. RecordedFailed(attempt[a]) \in AttemptRows /\ Erred(outbox[a]) \in OutboxRows
    BY <2>1, RecordedRows, RowUpdates
  <2> QED BY <1>15, <2>1, <2>2, NewTicksTyped DEF MarkFailed, TypeOK
<1>16. ASSUME NEW w \in Workers, RecordRefused(w) \/ Crash(w) PROVE TypeOK'
  BY <1>16, TicksTyped, NewTicksTyped DEF RecordRefused, Crash, TypeOK
<1>17. CASE UNCHANGED vars
  BY <1>17 DEF vars, TypeOK
<1> QED
  BY <1>1, <1>2, <1>3, <1>4, <1>5, <1>6, <1>7, <1>8, <1>9, <1>10, <1>12, <1>13,
     <1>14, <1>15, <1>16, <1>17
  DEF Next, Decide, Claim, Send, Record

-----------------------------------------------------------------------------
(* What each kind of step does to the tables, row by row. *)

SameMessage(a) == /\ outbox'[a].to = outbox[a].to
                  /\ outbox'[a].text = outbox[a].text
                  /\ outbox'[a].key = outbox[a].key

SameMark(a) == /\ outbox'[a].processed = outbox[a].processed
               /\ outbox'[a].lastError = outbox[a].lastError

\* Queueing an undecided attempt writes its row as QUEUED and its outbox row,
\* and touches nothing of any other attempt.
LEMMA QueueEffect ==
    ASSUME IndInv, NEW a \in Attempts, NEW by \in Reviewers, NEW to \in Addresses,
           NEW text \in Texts, NEW key \in Keys,
           attempt[a].state = "PENDING_APPROVAL",
           QueueForDelivery(a, by, to, text, key)
    PROVE  /\ KeyIsFree(a, key)
           /\ \A b \in Attempts \ {a} : attempt'[b] = attempt[b] /\ outbox'[b] = outbox[b]
           /\ attempt'[a].state = "QUEUED"
           /\ attempt'[a].dedupKey = key
           /\ attempt'[a].approvedBy = by
           /\ ~InOutbox(a)
           /\ InOutbox(a)'
           /\ outbox'[a] = [to |-> to, text |-> text, key |-> key, claim |-> "none",
                            processed |-> FALSE, lastError |-> FALSE, claims |-> 0]
<1>1. outbox[a] = None
  BY DEF IndInv, OutboxAgreesWithAttempt, InOutbox
<1> DEFINE row == [to |-> to, text |-> text, key |-> key, claim |-> "none",
                   processed |-> FALSE, lastError |-> FALSE, claims |-> 0]
<1>2. row \in OutboxRows
  BY MaxCountAssumption DEF OutboxRows
<1>3. outbox' = [outbox EXCEPT ![a] = row]
  BY <1>1 DEF QueueForDelivery
<1>4. attempt[a] \in AttemptRows /\ attempt \in [Attempts -> AttemptRows]
      /\ outbox \in [Attempts -> OutboxRows \cup {None}]
  BY DEF IndInv, TypeOK
<1>5. ASSUME NEW r \in AttemptRows
      PROVE  /\ [QueueMove(ApproveMove(r, by)) EXCEPT !.dedupKey = key].state = "QUEUED"
             /\ [QueueMove(ApproveMove(r, by)) EXCEPT !.dedupKey = key].dedupKey = key
             /\ [QueueMove(ApproveMove(r, by)) EXCEPT !.dedupKey = key].approvedBy = by
  BY DEF AttemptRows, QueueMove, ApproveMove, MoveTo
<1>6. attempt' = [attempt EXCEPT ![a] =
                     [QueueMove(ApproveMove(attempt[a], by)) EXCEPT !.dedupKey = key]]
  BY DEF QueueForDelivery
<1>7. attempt'[a] = [QueueMove(ApproveMove(attempt[a], by)) EXCEPT !.dedupKey = key]
  BY <1>4, <1>6
<1>8. /\ attempt'[a].state = "QUEUED"
      /\ attempt'[a].dedupKey = key
      /\ attempt'[a].approvedBy = by
  BY <1>4, <1>5, <1>7
<1>9. InOutbox(a)' /\ outbox'[a] = row
  BY <1>2, <1>3, <1>4, NoneAssumption DEF InOutbox
<1>10. \A b \in Attempts \ {a} : attempt'[b] = attempt[b] /\ outbox'[b] = outbox[b]
  BY <1>3, <1>4, <1>6
<1> QED BY <1>1, <1>8, <1>9, <1>10 DEF InOutbox, QueueForDelivery

\* A claim or its expiry leaves every message and every mark as it was.
LEMMA ClaimEffect ==
    ASSUME TypeOK, NEW a \in Attempts,
           ClaimExpires(a) \/ \E w \in Workers : ClaimNextOutboxRow(w, a)
    PROVE  /\ InOutbox(a)
           /\ \A b \in Attempts :
                 /\ InOutbox(b)' <=> InOutbox(b)
                 /\ InOutbox(b) => SameMessage(b) /\ SameMark(b)
<1>1. outbox[a] \in OutboxRows /\ outbox[a] # None
  BY DEF ClaimExpires, ClaimNextOutboxRow, OldestClaimable, Claimable, TypeOK
<1>2. PICK s \in {Claimed(outbox[a]), Expired(outbox[a])} :
         outbox' = [outbox EXCEPT ![a] = s]
  BY <1>1 DEF ClaimExpires, ClaimNextOutboxRow
<1>3. /\ s \in OutboxRows
      /\ s.to = outbox[a].to /\ s.text = outbox[a].text /\ s.key = outbox[a].key
      /\ s.processed = outbox[a].processed /\ s.lastError = outbox[a].lastError
  BY <1>1, <1>2, RowUpdates
<1> QED
  BY <1>1, <1>2, <1>3, NoneAssumption DEF TypeOK, InOutbox, SameMessage, SameMark

\* A recorded outcome keeps the message, marks the row as the attempt moves,
\* and touches nothing of any other attempt.
LEMMA MarkEffect ==
    ASSUME IndInv, NEW w \in Workers, MarkSent(w) \/ MarkFailed(w)
    PROVE  /\ worker[w].row \in Attempts
           /\ InOutbox(worker[w].row)
           /\ outbox'[worker[w].row] # None
           /\ SameMessage(worker[w].row)
           /\ attempt[worker[w].row].state \in {"QUEUED", "FAILED"}
           /\ attempt'[worker[w].row].dedupKey = attempt[worker[w].row].dedupKey
           /\ attempt'[worker[w].row].approvedBy = attempt[worker[w].row].approvedBy
           /\ MarkSent(w) =>
                 /\ attempt'[worker[w].row].state = "SENT"
                 /\ attempt'[worker[w].row].providerMessageId = worker[w].messageId
                 /\ outbox'[worker[w].row].processed
                 /\ ~outbox'[worker[w].row].lastError
           /\ MarkFailed(w) =>
                 /\ attempt'[worker[w].row].state = "FAILED"
                 /\ ~outbox'[worker[w].row].processed
                 /\ outbox'[worker[w].row].lastError
           /\ \A b \in Attempts \ {worker[w].row} :
                 attempt'[b] = attempt[b] /\ outbox'[b] = outbox[b]
<1> DEFINE a == worker[w].row
<1>1. /\ a \in Attempts
      /\ InOutbox(a)
      /\ outbox[a] \in OutboxRows
      /\ attempt[a] \in AttemptRows
      /\ worker[w].messageId \in Nat
  BY DEF MarkSent, MarkFailed, IndInv, WorkersHoldRows, TypeOK, InOutbox, WorkerStates
<1>2. attempt[a].state \in {"QUEUED", "SENT", "FAILED"}
  BY <1>1 DEF IndInv, OutboxAgreesWithAttempt
<1>3. attempt[a].state # "SENT"
  <2>1. ASSUME attempt[a].state = "SENT" PROVE FALSE
    <3>1. RequeueIfFailed(attempt[a]) = attempt[a]
      BY <2>1 DEF RequeueIfFailed
    <3>2. CanTransition("SENT", "SENT") \/ CanTransition("SENT", "FAILED")
      BY <2>1, <3>1 DEF MarkSent, MarkFailed, OutcomeLegal
    <3> QED BY <3>2 DEF CanTransition, ALLOWED_TRANSITIONS
  <2> QED BY <2>1
<1>4. MarkSent(w) =>
        /\ attempt' = [attempt EXCEPT ![a] = RecordedSent(attempt[a], worker[w].messageId)]
        /\ outbox' = [outbox EXCEPT ![a] = Processed(outbox[a])]
  BY DEF MarkSent
<1>5. MarkFailed(w) =>
        /\ attempt' = [attempt EXCEPT ![a] = RecordedFailed(attempt[a])]
        /\ outbox' = [outbox EXCEPT ![a] = Erred(outbox[a])]
  BY DEF MarkFailed
<1>6. ~outbox[a].processed
  <2>1. outbox[a].processed <=> attempt[a].state = "SENT"
    BY <1>1 DEF IndInv, OutboxAgreesWithAttempt
  <2> QED BY <1>3, <2>1
<1>7. outbox'[a] \in OutboxRows /\ SameMessage(a)
  <2>1. PICK s \in {Processed(outbox[a]), Erred(outbox[a])} :
           outbox' = [outbox EXCEPT ![a] = s]
    BY <1>4, <1>5
  <2>2. /\ s \in OutboxRows
        /\ s.to = outbox[a].to /\ s.text = outbox[a].text /\ s.key = outbox[a].key
    BY <1>1, <2>1, RowUpdates
  <2>3. outbox'[a] = s
    BY <1>1, <2>1 DEF IndInv, TypeOK
  <2> QED BY <2>2, <2>3 DEF SameMessage
<1>8. outbox'[a] # None /\ SameMessage(a)
  BY <1>1, <1>7, NoneAssumption
<1>9. /\ outbox \in [Attempts -> OutboxRows \cup {None}]
      /\ attempt \in [Attempts -> AttemptRows]
  BY DEF IndInv, TypeOK
<1>10. \A b \in Attempts \ {a} : attempt'[b] = attempt[b] /\ outbox'[b] = outbox[b]
  BY <1>4, <1>5, <1>9
<1>11. ASSUME MarkSent(w)
       PROVE  /\ attempt'[a].state = "SENT"
              /\ attempt'[a].providerMessageId = worker[w].messageId
              /\ attempt'[a].dedupKey = attempt[a].dedupKey
              /\ attempt'[a].approvedBy = attempt[a].approvedBy
              /\ outbox'[a].processed
              /\ ~outbox'[a].lastError
  <2>1. /\ attempt'[a] = RecordedSent(attempt[a], worker[w].messageId)
        /\ outbox'[a] = Processed(outbox[a])
    BY <1>1, <1>4, <1>9, <1>11
  <2> QED BY <1>1, <2>1, RecordedRows, RowUpdates
<1>12. ASSUME MarkFailed(w)
       PROVE  /\ attempt'[a].state = "FAILED"
              /\ attempt'[a].dedupKey = attempt[a].dedupKey
              /\ attempt'[a].approvedBy = attempt[a].approvedBy
              /\ ~outbox'[a].processed
              /\ outbox'[a].lastError
  <2>1. /\ attempt'[a] = RecordedFailed(attempt[a])
        /\ outbox'[a] = Erred(outbox[a])
    BY <1>1, <1>5, <1>9, <1>12
  <2> QED BY <1>1, <1>6, <2>1, RecordedRows, RowUpdates
<1> QED
  BY <1>1, <1>2, <1>3, <1>8, <1>10, <1>11, <1>12

-----------------------------------------------------------------------------
(* The inductive invariant. *)

LEMMA InitInv == Init => IndInv
<1> SUFFICES ASSUME Init PROVE IndInv
  OBVIOUS
<1>1. TypeOK
  BY InitTyped
<1>2. WorkersHoldRows /\ ReceiptsHeld
  BY DEF Init, Idle, WorkersHoldRows, ReceiptsHeld
<1>3. OutboxAgreesWithAttempt /\ ReceiptIsReal
  BY DEF Init, OutboxAgreesWithAttempt, ReceiptIsReal, InOutbox
<1>4. KeyNamesItsMessage /\ KeysAreUnique
  BY InitialKeysDiffer DEF Init, KeyNamesItsMessage, KeysAreUnique, InOutbox
<1>5. DeliveredAsApproved /\ LockedIsUndecided /\ QueuedHasApprover
  BY DEF Init, DeliveredAsApproved, LockedIsUndecided, QueuedHasApprover, InOutbox
<1> QED BY <1>1, <1>2, <1>3, <1>4, <1>5 DEF IndInv

\* Only locks change: a call begins or is rolled back, or a merchant is re-ingested.
LEMMA LocksKeepInv ==
    ASSUME IndInv, TypeOK', LockedIsUndecided', UNCHANGED <<tables, delivery, worker>>
    PROVE  IndInv'
BY DEF IndInv, tables, delivery, WorkersHoldRows, OutboxAgreesWithAttempt,
       KeyNamesItsMessage, DeliveredAsApproved, ReceiptIsReal, KeysAreUnique,
       QueuedHasApprover, ReceiptsHeld, InOutbox, Delivered

\* The commit of an approval, of the drafted text or of an edited one.
LEMMA QueueKeepsInv ==
    ASSUME IndInv, TypeOK', NEW a \in Attempts, NEW by \in Reviewers,
           NEW to \in Addresses, NEW text \in Texts, tx[a] # None,
           QueueForDelivery(a, by, to, text, DedupKey(a, text)),
           draft' = [draft EXCEPT ![a] = text],
           tx' = [tx EXCEPT ![a] = None],
           UNCHANGED <<delivery, worker>>
    PROVE  IndInv'
<1> DEFINE key == DedupKey(a, text)
<1>1. attempt[a].state = "PENDING_APPROVAL"
  BY DEF IndInv, LockedIsUndecided
<1>2. key \in Keys
  BY KeysTyped
<1>3. /\ KeyIsFree(a, key)
      /\ \A b \in Attempts \ {a} : attempt'[b] = attempt[b] /\ outbox'[b] = outbox[b]
      /\ attempt'[a].state = "QUEUED"
      /\ attempt'[a].dedupKey = key
      /\ attempt'[a].approvedBy = by
      /\ ~InOutbox(a)
      /\ InOutbox(a)'
      /\ outbox'[a] = [to |-> to, text |-> text, key |-> key, claim |-> "none",
                       processed |-> FALSE, lastError |-> FALSE, claims |-> 0]
  BY <1>1, <1>2, QueueEffect
<1> HIDE DEF key
<1>4. /\ \A b \in Attempts \ {a} : draft'[b] = draft[b] /\ tx'[b] = tx[b]
      /\ draft'[a] = text /\ tx'[a] = None
  BY DEF IndInv, TypeOK
<1>5. provider' = provider /\ worker' = worker
  BY DEF delivery
<1>6. WorkersHoldRows'
  BY <1>3, <1>5 DEF IndInv, WorkersHoldRows, InOutbox
<1>7. OutboxAgreesWithAttempt'
  BY <1>3 DEF IndInv, OutboxAgreesWithAttempt, InOutbox
<1>8. KeyNamesItsMessage'
  BY <1>3, <1>4 DEF key, IndInv, KeyNamesItsMessage, InOutbox
<1>9. DeliveredAsApproved'
  <2> SUFFICES ASSUME NEW k \in Keys, provider[k] # None
               PROVE  \E b \in Attempts :
                        /\ outbox'[b] # None
                        /\ outbox'[b].key = k
                        /\ provider[k].to = outbox'[b].to
                        /\ provider[k].text = outbox'[b].text
                        /\ attempt'[b].approvedBy # None
    BY <1>5 DEF DeliveredAsApproved, InOutbox
  <2>1. PICK b \in Attempts :
           /\ InOutbox(b)
           /\ outbox[b].key = k
           /\ provider[k].to = outbox[b].to
           /\ provider[k].text = outbox[b].text
           /\ attempt[b].approvedBy # None
    BY DEF IndInv, DeliveredAsApproved
  <2>2. b # a
    BY <1>3, <2>1
  <2> QED BY <1>3, <2>1, <2>2 DEF InOutbox
<1>10. ReceiptIsReal'
  BY <1>3, <1>5 DEF IndInv, ReceiptIsReal, Delivered, InOutbox
<1>11. LockedIsUndecided'
  BY <1>3, <1>4 DEF IndInv, LockedIsUndecided
<1>12. KeysAreUnique'
  BY <1>3 DEF IndInv, KeysAreUnique, KeyIsFree
<1>13. QueuedHasApprover'
  BY <1>3 DEF IndInv, QueuedHasApprover, InOutbox
<1>14. ReceiptsHeld'
  <2> SUFFICES ASSUME NEW w \in Workers, worker[w].pc = "sent"
               PROVE  /\ Delivered(worker[w].row)'
                      /\ worker[w].messageId = provider[outbox'[worker[w].row].key].id
    BY <1>5 DEF ReceiptsHeld
  <2>1. worker[w].row \in Attempts /\ InOutbox(worker[w].row)
    BY DEF IndInv, WorkersHoldRows
  <2>2. worker[w].row # a
    BY <1>3, <2>1
  <2>3. outbox'[worker[w].row] = outbox[worker[w].row]
    BY <1>3, <2>1, <2>2
  <2> QED BY <1>5, <2>1, <2>3 DEF IndInv, ReceiptsHeld, Delivered, InOutbox
<1> QED
  BY <1>6, <1>7, <1>8, <1>9, <1>10, <1>11, <1>12, <1>13, <1>14 DEF IndInv

\* An attempt is refused: rejected by a person, or blocked by the gates.
LEMMA RefusalKeepsInv ==
    ASSUME IndInv, TypeOK', NEW a \in Attempts, NEW row, NEW text \in Texts,
           attempt[a].state = "PENDING_APPROVAL",
           row.state \in {"REJECTED", "BLOCKED"},
           row.dedupKey = DedupKey(a, text),
           KeyIsFree(a, DedupKey(a, text)),
           attempt' = [attempt EXCEPT ![a] = row],
           draft' = [draft EXCEPT ![a] = text],
           tx' = [tx EXCEPT ![a] = None],
           UNCHANGED <<outbox, delivery, worker>>
    PROVE  IndInv'
<1>1. ~InOutbox(a)
  BY DEF IndInv, OutboxAgreesWithAttempt
<1>2. /\ \A b \in Attempts \ {a} :
            attempt'[b] = attempt[b] /\ draft'[b] = draft[b] /\ tx'[b] = tx[b]
      /\ attempt'[a] = row /\ draft'[a] = text /\ tx'[a] = None
  BY DEF IndInv, TypeOK
<1>3. outbox' = outbox /\ provider' = provider /\ worker' = worker
  BY DEF delivery
<1>4. WorkersHoldRows' /\ ReceiptsHeld'
  BY <1>3 DEF IndInv, WorkersHoldRows, ReceiptsHeld, InOutbox, Delivered
<1>5. OutboxAgreesWithAttempt'
  BY <1>1, <1>2, <1>3 DEF IndInv, OutboxAgreesWithAttempt, InOutbox
<1>6. KeyNamesItsMessage'
  BY <1>1, <1>2, <1>3 DEF IndInv, KeyNamesItsMessage, InOutbox
<1>7. DeliveredAsApproved'
  BY <1>1, <1>2, <1>3 DEF IndInv, DeliveredAsApproved, InOutbox
<1>8. ReceiptIsReal'
  BY <1>1, <1>2, <1>3 DEF IndInv, ReceiptIsReal, InOutbox, Delivered
<1>9. LockedIsUndecided'
  BY <1>2 DEF IndInv, LockedIsUndecided
<1>10. KeysAreUnique'
  BY <1>2 DEF IndInv, KeysAreUnique, KeyIsFree
<1>11. QueuedHasApprover'
  BY <1>1, <1>2, <1>3 DEF IndInv, QueuedHasApprover, InOutbox
<1> QED BY <1>4, <1>5, <1>6, <1>7, <1>8, <1>9, <1>10, <1>11 DEF IndInv

\* A claim, or its expiry.
LEMMA ClaimKeepsInv ==
    ASSUME IndInv, TypeOK', NEW a \in Attempts,
           ClaimExpires(a) \/ \E w \in Workers : ClaimNextOutboxRow(w, a)
    PROVE  IndInv'
<1>1. /\ InOutbox(a)
      /\ \A b \in Attempts :
            /\ InOutbox(b)' <=> InOutbox(b)
            /\ InOutbox(b) => SameMessage(b) /\ SameMark(b)
  BY ClaimEffect DEF IndInv
<1>2. UNCHANGED <<attempt, draft, tx, provider>>
  BY DEF ClaimExpires, ClaimNextOutboxRow, delivery
<1>3. \A w \in Workers :
        \/ worker'[w] = worker[w]
        \/ worker'[w].pc = "delivering" /\ worker'[w].row = a
  BY DEF ClaimExpires, ClaimNextOutboxRow, IndInv, TypeOK
<1>4. WorkersHoldRows'
  BY <1>1, <1>3 DEF IndInv, WorkersHoldRows, InOutbox
<1>5. OutboxAgreesWithAttempt'
  BY <1>1, <1>2 DEF IndInv, OutboxAgreesWithAttempt, InOutbox, SameMark
<1>6. KeyNamesItsMessage'
  BY <1>1, <1>2 DEF IndInv, KeyNamesItsMessage, InOutbox, SameMessage
<1>7. DeliveredAsApproved'
  BY <1>1, <1>2 DEF IndInv, DeliveredAsApproved, InOutbox, SameMessage
<1>8. ReceiptIsReal'
  BY <1>1, <1>2 DEF IndInv, ReceiptIsReal, Delivered, InOutbox, SameMessage
<1>9. LockedIsUndecided' /\ KeysAreUnique'
  BY <1>2 DEF IndInv, LockedIsUndecided, KeysAreUnique
<1>10. QueuedHasApprover'
  BY <1>1, <1>2 DEF IndInv, QueuedHasApprover, InOutbox
<1>11. ReceiptsHeld'
  <2> SUFFICES ASSUME NEW w \in Workers, worker'[w].pc = "sent"
               PROVE  /\ Delivered(worker[w].row)'
                      /\ worker'[w] = worker[w]
                      /\ worker[w].messageId = provider'[outbox'[worker[w].row].key].id
    BY DEF ReceiptsHeld, Delivered, InOutbox
  <2>1. worker'[w] = worker[w]
    BY <1>3
  <2>2. worker[w].row \in Attempts /\ Delivered(worker[w].row)
        /\ worker[w].messageId = provider[outbox[worker[w].row].key].id
    BY <2>1 DEF IndInv, ReceiptsHeld, WorkersHoldRows
  <2> QED BY <1>1, <1>2, <2>1, <2>2 DEF Delivered, InOutbox, SameMessage
<1> QED
  BY <1>4, <1>5, <1>6, <1>7, <1>8, <1>9, <1>10, <1>11 DEF IndInv

\* A request to the provider, whatever its outcome.
LEMMA SendKeepsInv ==
    ASSUME IndInv, TypeOK', NEW w \in Workers, Send(w)
    PROVE  IndInv'
<1> DEFINE row == outbox[worker[w].row]
<1>1. UNCHANGED <<attempt, draft, outbox, tx>>
  BY DEF Send, SendKnownKey, SendAccepted, SendTimesOutButAccepted, SendFails, tables
<1>2. worker[w].pc = "delivering"
  BY DEF Send, SendKnownKey, SendAccepted, SendTimesOutButAccepted, SendFails, Delivering
<1>3. worker[w].row \in Attempts /\ InOutbox(worker[w].row) /\ row.key \in Keys
  BY <1>2, RowsTyped DEF IndInv, WorkersHoldRows, RowOf
<1>4. /\ \A v \in Workers \ {w} : worker'[v] = worker[v]
      /\ worker'[w].row = worker[w].row
      /\ worker'[w].pc \in {"delivering", "sent", "failed"}
  BY <1>2 DEF Send, SendKnownKey, SendAccepted, SendTimesOutButAccepted, SendFails,
              IndInv, TypeOK, WorkerStates, Receipt, Failure, AfterRetryableError
<1>5. \A k \in Keys : \/ provider'[k] = provider[k]
                      \/ /\ k = row.key
                         /\ provider[k] = None
                         /\ provider'[k] = [id |-> accepted + 1, to |-> row.to,
                                            text |-> row.text]
  BY <1>3 DEF Send, SendKnownKey, SendAccepted, SendTimesOutButAccepted, SendFails,
              Accept, Known, RowOf, delivery, IndInv, TypeOK
<1>6. [id |-> accepted + 1, to |-> row.to, text |-> row.text] # None
  <2>1. row \in OutboxRows /\ accepted + 1 \in Nat
    BY <1>2, RowsTyped DEF IndInv, TypeOK
  <2>2. [id |-> accepted + 1, to |-> row.to, text |-> row.text] \in Deliveries
    BY <2>1 DEF Deliveries, OutboxRows
  <2> QED BY <2>2, NoneAssumption
<1>7. \A k \in Keys : provider[k] # None => provider'[k] = provider[k]
  BY <1>5
<1>8. worker'[w].pc = "sent" =>
        /\ provider'[row.key] # None
        /\ worker'[w].messageId = provider'[row.key].id
  <2>1. /\ worker \in [Workers -> WorkerStates]
        /\ provider \in [Keys -> Deliveries \cup {None}]
    BY DEF IndInv, TypeOK
  <2>2. CASE SendKnownKey(w)
    <3>1. /\ provider[row.key] # None /\ provider' = provider
          /\ \/ worker'[w] = Receipt(worker[w], provider[row.key].id)
             \/ worker'[w] = Failure(worker[w])
      BY <2>1, <2>2 DEF SendKnownKey, Known, RowOf, delivery
    <3> QED BY <3>1 DEF Receipt, Failure
  <2>3. CASE SendAccepted(w)
    <3>1. /\ worker'[w] = Receipt(worker[w], accepted + 1)
          /\ provider'[row.key] = [id |-> accepted + 1, to |-> row.to, text |-> row.text]
      BY <1>3, <2>1, <2>3 DEF SendAccepted, Accept, RowOf
    <3> QED BY <1>6, <3>1 DEF Receipt
  <2>4. CASE SendTimesOutButAccepted(w) \/ SendFails(w)
    <3>1. worker'[w] = AfterRetryableError(worker[w])
      BY <2>1, <2>4 DEF SendTimesOutButAccepted, SendFails
    <3>2. worker[w] \in WorkerStates
      BY <2>1
    <3>3. ASSUME NEW tick \in WorkerStates, tick.pc = "delivering"
          PROVE  AfterRetryableError(tick).pc # "sent"
      BY <3>3 DEF AfterRetryableError, Failure, WorkerStates
    <3> QED BY <1>2, <3>1, <3>2, <3>3
  <2> QED BY <2>2, <2>3, <2>4 DEF Send
<1>9. WorkersHoldRows'
  BY <1>1, <1>3, <1>4 DEF IndInv, WorkersHoldRows, InOutbox
<1>10. /\ OutboxAgreesWithAttempt' /\ KeyNamesItsMessage' /\ LockedIsUndecided'
       /\ KeysAreUnique' /\ QueuedHasApprover'
  BY <1>1 DEF IndInv, OutboxAgreesWithAttempt, KeyNamesItsMessage, LockedIsUndecided,
              KeysAreUnique, QueuedHasApprover, InOutbox
<1>11. DeliveredAsApproved'
  <2> SUFFICES ASSUME NEW k \in Keys, provider'[k] # None
               PROVE  \E b \in Attempts :
                        /\ InOutbox(b)
                        /\ outbox[b].key = k
                        /\ provider'[k].to = outbox[b].to
                        /\ provider'[k].text = outbox[b].text
                        /\ attempt[b].approvedBy # None
    BY <1>1 DEF DeliveredAsApproved, InOutbox
  <2>1. CASE provider'[k] = provider[k]
    BY <2>1 DEF IndInv, DeliveredAsApproved
  <2>2. CASE /\ k = row.key
             /\ provider'[k] = [id |-> accepted + 1, to |-> row.to, text |-> row.text]
    <3>1. attempt[worker[w].row].approvedBy # None
      BY <1>3, NoneAssumption DEF IndInv, QueuedHasApprover
    <3> QED BY <1>3, <2>2, <3>1
  <2> QED BY <1>5, <2>1, <2>2
<1>12. ReceiptIsReal'
  <2> SUFFICES ASSUME NEW a \in Attempts, attempt[a].state = "SENT"
               PROVE  /\ InOutbox(a)
                      /\ provider'[outbox[a].key] # None
                      /\ attempt[a].providerMessageId = provider'[outbox[a].key].id
    BY <1>1 DEF ReceiptIsReal, Delivered, InOutbox
  <2>1. /\ Delivered(a)
        /\ attempt[a].providerMessageId = provider[outbox[a].key].id
        /\ outbox[a].key \in Keys
    BY DEF IndInv, ReceiptIsReal, Delivered, InOutbox, TypeOK, OutboxRows
  <2> QED BY <1>7, <2>1 DEF Delivered
<1>13. ReceiptsHeld'
  <2> SUFFICES ASSUME NEW v \in Workers, worker'[v].pc = "sent"
               PROVE  /\ outbox[worker'[v].row] # None
                      /\ provider'[outbox[worker'[v].row].key] # None
                      /\ worker'[v].messageId = provider'[outbox[worker'[v].row].key].id
    BY <1>1 DEF ReceiptsHeld, Delivered, InOutbox
  <2>1. CASE v = w
    BY <1>3, <1>4, <1>8, <2>1 DEF InOutbox
  <2>2. CASE v # w
    <3>1. worker'[v] = worker[v]
      BY <1>4, <2>2
    <3>2. /\ Delivered(worker[v].row)
          /\ worker[v].messageId = provider[outbox[worker[v].row].key].id
      BY <3>1 DEF IndInv, ReceiptsHeld
    <3>3. outbox[worker[v].row].key \in Keys
      BY <3>1, RowsTyped DEF IndInv, RowOf
    <3> QED BY <1>7, <3>1, <3>2, <3>3 DEF Delivered, InOutbox
  <2> QED BY <2>1, <2>2
<1> QED
  BY <1>9, <1>10, <1>11, <1>12, <1>13 DEF IndInv

\* A worker ends its tick without a write: it crashed, or its record was refused.
LEMMA IdleKeepsInv ==
    ASSUME IndInv, TypeOK', NEW w \in Workers, RecordRefused(w) \/ Crash(w)
    PROVE  IndInv'
<1>1. UNCHANGED <<attempt, draft, outbox, tx, provider>>
  BY DEF RecordRefused, Crash, tables, delivery
<1>2. /\ \A v \in Workers \ {w} : worker'[v] = worker[v]
      /\ worker'[w].pc = "idle"
  BY DEF RecordRefused, Crash, Idle, IndInv, TypeOK
<1>3. WorkersHoldRows' /\ ReceiptsHeld'
  BY <1>1, <1>2 DEF IndInv, WorkersHoldRows, ReceiptsHeld, InOutbox, Delivered
<1>4. /\ OutboxAgreesWithAttempt' /\ KeyNamesItsMessage' /\ DeliveredAsApproved'
      /\ ReceiptIsReal' /\ LockedIsUndecided' /\ KeysAreUnique' /\ QueuedHasApprover'
  BY <1>1 DEF IndInv, OutboxAgreesWithAttempt, KeyNamesItsMessage, DeliveredAsApproved,
              ReceiptIsReal, LockedIsUndecided, KeysAreUnique, QueuedHasApprover,
              InOutbox, Delivered
<1> QED BY <1>3, <1>4 DEF IndInv

\* The transaction that records an outcome.
LEMMA MarkKeepsInv ==
    ASSUME IndInv, TypeOK', NEW w \in Workers, MarkSent(w) \/ MarkFailed(w)
    PROVE  IndInv'
<1> DEFINE a == worker[w].row
<1>1. /\ a \in Attempts
      /\ InOutbox(a)
      /\ outbox'[a] # None
      /\ SameMessage(a)
      /\ attempt[a].state \in {"QUEUED", "FAILED"}
      /\ attempt'[a].dedupKey = attempt[a].dedupKey
      /\ attempt'[a].approvedBy = attempt[a].approvedBy
      /\ \A b \in Attempts \ {a} : attempt'[b] = attempt[b] /\ outbox'[b] = outbox[b]
  BY MarkEffect
<1>2. MarkSent(w) =>
        /\ attempt'[a].state = "SENT"
        /\ attempt'[a].providerMessageId = worker[w].messageId
        /\ outbox'[a].processed
        /\ ~outbox'[a].lastError
  BY MarkEffect
<1>3. MarkFailed(w) =>
        /\ attempt'[a].state = "FAILED"
        /\ ~outbox'[a].processed
        /\ outbox'[a].lastError
  BY MarkEffect
<1>4. UNCHANGED <<draft, tx, provider>>
  BY DEF MarkSent, MarkFailed, delivery
<1>5. /\ \A v \in Workers \ {w} : worker'[v] = worker[v]
      /\ worker'[w].pc = "idle"
  BY DEF MarkSent, MarkFailed, Idle, IndInv, TypeOK
<1>6. \A c \in Attempts : InOutbox(c) => outbox'[c] # None /\ SameMessage(c)
  BY <1>1 DEF SameMessage, InOutbox
<1>7. WorkersHoldRows'
  BY <1>5, <1>6 DEF IndInv, WorkersHoldRows, InOutbox
<1>8. OutboxAgreesWithAttempt'
  <2>1. \A c \in Attempts \ {a} : attempt'[c] = attempt[c] /\ outbox'[c] = outbox[c]
    BY <1>1
  <2>2. attempt'[a].state \in {"SENT", "FAILED"}
        /\ (outbox'[a].processed <=> attempt'[a].state = "SENT")
        /\ (outbox'[a].lastError <=> attempt'[a].state = "FAILED")
    BY <1>2, <1>3
  <2> QED BY <1>1, <2>1, <2>2 DEF IndInv, OutboxAgreesWithAttempt, InOutbox
<1>9. KeyNamesItsMessage' /\ KeysAreUnique'
  <2>1. \A c \in Attempts : attempt'[c].dedupKey = attempt[c].dedupKey
    BY <1>1
  <2>2. \A c \in Attempts : outbox'[c] # None => InOutbox(c)
    BY <1>1 DEF InOutbox
  <2> QED BY <1>4, <1>6, <2>1, <2>2
          DEF IndInv, KeyNamesItsMessage, KeysAreUnique, InOutbox, SameMessage
<1>10. \A c \in Attempts : attempt'[c].approvedBy = attempt[c].approvedBy
  BY <1>1
<1>11. DeliveredAsApproved'
  BY <1>4, <1>6, <1>10 DEF IndInv, DeliveredAsApproved, InOutbox, SameMessage
<1>12. QueuedHasApprover'
  BY <1>1, <1>10 DEF IndInv, QueuedHasApprover, InOutbox
<1>13. LockedIsUndecided'
  BY <1>1, <1>4 DEF IndInv, LockedIsUndecided
<1>14. ReceiptIsReal'
  <2> SUFFICES ASSUME NEW c \in Attempts, attempt'[c].state = "SENT"
               PROVE  /\ outbox'[c] # None
                      /\ provider[outbox'[c].key] # None
                      /\ attempt'[c].providerMessageId = provider[outbox'[c].key].id
    BY <1>4 DEF ReceiptIsReal, Delivered, InOutbox
  <2>1. CASE c # a
    BY <1>1, <2>1 DEF IndInv, ReceiptIsReal, Delivered, InOutbox
  <2>2. CASE c = a
    <3>1. MarkSent(w)
      BY <1>3, <2>2
    <3>2. Delivered(a) /\ worker[w].messageId = provider[outbox[a].key].id
      BY <3>1 DEF MarkSent, IndInv, ReceiptsHeld
    <3> QED BY <1>1, <1>2, <2>2, <3>1, <3>2 DEF Delivered, SameMessage
  <2> QED BY <2>1, <2>2
<1>15. ReceiptsHeld'
  <2> SUFFICES ASSUME NEW v \in Workers, worker'[v].pc = "sent"
               PROVE  /\ outbox'[worker'[v].row] # None
                      /\ provider[outbox'[worker'[v].row].key] # None
                      /\ worker'[v].messageId = provider[outbox'[worker'[v].row].key].id
    BY <1>4 DEF ReceiptsHeld, Delivered, InOutbox
  <2>1. worker'[v] = worker[v]
    BY <1>5
  <2>2. /\ worker[v].row \in Attempts
        /\ Delivered(worker[v].row)
        /\ worker[v].messageId = provider[outbox[worker[v].row].key].id
    BY <2>1 DEF IndInv, ReceiptsHeld, WorkersHoldRows
  <2> QED BY <1>6, <2>1, <2>2 DEF Delivered, SameMessage
<1> QED
  BY <1>7, <1>8, <1>9, <1>11, <1>12, <1>13, <1>14, <1>15 DEF IndInv

LEMMA NextInv == IndInv /\ [Next]_vars => IndInv'
<1> SUFFICES ASSUME IndInv, [Next]_vars PROVE IndInv'
  OBVIOUS
<1>1. TypeOK'
  BY NextTyped DEF IndInv
<1>2. ASSUME NEW a \in Attempts, NEW by \in Reviewers, BeginApprove(a, by)
      PROVE  IndInv'
  <2>1. LockedIsUndecided'
    BY <1>2 DEF BeginApprove, Decidable, IndInv, LockedIsUndecided, TypeOK, tables
  <2> QED BY <1>1, <1>2, <2>1, LocksKeepInv DEF BeginApprove, tables, delivery
<1>3. ASSUME NEW a \in Attempts, NEW by \in Reviewers, NEW text \in Texts,
             BeginEdit(a, by, text)
      PROVE  IndInv'
  <2>1. LockedIsUndecided'
    BY <1>3 DEF BeginEdit, Decidable, IndInv, LockedIsUndecided, TypeOK, tables
  <2> QED BY <1>1, <1>3, <2>1, LocksKeepInv DEF BeginEdit, tables, delivery
<1>4. ASSUME NEW a \in Attempts, CommitApprove(a) PROVE IndInv'
  <2>1. tx[a] # None /\ tx[a] \in Transactions
    BY <1>4 DEF CommitApprove, IndInv, TypeOK
  <2>2. tx[a].by \in Reviewers /\ tx[a].to \in Addresses /\ tx[a].text \in Texts
    BY <2>1 DEF Transactions
  <2>3. tx[a].text = draft[a]
    BY <1>4 DEF CommitApprove, IndInv, LockedIsUndecided
  <2>4. attempt[a].dedupKey = DedupKey(a, tx[a].text)
    BY <2>3 DEF IndInv, KeyNamesItsMessage
  <2>5. draft' = [draft EXCEPT ![a] = tx[a].text]
    BY <1>4, <2>3 DEF CommitApprove, IndInv, TypeOK
  <2>6. QueueForDelivery(a, tx[a].by, tx[a].to, tx[a].text, DedupKey(a, tx[a].text))
    BY <1>4, <2>4 DEF CommitApprove
  <2> QED BY <1>1, <1>4, <2>1, <2>2, <2>5, <2>6, QueueKeepsInv DEF CommitApprove
<1>5. ASSUME NEW a \in Attempts, CommitEdit(a) PROVE IndInv'
  <2>1. tx[a] # None /\ tx[a] \in Transactions
    BY <1>5 DEF CommitEdit, EditKey, IndInv, TypeOK
  <2>2. tx[a].by \in Reviewers /\ tx[a].to \in Addresses /\ tx[a].text \in Texts
    BY <2>1 DEF Transactions
  <2>3. draft' = [draft EXCEPT ![a] = tx[a].text] /\ tx' = [tx EXCEPT ![a] = None]
        /\ UNCHANGED <<delivery, worker>>
    BY <1>5 DEF CommitEdit, EditKey
  <2>4. CASE QueueForDelivery(a, tx[a].by, tx[a].to, tx[a].text,
                              DedupKey(a, tx[a].text))
    BY <1>1, <2>1, <2>2, <2>3, <2>4, QueueKeepsInv
  <2>5. CASE /\ KeyIsFree(a, DedupKey(a, tx[a].text))
             /\ attempt' = [attempt EXCEPT ![a] =
                  [BlockMove(attempt[a]) EXCEPT !.dedupKey = DedupKey(a, tx[a].text)]]
             /\ UNCHANGED <<outbox, created>>
    <3> DEFINE row == [BlockMove(attempt[a]) EXCEPT !.dedupKey = DedupKey(a, tx[a].text)]
    <3>1. attempt[a].state = "PENDING_APPROVAL" /\ attempt[a] \in AttemptRows
      BY <2>1 DEF IndInv, LockedIsUndecided, TypeOK
    <3>2. ASSUME NEW r \in AttemptRows, NEW key
          PROVE  /\ [BlockMove(r) EXCEPT !.dedupKey = key].state = "BLOCKED"
                 /\ [BlockMove(r) EXCEPT !.dedupKey = key].dedupKey = key
      BY DEF AttemptRows, BlockMove, MoveTo
    <3>3. row.state = "BLOCKED" /\ row.dedupKey = DedupKey(a, tx[a].text)
      BY <3>1, <3>2
    <3> HIDE DEF row
    <3>4. attempt' = [attempt EXCEPT ![a] = row]
      BY <2>5 DEF row
    <3> QED BY <1>1, <2>2, <2>3, <2>5, <3>1, <3>3, <3>4, RefusalKeepsInv
  <2> QED BY <1>5, <2>4, <2>5 DEF CommitEdit, EditKey
<1>6. ASSUME NEW a \in Attempts, Rollback(a) PROVE IndInv'
  <2>1. LockedIsUndecided'
    BY <1>6 DEF Rollback, IndInv, LockedIsUndecided, TypeOK, tables
  <2> QED BY <1>1, <1>6, <2>1, LocksKeepInv DEF Rollback, tables, delivery
<1>7. ASSUME NEW a \in Attempts, Reject(a) PROVE IndInv'
  <2> DEFINE row == RejectMove(attempt[a])
  <2>1. attempt[a].state = "PENDING_APPROVAL" /\ attempt[a] \in AttemptRows
        /\ tx[a] = None /\ draft[a] \in Texts
    BY <1>7 DEF Reject, Decidable, IndInv, TypeOK
  <2>2. ASSUME NEW r \in AttemptRows
        PROVE  RejectMove(r).state = "REJECTED" /\ RejectMove(r).dedupKey = r.dedupKey
    BY DEF AttemptRows, RejectMove, MoveTo
  <2>3. row.state = "REJECTED" /\ row.dedupKey = attempt[a].dedupKey
    BY <2>1, <2>2
  <2>4. attempt[a].dedupKey = DedupKey(a, draft[a])
    BY DEF IndInv, KeyNamesItsMessage
  <2>5. KeyIsFree(a, DedupKey(a, draft[a]))
    BY <2>4 DEF IndInv, KeysAreUnique, KeyIsFree
  <2> HIDE DEF row
  <2>6. attempt' = [attempt EXCEPT ![a] = row]
    BY <1>7 DEF Reject, row
  <2>7. draft' = [draft EXCEPT ![a] = draft[a]] /\ tx' = [tx EXCEPT ![a] = None]
    BY <1>7, <2>1 DEF Reject, IndInv, TypeOK
  <2> QED BY <1>1, <1>7, <2>1, <2>3, <2>4, <2>5, <2>6, <2>7, RefusalKeepsInv DEF Reject
<1>8. ASSUME NEW m \in Merchants, NEW address \in Addresses, Reingest(m, address)
      PROVE  IndInv'
  <2>1. LockedIsUndecided'
    BY <1>8 DEF Reingest, IndInv, LockedIsUndecided, tables
  <2> QED BY <1>1, <1>8, <2>1, LocksKeepInv DEF Reingest, tables, delivery
<1>9. ASSUME NEW a \in Attempts, ClaimExpires(a) PROVE IndInv'
  BY <1>1, <1>9, ClaimKeepsInv
<1>10. ASSUME NEW w \in Workers, NEW a \in Attempts, ClaimNextOutboxRow(w, a)
       PROVE  IndInv'
  BY <1>1, <1>10, ClaimKeepsInv
<1>11. ASSUME NEW w \in Workers, Send(w) PROVE IndInv'
  BY <1>1, <1>11, SendKeepsInv
<1>12. ASSUME NEW w \in Workers, MarkSent(w) \/ MarkFailed(w) PROVE IndInv'
  BY <1>1, <1>12, MarkKeepsInv
<1>13. ASSUME NEW w \in Workers, RecordRefused(w) \/ Crash(w) PROVE IndInv'
  BY <1>1, <1>13, IdleKeepsInv
<1>14. CASE UNCHANGED vars
  BY <1>1, <1>14, LocksKeepInv DEF vars, tables, delivery, IndInv, LockedIsUndecided
<1> QED
  BY <1>2, <1>3, <1>4, <1>5, <1>6, <1>7, <1>8, <1>9, <1>10, <1>11, <1>12, <1>13, <1>14
  DEF Next, Decide, Claim, Record

\* The inductive invariant holds of every reachable state.
THEOREM Invariance == Spec => []IndInv
<1>1. Init => IndInv
  BY InitInv
<1>2. IndInv /\ [Next]_vars => IndInv'
  BY NextInv
<1> QED BY <1>1, <1>2, PTL DEF Spec

\* Every reachable state is well-typed.
THEOREM TypeCorrect == Spec => []TypeOK
<1>1. IndInv => TypeOK
  BY DEF IndInv
<1> QED BY <1>1, Invariance, PTL

\* The attempts table and the outbox agree at every commit, for any number of
\* workers: approved exactly when queued, processed exactly when SENT.
THEOREM TablesAgree == Spec => []OutboxAgreesWithAttempt
<1>1. IndInv => OutboxAgreesWithAttempt
  BY DEF IndInv
<1> QED BY <1>1, Invariance, PTL

\* A dedup key always names the text it was computed from, and a queued
\* message always travels under the key of its own text.
THEOREM KeysNameMessages == Spec => []KeyNamesItsMessage
<1>1. IndInv => KeyNamesItsMessage
  BY DEF IndInv
<1> QED BY <1>1, Invariance, PTL

\* Nothing reaches a recipient but what a person approved, as approved.
THEOREM OnlyApprovedIsDelivered == Spec => []DeliveredAsApproved
<1>1. IndInv => DeliveredAsApproved
  BY DEF IndInv
<1> QED BY <1>1, Invariance, PTL

\* An attempt recorded as SENT was delivered, and its receipt is the provider's.
THEOREM SentWasDelivered == Spec => []ReceiptIsReal
<1>1. IndInv => ReceiptIsReal
  BY DEF IndInv
<1> QED BY <1>1, Invariance, PTL

-----------------------------------------------------------------------------
(* Steps. *)

\* Commits are made for undecided attempts: nothing of theirs is queued yet.
LEMMA CommitEffect ==
    ASSUME IndInv, NEW a \in Attempts, CommitApprove(a) \/ CommitEdit(a) \/ Reject(a)
    PROVE  /\ ~InOutbox(a)
           /\ attempt[a].state = "PENDING_APPROVAL"
           /\ UNCHANGED <<provider, worker>>
           /\ \A b \in Attempts \ {a} :
                 attempt'[b] = attempt[b] /\ outbox'[b] = outbox[b] /\ draft'[b] = draft[b]
           /\ \/ /\ outbox'[a] = None
                 /\ attempt'[a].state \in {"REJECTED", "BLOCKED"}
              \/ /\ outbox'[a] \in OutboxRows
                 /\ outbox'[a] # None
                 /\ KeyIsFree(a, outbox'[a].key)
                 /\ attempt'[a].state = "QUEUED"
<1>1. attempt[a].state = "PENDING_APPROVAL" /\ attempt[a] \in AttemptRows
  BY DEF CommitApprove, CommitEdit, Reject, Decidable, IndInv, LockedIsUndecided, TypeOK
<1>2. ~InOutbox(a)
  BY <1>1 DEF IndInv, OutboxAgreesWithAttempt
<1>3. UNCHANGED <<provider, worker>>
  BY DEF CommitApprove, CommitEdit, Reject, delivery
<1>4. \A b \in Attempts \ {a} : draft'[b] = draft[b]
  BY DEF CommitApprove, CommitEdit, Reject, IndInv, TypeOK
<1>5. ASSUME NEW key \in Keys, tx[a] # None,
             QueueForDelivery(a, tx[a].by, tx[a].to, tx[a].text, key)
      PROVE  /\ \A b \in Attempts \ {a} :
                    attempt'[b] = attempt[b] /\ outbox'[b] = outbox[b]
             /\ outbox'[a] \in OutboxRows
             /\ outbox'[a] # None
             /\ KeyIsFree(a, outbox'[a].key)
             /\ attempt'[a].state = "QUEUED"
  <2>1. tx[a].by \in Reviewers /\ tx[a].to \in Addresses /\ tx[a].text \in Texts
    BY <1>5 DEF IndInv, TypeOK, Transactions
  <2>2. /\ KeyIsFree(a, key)
        /\ \A b \in Attempts \ {a} : attempt'[b] = attempt[b] /\ outbox'[b] = outbox[b]
        /\ attempt'[a].state = "QUEUED"
        /\ outbox'[a] = [to |-> tx[a].to, text |-> tx[a].text, key |-> key,
                         claim |-> "none", processed |-> FALSE, lastError |-> FALSE,
                         claims |-> 0]
    BY <1>1, <1>5, <2>1, QueueEffect
  <2>3. outbox'[a] \in OutboxRows /\ outbox'[a].key = key
    BY <2>1, <2>2, MaxCountAssumption DEF OutboxRows
  <2> QED BY <2>2, <2>3, NoneAssumption
<1>6. CASE CommitApprove(a)
  <2>1. attempt[a].dedupKey \in Keys
    BY <1>1 DEF AttemptRows
  <2> QED BY <1>1, <1>2, <1>3, <1>4, <1>5, <1>6, <2>1 DEF CommitApprove
<1>7. CASE CommitEdit(a)
  <2>1. tx[a] # None /\ tx[a].text \in Texts
    BY <1>7 DEF CommitEdit, EditKey, IndInv, TypeOK, Transactions
  <2>2. DedupKey(a, tx[a].text) \in Keys
    BY <2>1, KeysTyped
  <2>3. CASE QueueForDelivery(a, tx[a].by, tx[a].to, tx[a].text,
                              DedupKey(a, tx[a].text))
    BY <1>1, <1>2, <1>3, <1>4, <1>5, <2>1, <2>2, <2>3
  <2>4. CASE /\ attempt' = [attempt EXCEPT ![a] =
                  [BlockMove(attempt[a]) EXCEPT !.dedupKey = DedupKey(a, tx[a].text)]]
             /\ UNCHANGED <<outbox, created>>
    <3>1. ASSUME NEW r \in AttemptRows, NEW key
          PROVE  [BlockMove(r) EXCEPT !.dedupKey = key].state = "BLOCKED"
      BY DEF AttemptRows, BlockMove, MoveTo
    <3>2. /\ attempt'[a] = [BlockMove(attempt[a]) EXCEPT !.dedupKey = DedupKey(a, tx[a].text)]
          /\ \A b \in Attempts \ {a} : attempt'[b] = attempt[b]
      BY <2>4 DEF IndInv, TypeOK
    <3>3. attempt'[a].state = "BLOCKED"
      BY <1>1, <3>1, <3>2
    <3> QED BY <1>1, <1>2, <1>3, <1>4, <2>4, <3>2, <3>3 DEF InOutbox
  <2> QED BY <1>7, <2>3, <2>4 DEF CommitEdit, EditKey
<1>8. CASE Reject(a)
  <2>1. ASSUME NEW r \in AttemptRows PROVE RejectMove(r).state = "REJECTED"
    BY DEF AttemptRows, RejectMove, MoveTo
  <2>2. /\ attempt'[a] = RejectMove(attempt[a])
        /\ \A b \in Attempts \ {a} : attempt'[b] = attempt[b]
        /\ outbox' = outbox
    BY <1>8 DEF Reject, IndInv, TypeOK
  <2>3. attempt'[a].state = "REJECTED"
    BY <1>1, <2>1, <2>2
  <2> QED BY <1>1, <1>2, <1>3, <1>4, <2>2, <2>3 DEF InOutbox
<1> QED BY <1>6, <1>7, <1>8

\* No step alters a message that is already queued.
LEMMA StepFixesMessages ==
    ASSUME IndInv, [Next]_vars, NEW a \in Attempts, InOutbox(a)
    PROVE  MessageFixed(a)
<1>1. CASE UNCHANGED <<attempt, draft, outbox>>
  BY <1>1 DEF MessageFixed, InOutbox
<1>2. ASSUME NEW b \in Attempts, CommitApprove(b) \/ CommitEdit(b) \/ Reject(b)
      PROVE  MessageFixed(a)
  BY <1>2, CommitEffect DEF MessageFixed, InOutbox
<1>3. ASSUME NEW b \in Attempts,
             ClaimExpires(b) \/ \E w \in Workers : ClaimNextOutboxRow(w, b)
      PROVE  MessageFixed(a)
  <2>1. UNCHANGED <<attempt, draft>>
    BY <1>3 DEF ClaimExpires, ClaimNextOutboxRow
  <2>2. InOutbox(a)' /\ SameMessage(a)
    BY <1>3, ClaimEffect DEF IndInv
  <2> QED BY <2>1, <2>2 DEF MessageFixed, InOutbox, SameMessage
<1>4. ASSUME NEW w \in Workers, MarkSent(w) \/ MarkFailed(w)
      PROVE  MessageFixed(a)
  <2>1. draft' = draft
    BY <1>4 DEF MarkSent, MarkFailed
  <2>2. outbox'[a] # None /\ SameMessage(a) /\ attempt'[a].approvedBy = attempt[a].approvedBy
    BY <1>4, MarkEffect DEF SameMessage, InOutbox
  <2> QED BY <2>1, <2>2 DEF MessageFixed, SameMessage
<1> QED
  BY <1>1, <1>2, <1>3, <1>4
  DEF Next, Decide, Claim, Send, Record, BeginApprove, BeginEdit, Rollback, Reingest,
      SendKnownKey, SendAccepted, SendTimesOutButAccepted, SendFails, RecordRefused,
      Crash, tables, vars

\* What was approved for delivery is never altered afterwards.
THEOREM ApprovedNeverAltered == Spec => ApprovedMessageIsFixed
<1>1. IndInv /\ [Next]_vars => [\A a \in Attempts : InOutbox(a) => MessageFixed(a)]_vars
  BY StepFixesMessages
<1> QED BY <1>1, Invariance, PTL DEF Spec, ApprovedMessageIsFixed

\* No step takes an attempt off the table of legal transitions.
LEMMA StepFollowsTable ==
    ASSUME IndInv, [Next]_vars, NEW a \in Attempts, attempt'[a].state # attempt[a].state
    PROVE  CommitReaches(attempt[a].state, attempt'[a].state)
<1>1. ASSUME NEW b \in Attempts, CommitApprove(b) \/ CommitEdit(b) \/ Reject(b)
      PROVE  CommitReaches(attempt[a].state, attempt'[a].state)
  <2>1. /\ attempt[a].state = "PENDING_APPROVAL"
        /\ attempt'[a].state \in {"REJECTED", "BLOCKED", "QUEUED"}
    BY <1>1, CommitEffect
  <2> QED BY <2>1 DEF CommitReaches, CanTransition, ALLOWED_TRANSITIONS
<1>2. ASSUME NEW w \in Workers, MarkSent(w) \/ MarkFailed(w)
      PROVE  CommitReaches(attempt[a].state, attempt'[a].state)
  <2>1. /\ attempt[a].state \in {"QUEUED", "FAILED"}
        /\ attempt'[a].state \in {"SENT", "FAILED"}
    BY <1>2, MarkEffect
  <2> QED BY <2>1 DEF CommitReaches, CanTransition, ALLOWED_TRANSITIONS
<1>3. CASE attempt' = attempt
  BY <1>3
<1> QED
  BY <1>1, <1>2, <1>3
  DEF Next, Decide, Claim, Send, Record, BeginApprove, BeginEdit, Rollback, Reingest,
      ClaimExpires, ClaimNextOutboxRow, SendKnownKey, SendAccepted,
      SendTimesOutButAccepted, SendFails, RecordRefused, Crash, tables, vars

\* Attempts only ever move along the table; SENT, REJECTED and BLOCKED are final.
THEOREM TableIsObeyed == Spec => LifecycleObeyed
<1>1. IndInv /\ [Next]_vars =>
        [\A a \in Attempts : attempt'[a].state # attempt[a].state =>
            CommitReaches(attempt[a].state, attempt'[a].state)]_vars
  BY StepFollowsTable
<1> QED BY <1>1, Invariance, PTL DEF Spec, LifecycleObeyed

-----------------------------------------------------------------------------
(* Every step is one of five kinds. *)

\* A commit of the approval API, a claim or its expiry, a recorded outcome, a
\* message the provider takes, or a step that leaves the tables alone.
LEMMA StepKinds ==
    ASSUME [Next]_vars
    PROVE  \/ \E a \in Attempts : CommitApprove(a) \/ CommitEdit(a) \/ Reject(a)
           \/ \E a \in Attempts :
                 ClaimExpires(a) \/ \E w \in Workers : ClaimNextOutboxRow(w, a)
           \/ \E w \in Workers : MarkSent(w) \/ MarkFailed(w)
           \/ \E w \in Workers : SendAccepted(w) \/ SendTimesOutButAccepted(w)
           \/ UNCHANGED <<attempt, draft, report, outbox, provider, accepted>>
BY DEF Next, Decide, Claim, Send, Record, BeginApprove, BeginEdit, Rollback,
       Reingest, SendKnownKey, SendFails, RecordRefused, Crash, tables, delivery, vars

-----------------------------------------------------------------------------
(* One acceptance for each approval. *)

DeliveredAttempts == {a \in Attempts : Delivered(a)}

\* The count is of a finite set, which is what lets it be added to.
CountInv ==
    /\ IsFiniteSet(DeliveredAttempts)
    /\ AcceptedOncePerApproval

\* A commit queues a row under a key nothing was delivered under: what the
\* provider holds belongs to a queued row, and the committed key is nobody's.
LEMMA CommitDeliversNothing ==
    ASSUME IndInv, NEW a \in Attempts, CommitApprove(a) \/ CommitEdit(a) \/ Reject(a)
    PROVE  DeliveredAttempts' = DeliveredAttempts
<1>1. /\ ~InOutbox(a)
      /\ provider' = provider
      /\ \A b \in Attempts \ {a} : outbox'[b] = outbox[b]
      /\ \/ outbox'[a] = None
         \/ /\ outbox'[a] \in OutboxRows
            /\ KeyIsFree(a, outbox'[a].key)
  BY CommitEffect
<1>2. ~Delivered(a)'
  <2> SUFFICES ASSUME outbox'[a] # None, provider[outbox'[a].key] # None PROVE FALSE
    BY <1>1 DEF Delivered, InOutbox
  <2>1. outbox'[a].key \in Keys /\ KeyIsFree(a, outbox'[a].key)
    BY <1>1 DEF OutboxRows
  <2>2. PICK b \in Attempts : InOutbox(b) /\ outbox[b].key = outbox'[a].key
    BY <2>1 DEF IndInv, DeliveredAsApproved
  <2>3. attempt[b].dedupKey = outbox'[a].key
    BY <2>2 DEF IndInv, KeyNamesItsMessage
  <2>4. b # a
    BY <1>1, <2>2
  <2> QED BY <2>1, <2>3, <2>4 DEF KeyIsFree
<1>3. \A b \in Attempts \ {a} : Delivered(b)' <=> Delivered(b)
  BY <1>1 DEF Delivered, InOutbox
<1>4. ~Delivered(a)
  BY <1>1 DEF Delivered
<1> QED BY <1>2, <1>3, <1>4 DEF DeliveredAttempts

\* The provider takes a message under a key it does not know: the worker's row
\* becomes delivered, and no other row has that key.
LEMMA AcceptDeliversOne ==
    ASSUME IndInv, NEW w \in Workers, SendAccepted(w) \/ SendTimesOutButAccepted(w),
           NEW a \in Attempts, a = worker[w].row
    PROVE  /\ a \notin DeliveredAttempts
           /\ DeliveredAttempts' = DeliveredAttempts \cup {a}
           /\ accepted' = accepted + 1
<1> DEFINE key == outbox[a].key
           message == [id |-> accepted + 1, to |-> outbox[a].to, text |-> outbox[a].text]
<1>1. /\ Delivering(w) /\ Known(w) = None /\ Accept(w)
      /\ outbox' = outbox
  BY DEF SendAccepted, SendTimesOutButAccepted, tables
<1>2. InOutbox(a) /\ key \in Keys /\ outbox[a] \in OutboxRows
  BY <1>1, RowsTyped DEF Delivering, IndInv, WorkersHoldRows, RowOf
<1>3. /\ provider[key] = None
      /\ provider' = [provider EXCEPT ![key] = message]
      /\ accepted' = accepted + 1
  BY <1>1 DEF Known, RowOf, Accept
<1>4. message # None
  <2>1. accepted + 1 \in Nat
    BY DEF IndInv, TypeOK
  <2>2. message \in Deliveries
    BY <1>2, <2>1 DEF Deliveries, OutboxRows
  <2> QED BY <2>2, NoneAssumption
<1> HIDE DEF message
<1>5. provider'[key] # None /\ \A k \in Keys \ {key} : provider'[k] = provider[k]
  BY <1>2, <1>3, <1>4 DEF IndInv, TypeOK
<1>6. ~Delivered(a) /\ Delivered(a)'
  BY <1>1, <1>2, <1>3, <1>5 DEF Delivered, InOutbox
<1>7. ASSUME NEW b \in Attempts \ {a}, InOutbox(b)
      PROVE  outbox[b].key \in Keys \ {key}
  <2>1. outbox[b].key \in Keys
    BY <1>7 DEF IndInv, TypeOK, InOutbox, OutboxRows
  <2>2. outbox[b].key = attempt[b].dedupKey /\ key = attempt[a].dedupKey
    BY <1>2, <1>7 DEF IndInv, KeyNamesItsMessage
  <2> QED BY <1>2, <2>1, <2>2 DEF IndInv, KeysAreUnique
<1>8. \A b \in Attempts \ {a} : Delivered(b)' <=> Delivered(b)
  BY <1>1, <1>5, <1>7 DEF Delivered, InOutbox
<1>9. DeliveredAttempts' = DeliveredAttempts \cup {a}
  <2>1. DeliveredAttempts' = {b \in Attempts : Delivered(b)'}
    BY DEF DeliveredAttempts
  <2> QED BY <1>2, <1>6, <1>8, <2>1 DEF DeliveredAttempts
<1> QED BY <1>2, <1>3, <1>6, <1>9 DEF DeliveredAttempts

LEMMA InitCount == Init => CountInv
<1> SUFFICES ASSUME Init PROVE CountInv
  OBVIOUS
<1>1. DeliveredAttempts = {}
  BY DEF Init, DeliveredAttempts, Delivered, InOutbox
<1>2. IsFiniteSet({}) /\ Cardinality({}) = 0
  BY FS_EmptySet
<1> QED BY <1>1, <1>2 DEF Init, CountInv, AcceptedOncePerApproval, DeliveredAttempts

LEMMA NextCount == IndInv /\ CountInv /\ [Next]_vars => CountInv'
<1> SUFFICES ASSUME IndInv, CountInv, [Next]_vars PROVE CountInv'
  OBVIOUS
<1>1. ASSUME DeliveredAttempts' = DeliveredAttempts, accepted' = accepted
      PROVE  CountInv'
  BY <1>1 DEF CountInv, AcceptedOncePerApproval, DeliveredAttempts
<1>2. ASSUME NEW a \in Attempts, CommitApprove(a) \/ CommitEdit(a) \/ Reject(a)
      PROVE  CountInv'
  <2>1. DeliveredAttempts' = DeliveredAttempts
    BY <1>2, CommitDeliversNothing
  <2>2. accepted' = accepted
    BY <1>2 DEF CommitApprove, CommitEdit, Reject, delivery
  <2> QED BY <1>1, <2>1, <2>2
<1>3. ASSUME NEW a \in Attempts,
             ClaimExpires(a) \/ \E w \in Workers : ClaimNextOutboxRow(w, a)
      PROVE  CountInv'
  <2>1. provider' = provider /\ accepted' = accepted
    BY <1>3 DEF ClaimExpires, ClaimNextOutboxRow, delivery
  <2>2. \A b \in Attempts : Delivered(b)' <=> Delivered(b)
    BY <1>3, <2>1, ClaimEffect DEF IndInv, Delivered, InOutbox, SameMessage
  <2>3. DeliveredAttempts' = DeliveredAttempts
    BY <2>2 DEF DeliveredAttempts
  <2> QED BY <1>1, <2>1, <2>3
<1>4. ASSUME NEW w \in Workers, MarkSent(w) \/ MarkFailed(w) PROVE CountInv'
  <2>1. provider' = provider /\ accepted' = accepted
    BY <1>4 DEF MarkSent, MarkFailed, delivery
  <2>2. \A b \in Attempts : Delivered(b)' <=> Delivered(b)
    BY <1>4, <2>1, MarkEffect DEF Delivered, InOutbox, SameMessage
  <2>3. DeliveredAttempts' = DeliveredAttempts
    BY <2>2 DEF DeliveredAttempts
  <2> QED BY <1>1, <2>1, <2>3
<1>5. ASSUME NEW w \in Workers, SendAccepted(w) \/ SendTimesOutButAccepted(w)
      PROVE  CountInv'
  <2> DEFINE D == DeliveredAttempts
  <2>0. PICK a \in Attempts : a = worker[w].row
    BY <1>5, RowsTyped
    DEF SendAccepted, SendTimesOutButAccepted, Delivering, IndInv
  <2>1. a \notin D /\ DeliveredAttempts' = D \cup {a} /\ accepted' = accepted + 1
    BY <1>5, <2>0, AcceptDeliversOne
  <2>2. IsFiniteSet(D) /\ accepted = Cardinality(D)
    BY DEF CountInv, AcceptedOncePerApproval, DeliveredAttempts
  <2> HIDE DEF D
  <2>3. IsFiniteSet(D \cup {a}) /\ Cardinality(D \cup {a}) = Cardinality(D) + 1
    BY <2>1, <2>2, FS_AddElement
  <2> QED BY <2>1, <2>2, <2>3 DEF CountInv, AcceptedOncePerApproval, DeliveredAttempts
<1>6. CASE UNCHANGED <<attempt, draft, report, outbox, provider, accepted>>
  <2>1. DeliveredAttempts' = DeliveredAttempts
    BY <1>6 DEF DeliveredAttempts, Delivered, InOutbox
  <2> QED BY <1>1, <1>6, <2>1
<1> QED BY <1>2, <1>3, <1>4, <1>5, <1>6, StepKinds

\* However many workers, crashes, timeouts and retries there are, the provider
\* has accepted exactly one message for each attempt that was delivered.
THEOREM AcceptedOnce == Spec => []AcceptedOncePerApproval
<1>1. Init => CountInv
  BY InitCount
<1>2. IndInv /\ CountInv /\ [Next]_vars => CountInv'
  BY NextCount
<1>3. CountInv => AcceptedOncePerApproval
  BY DEF CountInv
<1> QED BY <1>1, <1>2, <1>3, Invariance, PTL DEF Spec

-----------------------------------------------------------------------------
(* Reports. *)

\* An edit writes the text and the verdict on it together, and blocks the
\* attempt exactly when the verdict says so.
LEMMA EditReports ==
    ASSUME IndInv, NEW a \in Attempts, CommitEdit(a)
    PROVE  /\ draft'[a] = tx[a].text
           /\ report'[a].text = tx[a].text
           /\ report'[a].blocked <=> attempt'[a].state = "BLOCKED"
           /\ \A b \in Attempts \ {a} : report'[b] = report[b]
<1>1. /\ draft' = [draft EXCEPT ![a] = tx[a].text]
      /\ report' = [report EXCEPT ![a] =
            [text |-> tx[a].text, blocked |-> GatesBlock(tx[a])]]
  BY DEF CommitEdit
<1>2. /\ draft'[a] = tx[a].text
      /\ report'[a] = [text |-> tx[a].text, blocked |-> GatesBlock(tx[a])]
      /\ \A b \in Attempts \ {a} : report'[b] = report[b]
  BY <1>1 DEF IndInv, TypeOK
<1>3. tx[a] # None /\ tx[a] \in Transactions
  BY DEF CommitEdit, IndInv, TypeOK
<1>4. /\ attempt[a].state = "PENDING_APPROVAL" /\ attempt[a] \in AttemptRows
      /\ attempt \in [Attempts -> AttemptRows]
      /\ tx[a].by \in Reviewers /\ tx[a].to \in Addresses /\ tx[a].text \in Texts
  BY <1>3 DEF IndInv, LockedIsUndecided, TypeOK, Transactions
<1>5. GatesBlock(tx[a]) <=> attempt'[a].state = "BLOCKED"
  <2>1. CASE /\ GatesBlock(tx[a])
             /\ attempt' = [attempt EXCEPT ![a] =
                    [BlockMove(attempt[a]) EXCEPT !.dedupKey = EditKey(a)]]
    <3>1. ASSUME NEW r \in AttemptRows, NEW key
          PROVE  [BlockMove(r) EXCEPT !.dedupKey = key].state = "BLOCKED"
      BY DEF AttemptRows, BlockMove, MoveTo
    <3>2. attempt'[a] = [BlockMove(attempt[a]) EXCEPT !.dedupKey = EditKey(a)]
      BY <1>4, <2>1
    <3> QED BY <1>4, <2>1, <3>1, <3>2
  <2>2. CASE /\ ~GatesBlock(tx[a])
             /\ QueueForDelivery(a, tx[a].by, tx[a].to, tx[a].text, EditKey(a))
    <3>1. EditKey(a) \in Keys
      BY <1>4, KeysTyped DEF EditKey
    <3>2. attempt'[a].state = "QUEUED"
      BY <1>4, <2>2, <3>1, QueueEffect
    <3> QED BY <2>2, <3>2
  <2> QED BY <2>1, <2>2 DEF CommitEdit
<1>6. GatesBlock(tx[a]) \in BOOLEAN
  BY <1>3 DEF GatesBlock, Transactions
<1> QED BY <1>2, <1>5, <1>6

LEMMA NextReports == IndInv /\ ReportIsCurrent /\ [Next]_vars => ReportIsCurrent'
<1> SUFFICES ASSUME IndInv, ReportIsCurrent, [Next]_vars,
                    NEW a \in Attempts, report'[a] # None
             PROVE  /\ report'[a].text = draft'[a]
                    /\ report'[a].blocked <=> attempt'[a].state = "BLOCKED"
  BY DEF ReportIsCurrent
<1>1. ASSUME report'[a] = report[a], draft'[a] = draft[a],
             attempt'[a].state = "BLOCKED" <=> attempt[a].state = "BLOCKED"
      PROVE  /\ report'[a].text = draft'[a]
             /\ report'[a].blocked <=> attempt'[a].state = "BLOCKED"
  BY <1>1 DEF ReportIsCurrent
<1>2. ASSUME NEW b \in Attempts, CommitEdit(b)
      PROVE  /\ report'[a].text = draft'[a]
             /\ report'[a].blocked <=> attempt'[a].state = "BLOCKED"
  <2>1. CASE a = b
    BY <1>2, <2>1, EditReports
  <2>2. CASE a # b
    BY <1>1, <1>2, <2>2, EditReports, CommitEffect
  <2> QED BY <2>1, <2>2
<1>3. ASSUME NEW b \in Attempts, CommitApprove(b) \/ Reject(b)
      PROVE  /\ report'[a].text = draft'[a]
             /\ report'[a].blocked <=> attempt'[a].state = "BLOCKED"
  <2>1. report' = report /\ draft' = draft
    BY <1>3 DEF CommitApprove, Reject
  <2>2. CASE a # b
    BY <1>1, <1>3, <2>1, <2>2, CommitEffect
  <2>3. CASE a = b
    <3>1. attempt[a].state = "PENDING_APPROVAL"
      BY <1>3, <2>3, CommitEffect
    <3>2. attempt'[a].state # "BLOCKED"
      <4>1. CASE CommitApprove(b)
        <5>1. attempt[b] \in AttemptRows /\ tx[b] \in Transactions
          BY <4>1 DEF CommitApprove, IndInv, TypeOK
        <5>2. /\ attempt[b].dedupKey \in Keys /\ tx[b].by \in Reviewers
              /\ tx[b].to \in Addresses /\ tx[b].text \in Texts
          BY <5>1 DEF AttemptRows, Transactions
        <5>3. QueueForDelivery(b, tx[b].by, tx[b].to, tx[b].text, attempt[b].dedupKey)
          BY <4>1 DEF CommitApprove
        <5>4. attempt'[b].state = "QUEUED"
          BY <2>3, <3>1, <5>2, <5>3, QueueEffect
        <5> QED BY <2>3, <5>4
      <4>2. CASE Reject(b)
        <5>1. attempt'[b] = RejectMove(attempt[b]) /\ attempt[b] \in AttemptRows
          BY <4>2 DEF Reject, IndInv, TypeOK
        <5>2. ASSUME NEW r \in AttemptRows PROVE RejectMove(r).state = "REJECTED"
          BY DEF AttemptRows, RejectMove, MoveTo
        <5> QED BY <2>3, <5>1, <5>2
      <4> QED BY <1>3, <4>1, <4>2
    <3> QED BY <1>1, <2>1, <3>1, <3>2
  <2> QED BY <2>2, <2>3
<1>4. ASSUME NEW w \in Workers, MarkSent(w) \/ MarkFailed(w)
      PROVE  /\ report'[a].text = draft'[a]
             /\ report'[a].blocked <=> attempt'[a].state = "BLOCKED"
  <2>1. report' = report /\ draft' = draft
    BY <1>4 DEF MarkSent, MarkFailed
  <2>2. attempt'[a].state = "BLOCKED" <=> attempt[a].state = "BLOCKED"
    BY <1>4, MarkEffect
  <2> QED BY <1>1, <2>1, <2>2
<1>5. CASE UNCHANGED <<attempt, draft, report>>
  BY <1>1, <1>5
<1>6. ASSUME NEW b \in Attempts,
             ClaimExpires(b) \/ \E w \in Workers : ClaimNextOutboxRow(w, b)
      PROVE  UNCHANGED <<attempt, draft, report>>
  BY <1>6 DEF ClaimExpires, ClaimNextOutboxRow
<1>7. ASSUME NEW w \in Workers, SendAccepted(w) \/ SendTimesOutButAccepted(w)
      PROVE  UNCHANGED <<attempt, draft, report>>
  BY <1>7 DEF SendAccepted, SendTimesOutButAccepted, tables
<1> QED BY <1>2, <1>3, <1>4, <1>5, <1>6, <1>7, StepKinds

\* A stored report is about the text that would be delivered, and its verdict
\* is the attempt's: no edit, retry or concurrent decision parts the two.
THEOREM ReportsAreCurrent == Spec => []ReportIsCurrent
<1>1. Init => ReportIsCurrent
  BY DEF Init, ReportIsCurrent
<1>2. IndInv /\ ReportIsCurrent /\ [Next]_vars => ReportIsCurrent'
  BY NextReports
<1> QED BY <1>1, <1>2, Invariance, PTL DEF Spec

-----------------------------------------------------------------------------
(***************************************************************************)
(* Outreach implements ApprovedDelivery, for every value of the constants: *)
(* the initial states map to Start, and under the inductive invariant each *)
(* step maps to the promise's step for the attempt it is about, or to a    *)
(* stutter.  The actions fall into the five classes of the lemmas below.   *)
(***************************************************************************)

LEMMA InitRefines == Init => Abstract!Start
<1> SUFFICES ASSUME Init PROVE Abstract!Start
  OBVIOUS
<1>1. \A a \in Attempts : outbox[a] = None /\ attempt[a].state = "PENDING_APPROVAL"
  BY DEF Init
<1>2. \A a \in Attempts : Decision(a) = Nothing /\ Inbox(a) = Nothing
  BY <1>1 DEF Decision, Inbox, Delivered, InOutbox
<1>3. {a \in Attempts : attempt[a].state = "SENT"} = {}
  BY <1>1
<1> QED BY <1>2, <1>3 DEF Abstract!Start

\* A step that keeps, for each attempt, what was decided, what was delivered
\* and whether it is on record is a stutter of the promise.
Quiet(b) ==
    /\ Decision(b)' = Decision(b)
    /\ Inbox(b)' = Inbox(b)
    /\ (attempt'[b].state = "SENT") <=> (attempt[b].state = "SENT")

LEMMA QuietStutters ==
    ASSUME \A b \in Attempts : Quiet(b)
    PROVE  UNCHANGED Abstract!promiseVars
<1>1. [b \in Attempts |-> Decision(b)]' = [b \in Attempts |-> Decision(b)]
  BY DEF Quiet
<1>2. [b \in Attempts |-> Inbox(b)]' = [b \in Attempts |-> Inbox(b)]
  BY DEF Quiet
<1>3. {b \in Attempts : attempt'[b].state = "SENT"} = {b \in Attempts : attempt[b].state = "SENT"}
  BY DEF Quiet
<1> QED BY <1>1, <1>2, <1>3 DEF Abstract!promiseVars

LEMMA UntouchedIsQuiet ==
    ASSUME NEW b \in Attempts, attempt'[b] = attempt[b], outbox'[b] = outbox[b],
           provider' = provider
    PROVE  Quiet(b)
BY DEF Quiet, Decision, Inbox, Delivered, InOutbox

\* No message was accepted under a key that an undecided attempt may take.
LEMMA FreeKeyIsUnused ==
    ASSUME IndInv, NEW a \in Attempts, ~InOutbox(a), NEW key \in Keys, KeyIsFree(a, key)
    PROVE  provider[key] = None
BY DEF IndInv, DeliveredAsApproved, KeyNamesItsMessage, KeyIsFree

\* The decision of the API on an attempt is the promise's Approve or Refuse.
LEMMA CommitRefines ==
    ASSUME IndInv, NEW a \in Attempts, CommitApprove(a) \/ CommitEdit(a) \/ Reject(a)
    PROVE  Abstract!Step
<1>1. /\ ~InOutbox(a)
      /\ attempt[a].state = "PENDING_APPROVAL"
      /\ UNCHANGED <<provider, worker>>
      /\ \A b \in Attempts \ {a} : attempt'[b] = attempt[b] /\ outbox'[b] = outbox[b]
  BY CommitEffect
<1>2. Decision(a) = Nothing /\ Inbox(a) = Nothing
  BY <1>1 DEF Decision, Inbox, Delivered
<1>3. \A b \in Attempts \ {a} : Quiet(b)
  BY <1>1, UntouchedIsQuiet
<1>4. CASE outbox'[a] = None /\ attempt'[a].state \in {"REJECTED", "BLOCKED"}
  <2>1. Decision(a)' = Refused /\ Inbox(a)' = Nothing /\ attempt'[a].state # "SENT"
    BY <1>4 DEF Decision, Inbox, Delivered, InOutbox
  <2>2. Abstract!Refuse(a)
    BY <1>1, <1>2, <1>3, <2>1 DEF Abstract!Refuse, Quiet
  <2> QED BY <2>2 DEF Abstract!Step
<1>5. CASE /\ outbox'[a] \in OutboxRows
           /\ outbox'[a] # None
           /\ KeyIsFree(a, outbox'[a].key)
           /\ attempt'[a].state = "QUEUED"
  <2>1. outbox'[a].key \in Keys /\ MessageIn(outbox'[a]) \in Messages
    BY <1>5 DEF OutboxRows, MessageIn, Messages
  <2>2. provider'[outbox'[a].key] = None
    BY <1>1, <1>5, <2>1, FreeKeyIsUnused
  <2>3. Decision(a)' = MessageIn(outbox'[a]) /\ Inbox(a)' = Nothing
    BY <1>5, <2>2 DEF Decision, Inbox, Delivered, InOutbox, MessageIn
  <2>4. Abstract!Approve(a)
    BY <1>1, <1>2, <1>3, <1>5, <2>1, <2>3 DEF Abstract!Approve, Quiet
  <2> QED BY <2>4 DEF Abstract!Step
<1> QED BY <1>4, <1>5, CommitEffect

\* The provider's acceptance of a message is the delivery to its attempt.
LEMMA AcceptRefines ==
    ASSUME IndInv, NEW w \in Workers, SendAccepted(w) \/ SendTimesOutButAccepted(w)
    PROVE  Abstract!Step
<1>0. PICK r \in Attempts : r = worker[w].row
  BY DEF SendAccepted, SendTimesOutButAccepted, Delivering, IndInv, WorkersHoldRows
<1>1. /\ InOutbox(r)
      /\ outbox[r] \in OutboxRows
      /\ provider[outbox[r].key] = None
  BY <1>0 DEF SendAccepted, SendTimesOutButAccepted, Delivering, Known, RowOf, IndInv,
         WorkersHoldRows, TypeOK, InOutbox
<1>2. outbox[r].key \in Keys
  BY <1>1 DEF OutboxRows
<1>3. PICK stored :
         /\ provider' = [provider EXCEPT ![outbox[r].key] = stored]
         /\ stored = [id |-> accepted + 1, to |-> outbox[r].to, text |-> outbox[r].text]
  BY <1>0 DEF SendAccepted, SendTimesOutButAccepted, Accept, RowOf
<1>4. UNCHANGED <<attempt, outbox>>
  BY DEF SendAccepted, SendTimesOutButAccepted, tables
<1>5. stored \in Deliveries
  BY <1>1, <1>3 DEF Deliveries, OutboxRows, IndInv, TypeOK
<1>6. /\ provider'[outbox[r].key] = stored
      /\ \A k \in Keys \ {outbox[r].key} : provider'[k] = provider[k]
  BY <1>2, <1>3 DEF IndInv, TypeOK
<1>7. ASSUME NEW b \in Attempts \ {r} PROVE Quiet(b)
  <2>1. InOutbox(b) => outbox[b].key \in Keys \ {outbox[r].key}
    BY <1>1 DEF IndInv, TypeOK, OutboxRows, InOutbox, KeyNamesItsMessage, KeysAreUnique
  <2> QED BY <1>4, <1>6, <2>1 DEF Quiet, Decision, Inbox, Delivered, InOutbox
<1>8. Decision(r)' = Decision(r) /\ Decision(r) = MessageIn(outbox[r])
  BY <1>1, <1>4 DEF Decision, InOutbox
<1>9. Inbox(r) = Nothing
  BY <1>1 DEF Inbox, Delivered
<1>10. Inbox(r)' = MessageIn(outbox[r])
  BY <1>1, <1>3, <1>4, <1>5, <1>6, NoneAssumption
  DEF Inbox, Delivered, InOutbox, MessageIn
<1>11. MessageIn(outbox[r]) \in Messages
  BY <1>1 DEF MessageIn, Messages, OutboxRows
<1>12. Abstract!Deliver(r)
  BY <1>1, <1>4, <1>7, <1>8, <1>9, <1>10, <1>11 DEF Abstract!Deliver, Quiet
<1> QED BY <1>1, <1>12 DEF Abstract!Step

\* The transaction that makes an attempt SENT is its acknowledgement.
LEMMA MarkSentRefines ==
    ASSUME IndInv, NEW w \in Workers, MarkSent(w)
    PROVE  Abstract!Step
<1>0. PICK r \in Attempts : r = worker[w].row
  BY MarkEffect
<1>1. /\ InOutbox(r)
      /\ outbox'[r] # None
      /\ SameMessage(r)
      /\ attempt'[r].state = "SENT"
      /\ \A b \in Attempts \ {r} : attempt'[b] = attempt[b] /\ outbox'[b] = outbox[b]
  BY <1>0, MarkEffect
<1>2. Delivered(r) /\ PairIsUnsent(r) /\ provider' = provider
  BY <1>0 DEF MarkSent, IndInv, ReceiptsHeld, delivery
<1>3. \A b \in Attempts \ {r} : Quiet(b)
  BY <1>1, <1>2, UntouchedIsQuiet
<1>4. Decision(r)' = Decision(r) /\ Inbox(r)' = Inbox(r)
  BY <1>1, <1>2 DEF Decision, Inbox, Delivered, InOutbox, SameMessage, MessageIn
<1>5. Inbox(r) # Nothing
  <2>1. provider[outbox[r].key] \in Deliveries
    BY <1>1, <1>2 DEF IndInv, TypeOK, Delivered, InOutbox, OutboxRows
  <2>2. MessageIn(provider[outbox[r].key]) \in Messages
    BY <2>1 DEF MessageIn, Messages, Deliveries
  <2> QED BY <1>2, <2>2, DecisionsDiffer DEF Inbox
<1>6. attempt[r].state # "SENT"
  BY <1>0, MarkEffect
<1> QED
  <2> DEFINE sent == {a \in Attempts : attempt[a].state = "SENT"}
             group == [a \in Attempts |-> <<MerchantOf[a], CampaignOf[a]>>]
  <2>1. \A b \in sent : group[b] # group[r]
    BY <1>1, <1>2, <1>6 DEF PairIsUnsent, SamePair
  <2>2. {a \in Attempts : attempt'[a].state = "SENT"} = sent \cup {r}
    BY <1>1
  <2>3. Abstract!Acknowledge(r)
    BY <1>1, <1>3, <1>4, <1>5, <2>1, <2>2 DEF Abstract!Acknowledge, Quiet
  <2> QED BY <1>1, <2>3 DEF Abstract!Step

\* Locks, claims, failed requests and outcomes that are not SENT are stutters.
LEMMA OtherStepsAreQuiet ==
    ASSUME IndInv, NEW b \in Attempts,
           \/ UNCHANGED <<attempt, outbox, provider>>
           \/ \E a \in Attempts :
                 ClaimExpires(a) \/ \E w \in Workers : ClaimNextOutboxRow(w, a)
           \/ \E w \in Workers : MarkFailed(w)
    PROVE  Quiet(b)
<1>1. CASE UNCHANGED <<attempt, outbox, provider>>
  BY <1>1, UntouchedIsQuiet
<1>2. ASSUME NEW a \in Attempts,
             ClaimExpires(a) \/ \E w \in Workers : ClaimNextOutboxRow(w, a)
      PROVE  Quiet(b)
  <2>1. UNCHANGED <<attempt, provider>>
    BY <1>2 DEF ClaimExpires, ClaimNextOutboxRow, delivery
  <2>2. (InOutbox(b)' <=> InOutbox(b)) /\ (InOutbox(b) => SameMessage(b))
    BY <1>2, ClaimEffect DEF IndInv
  <2> QED BY <2>1, <2>2 DEF Quiet, Decision, Inbox, Delivered, InOutbox, SameMessage, MessageIn
<1>3. ASSUME NEW w \in Workers, MarkFailed(w) PROVE Quiet(b)
  <2>0. PICK r \in Attempts : r = worker[w].row
    BY <1>3, MarkEffect
  <2>1. /\ InOutbox(r)
        /\ outbox'[r] # None
        /\ SameMessage(r)
        /\ attempt[r].state # "SENT"
        /\ attempt'[r].state # "SENT"
        /\ \A c \in Attempts \ {r} : attempt'[c] = attempt[c] /\ outbox'[c] = outbox[c]
    BY <1>3, <2>0, MarkEffect
  <2>2. provider' = provider
    BY <1>3 DEF MarkFailed, delivery
  <2>3. CASE b = r
    BY <2>1, <2>2, <2>3 DEF Quiet, Decision, Inbox, Delivered, InOutbox, SameMessage, MessageIn
  <2>4. CASE b # r
    BY <2>1, <2>2, <2>4, UntouchedIsQuiet
  <2> QED BY <2>3, <2>4
<1> QED BY <1>1, <1>2, <1>3

LEMMA StepRefines ==
    ASSUME IndInv, [Next]_vars
    PROVE  [Abstract!Step]_Abstract!promiseVars
<1>1. ASSUME NEW a \in Attempts, CommitApprove(a) \/ CommitEdit(a) \/ Reject(a)
      PROVE  Abstract!Step
  BY <1>1, CommitRefines
<1>2. ASSUME NEW w \in Workers, SendAccepted(w) \/ SendTimesOutButAccepted(w)
      PROVE  Abstract!Step
  BY <1>2, AcceptRefines
<1>3. ASSUME NEW w \in Workers, MarkSent(w) PROVE Abstract!Step
  BY <1>3, MarkSentRefines
<1>4. CASE \/ UNCHANGED <<attempt, outbox, provider>>
           \/ \E a \in Attempts :
                 ClaimExpires(a) \/ \E w \in Workers : ClaimNextOutboxRow(w, a)
           \/ \E w \in Workers : MarkFailed(w)
  BY <1>4, OtherStepsAreQuiet, QuietStutters
<1> QED
  BY <1>1, <1>2, <1>3, <1>4
  DEF Next, Decide, Claim, Send, Record, BeginApprove, BeginEdit, Rollback, Reingest,
      SendKnownKey, SendFails, RecordRefused, Crash, tables, delivery, vars

\* The tables, the workers and the provider together keep the promise of
\* ApprovedDelivery: decided once, delivered once as decided, recorded after.
THEOREM Implements == Spec => PromiseKept
<1>1. Init => Abstract!Start
  BY InitRefines
<1>2. IndInv /\ [Next]_vars => [Abstract!Step]_Abstract!promiseVars
  BY StepRefines
<1> QED BY <1>1, <1>2, Invariance, PTL DEF Spec, PromiseKept, Abstract!Promise
=============================================================================
