-------------------------------- MODULE Ingest --------------------------------
(***************************************************************************)
(* services/ingest/ingest.ts: concurrent POST /ingest/merchants requests   *)
(* over the tables merchants and enrichments.  A batch is one transaction  *)
(* whose upserts take row locks one merchant at a time, in the order of    *)
(* the batch; what it wrote is seen by others at COMMIT.                   *)
(***************************************************************************)
EXTENDS Integers, Sequences, FiniteSets

CONSTANTS
    None,
    Requests,        \* requests the service handles at the same time
    Merchants,       \* values of merchants.id
    Records,         \* the other columns of a merchant, as one value
    InvalidRecords,  \* records that validateMerchant has a problem with
    MAX_BATCH_SIZE,
    MaxTime          \* the clock stops here: a bound of the model

ASSUME IngestAssumption ==
    /\ IsFiniteSet(Merchants)
    /\ None \notin Records /\ None \notin Requests
    /\ InvalidRecords \subseteq Records
    /\ MAX_BATCH_SIZE \in Nat \ {0}
    /\ MaxTime \in Nat

Times == 0..MaxTime
Entries == [id : Merchants, record : Records]
Enrichments == [record : Records, at : Times]

ASSUME NoneIsNoEnrichment == None \notin Enrichments

VARIABLES
    merchants,    \* [Merchants -> Records \cup {None}], committed rows
    enrichments,  \* the committed signals of each merchant: what they derive
                  \* from, a record and a moment; None if no row
    holder,       \* which request's transaction has the merchant's row lock
    request,      \* what each request is doing
    reported,     \* the new rows that successful answers have reported
    clock

vars == <<merchants, enrichments, holder, request, reported, clock>>
tables == <<merchants, enrichments>>

Unused == [pc |-> "idle", batch |-> <<>>, at |-> 0, next |-> 1, inserted |-> 0]

Init ==
    /\ merchants = [m \in Merchants |-> None]
    /\ enrichments = [m \in Merchants |-> None]
    /\ holder = [m \in Merchants |-> None]
    /\ request = [r \in Requests |-> Unused]
    /\ reported = 0
    /\ clock = 0

-----------------------------------------------------------------------------
Ids(batch) == {batch[i].id : i \in 1..Len(batch)}

\* Mutant: two records with one id are not noticed.
MutAcceptable(batch) == batch # <<>> /\ Len(batch) <= MAX_BATCH_SIZE

\* validateBatch finds no problem.  A rejected batch writes nothing, and so its
\* request is no step at all.
Acceptable(batch) ==
    /\ batch # <<>>
    /\ Len(batch) <= MAX_BATCH_SIZE
    /\ \A i \in 1..Len(batch) : batch[i].record \notin InvalidRecords
    /\ Cardinality(Ids(batch)) = Len(batch)

\* Validation, the reference time of the batch's signals, and BEGIN.
Receive(r, batch) ==
    /\ request[r].pc = "idle"
    /\ Acceptable(batch)
    /\ request' = [request EXCEPT ![r] =
          [pc |-> "writing", batch |-> batch, at |-> clock, next |-> 1, inserted |-> 0]]
    /\ UNCHANGED <<tables, holder, reported, clock>>

Writing(r) == request[r].pc = "writing"
Finished(r) == request[r].next > Len(request[r].batch)
Wanted(r) == request[r].batch[request[r].next].id

\* Mutant: rows are written without a lock.
MutFree(r, m) == TRUE

\* No other transaction has written the row and not ended yet.
Free(r, m) == holder[m] \in {None, r}

\* INSERT ... ON CONFLICT DO UPDATE of the next merchant, (xmax = 0) AS inserted,
\* and of its signals, whose row only the holder of the merchant's row writes.
Upsert(r) ==
    /\ Writing(r)
    /\ ~Finished(r)
    /\ Free(r, Wanted(r))
    /\ holder' = [holder EXCEPT ![Wanted(r)] = r]
    /\ request' = [request EXCEPT
          ![r].next = @ + 1,
          ![r].inserted = IF merchants[Wanted(r)] = None THEN @ + 1 ELSE @]
    /\ UNCHANGED <<tables, reported, clock>>

\* The record the batch leaves in the row: that of its last entry for the id.
Written(r, m) ==
    LET batch == request[r].batch
        last == CHOOSE i \in 1..Len(batch) :
                    /\ batch[i].id = m
                    /\ \A j \in (i + 1)..Len(batch) : batch[j].id # m
    IN  batch[last].record

\* Mutant: a failure leaves the transaction open.
MutReleased(r) == [m \in Merchants |->
    IF holder[m] = r /\ Finished(r) THEN None ELSE holder[m]]

Signals(r, m) == [record |-> Written(r, m), at |-> request[r].at]
Released(r) == [m \in Merchants |-> IF holder[m] = r THEN None ELSE holder[m]]

Commit(r) ==
    /\ Writing(r)
    /\ Finished(r)
    /\ LET ids == Ids(request[r].batch)
       IN  /\ merchants' = [m \in Merchants |->
                  IF m \in ids THEN Written(r, m) ELSE merchants[m]]
           /\ enrichments' = [m \in Merchants |->
                  IF m \in ids THEN Signals(r, m) ELSE enrichments[m]]
    /\ holder' = Released(r)
    /\ reported' = reported + request[r].inserted
    /\ request' = [request EXCEPT ![r] = Unused]
    /\ UNCHANGED clock

Abort(r) ==
    /\ holder' = Released(r)
    /\ request' = [request EXCEPT ![r] = Unused]
    /\ UNCHANGED <<tables, reported, clock>>

\* A statement fails, or the process stops: ROLLBACK.
Fail(r) == Writing(r) /\ Abort(r)

\* The requests of a cycle each wait for a row that the next one holds, as two
\* batches with the same merchants in opposite orders may.  Postgres breaks the
\* cycle: one statement in it fails, and the handler rolls back.
Waits(r) == Writing(r) /\ ~Finished(r) /\ ~Free(r, Wanted(r))
OnCycle(r) == \E S \in SUBSET Requests :
    /\ r \in S
    /\ \A q \in S : Waits(q)
    /\ {holder[Wanted(q)] : q \in S} = S

DeadlockDetected(r) == OnCycle(r) /\ Abort(r)

Tick ==
    /\ clock < MaxTime
    /\ clock' = clock + 1
    /\ UNCHANGED <<tables, holder, request, reported>>

-----------------------------------------------------------------------------
\* The batches a caller may send: each entry names a merchant and a record.
Batches == UNION {[1..n -> Entries] : n \in 1..MAX_BATCH_SIZE}

Handle(r) ==
    \/ \E batch \in Batches : Receive(r, batch)
    \/ Upsert(r)
    \/ Commit(r)
    \/ Fail(r)
    \/ DeadlockDetected(r)

Next == Tick \/ \E r \in Requests : Handle(r)

Spec == Init /\ [][Next]_vars

(***************************************************************************)
(* Fairness: a request keeps going, the row locks queue their waiters, and *)
(* Postgres looks for deadlocks after deadlock_timeout.                    *)
(***************************************************************************)
Fairness == \A r \in Requests :
    /\ SF_vars(Upsert(r))
    /\ WF_vars(Commit(r))
    /\ WF_vars(DeadlockDetected(r))

FairSpec == Spec /\ Fairness
=============================================================================
