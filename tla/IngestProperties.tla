--------------------------- MODULE IngestProperties ---------------------------
(***************************************************************************)
(* What ingest promises of a batch, with other batches under way.          *)
(***************************************************************************)
EXTENDS Ingest

Stored == {m \in Merchants : merchants[m] # None}

Jobs == [pc : {"idle", "writing"}, batch : Seq(Entries), at : Times,
         next : Nat \ {0}, inserted : Nat]

\* Every variable keeps its type, and a request stays within its batch.
TypeOK ==
    /\ merchants \in [Merchants -> Records \cup {None}]
    /\ enrichments \in [Merchants -> Enrichments \cup {None}]
    /\ holder \in [Merchants -> Requests \cup {None}]
    /\ request \in [Requests -> Jobs]
    /\ \A r \in Requests :
          /\ request[r].next <= Len(request[r].batch) + 1
          /\ request[r].inserted <= Len(request[r].batch)
    /\ reported \in Nat
    /\ clock \in Times

\* "There is no window in which a merchant exists without its signals"
\* (ingest.ts:4-8): and those signals derive from the record that is stored.
SignalsMatchRecord ==
    \A m \in Merchants :
        IF merchants[m] = None THEN enrichments[m] = None
        ELSE enrichments[m] # None /\ enrichments[m].record = merchants[m]

\* Every stored merchant was reported as inserted by exactly one answer, however
\* many requests raced to create it or were rolled back (ingest.ts:36-39, 76-109).
InsertedOnce == reported = Cardinality(Stored)

\* The strengthening: a request under way holds the locks of exactly the rows
\* it has written, and its count of new rows is still the count of rows it
\* holds that are not in the committed table.
WrittenIds(r) == {request[r].batch[i].id : i \in 1..(request[r].next - 1)}

LocksAreExact ==
    \A r \in Requests :
        /\ Writing(r) => Acceptable(request[r].batch)
        /\ {m \in Merchants : holder[m] = r} = IF Writing(r) THEN WrittenIds(r) ELSE {}

CountIsExact ==
    \A r \in Requests : Writing(r) =>
        request[r].inserted = Cardinality(WrittenIds(r) \ Stored)

\* All of it at once: the inductive invariant of ingest.ts.
IngestInv ==
    /\ TypeOK
    /\ SignalsMatchRecord
    /\ InsertedOnce
    /\ LocksAreExact
    /\ CountIsExact

\* "A batch is accepted whole or not at all" (ingest.ts:4): a step that changes
\* the tables leaves every record of one batch in them, with signals of the
\* batch's moment, and nothing else.
Lands(r) ==
    LET batch == request[r].batch
    IN  /\ \A i \in 1..Len(batch) :
              /\ merchants'[batch[i].id] = batch[i].record
              /\ enrichments'[batch[i].id].at = request[r].at
        /\ \A m \in Merchants \ Ids(batch) :
              merchants'[m] = merchants[m] /\ enrichments'[m] = enrichments[m]

BatchLandsWhole ==
    [][tables' # tables => \E r \in Requests : Writing(r) /\ Lands(r)]_vars

\* Every request is answered: batches that hold each other's rows do not wait
\* for ever, and a failed one does not leave its rows locked (ingest.ts:130-134).
EveryRequestEnds == \A r \in Requests : Writing(r) ~> ~Writing(r)
=============================================================================
