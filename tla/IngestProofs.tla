----------------------------- MODULE IngestProofs -----------------------------
(***************************************************************************)
(* What ingest promises of its batches, for any requests, merchants,       *)
(* records and batch size.                                                 *)
(***************************************************************************)
EXTENDS IngestProperties, FiniteSetTheorems, TLAPS

\* A batch that validateBatch accepts has no id twice: it has as many ids as
\* entries, and the entries are mapped onto the ids.
LEMMA IdsAreUnique ==
    ASSUME NEW batch \in Seq(Entries), Acceptable(batch),
           NEW i \in 1..Len(batch), NEW j \in 1..Len(batch), batch[i].id = batch[j].id
    PROVE  i = j
<1> DEFINE n == Len(batch)
           f == [k \in 1..n |-> batch[k].id]
<1>1. n \in Nat /\ \A k \in 1..n : batch[k].id \in Ids(batch)
  BY DEF Ids
<1>2. f \in Surjection(1..n, Ids(batch))
  BY <1>1 DEF Surjection, Ids
<1>3. n = Cardinality(Ids(batch))
  BY DEF Acceptable
<1> HIDE DEF f, n
<1>4. IsFiniteSet(1..n) /\ Cardinality(1..n) = Cardinality(Ids(batch))
  <2>1. 1 \in Int /\ n \in Int /\ n >= 0
    BY <1>1
  <2>2. IsFiniteSet(1..n) /\ Cardinality(1..n) = IF 1 > n THEN 0 ELSE n - 1 + 1
    BY <2>1, FS_Interval
  <2> QED BY <1>1, <1>3, <2>2
<1>5. f \in Injection(1..n, Ids(batch))
  BY <1>2, <1>4, FS_SurjSameCardinalityImpliesInj
<1>6. f[i] = f[j]
  BY DEF f, n
<1> QED BY <1>5, <1>6 DEF Injection, IsInjective, n

\* What a batch leaves in a row is the record of its one entry for the id.
LEMMA WrittenIsPosted ==
    ASSUME NEW r \in Requests, request[r].batch \in Seq(Entries), Acceptable(request[r].batch),
           NEW i \in 1..Len(request[r].batch)
    PROVE  Written(r, request[r].batch[i].id) = request[r].batch[i].record
<1> DEFINE batch == request[r].batch
           m == batch[i].id
           IsLast(k) == batch[k].id = m /\ \A j \in (k + 1)..Len(batch) : batch[j].id # m
           last == CHOOSE k \in 1..Len(batch) : IsLast(k)
<1>1. \A j \in 1..Len(batch) : batch[j].id = m => j = i
  BY IdsAreUnique
<1>2. Len(batch) \in Nat /\ i \in 1..Len(batch)
  OBVIOUS
<1> HIDE DEF batch
<1>3. IsLast(i)
  BY <1>1, <1>2
<1>4. last \in 1..Len(batch) /\ IsLast(last)
  <2>1. \E k \in 1..Len(batch) : IsLast(k)
    BY <1>2, <1>3
  <2> HIDE DEF IsLast
  <2> QED BY <2>1
<1>5. last = i
  BY <1>1, <1>4
<1>6. Written(r, m) = batch[last].record
  BY DEF Written, batch
<1> QED BY <1>5, <1>6 DEF batch

LEMMA EntriesTyped ==
    ASSUME NEW batch \in Seq(Entries)
    PROVE  /\ Len(batch) \in Nat
           /\ \A i \in 1..Len(batch) : batch[i].id \in Merchants /\ batch[i].record \in Records
           /\ Ids(batch) \subseteq Merchants
<1>1. \A i \in 1..Len(batch) : batch[i] \in Entries
  OBVIOUS
<1> QED BY <1>1 DEF Ids, Entries

\* All the sets of merchants that are counted are finite.
LEMMA MerchantsAreFinite ==
    ASSUME NEW S, S \subseteq Merchants
    PROVE  IsFiniteSet(S) /\ Cardinality(S) \in Nat
BY IngestAssumption, FS_Subset, FS_CardinalityType

LEMMA DisjointUnion ==
    ASSUME NEW S, NEW T, IsFiniteSet(S), IsFiniteSet(T), S \cap T = {}
    PROVE  Cardinality(S \cup T) = Cardinality(S) + Cardinality(T)
<1>1. Cardinality(S) \in Nat /\ Cardinality(T) \in Nat
  BY FS_CardinalityType
<1>2. Cardinality(S \cup T) = Cardinality(S) + Cardinality(T) - Cardinality(S \cap T)
  BY FS_Union
<1>3. Cardinality(S \cap T) = 0
  BY FS_EmptySet
<1> QED BY <1>1, <1>2, <1>3

-----------------------------------------------------------------------------
LEMMA UnusedTyped == Unused \in Jobs /\ Unused.next = 1 /\ Len(Unused.batch) = 0
BY IngestAssumption DEF Unused, Jobs, Times

LEMMA InitHolds == Init => IngestInv
<1> SUFFICES ASSUME Init PROVE IngestInv
  OBVIOUS
<1>1. TypeOK
  <2>1. Unused \in Jobs /\ Len(Unused.batch) = 0
    BY UnusedTyped
  <2>2. 0 \in Times
    BY IngestAssumption DEF Times
  <2> QED BY <2>1, <2>2 DEF Init, TypeOK, Unused
<1>2. SignalsMatchRecord
  BY DEF Init, SignalsMatchRecord
<1>3. InsertedOnce
  <2>1. Stored = {}
    BY DEF Init, Stored
  <2> QED BY <2>1, FS_EmptySet DEF Init, InsertedOnce
<1>4. LocksAreExact
  BY IngestAssumption DEF Init, LocksAreExact, Writing, Unused
<1>5. CountIsExact
  BY DEF Init, CountIsExact, Writing, Unused
<1> QED BY <1>1, <1>2, <1>3, <1>4, <1>5 DEF IngestInv

\* A request that takes no part in a step keeps its locks and its count, if the
\* step leaves its row locks and what is stored of the rows it has written.
LEMMA Bystander ==
    ASSUME IngestInv, NEW q \in Requests, request'[q] = request[q],
           \A m \in Merchants : holder'[m] = q <=> holder[m] = q,
           Writing(q) => WrittenIds(q) \ Stored' = WrittenIds(q) \ Stored
    PROVE  /\ Writing(q)' => Acceptable(request'[q].batch)
           /\ {m \in Merchants : holder'[m] = q} =
                 IF Writing(q)' THEN WrittenIds(q)' ELSE {}
           /\ Writing(q)' => request'[q].inserted = Cardinality((WrittenIds(q) \ Stored)')
<1>1. (Writing(q)' <=> Writing(q)) /\ WrittenIds(q)' = WrittenIds(q)
  BY DEF Writing, WrittenIds
<1>2. {m \in Merchants : holder'[m] = q} = {m \in Merchants : holder[m] = q}
  OBVIOUS
<1> QED BY <1>1, <1>2 DEF IngestInv, LocksAreExact, CountIsExact

\* A request that has ended has nothing, whatever it held.
LEMMA EndsWithNothing ==
    ASSUME IngestInv, NEW r \in Requests, request' = [request EXCEPT ![r] = Unused],
           holder' = Released(r)
    PROVE  /\ ~Writing(r)'
           /\ {m \in Merchants : holder'[m] = r} = {}
           /\ \A q \in Requests \ {r} :
                 /\ request'[q] = request[q]
                 /\ \A m \in Merchants : holder'[m] = q <=> holder[m] = q
           /\ holder' \in [Merchants -> Requests \cup {None}]
           /\ request' \in [Requests -> Jobs]
           /\ \A q \in Requests :
                 /\ request'[q].next <= Len(request'[q].batch) + 1
                 /\ request'[q].inserted <= Len(request'[q].batch)
<1>1. request'[r] = Unused /\ \A q \in Requests \ {r} : request'[q] = request[q]
  BY DEF IngestInv, TypeOK
<1>2. request' \in [Requests -> Jobs]
  BY UnusedTyped DEF IngestInv, TypeOK
<1>3. \A q \in Requests :
          /\ request'[q].next <= Len(request'[q].batch) + 1
          /\ request'[q].inserted <= Len(request'[q].batch)
  BY <1>1, UnusedTyped DEF IngestInv, TypeOK, Unused
<1>4. holder' \in [Merchants -> Requests \cup {None}]
  BY DEF IngestInv, TypeOK, Released
<1>5. /\ {m \in Merchants : holder'[m] = r} = {}
      /\ \A q \in Requests \ {r} : \A m \in Merchants : holder'[m] = q <=> holder[m] = q
  BY IngestAssumption DEF Released
<1>6. ~Writing(r)'
  BY <1>1 DEF Writing, Unused
<1> QED BY <1>1, <1>2, <1>3, <1>4, <1>5, <1>6

-----------------------------------------------------------------------------
LEMMA ReceiveHolds ==
    ASSUME IngestInv, NEW r \in Requests, NEW batch \in Batches, Receive(r, batch)
    PROVE  IngestInv'
<1> DEFINE job == [pc |-> "writing", batch |-> batch, at |-> clock, next |-> 1, inserted |-> 0]
<1>1. batch \in Seq(Entries) /\ Len(batch) \in Nat
  BY DEF Batches
<1>2. /\ request' = [request EXCEPT ![r] = job]
      /\ UNCHANGED <<merchants, enrichments, holder, reported, clock>>
      /\ ~Writing(r) /\ Acceptable(batch)
  BY DEF Receive, tables, Writing
<1>3. job \in Jobs
  BY <1>1 DEF IngestInv, TypeOK, Jobs
<1>4. request'[r] = job /\ \A q \in Requests \ {r} : request'[q] = request[q]
  BY <1>2 DEF IngestInv, TypeOK
<1>5. TypeOK'
  BY <1>1, <1>2, <1>3, <1>4 DEF IngestInv, TypeOK
<1>6. SignalsMatchRecord' /\ InsertedOnce' /\ Stored' = Stored
  BY <1>2 DEF IngestInv, SignalsMatchRecord, InsertedOnce, Stored
<1>7. /\ Writing(r)' /\ WrittenIds(r)' = {} /\ Acceptable(request'[r].batch)
      /\ {m \in Merchants : holder'[m] = r} = {}
      /\ request'[r].inserted = Cardinality((WrittenIds(r) \ Stored)')
  <2>1. WrittenIds(r)' = {}
    BY <1>4 DEF WrittenIds
  <2> QED BY <1>2, <1>4, <2>1, FS_EmptySet DEF Writing, IngestInv, LocksAreExact
<1>8. \A q \in Requests \ {r} :
         /\ Writing(q)' => Acceptable(request'[q].batch)
         /\ {m \in Merchants : holder'[m] = q} = IF Writing(q)' THEN WrittenIds(q)' ELSE {}
         /\ Writing(q)' => request'[q].inserted = Cardinality((WrittenIds(q) \ Stored)')
  BY <1>2, <1>4, <1>6, Bystander
<1>9. LocksAreExact' /\ CountIsExact'
  BY <1>7, <1>8 DEF LocksAreExact, CountIsExact
<1> QED BY <1>5, <1>6, <1>9 DEF IngestInv

LEMMA UpsertHolds ==
    ASSUME IngestInv, NEW r \in Requests, Upsert(r)
    PROVE  IngestInv'
<1> DEFINE batch == request[r].batch
           n == request[r].next
           m == Wanted(r)
           new == IF merchants[m] = None THEN 1 ELSE 0
<1>1. /\ request[r] \in Jobs /\ batch \in Seq(Entries) /\ Len(batch) \in Nat
      /\ n \in 1..Len(batch) /\ m = batch[n].id /\ m \in Merchants
      /\ \A i \in 1..Len(batch) : batch[i].id \in Merchants
      /\ Writing(r) /\ Acceptable(batch) /\ request[r].inserted \in Nat
  <2>1. request[r] \in Jobs /\ n <= Len(batch) /\ Writing(r)
    BY DEF IngestInv, TypeOK, Upsert, Finished, Jobs
  <2>2. batch \in Seq(Entries) /\ n \in Nat \ {0} /\ request[r].inserted \in Nat
    BY <2>1 DEF Jobs
  <2> QED BY <2>1, <2>2, EntriesTyped DEF Wanted, IngestInv, LocksAreExact
<1>2. /\ holder' = [holder EXCEPT ![m] = r]
      /\ UNCHANGED <<merchants, enrichments, reported, clock>>
      /\ holder[m] \in {None, r}
  BY DEF Upsert, Free, tables
<1>3. request'[r] = [pc |-> request[r].pc, batch |-> batch, at |-> request[r].at,
                     next |-> n + 1, inserted |-> request[r].inserted + new]
  <2>1. request[r].inserted + new =
           IF merchants[m] = None THEN request[r].inserted + 1 ELSE request[r].inserted
    BY <1>1
  <2>2. request'[r] = [[request[r] EXCEPT !.next = n + 1] EXCEPT
           !.inserted = IF merchants[m] = None THEN request[r].inserted + 1
                                               ELSE request[r].inserted]
    BY DEF Upsert, IngestInv, TypeOK, Jobs
  <2>3. [request[r] EXCEPT !.next = n + 1] =
           [pc |-> request[r].pc, batch |-> batch, at |-> request[r].at,
            next |-> n + 1, inserted |-> request[r].inserted]
    BY <1>1 DEF Jobs
  <2> HIDE DEF m, new
  <2> QED BY <2>1, <2>2, <2>3
<1>4. \A q \in Requests \ {r} : request'[q] = request[q]
  BY DEF Upsert, IngestInv, TypeOK
<1>5. Stored' = Stored /\ SignalsMatchRecord' /\ InsertedOnce'
  BY <1>2 DEF Stored, IngestInv, SignalsMatchRecord, InsertedOnce
<1>6. Writing(r)' /\ WrittenIds(r)' = WrittenIds(r) \cup {m}
  <2>1. 1..((n + 1) - 1) = 1..(n - 1) \cup {n}
    BY <1>1
  <2> HIDE DEF n, m
  <2>2. WrittenIds(r)' = {batch[i].id : i \in 1..((n + 1) - 1)}
    BY <1>3 DEF WrittenIds
  <2>3. WrittenIds(r) = {batch[i].id : i \in 1..(n - 1)}
    BY DEF WrittenIds, n
  <2> QED BY <1>1, <1>3, <2>1, <2>2, <2>3 DEF Writing
<1>7. m \notin WrittenIds(r)
  <2> SUFFICES ASSUME NEW i \in 1..(n - 1), batch[i].id = m PROVE FALSE
    BY DEF WrittenIds
  <2>1. i \in 1..Len(batch) /\ i # n
    BY <1>1
  <2> QED BY <1>1, <2>1, IdsAreUnique
<1>8. WrittenIds(r) \subseteq Ids(batch) /\ m \in Ids(batch) /\ Ids(batch) \subseteq Merchants
  BY <1>1, EntriesTyped DEF WrittenIds, Ids
<1>9. request[r].inserted + new = Cardinality(WrittenIds(r)' \ Stored)
  <2>1. request[r].inserted = Cardinality(WrittenIds(r) \ Stored)
    BY <1>1 DEF IngestInv, CountIsExact
  <2>2. IsFiniteSet(WrittenIds(r) \ Stored)
    BY <1>8, MerchantsAreFinite
  <2>3. m \in Stored <=> merchants[m] # None
    BY <1>1 DEF Stored
  <2> HIDE DEF m, batch
  <2>4. CASE merchants[m] = None
    <3>1. WrittenIds(r)' \ Stored = (WrittenIds(r) \ Stored) \cup {m}
      BY <1>6, <2>3, <2>4
    <3>2. Cardinality((WrittenIds(r) \ Stored) \cup {m}) = Cardinality(WrittenIds(r) \ Stored) + 1
      BY <1>7, <2>2, FS_AddElement
    <3> QED BY <2>1, <2>4, <3>1, <3>2
  <2>5. CASE merchants[m] # None
    <3>1. WrittenIds(r)' \ Stored = WrittenIds(r) \ Stored
      BY <1>6, <2>3, <2>5
    <3>2. new = 0 /\ request[r].inserted + 0 = request[r].inserted
      BY <1>1, <2>5
    <3> QED BY <2>1, <3>1, <3>2
  <2> QED BY <2>4, <2>5
<1>10. TypeOK'
  <2>1. request[r].inserted + new <= Len(batch)
    <3>1. WrittenIds(r)' \ Stored \subseteq Ids(batch)
      BY <1>6, <1>8
    <3>2. IsFiniteSet(Ids(batch)) /\ Cardinality(Ids(batch)) = Len(batch)
      BY <1>1, <1>8, MerchantsAreFinite DEF Acceptable
    <3> QED BY <1>9, <3>1, <3>2, FS_Subset
  <2>2. request' \in [Requests -> Jobs]
    <3>1. request'[r] \in Jobs
      BY <1>1, <1>3 DEF Jobs
    <3>2. request' = [q \in Requests |-> request'[q]]
      BY DEF Upsert, IngestInv, TypeOK
    <3> QED BY <1>4, <3>1, <3>2 DEF IngestInv, TypeOK
  <2>3. holder' \in [Merchants -> Requests \cup {None}]
    BY <1>1, <1>2 DEF IngestInv, TypeOK
  <2>4. /\ request'[r].next <= Len(request'[r].batch) + 1
        /\ request'[r].inserted <= Len(request'[r].batch)
    BY <1>1, <1>3, <2>1
  <2> QED BY <1>2, <1>4, <2>2, <2>3, <2>4 DEF IngestInv, TypeOK
<1>11. {k \in Merchants : holder'[k] = r} = WrittenIds(r)'
  <2>1. {k \in Merchants : holder[k] = r} = WrittenIds(r)
    BY <1>1 DEF IngestInv, LocksAreExact
  <2>2. \A k \in Merchants : holder'[k] = IF k = m THEN r ELSE holder[k]
    BY <1>1, <1>2 DEF IngestInv, TypeOK
  <2> HIDE DEF m
  <2> QED BY <1>1, <1>6, <2>1, <2>2
<1>12. \A q \in Requests \ {r} : \A k \in Merchants : holder'[k] = q <=> holder[k] = q
  <2>1. \A k \in Merchants : holder'[k] = IF k = m THEN r ELSE holder[k]
    BY <1>1, <1>2 DEF IngestInv, TypeOK
  <2> HIDE DEF m
  <2> QED BY <1>2, <2>1, IngestAssumption
<1>13. \A q \in Requests \ {r} :
         /\ Writing(q)' => Acceptable(request'[q].batch)
         /\ {k \in Merchants : holder'[k] = q} = IF Writing(q)' THEN WrittenIds(q)' ELSE {}
         /\ Writing(q)' => request'[q].inserted = Cardinality((WrittenIds(q) \ Stored)')
  BY <1>4, <1>5, <1>12, Bystander
<1>14. LocksAreExact' /\ CountIsExact'
  <2>1. /\ Acceptable(request'[r].batch)
        /\ request'[r].inserted = Cardinality((WrittenIds(r) \ Stored)')
    BY <1>1, <1>3, <1>5, <1>9
  <2> QED BY <1>6, <1>11, <1>13, <2>1 DEF LocksAreExact, CountIsExact
<1> QED BY <1>5, <1>10, <1>14 DEF IngestInv

\* A request that commits has written each row of its batch, and nothing else.
LEMMA FinishedHasWritten ==
    ASSUME IngestInv, NEW r \in Requests, Writing(r), Finished(r)
    PROVE  WrittenIds(r) = Ids(request[r].batch)
<1> DEFINE batch == request[r].batch
           n == request[r].next
<1>1. Len(batch) \in Nat /\ n \in Nat /\ n <= Len(batch) + 1 /\ n > Len(batch)
  BY DEF IngestInv, TypeOK, Jobs, Finished
<1>2. 1..(n - 1) = 1..Len(batch)
  BY <1>1
<1> QED BY <1>2 DEF WrittenIds, Ids

\* What a commit makes of the tables.
LEMMA CommitWrites ==
    ASSUME IngestInv, NEW r \in Requests, Commit(r)
    PROVE  /\ Acceptable(request[r].batch) /\ request[r].batch \in Seq(Entries)
           /\ Ids(request[r].batch) \subseteq Merchants
           /\ \A i \in 1..Len(request[r].batch) :
                 /\ merchants'[request[r].batch[i].id] = request[r].batch[i].record
                 /\ enrichments'[request[r].batch[i].id] =
                       [record |-> request[r].batch[i].record, at |-> request[r].at]
           /\ \A m \in Merchants \ Ids(request[r].batch) :
                 merchants'[m] = merchants[m] /\ enrichments'[m] = enrichments[m]
<1>1. /\ request[r].batch \in Seq(Entries) /\ Acceptable(request[r].batch)
  BY DEF IngestInv, TypeOK, Jobs, LocksAreExact, Commit
<1>2. /\ Ids(request[r].batch) \subseteq Merchants
      /\ \A i \in 1..Len(request[r].batch) : request[r].batch[i].id \in Ids(request[r].batch)
  BY <1>1, EntriesTyped DEF Ids
<1>3. \A i \in 1..Len(request[r].batch) :
         Written(r, request[r].batch[i].id) = request[r].batch[i].record
  BY <1>1, WrittenIsPosted
<1>4. \A m \in Merchants :
         /\ merchants'[m] = IF m \in Ids(request[r].batch) THEN Written(r, m) ELSE merchants[m]
         /\ enrichments'[m] = IF m \in Ids(request[r].batch)
                              THEN [record |-> Written(r, m), at |-> request[r].at]
                              ELSE enrichments[m]
  BY DEF Commit, Signals
<1> QED BY <1>1, <1>2, <1>3, <1>4

LEMMA CommitHolds ==
    ASSUME IngestInv, NEW r \in Requests, Commit(r)
    PROVE  IngestInv'
<1> DEFINE batch == request[r].batch
           ids == Ids(batch)
<1>1. /\ Writing(r) /\ Finished(r) /\ WrittenIds(r) = ids /\ ids \subseteq Merchants
      /\ request[r].at \in Times /\ request[r].inserted \in Nat
  BY CommitWrites, FinishedHasWritten DEF Commit, IngestInv, TypeOK, Jobs
<1>2. \A m \in ids : merchants'[m] \in Records
                   /\ enrichments'[m] = [record |-> merchants'[m], at |-> request[r].at]
  <2>1. \A i \in 1..Len(batch) : batch[i].record \in Records
    BY CommitWrites, EntriesTyped
  <2> SUFFICES ASSUME NEW m \in ids
               PROVE  /\ merchants'[m] \in Records
                      /\ enrichments'[m] = [record |-> merchants'[m], at |-> request[r].at]
    OBVIOUS
  <2>2. PICK i \in 1..Len(batch) : m = batch[i].id
    BY DEF Ids
  <2>3. /\ merchants'[batch[i].id] = batch[i].record
        /\ enrichments'[batch[i].id] = [record |-> batch[i].record, at |-> request[r].at]
    BY CommitWrites
  <2> QED BY <2>1, <2>2, <2>3
<1>3. \A m \in Merchants \ ids : merchants'[m] = merchants[m] /\ enrichments'[m] = enrichments[m]
  BY CommitWrites
<1>4. /\ merchants' = [m \in Merchants |-> merchants'[m]]
      /\ enrichments' = [m \in Merchants |-> enrichments'[m]]
  BY DEF Commit
<1>5. Stored' = Stored \cup ids
  BY <1>1, <1>2, <1>3, IngestAssumption DEF Stored
<1> HIDE DEF ids, batch
<1>6. reported' = reported + request[r].inserted /\ UNCHANGED clock
  BY DEF Commit
<1>7. request' = [request EXCEPT ![r] = Unused] /\ holder' = Released(r)
  BY DEF Commit
<1>8. \A m \in ids : enrichments'[m] \in Enrichments /\ enrichments'[m].record = merchants'[m]
  <2> SUFFICES ASSUME NEW m \in ids
               PROVE  enrichments'[m] \in Enrichments /\ enrichments'[m].record = merchants'[m]
    OBVIOUS
  <2>1. /\ enrichments'[m] = [record |-> merchants'[m], at |-> request[r].at]
        /\ merchants'[m] \in Records /\ request[r].at \in Times
    BY <1>1, <1>2
  <2> QED BY <2>1 DEF Enrichments
<1>9. TypeOK'
  <2>1. \A m \in Merchants : merchants'[m] \in Records \cup {None}
    BY <1>2, <1>3 DEF IngestInv, TypeOK
  <2>2. \A m \in Merchants : enrichments'[m] \in Enrichments \cup {None}
    <3>1. \A m \in Merchants \ ids : enrichments'[m] \in Enrichments \cup {None}
      BY <1>3 DEF IngestInv, TypeOK
    <3> QED BY <1>8, <3>1
  <2>3. reported' \in Nat /\ clock' \in Times
    BY <1>1, <1>6 DEF IngestInv, TypeOK
  <2> QED BY <1>4, <1>7, <2>1, <2>2, <2>3, EndsWithNothing DEF TypeOK
<1>10. SignalsMatchRecord'
  <2> SUFFICES ASSUME NEW m \in Merchants
               PROVE  IF merchants'[m] = None THEN enrichments'[m] = None
                      ELSE enrichments'[m] # None /\ enrichments'[m].record = merchants'[m]
    BY DEF SignalsMatchRecord
  <2>1. CASE m \in ids
    <3>1. enrichments'[m] \in Enrichments /\ enrichments'[m].record = merchants'[m]
      BY <1>8, <2>1
    <3> QED BY <1>2, <2>1, <3>1, IngestAssumption, NoneIsNoEnrichment
  <2>2. CASE m \notin ids
    BY <1>3, <2>2 DEF IngestInv, SignalsMatchRecord
  <2> QED BY <2>1, <2>2
<1>11. InsertedOnce'
  <2>1. Stored' = Stored \cup (ids \ Stored) /\ Stored \cap (ids \ Stored) = {}
    BY <1>5
  <2>2. IsFiniteSet(Stored) /\ IsFiniteSet(ids \ Stored)
    BY <1>1, MerchantsAreFinite DEF Stored
  <2>3. Cardinality(Stored \cup (ids \ Stored)) = Cardinality(Stored) + Cardinality(ids \ Stored)
    BY <2>1, <2>2, DisjointUnion
  <2>4. reported = Cardinality(Stored) /\ request[r].inserted = Cardinality(ids \ Stored)
    BY <1>1 DEF IngestInv, InsertedOnce, CountIsExact
  <2>5. Cardinality(Stored') = Cardinality(Stored) + Cardinality(ids \ Stored)
    BY <2>1, <2>3
  <2> QED BY <1>6, <2>4, <2>5 DEF InsertedOnce
<1>12. \A q \in Requests \ {r} :
         /\ Writing(q)' => Acceptable(request'[q].batch)
         /\ {k \in Merchants : holder'[k] = q} = IF Writing(q)' THEN WrittenIds(q)' ELSE {}
         /\ Writing(q)' => request'[q].inserted = Cardinality((WrittenIds(q) \ Stored)')
  <2> SUFFICES ASSUME NEW q \in Requests \ {r}
               PROVE  Writing(q) => WrittenIds(q) \ Stored' = WrittenIds(q) \ Stored
    BY <1>7, EndsWithNothing, Bystander
  <2>1. Writing(q) => WrittenIds(q) \cap ids = {}
    BY <1>1 DEF IngestInv, LocksAreExact
  <2> QED BY <1>5, <2>1
<1>13. ~Writing(r)' /\ {m \in Merchants : holder'[m] = r} = {}
  BY <1>7, EndsWithNothing
<1>14. LocksAreExact' /\ CountIsExact'
  BY <1>12, <1>13 DEF LocksAreExact, CountIsExact
<1> QED BY <1>9, <1>10, <1>11, <1>14 DEF IngestInv

LEMMA AbortHolds ==
    ASSUME IngestInv, NEW r \in Requests, Abort(r)
    PROVE  IngestInv'
<1>1. /\ request' = [request EXCEPT ![r] = Unused] /\ holder' = Released(r)
      /\ UNCHANGED <<merchants, enrichments, reported, clock>>
  BY DEF Abort, tables
<1>2. TypeOK'
  BY <1>1, EndsWithNothing DEF IngestInv, TypeOK
<1>3. SignalsMatchRecord' /\ InsertedOnce' /\ Stored' = Stored
  BY <1>1 DEF IngestInv, SignalsMatchRecord, InsertedOnce, Stored
<1>4. \A q \in Requests \ {r} :
         /\ Writing(q)' => Acceptable(request'[q].batch)
         /\ {k \in Merchants : holder'[k] = q} = IF Writing(q)' THEN WrittenIds(q)' ELSE {}
         /\ Writing(q)' => request'[q].inserted = Cardinality((WrittenIds(q) \ Stored)')
  BY <1>1, <1>3, EndsWithNothing, Bystander
<1>5. ~Writing(r)' /\ {m \in Merchants : holder'[m] = r} = {}
  BY <1>1, EndsWithNothing
<1>6. LocksAreExact' /\ CountIsExact'
  BY <1>4, <1>5 DEF LocksAreExact, CountIsExact
<1> QED BY <1>2, <1>3, <1>6 DEF IngestInv

LEMMA StandstillHolds ==
    ASSUME IngestInv, clock' \in Times,
           UNCHANGED <<merchants, enrichments, holder, request, reported>>
    PROVE  IngestInv'
<1>1. TypeOK'
  BY DEF IngestInv, TypeOK
<1>2. Stored' = Stored /\ SignalsMatchRecord' /\ InsertedOnce'
  BY DEF Stored, IngestInv, SignalsMatchRecord, InsertedOnce
<1>3. \A r \in Requests : (Writing(r)' <=> Writing(r)) /\ WrittenIds(r)' = WrittenIds(r)
  BY DEF Writing, WrittenIds
<1>4. LocksAreExact'
  BY <1>3 DEF IngestInv, LocksAreExact
<1>5. CountIsExact'
  BY <1>2, <1>3 DEF IngestInv, CountIsExact
<1> QED BY <1>1, <1>2, <1>4, <1>5 DEF IngestInv

LEMMA NextHolds == IngestInv /\ [Next]_vars => IngestInv'
<1> SUFFICES ASSUME IngestInv, [Next]_vars PROVE IngestInv'
  OBVIOUS
<1>1. ASSUME NEW r \in Requests, NEW batch \in Batches, Receive(r, batch) PROVE IngestInv'
  BY <1>1, ReceiveHolds
<1>2. ASSUME NEW r \in Requests, Upsert(r) PROVE IngestInv'
  BY <1>2, UpsertHolds
<1>3. ASSUME NEW r \in Requests, Commit(r) PROVE IngestInv'
  BY <1>3, CommitHolds
<1>4. ASSUME NEW r \in Requests, Fail(r) \/ DeadlockDetected(r) PROVE IngestInv'
  BY <1>4, AbortHolds DEF Fail, DeadlockDetected
<1>5. CASE Tick
  <2>1. clock' \in Times
    BY <1>5, IngestAssumption DEF IngestInv, TypeOK, Tick, Times
  <2>2. UNCHANGED <<merchants, enrichments, holder, request, reported>>
    BY <1>5 DEF Tick, tables
  <2> QED BY <2>1, <2>2, StandstillHolds
<1>6. CASE UNCHANGED vars
  BY <1>6, StandstillHolds DEF vars, IngestInv, TypeOK
<1> QED BY <1>1, <1>2, <1>3, <1>4, <1>5, <1>6 DEF Next, Handle

-----------------------------------------------------------------------------
\* The inductive invariant of ingest holds of every reachable state: records and
\* signals agree, each row was reported as new once, and a request holds the locks
\* of what it has written (ingest.ts ingestMerchants).
THEOREM IngestInvariance == Spec => []IngestInv
BY InitHolds, NextHolds, PTL DEF Spec

\* A batch is stored whole or not at all, with signals of its own moment
\* (ingest.ts:4-8).
THEOREM BatchesLandWhole == Spec => BatchLandsWhole
<1>1. IngestInv /\ [Next]_vars =>
         [tables' # tables => \E r \in Requests : Writing(r) /\ Lands(r)]_vars
  <2> SUFFICES ASSUME IngestInv, Next, tables' # tables
               PROVE  \E r \in Requests : Writing(r) /\ Lands(r)
    BY DEF vars, tables
  <2>1. \A r \in Requests : Commit(r) => Writing(r) /\ Lands(r)
    <3> SUFFICES ASSUME NEW r \in Requests, Commit(r) PROVE Writing(r) /\ Lands(r)
      OBVIOUS
    <3>1. \A i \in 1..Len(request[r].batch) :
             /\ merchants'[request[r].batch[i].id] = request[r].batch[i].record
             /\ enrichments'[request[r].batch[i].id].at = request[r].at
      <4> SUFFICES ASSUME NEW i \in 1..Len(request[r].batch)
                   PROVE  /\ merchants'[request[r].batch[i].id] = request[r].batch[i].record
                          /\ enrichments'[request[r].batch[i].id].at = request[r].at
        OBVIOUS
      <4>1. /\ merchants'[request[r].batch[i].id] = request[r].batch[i].record
            /\ enrichments'[request[r].batch[i].id] =
                  [record |-> request[r].batch[i].record, at |-> request[r].at]
        BY CommitWrites
      <4> QED BY <4>1
    <3>2. \A m \in Merchants \ Ids(request[r].batch) :
             merchants'[m] = merchants[m] /\ enrichments'[m] = enrichments[m]
      BY CommitWrites
    <3>3. Lands(r)
      BY <3>1, <3>2 DEF Lands
    <3> QED BY <3>3 DEF Commit
  <2>2. \E r \in Requests : Commit(r)
    BY DEF Next, Handle, Receive, Upsert, Fail, DeadlockDetected, Abort, Tick
  <2> QED BY <2>1, <2>2
<1> QED BY <1>1, IngestInvariance, PTL DEF Spec, BatchLandsWhole
=============================================================================
