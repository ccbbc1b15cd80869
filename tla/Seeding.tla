-------------------------------- MODULE Seeding --------------------------------
(***************************************************************************)
(* From the generator to the signals: generateMerchants makes a batch and  *)
(* forces its edge cases in, scripts/seed-merchants.ts posts the file in   *)
(* chunks, and ingest stores each merchant with the signals derived from   *)
(* it.  Other callers post merchants of their own, while one reads the     *)
(* list of merchants page by page.                                         *)
(***************************************************************************)
EXTENDS Generator

CONSTANTS
    MIN_PER_EDGE_CASE,
    Count,            \* --count
    CHUNK_SIZE,
    MAX_BATCH_SIZE,
    Nows,             \* the moments a request may arrive at, in minutes
    Posts,            \* what other callers post: merchants, and how many at a time
    PageLimits,       \* what a reader asks for as limit
    PageCategories,   \* and as category, None for any
    IdBefore(_, _),   \* the order of the ids in the collation of their column
    MAX_LIST_LIMIT,
    MaxNeutral        \* a bound: draws of no edge case there are in a batch

MIN_COUNT == Len(EDGE_CASES) * MIN_PER_EDGE_CASE * 2

PostedIds == UNION {{post.batch[i].id : i \in DOMAIN post.batch} : post \in Posts}

ASSUME SeedingAssumption ==
    /\ MIN_PER_EDGE_CASE \in Nat /\ MaxNeutral \in Nat
    /\ MAX_BATCH_SIZE \in Nat /\ CHUNK_SIZE \in 1..MAX_BATCH_SIZE
    /\ \A post \in Posts : post.size \in Nat \ {0} /\ post.batch \in Seq(Merchant)
    /\ PageLimits \subseteq Int /\ MAX_LIST_LIMIT \in Nat \ {0}
    /\ Count \in Nat /\ Count >= MIN_COUNT
    /\ \A number \in 1..Count : Indexable(Id(number))

\* Of two ids one comes first.
ASSUME IdsAreOrdered ==
    \A a, b \in PostedIds :
        /\ ~ IdBefore(a, a)
        /\ a # b => IdBefore(a, b) \/ IdBefore(b, a)
        /\ \A c \in PostedIds : IdBefore(a, b) /\ IdBefore(b, c) => IdBefore(a, c)

VARIABLES
    pc,
    origin,     \* "generator", or "caller"
    batch,      \* the merchants so far
    drawn,      \* the last draw
    taken,      \* takenEmails
    case,       \* the number of the edge case that ensureEdgeCases is at
    missing,    \* merchants that it lacks
    eligible,   \* neutralIndices that are left to patch
    size,       \* the merchants a request carries
    next,       \* start of the next chunk
    rows,       \* what is stored: the merchant of a row and its signals
    listing     \* the pages read so far, [limit, offset, category, due, shrunk]:
                \* due is what was listed when the reading began, is still, and is
                \* not read yet; shrunk, that one before the offset is no longer

vars == <<pc, origin, batch, drawn, taken, case, missing, eligible, size, next, rows, listing>>
sending == <<size, next, rows, listing>>
generating == <<drawn, taken, case, missing, eligible>>

NotListing ==
    [limit |-> 0, offset |-> 0, category |-> None, due |-> {}, shrunk |-> FALSE]

Init ==
    /\ \/ pc = "sampling" /\ origin = "generator" /\ batch = <<>> /\ size = CHUNK_SIZE
       \/ \E post \in Posts :
              pc = "posting" /\ origin = "caller" /\ batch = post.batch /\ size = post.size
    /\ drawn = 1 /\ taken = {} /\ case = 1 /\ missing = 0 /\ eligible = {}
    /\ next = 1
    /\ rows = <<>>
    /\ listing = NotListing

-----------------------------------------------------------------------------
\* buildMerchant, once more.
Sample(draw) ==
    /\ pc = "sampling"
    /\ Len(batch) < Count
    /\ draw >= drawn
    /\ LET merchant == BuildMerchant(Len(batch) + 1, Draws[draw], taken)
       IN  /\ batch' = Append(batch, merchant)
           /\ taken' = taken \cup {merchant.contactEmail.local}
    /\ Cardinality({i \in DOMAIN batch' : MatchesNone(batch'[i])}) <= MaxNeutral
    /\ drawn' = draw
    /\ pc' = IF Len(batch') = Count THEN "forcing" ELSE "sampling"
    /\ UNCHANGED <<origin, case, missing, eligible, sending>>

Case == EDGE_CASES[case]
Lacking == MIN_PER_EDGE_CASE - Cardinality(Covering(Case, batch))

NextCase ==
    /\ case' = case + 1
    /\ missing' = 0
    /\ eligible' = {}
    /\ pc' = IF case = Len(EDGE_CASES) THEN "posting" ELSE "forcing"
    /\ UNCHANGED <<origin, batch, drawn, taken, sending>>

\* The case is covered as it is.
CaseIsCovered == pc = "forcing" /\ Lacking <= 0 /\ NextCase

\* Too few merchants are free to be patched: the generator throws.
CannotGuarantee ==
    /\ pc = "forcing"
    /\ Lacking > Cardinality(Neutral(Case, batch))
    /\ pc' = "gave up"
    /\ UNCHANGED <<origin, batch, generating, sending>>

\* The merchants to patch are settled before the first of them is patched.
BeginPatching ==
    /\ pc = "forcing"
    /\ Lacking \in 1..Cardinality(Neutral(Case, batch))
    /\ missing' = Lacking
    /\ eligible' = Neutral(Case, batch)
    /\ pc' = "patching"
    /\ UNCHANGED <<origin, batch, drawn, taken, case, sending>>

\* The next of the shuffled indices.
Patch(i) ==
    /\ pc = "patching"
    /\ missing > 0
    /\ i \in eligible
    /\ \E merchant \in Forced(Case, batch[i], taken) :
          /\ batch' = [batch EXCEPT ![i] = merchant]
          /\ taken' = taken \cup {merchant.contactEmail.local}
    /\ eligible' = eligible \ {i}
    /\ missing' = missing - 1
    /\ UNCHANGED <<pc, origin, drawn, case, sending>>

CaseIsPatched == pc = "patching" /\ missing = 0 /\ NextCase

-----------------------------------------------------------------------------
\* Mutant: a chunk is everything that is left.
MutChunk(from) == SubSeq(batch, from, Len(batch))

\* What one request carries.
Chunk(from) == SubSeq(batch, from, Min({from + size - 1, Len(batch)}))

\* What becomes of a request: its batch is refused, or one of its statements
\* fails, or all of it lands.
Outcome(chunk) ==
    IF ~IsValidBatch(chunk, MAX_BATCH_SIZE) THEN "refused"
    ELSE IF \E i \in DOMAIN chunk : ~FitsColumns(chunk[i]) \/ ~MeetsChecks(chunk[i])
         THEN "failed"
         ELSE "seeded"

Stored(merchant, now) ==
    [merchant |-> ReadBack(merchant), signals |-> DeriveSignals(merchant, now)]

\* The rows of a list, in its order, and how a write to the table changes the list.
IsListed(row, category) == category = None \/ row.merchant.category = category
Listed == {id \in DOMAIN rows : IsListed(rows[id], listing.category)}

\* Mutant: merchants without a rating come last.
MutPrecedes(a, b) ==
    LET IsRated(id) == rows[id].merchant.rating # None
    IN  IF IsRated(a) = IsRated(b) THEN IdBefore(a, b) ELSE IsRated(a)

\* ORDER BY m.id
Precedes(a, b) == IdBefore(a, b)
Position(id) == Cardinality({other \in Listed : Precedes(other, id)})

Relist ==
    LET leaving == {id \in Listed : ~IsListed(rows'[id], listing.category)}
    IN  listing' = [listing EXCEPT
            !.due = @ \ leaving,
            !.shrunk = @ \/ \E id \in leaving : Position(id) < listing.offset]

\* The signals are of the merchants as posted.
Land(now) ==
    LET chunk == Chunk(next)
        new == {chunk[i].id : i \in DOMAIN chunk}
    IN  /\ pc = "posting"
        /\ Outcome(chunk) = "seeded"
        /\ rows' = [id \in DOMAIN rows \cup new |->
               IF id \in new
               THEN Stored(chunk[CHOOSE i \in DOMAIN chunk : chunk[i].id = id], now)
               ELSE rows[id]]
        /\ next' = next + Len(chunk)
        /\ pc' = IF next' > Len(batch) THEN "seeded" ELSE "posting"
        /\ Relist
        /\ UNCHANGED <<origin, batch, generating, size>>

\* Nothing of the chunk is written, and the script throws; what the chunks before
\* it have stored stays.
Fail ==
    /\ pc = "posting"
    /\ Outcome(Chunk(next)) # "seeded"
    /\ pc' = Outcome(Chunk(next))
    /\ UNCHANGED <<origin, batch, generating, sending>>

-----------------------------------------------------------------------------
\* listMerchants, for a caller that reads page after page until one is not full.
Limit(limit) == Max({1, Min({limit, MAX_LIST_LIMIT})})

\* A category that is not known is refused.  A bound: the list is read while other
\* callers post.
BeginListing(limit, category) ==
    /\ origin = "caller"
    /\ listing = NotListing
    /\ DOMAIN rows # {}
    /\ category \in {None} \cup MERCHANT_CATEGORIES
    /\ listing' = [NotListing EXCEPT
           !.limit = Limit(limit),
           !.category = category,
           !.due = {id \in DOMAIN rows : IsListed(rows[id], category)}]
    /\ UNCHANGED <<pc, origin, batch, generating, size, next, rows>>

\* LIMIT and OFFSET
ReadPage ==
    LET end == listing.offset + listing.limit
        page == {id \in Listed : Position(id) \in listing.offset..(end - 1)}
    IN  /\ listing.limit > 0
        /\ listing' = [listing EXCEPT
               !.limit = IF Cardinality(page) < @ THEN 0 ELSE @,
               !.offset = end,
               !.due = @ \ page]
        /\ UNCHANGED <<pc, origin, batch, generating, size, next, rows>>

Next ==
    \/ \E draw \in DOMAIN Draws : Sample(draw)
    \/ CaseIsCovered
    \/ CannotGuarantee
    \/ BeginPatching
    \/ \E i \in 1..Count : Patch(i)
    \/ CaseIsPatched
    \/ \E now \in Nows : Land(now)
    \/ Fail
    \/ \E limit \in PageLimits, category \in PageCategories : BeginListing(limit, category)
    \/ ReadPage

Spec == Init /\ [][Next]_vars
=============================================================================
