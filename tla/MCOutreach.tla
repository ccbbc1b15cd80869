------------------------------ MODULE MCOutreach ------------------------------
(* Instances of Outreach small enough for TLC. *)
EXTENDS OutreachRefinement, TLC

CONSTANTS a1, a2, a3, m1, m2, c1, c2, t1, t2, t3, split, e1, e2

\* Two attempts for one merchant in one campaign.
PairMerchantOf == a1 :> m1 @@ a2 :> m1
PairCampaignOf == a1 :> c1 @@ a2 :> c1

\* One merchant, two campaigns.
RivalCampaignOf == a1 :> c1 @@ a2 :> c2

DraftedText == a1 :> t1 @@ a2 :> t2

\* Two attempts for one merchant, one for another merchant.
TrioMerchantOf == a1 :> m1 @@ a2 :> m1 @@ a3 :> m2
TrioCampaignOf == a1 :> c1 @@ a2 :> c1 @@ a3 :> c1
TrioText == a1 :> t1 @@ a2 :> t2 @@ a3 :> t1

KnownEmail == [m \in Merchants |-> e1]

\* Texts are their own hashes, except that "split" is t1 with its words divided
\* differently between subject and body: one content, two texts.
Hash == [t \in Texts |-> IF t = split THEN t1 ELSE t]
Joined == [t \in Texts |-> t]

\* The worker processes are alike; only safety is checked under this symmetry.
WorkerSymmetry == Permutations(Workers)
=============================================================================
