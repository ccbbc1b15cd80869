SPECIFICATION Spec
CONSTANTS
    None = None
    MaxCount = 1
    a1 = a1
    a2 = a2
    a3 = a3
    m1 = m1
    m2 = m2
    c1 = c1
    c2 = c2
    t1 = t1
    t2 = t2
    t3 = t3
    split = split
    e1 = e1
    e2 = e2
    Attempts = {a1, a2}
    Merchants = {m1}
    Campaigns = {c1, c2}
    MerchantOf <- PairMerchantOf
    CampaignOf <- RivalCampaignOf
    Reviewers = {r1}
    Addresses = {e1, e2}
    Texts = {t1, t2}
    Contents = {t1, t2}
    ContentHash <- Hash
    Prints = {t1, t2}
    Fingerprint <- Joined
    InitialText <- DraftedText
    InitialEmail <- KnownEmail
    FailingTexts = {}
    Workers = {w1, w2}
    MaxTries = 1
    Nothing = Nothing
    Refused = Refused
SYMMETRY WorkerSymmetry
INVARIANTS
    DeliveredAsApproved
PROPERTIES
    ApprovedMessageIsFixed
    LifecycleObeyed
