-------------------------------- MODULE Signals --------------------------------
(***************************************************************************)
(* services/ingest/enrich.ts: the signals that a merchant supports at a    *)
(* moment, in their fixed order.  Of the wording of a signal the figures   *)
(* are kept, and "w" stands for the words around them.                     *)
(***************************************************************************)
EXTENDS Merchants

DEAL_GAP_MIN_DAYS == 90
HIGH_RATING_MIN == 450
LOW_REVIEW_COUNT_MAX == 40 * 100
NEW_TO_MARKET_MAX_YEARS == 2 * 100

CAPACITY_HEADROOM_MIN ==
    [restaurant |-> 8000, spa_wellness |-> 2500, fitness |-> 6000,
     beauty |-> 1200, activity |-> 4000, class_workshop |-> 2000]
SEASONAL_PEAK_MONTHS ==
    [restaurant |-> {11, 12}, spa_wellness |-> {1, 2, 11, 12}, fitness |-> {1, 2, 9},
     beauty |-> {5, 6, 12}, activity |-> 4..8, class_workshop |-> {1, 9, 10}]

Words == <<Space, "w", Space>>
RatingScale == <<"5">>

Signal(key, value, sourceField) ==
    [key |-> key, value |-> value, sourceField |-> sourceField]
When(condition, signal) == IF condition THEN <<signal>> ELSE <<>>

WholeDaysBetween(earlier, later) == (later - earlier) \div MinutesPerDay

\* No offer is running, and the last one, if any, is long over.
DealGapSignal(merchant, now) ==
    LET ended == merchant.lastOfferEndedAt
    IN  When(~merchant.hasActiveOffer /\ ended = None,
             Signal("deal_gap", Words, "hasActiveOffer"))
        \o When(/\ ~merchant.hasActiveOffer
                /\ ended # None
                /\ WholeDaysBetween(ended.minute, now) >= DEAL_GAP_MIN_DAYS,
                Signal("deal_gap", Words \o IsoDatePart(ended) \o Words, "lastOfferEndedAt"))

HighRatingLowVolumeSignal(merchant) ==
    When(/\ merchant.rating # None /\ merchant.reviewCount # None
         /\ merchant.rating >= HIGH_RATING_MIN
         /\ merchant.reviewCount <= LOW_REVIEW_COUNT_MAX,
         Signal("high_rating_low_volume",
                Words \o Shown(merchant.rating) \o Words \o RatingScale \o Words
                \o Shown(merchant.reviewCount) \o Words,
                "rating"))

\* The peak is now or starts next month.
SeasonalWindowSignal(merchant, now) ==
    LET current == MonthOf(now)
        next == (current % 12) + 1
    IN  When({current, next} \cap SEASONAL_PEAK_MONTHS[merchant.category] # {},
             Signal("seasonal_window", Words, "category"))

CapacityHeadroomSignal(merchant) ==
    When(/\ merchant.seatsOrCapacity # None
         /\ merchant.seatsOrCapacity >= CAPACITY_HEADROOM_MIN[merchant.category],
         Signal("capacity_headroom", Words \o Shown(merchant.seatsOrCapacity) \o Words,
                "seatsOrCapacity"))

\* In its first year a business has no number of years to show.
NewToMarketSignal(merchant) ==
    LET years == merchant.yearsInBusiness
    IN  When(years # None /\ years <= NEW_TO_MARKET_MAX_YEARS,
             Signal("new_to_market",
                    IF years = 0 THEN Words ELSE Words \o Shown(years) \o Words,
                    "yearsInBusiness"))

DeriveSignals(merchant, now) ==
    DealGapSignal(merchant, now) \o HighRatingLowVolumeSignal(merchant)
    \o SeasonalWindowSignal(merchant, now) \o CapacityHeadroomSignal(merchant)
    \o NewToMarketSignal(merchant)

SIGNAL_KEYS == {"deal_gap", "high_rating_low_volume", "seasonal_window",
                "capacity_headroom", "new_to_market"}

\* toSignals: a stored signal it would not read makes the whole read fail.
IsReadable(signal) ==
    /\ signal.key \in SIGNAL_KEYS
    /\ signal.value # <<>>
    /\ signal.sourceField \in MERCHANT_FIELDS
=============================================================================
