--------------------------- MODULE ApprovedDelivery ---------------------------
(***************************************************************************)
(* What approval and delivery promise together, with no tables, workers,   *)
(* claims or keys: an attempt is decided once; what was approved, and      *)
(* nothing else, reaches the recipient, once; and a delivery is recorded   *)
(* for at most one attempt of a group (a merchant in a campaign).          *)
(***************************************************************************)
CONSTANTS
    Attempts, Messages,
    Group,              \* the group of each attempt
    Nothing, Refused    \* values that are not messages

VARIABLES
    decision,    \* the message approved for each attempt, Nothing or Refused
    inbox,       \* the message the recipient got for each attempt, or Nothing
    recorded     \* the attempts on record as sent

promiseVars == <<decision, inbox, recorded>>

Start ==
    /\ decision = [a \in Attempts |-> Nothing]
    /\ inbox = [a \in Attempts |-> Nothing]
    /\ recorded = {}

Refuse(a) ==
    /\ decision[a] = Nothing
    /\ decision' = [decision EXCEPT ![a] = Refused]
    /\ UNCHANGED <<inbox, recorded>>

Approve(a) ==
    /\ decision[a] = Nothing
    /\ \E message \in Messages : decision' = [decision EXCEPT ![a] = message]
    /\ UNCHANGED <<inbox, recorded>>

Deliver(a) ==
    /\ decision[a] \in Messages
    /\ inbox[a] = Nothing
    /\ inbox' = [inbox EXCEPT ![a] = decision[a]]
    /\ UNCHANGED <<decision, recorded>>

Acknowledge(a) ==
    /\ inbox[a] # Nothing
    /\ \A b \in recorded : Group[b] # Group[a]
    /\ recorded' = recorded \cup {a}
    /\ UNCHANGED <<decision, inbox>>

Step == \E a \in Attempts : Refuse(a) \/ Approve(a) \/ Deliver(a) \/ Acknowledge(a)

Promise == Start /\ [][Step]_promiseVars
=============================================================================
