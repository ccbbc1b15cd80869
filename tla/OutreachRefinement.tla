-------------------------- MODULE OutreachRefinement --------------------------
(***************************************************************************)
(* Outreach implements ApprovedDelivery: a commit that queues an attempt   *)
(* is the approval of the message in its outbox row, the provider's first  *)
(* acceptance of the row's key is the delivery, and the transaction that   *)
(* makes the attempt SENT is the acknowledgement.                          *)
(***************************************************************************)
EXTENDS OutreachProperties

CONSTANTS Nothing, Refused

Messages == [to : Addresses, text : Texts]

ASSUME DecisionsDiffer ==
    /\ Nothing \notin Messages
    /\ Refused \notin Messages
    /\ Nothing # Refused

MessageIn(stored) == [to |-> stored.to, text |-> stored.text]

Decision(a) ==
    IF InOutbox(a) THEN MessageIn(outbox[a])
    ELSE IF attempt[a].state \in {"REJECTED", "BLOCKED"} THEN Refused ELSE Nothing

Inbox(a) == IF Delivered(a) THEN MessageIn(provider[outbox[a].key]) ELSE Nothing

Abstract == INSTANCE ApprovedDelivery WITH
    Group    <- [a \in Attempts |-> <<MerchantOf[a], CampaignOf[a]>>],
    decision <- [a \in Attempts |-> Decision(a)],
    inbox    <- [a \in Attempts |-> Inbox(a)],
    recorded <- {a \in Attempts : attempt[a].state = "SENT"}

\* Every behaviour of the tables, the workers and the provider is one of the
\* promise: decided once, delivered once as decided, recorded only after.
PromiseKept == Abstract!Promise
=============================================================================
