------------------------------ MODULE Lifecycle ------------------------------
(***************************************************************************)
(* The outreach state machine: services/approval/state-machine.ts.         *)
(*                                                                         *)
(* A pure component: a table of legal moves and the next row each move     *)
(* computes.  Every writer of an attempt's state (the approval API and the *)
(* outbox worker) goes through these operators.                            *)
(***************************************************************************)
EXTENDS Integers

CONSTANTS
    None,      \* the SQL NULL
    MaxCount   \* counters stop here: a bound of the model, not of the code

ASSUME MaxCountAssumption == MaxCount \in Nat \ {0}

OutreachState == {"INGESTED", "TRIAGED", "DRAFTED", "GATED", "BLOCKED",
                  "PENDING_APPROVAL", "REJECTED", "APPROVED", "QUEUED",
                  "SENT", "FAILED"}

ALLOWED_TRANSITIONS ==
    [INGESTED         |-> {"TRIAGED"},
     TRIAGED          |-> {"DRAFTED"},
     DRAFTED          |-> {"GATED"},
     GATED            |-> {"BLOCKED", "PENDING_APPROVAL"},
     BLOCKED          |-> {},
     PENDING_APPROVAL |-> {"APPROVED", "REJECTED", "BLOCKED"},
     REJECTED         |-> {},
     APPROVED         |-> {"QUEUED"},
     QUEUED           |-> {"SENT", "FAILED"},
     FAILED           |-> {"QUEUED"},
     SENT             |-> {}]

CanTransition(from, to) == to \in ALLOWED_TRANSITIONS[from]

\* What one call of the API or of the worker may do to a row: it computes a
\* path of moves and commits only the last state (APPROVED is passed through
\* on the way to QUEUED, QUEUED on the way from FAILED to an outcome).
CommitReaches(from, to) ==
    \/ CanTransition(from, to)
    \/ \E via \in {"APPROVED", "QUEUED"} :
           CanTransition(from, via) /\ CanTransition(via, to)

Bump(n) == IF n < MaxCount THEN n + 1 ELSE n

(***************************************************************************)
(* applyTransition, one operator per target state.  An attempt carries     *)
(* state, dedupKey, approvedBy, providerMessageId (0 is no receipt),       *)
(* failureReason (whether one is set) and attemptCount.  The timestamps    *)
(* are set exactly when approvedBy and providerMessageId are.              *)
(***************************************************************************)
MoveTo(row, to) == [row EXCEPT !.state = to]

Authorised(row) == row.approvedBy # None

\* Mutants: a receipt that is not stored, a failure that withdraws the approval
\* and a blocked edit recorded as a rejection.
MutSendMove(row, id) == MoveTo(row, "SENT")
MutFailMove(row)  == [MoveTo(row, "FAILED") EXCEPT !.approvedBy = None]
MutBlockMove(row) == MoveTo(row, "REJECTED")

ApproveMove(row, approver) == [MoveTo(row, "APPROVED") EXCEPT !.approvedBy = approver]
QueueMove(row)    == [MoveTo(row, "QUEUED") EXCEPT !.attemptCount = Bump(@)]
SendMove(row, id) == [MoveTo(row, "SENT") EXCEPT !.providerMessageId = id]
FailMove(row)     == [MoveTo(row, "FAILED") EXCEPT !.failureReason = TRUE]
RejectMove(row)   == [MoveTo(row, "REJECTED") EXCEPT !.failureReason = TRUE]
BlockMove(row)    == MoveTo(row, "BLOCKED")
=============================================================================
