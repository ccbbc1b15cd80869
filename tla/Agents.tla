-------------------------------- MODULE Agents --------------------------------
(***************************************************************************)
(* The triage and draft agents of one campaign (services/agents): each     *)
(* runs jobs in which every model call is checked against the cost cap,    *)
(* made or replayed, and recorded in llm_calls, with other agents running  *)
(* between any two of those awaits.  Who starts the jobs and saves their   *)
(* results is outside the repository.                                      *)
(***************************************************************************)
EXTENDS Integers, FiniteSets

CONSTANTS
    None,
    Workers,     \* agents that run at the same time
    Merchants,
    Cap,         \* campaignCostCapUsd, in units of cost
    MaxCost      \* the most that one call can cost (maxTokens bounds it)

ASSUME AgentsAssumption ==
    /\ IsFiniteSet(Workers) /\ IsFiniteSet(Merchants)
    /\ Cap \in Nat \ {0}
    /\ MaxCost \in Nat \ {0}

Costs == 1..MaxCost
Purposes == {"triage", "triage_escalation", "draft"}

\* What computeFixtureKey tells apart: the prompt and the model.
Requests == Purposes \X Merchants

TriageResults == [cost : Nat, escalated : BOOLEAN]

ASSUME NoneIsNoResult == None \notin TriageResults

VARIABLES
    mode,      \* LLM_MODE, fixed for the life of the process
    spent,     \* SUM(cost_usd) over the campaign's llm_calls
    lost,      \* why calls that the API charged for are not in llm_calls
    fixtures,  \* cost of the answer on disk for each request, 0 if no file
    triage,    \* table triage_results, None where the merchant has no row
    drafts,    \* summed cost of the merchant's rows in drafts
    worker     \* what each agent is doing

vars == <<mode, spent, lost, fixtures, triage, drafts, worker>>

Resting == [pc |-> "idle", purpose |-> "triage", merchant |-> None,
            usage |-> 0, cost |-> 0]
Jobs == [pc : {"idle", "guard", "calling", "recording", "parsing"},
         purpose : Purposes, merchant : Merchants \cup {None},
         usage : Nat, cost : 0..MaxCost]

Init ==
    /\ mode \in {"live", "record", "fixture"}
    /\ spent = 0
    /\ lost = {}
    /\ fixtures \in [Requests -> {0, MaxCost}]
    /\ mode # "fixture" => fixtures = [r \in Requests |-> 0]
    /\ triage = [m \in Merchants |-> None]
    /\ drafts = [m \in Merchants |-> 0]
    /\ worker = [w \in Workers |-> Resting]

-----------------------------------------------------------------------------
Goes(w, pc) == worker' = [worker EXCEPT ![w].pc = pc]
Ends(w) == worker' = [worker EXCEPT ![w] = Resting]

\* runTriage or runDraft is called.
Start(w, purpose, m) ==
    /\ worker[w].pc = "idle"
    /\ purpose # "triage_escalation"
    /\ worker' = [worker EXCEPT ![w] =
          [Resting EXCEPT !.pc = "guard", !.purpose = purpose, !.merchant = m]]
    /\ UNCHANGED <<mode, spent, lost, fixtures, triage, drafts>>

\* Mutants: the cap is not consulted; it is exceeded before it stops a call.
MutAffordable == TRUE
MutAffordableAtCap == spent <= Cap

\* assertCanSpend: the campaign's recorded spend is below the cap.
Affordable == spent < Cap

CheckBudget(w) ==
    /\ worker[w].pc = "guard"
    /\ IF Affordable THEN Goes(w, "calling") ELSE Ends(w)
    /\ UNCHANGED <<mode, spent, lost, fixtures, triage, drafts>>

\* Mutant: the fixture key leaves out the model.
MutRequest(w) ==
    <<IF worker[w].purpose = "draft" THEN "draft" ELSE "triage", worker[w].merchant>>

Request(w) == <<worker[w].purpose, worker[w].merchant>>

AnsweredAt(w, cost) ==
    worker' = [worker EXCEPT ![w].pc = "recording", ![w].cost = cost]

\* The API answers; in record mode the answer is on disk before call() returns.
CallAnswers(w) ==
    /\ worker[w].pc = "calling"
    /\ mode # "fixture"
    /\ \E cost \in Costs :
          /\ AnsweredAt(w, cost)
          /\ fixtures' = IF mode = "record"
                         THEN [fixtures EXCEPT ![Request(w)] = cost] ELSE fixtures
    /\ UNCHANGED <<mode, spent, lost, triage, drafts>>

\* The API answers, and charges, but the call throws before it has a meta: a
\* refusal, an answer cut at max_tokens or without text, an unwritable fixture.
AnswerUnusable(w) ==
    /\ worker[w].pc = "calling"
    /\ mode # "fixture"
    /\ lost' = lost \cup {"unusable"}
    /\ Ends(w)
    /\ UNCHANGED <<mode, spent, fixtures, triage, drafts>>

Replay(w) ==
    /\ worker[w].pc = "calling"
    /\ mode = "fixture"
    /\ fixtures[Request(w)] # 0
    /\ AnsweredAt(w, fixtures[Request(w)])
    /\ UNCHANGED <<mode, spent, lost, fixtures, triage, drafts>>

\* No fixture for the request, or no answer from the API.
CallFails(w) ==
    /\ worker[w].pc = "calling"
    /\ mode = "fixture" => fixtures[Request(w)] = 0
    /\ Ends(w)
    /\ UNCHANGED <<mode, spent, lost, fixtures, triage, drafts>>

\* recordLlmCall, and the meta joins the job's calls.
Paid(job) == [job EXCEPT !.pc = "parsing", !.usage = @ + job.cost, !.cost = 0]

RecordCall(w) ==
    /\ worker[w].pc = "recording"
    /\ spent' = spent + worker[w].cost
    /\ worker' = [worker EXCEPT ![w] = Paid(@)]
    /\ UNCHANGED <<mode, lost, fixtures, triage, drafts>>

\* Mutant: a failed insert is swallowed and the job goes on.
MutRecordFails(w) ==
    /\ worker[w].pc = "recording"
    /\ lost' = IF mode = "fixture" THEN lost ELSE lost \cup {"unrecorded"}
    /\ worker' = [worker EXCEPT ![w] = Paid(@)]
    /\ UNCHANGED <<mode, spent, fixtures, triage, drafts>>

\* The insert fails, or the process stops before it.
RecordFails(w) ==
    /\ worker[w].pc = "recording"
    /\ lost' = IF mode = "fixture" THEN lost ELSE lost \cup {"unrecorded"}
    /\ Ends(w)
    /\ UNCHANGED <<mode, spent, fixtures, triage, drafts>>

\* The payload does not parse, or a claim is not in the body; or the process stops.
PayloadRejected(w) ==
    /\ worker[w].pc = "parsing"
    /\ Ends(w)
    /\ UNCHANGED <<mode, spent, lost, fixtures, triage, drafts>>

\* Mutant: the second call of a triage goes out without asking the guard.
MutEscalate(w) ==
    /\ worker[w].pc = "parsing"
    /\ worker[w].purpose = "triage"
    /\ worker' = [worker EXCEPT ![w].pc = "calling", ![w].purpose = "triage_escalation"]
    /\ UNCHANGED <<mode, spent, lost, fixtures, triage, drafts>>

\* The first answer's confidence is below triageEscalationThreshold.
Escalate(w) ==
    /\ worker[w].pc = "parsing"
    /\ worker[w].purpose = "triage"
    /\ worker' = [worker EXCEPT ![w].pc = "guard", ![w].purpose = "triage_escalation"]
    /\ UNCHANGED <<mode, spent, lost, fixtures, triage, drafts>>

SaveTriageResult(w) ==
    /\ worker[w].pc = "parsing"
    /\ worker[w].purpose # "draft"
    /\ triage' = [triage EXCEPT ![worker[w].merchant] =
          [cost |-> worker[w].usage,
           escalated |-> worker[w].purpose = "triage_escalation"]]
    /\ Ends(w)
    /\ UNCHANGED <<mode, spent, lost, fixtures, drafts>>

SaveDraft(w) ==
    /\ worker[w].pc = "parsing"
    /\ worker[w].purpose = "draft"
    /\ drafts' = [drafts EXCEPT ![worker[w].merchant] = @ + worker[w].usage]
    /\ Ends(w)
    /\ UNCHANGED <<mode, spent, lost, fixtures, triage>>

-----------------------------------------------------------------------------
Call(w) == CallAnswers(w) \/ AnswerUnusable(w) \/ Replay(w) \/ CallFails(w)

Finish(w) ==
    PayloadRejected(w) \/ Escalate(w) \/ SaveTriageResult(w) \/ SaveDraft(w)

Next == \E w \in Workers :
    \/ \E purpose \in Purposes, m \in Merchants : Start(w, purpose, m)
    \/ CheckBudget(w)
    \/ Call(w)
    \/ RecordCall(w)
    \/ RecordFails(w)
    \/ Finish(w)

Spec == Init /\ [][Next]_vars
=============================================================================
