--------------------------- MODULE AgentsProperties ---------------------------
(***************************************************************************)
(* What the agents promise about a campaign's money and its results.       *)
(***************************************************************************)
EXTENDS Agents, Functions

\* Every variable keeps its type, and a job at work has a merchant.
TypeOK ==
    /\ mode \in {"live", "record", "fixture"}
    /\ spent \in Nat
    /\ lost \subseteq {"unusable", "unrecorded"}
    /\ fixtures \in [Requests -> 0..MaxCost]
    /\ triage \in [Merchants -> TriageResults \cup {None}]
    /\ drafts \in [Merchants -> Nat]
    /\ worker \in [Workers -> Jobs]
    /\ \A w \in Workers : worker[w].pc # "idle" => worker[w].merchant \in Merchants

\* The agents that the guard has let through and that have not yet paid.
Cleared == {w \in Workers : worker[w].pc \in {"calling", "recording"}}

\* The guard and the payment are two steps, so every agent may pass the guard
\* on the last unit of budget: the campaign can exceed its cap, but by less
\* than one call of each agent (cost.ts:26-39, runner.ts:43-56).
SpendIsBounded == spent < Cap + Cardinality(Workers) * MaxCost

\* The inductive form: room is kept for every call already let through.
BudgetInv ==
    /\ TypeOK
    /\ spent + Cardinality(Cleared) * MaxCost < Cap + Cardinality(Workers) * MaxCost

\* Once the cap is reached and the calls in flight have paid, nothing more is
\* spent: neither a new job nor the second call of a triage gets past the guard.
SpendStopsAtCap ==
    [][spent >= Cap /\ Cleared = {} => spent' = spent /\ Cleared' = {}]_vars

\* What the stored results and the running jobs say they cost is never more
\* than llm_calls accounts for, re-runs and discarded first answers included
\* (runner.ts:4-6, triage.ts:96-99).
TriageCost(m) == IF triage[m] = None THEN 0 ELSE triage[m].cost

TriageCosts == [m \in Merchants |-> TriageCost(m)]
Usages == [w \in Workers |-> worker[w].usage]

ResultsAreAccounted ==
    SumFunction(TriageCosts) + SumFunction(drafts) + SumFunction(Usages) <= spent

\* A result recorded in record mode can be replayed: the answer to each of the
\* calls it took, the escalation's among them, is on disk (llm.ts:191-205).
OnDisk(purpose, m) == fixtures[<<purpose, m>>] # 0

ResultsCanBeReplayed ==
    mode = "record" =>
        \A m \in Merchants :
            /\ drafts[m] # 0 => OnDisk("draft", m)
            /\ triage[m] # None =>
                  /\ OnDisk("triage", m)
                  /\ triage[m].escalated => OnDisk("triage_escalation", m)

\* "A call that happened is a call that gets paid for, whether or not its
\* output was usable" (runner.ts:40-41): no call with an unusable answer is
\* missing from llm_calls.
CallsArePaidFor == "unusable" \notin lost

\* "The cap is checked before each call, so the ceiling is a ceiling"
\* (cost.ts:6-7): the campaign's total never passes its cap.  No configuration
\* lists it: TLC refutes it on the instance of AgentsBudget.cfg, and SpendIsBounded
\* says by how much the total can pass.
CapIsCeiling == spent <= Cap
=============================================================================
