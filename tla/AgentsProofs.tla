----------------------------- MODULE AgentsProofs -----------------------------
(***************************************************************************)
(* What a campaign can spend, for any number of agents, cap and call cost. *)
(***************************************************************************)
EXTENDS AgentsProperties, DataLemmas

\* The room that n calls in flight take never exceeds that of all the agents.
LEMMA Room ==
    ASSUME NEW m \in Nat, NEW n \in Nat, m <= n
    PROVE  m * MaxCost <= n * MaxCost /\ m * MaxCost \in Nat /\ n * MaxCost \in Nat
<1>1. MaxCost \in Nat
  BY AgentsAssumption
<1>2. PICK d \in Nat : n = m + d
  <2>1. n - m \in Nat /\ n = m + (n - m)
    OBVIOUS
  <2> QED BY <2>1
<1>3. n * MaxCost = m * MaxCost + d * MaxCost
  BY <1>1, <1>2
<1>4. m * MaxCost \in Nat /\ d * MaxCost \in Nat /\ n * MaxCost \in Nat
  BY <1>1
<1> QED BY <1>3, <1>4

LEMMA RoomOfOneMore ==
    ASSUME NEW n \in Nat
    PROVE  (n + 1) * MaxCost = n * MaxCost + MaxCost
BY AgentsAssumption

\* The agents let through are some of the agents: a finite set, and not larger.
LEMMA ClearedIsFinite ==
    /\ IsFiniteSet(Cleared)
    /\ Cardinality(Cleared) \in Nat
    /\ Cardinality(Cleared) <= Cardinality(Workers)
    /\ Cardinality(Workers) \in Nat
<1>1. Cleared \subseteq Workers
  BY DEF Cleared
<1> QED BY <1>1, AgentsAssumption, FS_Subset, FS_CardinalityType

LEMMA ClearedIsFiniteNext ==
    /\ IsFiniteSet(Cleared')
    /\ Cardinality(Cleared') \in Nat
    /\ Cardinality(Cleared') <= Cardinality(Workers)
<1>1. Cleared' \subseteq Workers
  BY DEF Cleared
<1> QED BY <1>1, AgentsAssumption, FS_Subset, FS_CardinalityType

-----------------------------------------------------------------------------
\* A job whose call is answered is a job.
LEMMA AnsweredTyped ==
    ASSUME worker \in [Workers -> Jobs], NEW w \in Workers, NEW cost \in 0..MaxCost,
           AnsweredAt(w, cost)
    PROVE  /\ worker' \in [Workers -> Jobs]
           /\ \A v \in Workers : worker'[v].merchant = worker[v].merchant
<1>1. [worker[w] EXCEPT !.pc = "recording", !.cost = cost] \in Jobs
  BY DEF Jobs
<1>2. worker' = [worker EXCEPT ![w] = [worker[w] EXCEPT !.pc = "recording", !.cost = cost]]
  BY DEF AnsweredAt, Jobs
<1> QED BY <1>1, <1>2 DEF Jobs

\* What an agent becomes has the type of a job.
LEMMA RestingTyped == Resting \in Jobs
BY AgentsAssumption DEF Resting, Jobs, Purposes

LEMMA InitTyped == Init => TypeOK
<1> SUFFICES ASSUME Init PROVE TypeOK
  OBVIOUS
<1>1. fixtures \in [Requests -> 0..MaxCost]
  BY AgentsAssumption DEF Init
<1>2. triage \in [Merchants -> TriageResults \cup {None}]
  BY DEF Init
<1>3. worker \in [Workers -> Jobs]
  BY RestingTyped DEF Init
<1>4. \A w \in Workers : worker[w].pc = "idle"
  BY DEF Init, Resting
<1> QED BY <1>1, <1>2, <1>3, <1>4 DEF Init, TypeOK

\* One agent changes what it does, and nothing else changes but what the
\* step's own conjuncts type.
LEMMA NextTyped == TypeOK /\ [Next]_vars => TypeOK'
<1> SUFFICES ASSUME TypeOK, [Next]_vars PROVE TypeOK'
  OBVIOUS
<1> USE DEF TypeOK
<1>1. ASSUME NEW w \in Workers, NEW purpose \in Purposes, NEW m \in Merchants,
             Start(w, purpose, m)
      PROVE  TypeOK'
  <2>0. [Resting EXCEPT !.pc = "guard", !.purpose = purpose, !.merchant = m] \in Jobs
    BY RestingTyped DEF Jobs
  <2>1. worker' \in [Workers -> Jobs]
    BY <1>1, <2>0 DEF Start
  <2>2. \A v \in Workers : worker'[v].pc # "idle" => worker'[v].merchant \in Merchants
    BY <1>1 DEF Start, Resting
  <2> QED BY <1>1, <2>1, <2>2 DEF Start
<1>2. ASSUME NEW w \in Workers, CheckBudget(w) PROVE TypeOK'
  <2>1. worker' \in [Workers -> Jobs]
    BY <1>2, RestingTyped DEF CheckBudget, Goes, Ends, Jobs
  <2>2. \A v \in Workers : worker'[v].pc # "idle" => worker'[v].merchant \in Merchants
    BY <1>2 DEF CheckBudget, Goes, Ends, Resting, Jobs
  <2> QED BY <1>2, <2>1, <2>2 DEF CheckBudget
<1>3. ASSUME NEW w \in Workers, CallAnswers(w) PROVE TypeOK'
  <2>1. PICK cost \in Costs :
          /\ AnsweredAt(w, cost)
          /\ fixtures' = IF mode = "record"
                         THEN [fixtures EXCEPT ![Request(w)] = cost] ELSE fixtures
    BY <1>3 DEF CallAnswers
  <2>2. cost \in 0..MaxCost
    BY AgentsAssumption DEF Costs
  <2>3. fixtures' \in [Requests -> 0..MaxCost]
    BY <2>1, <2>2
  <2>4. /\ worker' \in [Workers -> Jobs]
        /\ \A v \in Workers : worker'[v].merchant = worker[v].merchant
    BY <2>1, <2>2, AnsweredTyped
  <2>5. \A v \in Workers : worker'[v].pc # "idle" => worker'[v].merchant \in Merchants
    BY <1>3, <2>1, <2>4 DEF CallAnswers, AnsweredAt
  <2> QED BY <1>3, <2>3, <2>4, <2>5 DEF CallAnswers
<1>4. ASSUME NEW w \in Workers, Ends(w) PROVE
        /\ worker' \in [Workers -> Jobs]
        /\ \A v \in Workers : worker'[v].pc # "idle" => worker'[v].merchant \in Merchants
  BY <1>4, RestingTyped DEF Ends, Resting
<1>5. ASSUME NEW w \in Workers, AnswerUnusable(w) PROVE TypeOK'
  BY <1>4, <1>5 DEF AnswerUnusable
<1>6. ASSUME NEW w \in Workers, Replay(w) PROVE TypeOK'
  <2>1. worker[w].pc = "calling" /\ worker[w].merchant \in Merchants
    BY <1>6 DEF Replay
  <2>2. Request(w) \in Requests
    BY <2>1 DEF Request, Requests, Jobs
  <2>3. fixtures[Request(w)] \in 0..MaxCost
    BY <2>2
  <2>4. /\ worker' \in [Workers -> Jobs]
        /\ \A v \in Workers : worker'[v].merchant = worker[v].merchant
    BY <1>6, <2>3, AnsweredTyped DEF Replay
  <2>5. \A v \in Workers : worker'[v].pc # "idle" => worker'[v].merchant \in Merchants
    BY <1>6, <2>1, <2>4 DEF Replay, AnsweredAt
  <2> QED BY <1>6, <2>4, <2>5 DEF Replay
<1>7. ASSUME NEW w \in Workers, CallFails(w) PROVE TypeOK'
  BY <1>4, <1>7 DEF CallFails
<1>8. ASSUME NEW w \in Workers, RecordCall(w) PROVE TypeOK'
  <2>1. worker[w].cost \in 0..MaxCost /\ worker[w].usage \in Nat
    BY DEF Jobs
  <2>2. spent' \in Nat
    BY <1>8, <2>1, AgentsAssumption DEF RecordCall
  <2>3. worker[w].usage + worker[w].cost \in Nat /\ 0 \in 0..MaxCost
    BY <2>1, AgentsAssumption
  <2>4. Paid(worker[w]) \in Jobs /\ Paid(worker[w]).merchant = worker[w].merchant
    BY <2>3 DEF Paid, Jobs
  <2>5. worker' = [worker EXCEPT ![w] = Paid(worker[w])] /\ worker[w].pc # "idle"
    BY <1>8 DEF RecordCall
  <2>6. worker' \in [Workers -> Jobs]
    BY <2>4, <2>5
  <2>7. \A v \in Workers : worker'[v].pc # "idle" => worker'[v].merchant \in Merchants
    BY <2>4, <2>5
  <2> QED BY <1>8, <2>2, <2>6, <2>7 DEF RecordCall
<1>9. ASSUME NEW w \in Workers, RecordFails(w) PROVE TypeOK'
  BY <1>4, <1>9 DEF RecordFails
<1>10. ASSUME NEW w \in Workers, PayloadRejected(w) PROVE TypeOK'
  BY <1>4, <1>10 DEF PayloadRejected
<1>11. ASSUME NEW w \in Workers, Escalate(w) PROVE TypeOK'
  <2>1. worker' \in [Workers -> Jobs]
    BY <1>11 DEF Escalate, Jobs, Purposes
  <2>2. \A v \in Workers : worker'[v].pc # "idle" => worker'[v].merchant \in Merchants
    BY <1>11 DEF Escalate, Jobs
  <2> QED BY <1>11, <2>1, <2>2 DEF Escalate
<1>12. ASSUME NEW w \in Workers, SaveTriageResult(w) PROVE TypeOK'
  <2>1. worker[w].usage \in Nat
    BY DEF Jobs
  <2>2. triage' \in [Merchants -> TriageResults \cup {None}]
    BY <1>12, <2>1 DEF SaveTriageResult, TriageResults
  <2> QED BY <1>4, <1>12, <2>2 DEF SaveTriageResult
<1>13. ASSUME NEW w \in Workers, SaveDraft(w) PROVE TypeOK'
  <2>1. worker[w].usage \in Nat
    BY DEF Jobs
  <2>2. drafts' \in [Merchants -> Nat]
    BY <1>13, <2>1 DEF SaveDraft
  <2> QED BY <1>4, <1>13, <2>2 DEF SaveDraft
<1>14. CASE UNCHANGED vars
  BY <1>14 DEF vars
<1> QED BY <1>1, <1>2, <1>3, <1>5, <1>6, <1>7, <1>8, <1>9, <1>10, <1>11, <1>12,
           <1>13, <1>14 DEF Next, Call, Finish

-----------------------------------------------------------------------------
\* Nothing was paid and no new agent was let through: the room is still there.
LEMMA QuietKeepsRoom ==
    ASSUME BudgetInv, TypeOK', spent' = spent, Cleared' \subseteq Cleared
    PROVE  BudgetInv'
<1>1. Cardinality(Cleared') <= Cardinality(Cleared)
  BY ClearedIsFinite, FS_Subset
<1>2. /\ Cardinality(Cleared') * MaxCost <= Cardinality(Cleared) * MaxCost
      /\ Cardinality(Cleared') * MaxCost \in Nat
      /\ Cardinality(Cleared) * MaxCost \in Nat
  BY <1>1, ClearedIsFinite, ClearedIsFiniteNext, Room
<1>3. Cardinality(Workers) * MaxCost \in Nat /\ Cap \in Nat /\ spent \in Nat
  BY ClearedIsFinite, Room, AgentsAssumption DEF BudgetInv, TypeOK
<1> QED BY <1>2, <1>3 DEF BudgetInv

LEMMA NextBudget == BudgetInv /\ [Next]_vars => BudgetInv'
<1> SUFFICES ASSUME BudgetInv, [Next]_vars PROVE BudgetInv'
  OBVIOUS
<1>0. TypeOK /\ TypeOK'
  BY NextTyped DEF BudgetInv
<1>a. worker \in [Workers -> Jobs]
  BY <1>0 DEF TypeOK
<1>b. ASSUME NEW w \in Workers, Ends(w) PROVE Cleared' \subseteq Cleared
  BY <1>a, <1>b DEF Ends, Resting, Cleared
<1>c. ASSUME NEW w \in Workers, NEW cost, AnsweredAt(w, cost), worker[w].pc = "calling"
      PROVE  Cleared' \subseteq Cleared
  BY <1>a, <1>c DEF AnsweredAt, Cleared, Jobs
<1>1. ASSUME NEW w \in Workers, NEW purpose \in Purposes, NEW m \in Merchants,
             Start(w, purpose, m)
      PROVE  BudgetInv'
  <2>1. Cleared' \subseteq Cleared
    BY <1>a, <1>1 DEF Start, Resting, Cleared
  <2> QED BY <1>0, <1>1, <2>1, QuietKeepsRoom DEF Start
<1>2. ASSUME NEW w \in Workers, CheckBudget(w) PROVE BudgetInv'
  <2>1. CASE Affordable
    <3>1. spent' = spent /\ spent < Cap
      BY <1>2, <2>1 DEF CheckBudget, Affordable
    <3>2. /\ Cardinality(Cleared') * MaxCost <= Cardinality(Workers) * MaxCost
          /\ Cardinality(Cleared') * MaxCost \in Nat
          /\ Cardinality(Workers) * MaxCost \in Nat
      BY ClearedIsFinite, ClearedIsFiniteNext, Room
    <3>3. spent \in Nat /\ Cap \in Nat
      BY <1>0, AgentsAssumption DEF TypeOK
    <3> QED BY <1>0, <3>1, <3>2, <3>3 DEF BudgetInv
  <2>2. CASE ~Affordable
    BY <1>0, <1>2, <1>b, <2>2, QuietKeepsRoom DEF CheckBudget
  <2> QED BY <2>1, <2>2
<1>3. ASSUME NEW w \in Workers, CallAnswers(w) PROVE BudgetInv'
  BY <1>0, <1>3, <1>c, QuietKeepsRoom DEF CallAnswers
<1>4. ASSUME NEW w \in Workers, AnswerUnusable(w) PROVE BudgetInv'
  BY <1>0, <1>4, <1>b, QuietKeepsRoom DEF AnswerUnusable
<1>5. ASSUME NEW w \in Workers, Replay(w) PROVE BudgetInv'
  BY <1>0, <1>5, <1>c, QuietKeepsRoom DEF Replay
<1>6. ASSUME NEW w \in Workers, CallFails(w) PROVE BudgetInv'
  BY <1>0, <1>6, <1>b, QuietKeepsRoom DEF CallFails
<1>7. ASSUME NEW w \in Workers, RecordCall(w) PROVE BudgetInv'
  <2> DEFINE n == Cardinality(Cleared')
  <2>1. w \in Cleared /\ Cleared' = Cleared \ {w}
    BY <1>a, <1>7 DEF RecordCall, Paid, Cleared, Jobs
  <2>2. Cardinality(Cleared) = n + 1 /\ n \in Nat
    BY <2>1, ClearedIsFinite, ClearedIsFiniteNext, FS_RemoveElement
  <2>3. Cardinality(Cleared) * MaxCost = n * MaxCost + MaxCost
    BY <2>2, RoomOfOneMore
  <2>4. worker[w].cost \in 0..MaxCost /\ spent' = spent + worker[w].cost
    BY <1>a, <1>7 DEF RecordCall, Jobs
  <2>5. n * MaxCost \in Nat /\ Cardinality(Workers) * MaxCost \in Nat
    BY <2>2, ClearedIsFinite, Room
  <2>6. spent \in Nat /\ Cap \in Nat /\ MaxCost \in Nat
    BY <1>0, AgentsAssumption DEF TypeOK
  <2>7. spent + (n * MaxCost + MaxCost) < Cap + Cardinality(Workers) * MaxCost
    BY <2>3 DEF BudgetInv
  <2>8. spent' + n * MaxCost < Cap + Cardinality(Workers) * MaxCost
    <3> HIDE DEF n
    <3> QED BY <2>4, <2>5, <2>6, <2>7
  <2> QED BY <1>0, <2>8 DEF BudgetInv
<1>8. ASSUME NEW w \in Workers, RecordFails(w) PROVE BudgetInv'
  BY <1>0, <1>8, <1>b, QuietKeepsRoom DEF RecordFails
<1>9. ASSUME NEW w \in Workers, PayloadRejected(w) PROVE BudgetInv'
  BY <1>0, <1>9, <1>b, QuietKeepsRoom DEF PayloadRejected
<1>10. ASSUME NEW w \in Workers, Escalate(w) PROVE BudgetInv'
  <2>1. Cleared' \subseteq Cleared
    BY <1>a, <1>10 DEF Escalate, Cleared, Jobs
  <2> QED BY <1>0, <1>10, <2>1, QuietKeepsRoom DEF Escalate
<1>11. ASSUME NEW w \in Workers, SaveTriageResult(w) PROVE BudgetInv'
  BY <1>0, <1>11, <1>b, QuietKeepsRoom DEF SaveTriageResult
<1>12. ASSUME NEW w \in Workers, SaveDraft(w) PROVE BudgetInv'
  BY <1>0, <1>12, <1>b, QuietKeepsRoom DEF SaveDraft
<1>13. CASE UNCHANGED vars
  BY <1>0, <1>13, QuietKeepsRoom DEF vars, Cleared
<1> QED BY <1>1, <1>2, <1>3, <1>4, <1>5, <1>6, <1>7, <1>8, <1>9, <1>10, <1>11,
           <1>12, <1>13 DEF Next, Call, Finish

LEMMA InitBudget == Init => BudgetInv
<1> SUFFICES ASSUME Init PROVE BudgetInv
  OBVIOUS
<1>1. Cleared = {}
  BY DEF Init, Cleared, Resting
<1>2. Cardinality(Cleared) = 0
  BY <1>1, FS_EmptySet
<1>3. 0 * MaxCost = 0 /\ Cardinality(Workers) * MaxCost \in Nat /\ Cap \in Nat \ {0}
  BY ClearedIsFinite, Room, AgentsAssumption
<1>4. spent = 0
  BY DEF Init
<1> QED BY <1>2, <1>3, <1>4, InitTyped DEF BudgetInv

\* The guard keeps room for every call that it has let through and that is not
\* paid for yet (cost.ts, runner.ts).
THEOREM BudgetIsKept == Spec => []BudgetInv
<1>1. Init => BudgetInv
  BY InitBudget
<1>2. BudgetInv /\ [Next]_vars => BudgetInv'
  BY NextBudget
<1> QED BY <1>1, <1>2, PTL DEF Spec

\* A campaign never spends as much as its cap and one call of every agent,
\* whatever the number of agents, the cap and the cost of a call (cost.ts:26-39).
THEOREM OverspendIsBounded == Spec => []SpendIsBounded
<1>1. BudgetInv => SpendIsBounded
  <2> SUFFICES ASSUME BudgetInv PROVE SpendIsBounded
    OBVIOUS
  <2>1. /\ Cardinality(Cleared) * MaxCost \in Nat
        /\ Cardinality(Workers) * MaxCost \in Nat
    BY ClearedIsFinite, Room
  <2>2. spent \in Nat /\ Cap \in Nat
    BY AgentsAssumption DEF BudgetInv, TypeOK
  <2> QED BY <2>1, <2>2 DEF BudgetInv, SpendIsBounded
<1> QED BY <1>1, BudgetIsKept, PTL

-----------------------------------------------------------------------------
\* With the cap reached and no call in flight, no step pays or lets one through.
LEMMA StepStopsAtCap ==
    ASSUME TypeOK, [Next]_vars, spent >= Cap, Cleared = {}
    PROVE  spent' = spent /\ Cleared' = {}
<1>1. /\ worker \in [Workers -> Jobs]
      /\ \A w \in Workers : worker[w].pc \notin {"calling", "recording"}
  BY DEF TypeOK, Cleared
<1>2. ~Affordable
  BY AgentsAssumption DEF TypeOK, Affordable
<1>3. ASSUME NEW w \in Workers, Ends(w) PROVE Cleared' = {}
  BY <1>1, <1>3 DEF Ends, Resting, Cleared
<1>4. ASSUME NEW w \in Workers, NEW purpose \in Purposes, NEW m \in Merchants,
             Start(w, purpose, m)
      PROVE  spent' = spent /\ Cleared' = {}
  BY <1>1, <1>4 DEF Start, Resting, Cleared
<1>5. ASSUME NEW w \in Workers, CheckBudget(w) PROVE spent' = spent /\ Cleared' = {}
  BY <1>2, <1>3, <1>5 DEF CheckBudget
<1>6. ASSUME NEW w \in Workers, Call(w) \/ RecordCall(w) \/ RecordFails(w) PROVE FALSE
  BY <1>1, <1>6 DEF Call, CallAnswers, AnswerUnusable, Replay, CallFails,
                    RecordCall, RecordFails
<1>7. ASSUME NEW w \in Workers, PayloadRejected(w) \/ SaveTriageResult(w) \/ SaveDraft(w)
      PROVE  spent' = spent /\ Cleared' = {}
  BY <1>3, <1>7 DEF PayloadRejected, SaveTriageResult, SaveDraft
<1>8. ASSUME NEW w \in Workers, Escalate(w) PROVE spent' = spent /\ Cleared' = {}
  BY <1>1, <1>8 DEF Escalate, Cleared, Jobs
<1>9. CASE UNCHANGED vars
  BY <1>9 DEF vars, Cleared
<1> QED BY <1>4, <1>5, <1>6, <1>7, <1>8, <1>9 DEF Next, Finish

\* Once the recorded spend reaches the cap and the calls in flight have been
\* paid for, the campaign's spend is final (cost.ts:26-39, runner.ts:43-56).
THEOREM SpendIsFinalAtCap == Spec => SpendStopsAtCap
<1>1. BudgetInv => TypeOK
  BY DEF BudgetInv
<1>2. TypeOK /\ [Next]_vars =>
        [spent >= Cap /\ Cleared = {} => spent' = spent /\ Cleared' = {}]_vars
  BY StepStopsAtCap
<1> QED BY <1>1, <1>2, BudgetIsKept, PTL DEF Spec, SpendStopsAtCap
-----------------------------------------------------------------------------
(* Replay of what was recorded. *)

\* What makes the replay of results inductive: an agent that has an answer has
\* it on disk, and one that escalated has the first answer on disk as well.
AnswersAreOnDisk ==
    mode = "record" =>
        \A w \in Workers :
            /\ worker[w].pc \in {"recording", "parsing"} =>
                  OnDisk(worker[w].purpose, worker[w].merchant)
            /\ worker[w].pc # "idle" /\ worker[w].purpose = "triage_escalation" =>
                  OnDisk("triage", worker[w].merchant)

ReplayInv == ResultsCanBeReplayed /\ AnswersAreOnDisk

\* An agent changes only what it does; an answer on disk stays there.
LEMMA StepOfOne ==
    ASSUME TypeOK, NEW w \in Workers, NEW job,
           worker' = [worker EXCEPT ![w] = job],
           mode' = mode, fixtures' = fixtures,
           ReplayInv,
           job.pc \in {"recording", "parsing"} /\ mode = "record" =>
               OnDisk(job.purpose, job.merchant),
           job.pc # "idle" /\ job.purpose = "triage_escalation" /\ mode = "record" =>
               OnDisk("triage", job.merchant)
    PROVE  AnswersAreOnDisk'
<1>1. /\ worker'[w] = job
      /\ \A v \in Workers \ {w} : worker'[v] = worker[v]
  BY DEF TypeOK
<1> QED BY <1>1 DEF ReplayInv, AnswersAreOnDisk, OnDisk

LEMMA EndsAnswers ==
    ASSUME TypeOK, ReplayInv, NEW w \in Workers, Ends(w),
           mode' = mode, fixtures' = fixtures
    PROVE  AnswersAreOnDisk'
BY StepOfOne DEF Ends, Resting

LEMMA ResultsStay ==
    ASSUME ReplayInv, UNCHANGED <<mode, fixtures, triage, drafts>>
    PROVE  ResultsCanBeReplayed'
BY DEF ReplayInv, ResultsCanBeReplayed, OnDisk

\* The answer is written before the agent has it, under its own request.
LEMMA AnswerKeepsReplay ==
    ASSUME TypeOK, ReplayInv, NEW w \in Workers, CallAnswers(w)
    PROVE  ReplayInv'
<1>1. PICK cost \in Costs :
        /\ AnsweredAt(w, cost)
        /\ fixtures' = IF mode = "record"
                       THEN [fixtures EXCEPT ![Request(w)] = cost] ELSE fixtures
  BY DEF CallAnswers
<1>2. /\ UNCHANGED <<mode, triage, drafts>>
      /\ worker[w].pc = "calling"
      /\ worker[w] \in Jobs /\ worker[w].merchant \in Merchants
      /\ cost # 0
      /\ fixtures \in [Requests -> 0..MaxCost]
  BY AgentsAssumption DEF CallAnswers, TypeOK, Costs
<1>3. Request(w) \in Requests
  BY <1>2 DEF Request, Requests, Jobs
<1>4. \A p \in Purposes, m \in Merchants :
        OnDisk(p, m) => fixtures'[<<p, m>>] # 0
  BY <1>1, <1>2, <1>3 DEF OnDisk, Requests
<1>5. mode = "record" => fixtures'[<<worker[w].purpose, worker[w].merchant>>] # 0
  BY <1>1, <1>2, <1>3 DEF Request
<1>6. /\ worker'[w].purpose = worker[w].purpose
      /\ worker'[w].merchant = worker[w].merchant
      /\ \A v \in Workers \ {w} : worker'[v] = worker[v]
  BY <1>1, <1>2 DEF AnsweredAt, TypeOK, Jobs
<1>7. ResultsCanBeReplayed'
  BY <1>2, <1>4 DEF ReplayInv, ResultsCanBeReplayed, OnDisk, Purposes
<1>8. ASSUME mode = "record", NEW v \in Workers
      PROVE  /\ worker'[v].pc \in {"recording", "parsing"} =>
                   fixtures'[<<worker'[v].purpose, worker'[v].merchant>>] # 0
             /\ worker'[v].pc # "idle" /\ worker'[v].purpose = "triage_escalation" =>
                   fixtures'[<<"triage", worker'[v].merchant>>] # 0
  <2>1. CASE v = w
    <3>1. worker[w].purpose = "triage_escalation" => OnDisk("triage", worker[w].merchant)
      BY <1>2, <1>8 DEF ReplayInv, AnswersAreOnDisk
    <3> QED BY <1>2, <1>4, <1>5, <1>6, <1>8, <2>1, <3>1 DEF Purposes
  <2>2. CASE v # w
    <3>1. worker'[v] = worker[v] /\ worker[v].purpose \in Purposes
      BY <1>6, <2>2 DEF TypeOK, Jobs
    <3>2. worker[v].pc # "idle" => worker[v].merchant \in Merchants
      BY DEF TypeOK
    <3>3. /\ worker[v].pc \in {"recording", "parsing"} =>
                OnDisk(worker[v].purpose, worker[v].merchant)
          /\ worker[v].pc # "idle" /\ worker[v].purpose = "triage_escalation" =>
                OnDisk("triage", worker[v].merchant)
      BY <1>8 DEF ReplayInv, AnswersAreOnDisk
    <3> QED BY <1>4, <3>1, <3>2, <3>3 DEF Purposes
  <2> QED BY <2>1, <2>2
<1>9. AnswersAreOnDisk'
  BY <1>2, <1>8 DEF AnswersAreOnDisk, OnDisk
<1> QED BY <1>7, <1>9 DEF ReplayInv

\* What is saved was parsed, and what is parsed is on disk.
LEMMA SaveKeepsReplay ==
    ASSUME TypeOK, ReplayInv, NEW w \in Workers, SaveTriageResult(w) \/ SaveDraft(w)
    PROVE  ReplayInv'
<1> DEFINE m == worker[w].merchant
<1>1. /\ mode' = mode /\ fixtures' = fixtures /\ Ends(w)
      /\ worker[w].pc = "parsing" /\ worker[w] \in Jobs
  BY DEF SaveTriageResult, SaveDraft, TypeOK
<1>2. mode = "record" =>
        /\ OnDisk(worker[w].purpose, m)
        /\ worker[w].purpose = "triage_escalation" => OnDisk("triage", m)
  BY <1>1 DEF ReplayInv, AnswersAreOnDisk
<1>3. CASE SaveTriageResult(w)
  <2>1. worker[w].purpose \in {"triage", "triage_escalation"}
    BY <1>1, <1>3 DEF SaveTriageResult, Jobs, Purposes
  <2>2. /\ drafts' = drafts
        /\ \A n \in Merchants \ {m} : triage'[n] = triage[n]
        /\ m \in Merchants =>
              triage'[m].escalated <=> worker[w].purpose = "triage_escalation"
    BY <1>3 DEF SaveTriageResult, TypeOK
  <2>3. ResultsCanBeReplayed'
    BY <1>1, <1>2, <2>1, <2>2 DEF ReplayInv, ResultsCanBeReplayed, OnDisk
  <2> QED BY <1>1, <2>3, EndsAnswers DEF ReplayInv
<1>4. CASE SaveDraft(w)
  <2>1. /\ triage' = triage /\ worker[w].purpose = "draft"
        /\ \A n \in Merchants \ {m} : drafts'[n] = drafts[n]
    BY <1>4 DEF SaveDraft, TypeOK
  <2>2. ResultsCanBeReplayed'
    BY <1>1, <1>2, <2>1 DEF ReplayInv, ResultsCanBeReplayed, OnDisk
  <2> QED BY <1>1, <2>2, EndsAnswers DEF ReplayInv
<1> QED BY <1>3, <1>4

LEMMA NextReplay == TypeOK /\ ReplayInv /\ [Next]_vars => ReplayInv'
<1> SUFFICES ASSUME TypeOK, ReplayInv, [Next]_vars PROVE ReplayInv'
  OBVIOUS
<1>1. ASSUME NEW w \in Workers, Ends(w), UNCHANGED <<mode, fixtures, triage, drafts>>
      PROVE  ReplayInv'
  BY <1>1, EndsAnswers, ResultsStay DEF ReplayInv
<1>2. ASSUME NEW w \in Workers, NEW purpose \in Purposes, NEW m \in Merchants,
             Start(w, purpose, m)
      PROVE  ReplayInv'
  <2> DEFINE job == [Resting EXCEPT !.pc = "guard", !.purpose = purpose, !.merchant = m]
  <2>1. job.pc = "guard" /\ job.purpose # "triage_escalation"
    BY <1>2 DEF Start, Resting
  <2>2. worker' = [worker EXCEPT ![w] = job] /\ UNCHANGED <<mode, fixtures, triage, drafts>>
    BY <1>2 DEF Start
  <2> HIDE DEF job
  <2>3. AnswersAreOnDisk'
    BY <2>1, <2>2, StepOfOne
  <2> QED BY <2>2, <2>3, ResultsStay DEF ReplayInv
<1>3. ASSUME NEW w \in Workers, NEW job, worker[w] \in Jobs,
             worker[w].pc # "idle",
             worker' = [worker EXCEPT ![w] = job],
             job.merchant = worker[w].merchant,
             \/ /\ job.pc \in {"guard", "calling"}
                /\ job.purpose = worker[w].purpose
             \/ /\ worker[w].pc \in {"recording", "parsing"}
                /\ worker[w].purpose = "triage"
                /\ job.pc = "guard"
                /\ job.purpose = "triage_escalation"
             \/ /\ worker[w].pc = "recording"
                /\ job.pc = "parsing"
                /\ job.purpose = worker[w].purpose,
             UNCHANGED <<mode, fixtures, triage, drafts>>
      PROVE  ReplayInv'
  <2>1. mode = "record" =>
          /\ worker[w].pc \in {"recording", "parsing"} =>
                OnDisk(worker[w].purpose, worker[w].merchant)
          /\ worker[w].purpose = "triage_escalation" =>
                OnDisk("triage", worker[w].merchant)
    BY <1>3 DEF ReplayInv, AnswersAreOnDisk
  <2>2. AnswersAreOnDisk'
    BY <1>3, <2>1, StepOfOne
  <2> QED BY <1>3, <2>2, ResultsStay DEF ReplayInv
<1>a. worker \in [Workers -> Jobs]
  BY DEF TypeOK
<1>4. ASSUME NEW w \in Workers, CheckBudget(w) PROVE ReplayInv'
  <2>1. CASE Affordable
    <3> DEFINE job == [worker[w] EXCEPT !.pc = "calling"]
    <3>1. /\ job.pc = "calling" /\ job.purpose = worker[w].purpose
          /\ job.merchant = worker[w].merchant
      BY <1>a DEF Jobs
    <3>2. /\ worker' = [worker EXCEPT ![w] = job] /\ worker[w].pc = "guard"
          /\ UNCHANGED <<mode, fixtures, triage, drafts>>
      BY <1>4, <1>a, <2>1 DEF CheckBudget, Goes
    <3> HIDE DEF job
    <3> QED BY <1>3, <1>a, <3>1, <3>2
  <2>2. CASE ~Affordable
    BY <1>1, <1>4, <2>2 DEF CheckBudget
  <2> QED BY <2>1, <2>2
<1>5. ASSUME NEW w \in Workers, CallAnswers(w) PROVE ReplayInv'
  BY <1>5, AnswerKeepsReplay
<1>6. ASSUME NEW w \in Workers,
             AnswerUnusable(w) \/ CallFails(w) \/ RecordFails(w) \/ PayloadRejected(w)
      PROVE  ReplayInv'
  BY <1>1, <1>6 DEF AnswerUnusable, CallFails, RecordFails, PayloadRejected
<1>7. ASSUME NEW w \in Workers, Replay(w) PROVE ReplayInv'
  <2>1. mode = "fixture" /\ UNCHANGED <<mode, fixtures, triage, drafts>>
    BY <1>7 DEF Replay
  <2> QED BY <2>1 DEF ReplayInv, ResultsCanBeReplayed, AnswersAreOnDisk
<1>8. ASSUME NEW w \in Workers, RecordCall(w) PROVE ReplayInv'
  <2> DEFINE job == Paid(worker[w])
  <2>1. /\ job.pc = "parsing" /\ job.purpose = worker[w].purpose
        /\ job.merchant = worker[w].merchant
    BY <1>a DEF Jobs, Paid
  <2>2. /\ worker' = [worker EXCEPT ![w] = job] /\ worker[w].pc = "recording"
        /\ UNCHANGED <<mode, fixtures, triage, drafts>>
    BY <1>8 DEF RecordCall
  <2> HIDE DEF job
  <2> QED BY <1>3, <1>a, <2>1, <2>2
<1>9. ASSUME NEW w \in Workers, Escalate(w) PROVE ReplayInv'
  <2> DEFINE job == [worker[w] EXCEPT !.pc = "guard", !.purpose = "triage_escalation"]
  <2>1. /\ job.pc = "guard" /\ job.purpose = "triage_escalation"
        /\ job.merchant = worker[w].merchant
    BY <1>a DEF Jobs
  <2>2. /\ worker' = [worker EXCEPT ![w] = job]
        /\ worker[w].pc = "parsing" /\ worker[w].purpose = "triage"
        /\ UNCHANGED <<mode, fixtures, triage, drafts>>
    BY <1>9, <1>a DEF Escalate
  <2> HIDE DEF job
  <2> QED BY <1>3, <1>a, <2>1, <2>2
<1>10. ASSUME NEW w \in Workers, SaveTriageResult(w) \/ SaveDraft(w) PROVE ReplayInv'
  BY <1>10, SaveKeepsReplay
<1>11. CASE UNCHANGED vars
  BY <1>11 DEF vars, ReplayInv, ResultsCanBeReplayed, AnswersAreOnDisk, OnDisk
<1> QED BY <1>2, <1>4, <1>5, <1>6, <1>7, <1>8, <1>9, <1>10, <1>11
        DEF Next, Call, Finish

\* Whatever agents record in record mode, of calls, retries and escalations, the
\* results they leave can be produced again without the API (llm.ts:191-205).
THEOREM RecordedIsReplayable == Spec => []ResultsCanBeReplayed
<1>1. Init => ReplayInv
  BY DEF Init, Resting, ReplayInv, ResultsCanBeReplayed, AnswersAreOnDisk
<1>2. TypeOK /\ ReplayInv /\ [Next]_vars => ReplayInv'
  BY NextReplay
<1>3. BudgetInv => TypeOK
  BY DEF BudgetInv
<1>4. ReplayInv => ResultsCanBeReplayed
  BY DEF ReplayInv
<1> QED BY <1>1, <1>2, <1>3, <1>4, BudgetIsKept, PTL DEF Spec

-----------------------------------------------------------------------------
(* The accounts. *)

\* The three sums are of numbers over finite sets.
LEMMA TermsTyped ==
    ASSUME TypeOK
    PROVE  /\ \A m \in Merchants : TriageCosts[m] \in Nat /\ drafts[m] \in Nat
           /\ \A w \in Workers : Usages[w] \in Nat
           /\ DOMAIN TriageCosts = Merchants /\ DOMAIN drafts = Merchants
           /\ DOMAIN Usages = Workers
BY DEF TypeOK, TriageCosts, TriageCost, Usages, TriageResults, Jobs

LEMMA SumsTyped ==
    ASSUME TypeOK
    PROVE  /\ SumFunction(TriageCosts) \in Int
           /\ SumFunction(drafts) \in Int
           /\ SumFunction(Usages) \in Int
<1>1. /\ \A m \in Merchants : TriageCosts[m] \in Int /\ drafts[m] \in Int
      /\ \A w \in Workers : Usages[w] \in Int
      /\ IsFiniteSet(Merchants) /\ IsFiniteSet(Workers)
  BY TermsTyped, AgentsAssumption
<1>2. /\ SumFunctionOnSet(TriageCosts, Merchants) \in Int
      /\ SumFunctionOnSet(drafts, Merchants) \in Int
      /\ SumFunctionOnSet(Usages, Workers) \in Int
  BY <1>1, SumOneStep
<1> QED BY <1>2, TermsTyped DEF SumFunction

\* An agent's new job changes the agents' total by what it adds to its usage.
LEMMA UsageChangesBy ==
    ASSUME TypeOK, TypeOK', NEW w \in Workers, NEW job,
           worker' = [worker EXCEPT ![w] = job]
    PROVE  /\ SumFunction(Usages)' = SumFunction(Usages) - worker[w].usage + job.usage
           /\ job.usage \in Nat /\ worker[w].usage \in Nat
<1>1. worker'[w] = job /\ \A v \in Workers \ {w} : worker'[v] = worker[v]
  BY DEF TypeOK
<1>2. /\ \A v \in Workers : Usages[v] \in Int /\ Usages'[v] \in Int
      /\ \A v \in Workers \ {w} : Usages'[v] = Usages[v]
      /\ Usages[w] = worker[w].usage /\ Usages'[w] = job.usage
      /\ DOMAIN Usages = Workers /\ DOMAIN Usages' = Workers
      /\ Usages[w] \in Nat /\ Usages'[w] \in Nat
  BY <1>1 DEF TypeOK, Usages, Jobs
<1>3. IsFiniteSet(Workers)
  BY AgentsAssumption
<1>4. SumFunctionOnSet(Usages', Workers)
        = SumFunctionOnSet(Usages, Workers) - Usages[w] + Usages'[w]
  BY <1>2, <1>3, SumChangesBy
<1> QED BY <1>2, <1>4 DEF SumFunction

\* An agent that comes to rest, or begins anew, or goes on with its usage, adds nothing.
LEMMA QuietKeepsAccounts ==
    ASSUME TypeOK, TypeOK', ResultsAreAccounted, NEW w \in Workers, NEW job,
           worker' = [worker EXCEPT ![w] = job],
           job.usage <= worker[w].usage,
           UNCHANGED <<spent, triage, drafts>>
    PROVE  ResultsAreAccounted'
<1>1. SumFunction(Usages)' = SumFunction(Usages) - worker[w].usage + job.usage
  BY UsageChangesBy
<1>2. TriageCosts' = TriageCosts /\ drafts' = drafts
  BY DEF TriageCosts, TriageCost
<1>3. /\ worker[w].usage \in Nat /\ job.usage \in Nat
      /\ SumFunction(TriageCosts) \in Int /\ SumFunction(drafts) \in Int
      /\ SumFunction(Usages) \in Int /\ spent \in Nat
  BY UsageChangesBy, SumsTyped DEF TypeOK
<1>4. SumFunction(TriageCosts)' = SumFunction(TriageCosts)
      /\ SumFunction(drafts)' = SumFunction(drafts)
  BY <1>2
<1> QED BY <1>1, <1>3, <1>4 DEF ResultsAreAccounted

\* What is saved was in the agent's usage, and takes the place of what was saved before.
LEMMA SaveKeepsAccounts ==
    ASSUME TypeOK, TypeOK', ResultsAreAccounted, NEW w \in Workers,
           SaveTriageResult(w) \/ SaveDraft(w)
    PROVE  ResultsAreAccounted'
<1> DEFINE m == worker[w].merchant
           u == worker[w].usage
<1>1. /\ worker' = [worker EXCEPT ![w] = Resting] /\ Resting.usage = 0 /\ spent' = spent
      /\ m \in Merchants
  BY DEF SaveTriageResult, SaveDraft, Ends, Resting, TypeOK
<1>2. SumFunction(Usages)' = SumFunction(Usages) - u /\ u \in Nat
  <2>1. SumFunction(Usages)' = SumFunction(Usages) - u + 0 /\ u \in Nat
    BY <1>1, UsageChangesBy
  <2> QED BY <2>1, SumsTyped
<1>3. /\ SumFunction(TriageCosts) \in Int /\ SumFunction(drafts) \in Int
      /\ SumFunction(Usages) \in Int /\ spent \in Nat
  BY SumsTyped DEF TypeOK
<1>4. IsFiniteSet(Merchants)
  BY AgentsAssumption
<1>5. CASE SaveTriageResult(w)
  <2>1. /\ \A n \in Merchants : TriageCosts[n] \in Int /\ TriageCosts'[n] \in Int
        /\ \A n \in Merchants \ {m} : TriageCosts'[n] = TriageCosts[n]
        /\ TriageCosts'[m] = u /\ TriageCosts[m] \in Nat
        /\ DOMAIN TriageCosts = Merchants /\ DOMAIN TriageCosts' = Merchants
    <3>1. /\ triage' = [triage EXCEPT ![m] = [cost |-> u,
                           escalated |-> worker[w].purpose = "triage_escalation"]]
          /\ [cost |-> u, escalated |-> worker[w].purpose = "triage_escalation"] \in TriageResults
      BY <1>2, <1>5 DEF SaveTriageResult, TriageResults
    <3>2. /\ triage'[m].cost = u /\ triage'[m] # None
          /\ \A n \in Merchants \ {m} : triage'[n] = triage[n]
      BY <1>1, <3>1, NoneIsNoResult DEF TypeOK
    <3>3. /\ \A n \in Merchants \ {m} : TriageCosts'[n] = TriageCosts[n]
          /\ TriageCosts'[m] = u
          /\ DOMAIN TriageCosts' = Merchants
      BY <1>1, <3>2 DEF TriageCosts, TriageCost
    <3>4. \A n \in Merchants : TriageCosts[n] \in Nat
      BY TermsTyped
    <3>5. DOMAIN TriageCosts = Merchants
      BY TermsTyped
    <3> HIDE DEF m, u
    <3> QED BY <1>1, <1>2, <3>3, <3>4, <3>5
  <2>2. SumFunctionOnSet(TriageCosts', Merchants)
          = SumFunctionOnSet(TriageCosts, Merchants) - TriageCosts[m] + TriageCosts'[m]
    BY <1>1, <1>4, <2>1, SumChangesBy
  <2>3. SumFunction(TriageCosts)' = SumFunction(TriageCosts) - TriageCosts[m] + u
    BY <2>1, <2>2 DEF SumFunction
  <2>4. SumFunction(drafts)' = SumFunction(drafts)
    BY <1>5 DEF SaveTriageResult
  <2>5. TriageCosts[m] \in Nat
    BY <2>1
  <2> HIDE DEF m, u
  <2> QED BY <1>1, <1>2, <1>3, <2>3, <2>4, <2>5 DEF ResultsAreAccounted
<1>6. CASE SaveDraft(w)
  <2>1. /\ \A n \in Merchants : drafts[n] \in Int /\ drafts'[n] \in Int
        /\ \A n \in Merchants \ {m} : drafts'[n] = drafts[n]
        /\ drafts'[m] = drafts[m] + u /\ drafts[m] \in Nat
        /\ DOMAIN drafts = Merchants /\ DOMAIN drafts' = Merchants
    BY <1>1, <1>6 DEF SaveDraft, TypeOK
  <2>2. SumFunctionOnSet(drafts', Merchants)
          = SumFunctionOnSet(drafts, Merchants) - drafts[m] + drafts'[m]
    BY <1>1, <1>4, <2>1, SumChangesBy
  <2>3. SumFunction(drafts)' = SumFunction(drafts) - drafts[m] + (drafts[m] + u)
    BY <2>1, <2>2 DEF SumFunction
  <2>4. SumFunction(TriageCosts)' = SumFunction(TriageCosts)
    BY <1>6 DEF SaveDraft, TriageCosts, TriageCost
  <2>5. drafts[m] \in Nat
    BY <2>1
  <2> HIDE DEF m, u
  <2> QED BY <1>1, <1>2, <1>3, <2>3, <2>4, <2>5 DEF ResultsAreAccounted
<1> QED BY <1>5, <1>6

LEMMA NextAccounts ==
    ASSUME TypeOK, TypeOK', ResultsAreAccounted, [Next]_vars
    PROVE  ResultsAreAccounted'
<1>a. worker \in [Workers -> Jobs] /\ Resting.usage = 0
  BY DEF TypeOK, Resting
<1>b. ASSUME NEW w \in Workers PROVE worker[w].usage \in Nat
  BY <1>a DEF Jobs
<1>1. ASSUME NEW w \in Workers, Ends(w), UNCHANGED <<spent, triage, drafts>>
      PROVE  ResultsAreAccounted'
  <2>1. Resting.usage <= worker[w].usage
    BY <1>a, <1>b
  <2> QED BY <1>1, <2>1, QuietKeepsAccounts DEF Ends
<1>2. ASSUME NEW w \in Workers, NEW purpose \in Purposes, NEW m \in Merchants,
             Start(w, purpose, m)
      PROVE  ResultsAreAccounted'
  <2> DEFINE job == [Resting EXCEPT !.pc = "guard", !.purpose = purpose, !.merchant = m]
  <2>1. job.usage <= worker[w].usage
    BY <1>b DEF Resting
  <2>2. worker' = [worker EXCEPT ![w] = job] /\ UNCHANGED <<spent, triage, drafts>>
    BY <1>2 DEF Start
  <2> HIDE DEF job
  <2> QED BY <2>1, <2>2, QuietKeepsAccounts
<1>3. ASSUME NEW w \in Workers, NEW job, worker' = [worker EXCEPT ![w] = job],
             job.usage = worker[w].usage, UNCHANGED <<spent, triage, drafts>>
      PROVE  ResultsAreAccounted'
  <2>1. job.usage <= worker[w].usage
    BY <1>3, <1>b
  <2> QED BY <1>3, <2>1, QuietKeepsAccounts
<1>4. ASSUME NEW w \in Workers, CheckBudget(w) PROVE ResultsAreAccounted'
  <2>1. CASE Affordable
    <3> DEFINE job == [worker[w] EXCEPT !.pc = "calling"]
    <3>1. worker' = [worker EXCEPT ![w] = job] /\ job.usage = worker[w].usage
      BY <1>4, <1>a, <2>1 DEF CheckBudget, Goes, Jobs
    <3> HIDE DEF job
    <3> QED BY <1>3, <1>4, <3>1 DEF CheckBudget
  <2>2. CASE ~Affordable
    BY <1>1, <1>4, <2>2 DEF CheckBudget
  <2> QED BY <2>1, <2>2
<1>5. ASSUME NEW w \in Workers, NEW cost, AnsweredAt(w, cost),
             UNCHANGED <<spent, triage, drafts>>
      PROVE  ResultsAreAccounted'
  <2> DEFINE job == [worker[w] EXCEPT !.pc = "recording", !.cost = cost]
  <2>1. worker' = [worker EXCEPT ![w] = job] /\ job.usage = worker[w].usage
    BY <1>5, <1>a DEF AnsweredAt, Jobs
  <2> HIDE DEF job
  <2> QED BY <1>3, <1>5, <2>1
<1>6. ASSUME NEW w \in Workers, RecordCall(w) PROVE ResultsAreAccounted'
  <2> DEFINE job == Paid(worker[w])
             cost == worker[w].cost
  <2>1. /\ worker' = [worker EXCEPT ![w] = job]
        /\ job.usage = worker[w].usage + cost /\ cost \in Nat
        /\ spent' = spent + cost /\ triage' = triage /\ drafts' = drafts
    BY <1>6, <1>a, AgentsAssumption DEF RecordCall, Paid, Jobs
  <2> HIDE DEF job, cost
  <2>2. SumFunction(Usages)' = SumFunction(Usages) - worker[w].usage + job.usage
    BY <2>1, UsageChangesBy
  <2>3. SumFunction(TriageCosts)' = SumFunction(TriageCosts)
        /\ SumFunction(drafts)' = SumFunction(drafts)
    BY <2>1 DEF TriageCosts, TriageCost
  <2>4. /\ SumFunction(TriageCosts) \in Int /\ SumFunction(drafts) \in Int
        /\ SumFunction(Usages) \in Int /\ spent \in Nat
    BY SumsTyped DEF TypeOK
  <2> QED BY <1>b, <2>1, <2>2, <2>3, <2>4 DEF ResultsAreAccounted
<1>7. ASSUME NEW w \in Workers, Escalate(w) PROVE ResultsAreAccounted'
  <2> DEFINE job == [worker[w] EXCEPT !.pc = "guard", !.purpose = "triage_escalation"]
  <2>1. worker' = [worker EXCEPT ![w] = job] /\ job.usage = worker[w].usage
    BY <1>7, <1>a DEF Escalate, Jobs
  <2> HIDE DEF job
  <2> QED BY <1>3, <1>7, <2>1 DEF Escalate
<1>8. ASSUME NEW w \in Workers, Call(w) PROVE ResultsAreAccounted'
  BY <1>1, <1>5, <1>8 DEF Call, CallAnswers, AnswerUnusable, Replay, CallFails
<1>9. ASSUME NEW w \in Workers, RecordFails(w) \/ PayloadRejected(w)
      PROVE  ResultsAreAccounted'
  BY <1>1, <1>9 DEF RecordFails, PayloadRejected
<1>10. ASSUME NEW w \in Workers, SaveTriageResult(w) \/ SaveDraft(w)
       PROVE  ResultsAreAccounted'
  BY <1>10, SaveKeepsAccounts
<1>11. CASE UNCHANGED vars
  BY <1>11 DEF vars, ResultsAreAccounted, TriageCosts, TriageCost, Usages
<1> QED BY <1>2, <1>4, <1>6, <1>7, <1>8, <1>9, <1>10, <1>11 DEF Next, Finish

\* At the start nothing has cost anything.
LEMMA InitAccounts == Init => ResultsAreAccounted
<1> SUFFICES ASSUME Init PROVE ResultsAreAccounted
  OBVIOUS
<1>1. ASSUME NEW S, IsFiniteSet(S), NEW g, \A x \in S : g[x] = 0
      PROVE  SumFunctionOnSet(g, S) = 0
  <2> DEFINE Zero == {s \in SUBSET S : SumFunctionOnSet(g, s) = 0}
             rank == [s \in SUBSET S |-> Cardinality(s)]
  <2>1. rank \in [SUBSET S -> Nat]
    BY <1>1, FS_Subset, FS_CardinalityType
  <2>2. ASSUME NEW s \in SUBSET S, \A e \in SUBSET S : rank[e] < rank[s] => e \in Zero
        PROVE  s \in Zero
    <3>1. IsFiniteSet(s) /\ \A x \in s : g[x] \in Int
      BY <1>1, FS_Subset
    <3>2. CASE s = {}
      <4>1. SumFunctionOnSet(g, s) = 0
        BY <3>1, <3>2, SumOneStep
      <4> QED BY <4>1
    <3>3. CASE s # {}
      <4>1. PICK x \in s : SumFunctionOnSet(g, s) = g[x] + SumFunctionOnSet(g, s \ {x})
        BY <3>1, <3>3, SumOneStep
      <4>2. rank[s \ {x}] < rank[s]
        BY <3>1, OneOut
      <4>3. s \ {x} \in Zero
        <5> HIDE DEF Zero, rank
        <5> QED BY <2>2, <4>2
      <4> QED BY <1>1, <4>1, <4>3
    <3> QED BY <3>2, <3>3
  <2>3. SUBSET S \subseteq Zero
    <3> HIDE DEF Zero, rank
    <3> QED BY <2>1, <2>2, RankInduction
  <2> QED BY <2>3
<1>2. /\ \A m \in Merchants : TriageCosts[m] = 0 /\ drafts[m] = 0
      /\ \A w \in Workers : Usages[w] = 0
      /\ spent = 0
      /\ DOMAIN TriageCosts = Merchants /\ DOMAIN drafts = Merchants
      /\ DOMAIN Usages = Workers
  BY DEF Init, TriageCosts, TriageCost, Usages, Resting
<1>3. /\ SumFunctionOnSet(TriageCosts, Merchants) = 0
      /\ SumFunctionOnSet(drafts, Merchants) = 0
      /\ SumFunctionOnSet(Usages, Workers) = 0
  BY <1>1, <1>2, AgentsAssumption
<1> QED BY <1>2, <1>3 DEF ResultsAreAccounted, SumFunction

\* What the results and the running jobs say they cost, re-runs and escalations
\* included, is in llm_calls, for any number of agents and merchants (runner.ts:4-6,
\* triage.ts:96-99).
THEOREM ResultsAreInAccounts == Spec => []ResultsAreAccounted
<1>1. TypeOK /\ TypeOK' /\ ResultsAreAccounted /\ [Next]_vars => ResultsAreAccounted'
  BY NextAccounts
<1>2. BudgetInv => TypeOK
  BY DEF BudgetInv
<1> QED BY <1>1, <1>2, InitAccounts, BudgetIsKept, PTL DEF Spec
=============================================================================
