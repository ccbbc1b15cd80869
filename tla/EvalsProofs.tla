------------------------------ MODULE EvalsProofs ------------------------------
(***************************************************************************)
(* What the evaluation suite promises, for any drafts, gates, prompts,     *)
(* scores and costs, and any corpus of at most ninety drafts.              *)
(***************************************************************************)
EXTENDS EvalsProperties, FiniteSetTheorems, TLAPS

LEMMA DraftsAndPrompts ==
    /\ Len(Drafts) \in Nat \ {0} /\ \A i \in 1..Len(Drafts) : Drafts[i] \in Range(Drafts)
    /\ 1 \in DOMAIN Prompts /\ \A i \in DOMAIN Prompts : Prompts[i] \in Range(Prompts)
BY EvalsAssumption DEF Range

\* A key names a request of the prompt in force.
LEMMA KeyTyped ==
    ASSUME prompt \in DOMAIN Prompts, NEW draft \in Range(Drafts)
    PROVE  FixtureKey(draft) \in Keys /\ FixtureKey(draft)[1] = Prompts[prompt]
BY DraftsAndPrompts DEF FixtureKey, Keys

\* The verdict depends on nothing but the files.
LEMMA VerdictOfFiles == UNCHANGED files => Verdict' = Verdict
<1> SUFFICES ASSUME UNCHANGED files PROVE Verdict' = Verdict
  OBVIOUS
<1>1. Replayed' = Replayed /\ JudgeMean' = JudgeMean
  BY DEF files, Replayed, CanReplay, JudgeMean, FixtureKey
<1>2. Measured' = Measured
  BY <1>1 DEF files, Measured, HallucinationRate, GatePassRate, Hallucinated
<1>3. \A m \in METRICS : Status(m)' = Status(m)
  BY <1>2 DEF Status, files
<1> QED BY <1>3 DEF Verdict

-----------------------------------------------------------------------------
LEMMA InitHolds == Init => EvalsInv
<1> SUFFICES ASSUME Init PROVE EvalsInv
  OBVIOUS
<1>1. TypeOK
  BY DraftsAndPrompts, EvalsAssumption DEF Init, TypeOK, Recorded, Idle
<1>2. FixturesAnswerTheirKeys
  BY DEF Init, FixturesAnswerTheirKeys
<1>3. VerdictIsCurrent
  BY DEF Init, VerdictIsCurrent
<1>4. BaselineWasMeasured
  BY DEF Init, BaselineWasMeasured, Recorded, Measured, HallucinationRate
<1>5. SpendIsCounted
  BY EvalsAssumption DEF Init, SpendIsCounted, Idle, Judging
<1> QED BY <1>1, <1>2, <1>3, <1>4, <1>5 DEF EvalsInv

\* A step that changes no file and leaves the verdict keeps all that is said of them.
LEMMA JudgeAlone ==
    ASSUME EvalsInv, UNCHANGED <<files, verdict>>, SpendIsCounted',
           judge' \in [mode : {"idle", "record", "live"}, at : 1..(Len(Drafts) + 1),
                       spent : Nat, charged : Nat]
    PROVE  EvalsInv'
<1>1. TypeOK'
  BY DEF EvalsInv, TypeOK, files
<1>2. FixturesAnswerTheirKeys'
  BY DEF EvalsInv, FixturesAnswerTheirKeys, files
<1>3. VerdictIsCurrent'
  BY VerdictOfFiles DEF EvalsInv, VerdictIsCurrent, files
<1>4. BaselineWasMeasured'
  BY DEF EvalsInv, BaselineWasMeasured, files
<1> QED BY <1>1, <1>2, <1>3, <1>4 DEF EvalsInv

\* What the judge becomes when it stops.
LEMMA StoppedIsCounted ==
    ASSUME EvalsInv, Judging, NEW cost \in 0..MaxCost, cost # 0 => WithinCap,
           judge' = Stopped(cost)
    PROVE  /\ judge' \in [mode : {"idle", "record", "live"}, at : 1..(Len(Drafts) + 1),
                          spent : Nat, charged : Nat]
           /\ SpendIsCounted'
<1> USE DraftsAndPrompts, EvalsAssumption DEF EvalsInv, TypeOK
<1>1. judge' = [mode |-> judge.mode, at |-> Len(Drafts) + 1, spent |-> judge.spent,
                charged |-> judge.charged + cost]
  BY DEF Stopped
<1>2. judge.charged + cost < MaxCostUsd + MaxCost
  BY DEF SpendIsCounted, Judging, WithinCap
<1>3. ~Judging' /\ judge'.mode # "idle"
  BY <1>1 DEF Judging
<1> QED BY <1>1, <1>2, <1>3 DEF SpendIsCounted

\* An answer recorded under the key of its request.
LEMMA AnsweredTyped ==
    ASSUME EvalsInv, Judging, NEW score \in Scores \cup {Unusable}, fixtures' = Answered(score)
    PROVE  /\ fixtures' \in [Keys -> Answers \cup {None}]
           /\ FixturesAnswerTheirKeys'
<1> USE DEF EvalsInv, TypeOK
<1> DEFINE key == FixtureKey(Drafts[judge.at])
           answer == [asked |-> Prompts[prompt], score |-> score]
<1>1. Drafts[judge.at] \in Range(Drafts)
  BY DraftsAndPrompts DEF Judging
<1>2. key \in Keys /\ key[1] = Prompts[prompt]
  BY <1>1, KeyTyped
<1>3. answer \in Answers
  BY DraftsAndPrompts DEF Answers
<1>4. fixtures' = fixtures \/ fixtures' = [fixtures EXCEPT ![key] = answer]
  BY DEF Answered
<1>5. CASE fixtures' = fixtures
  BY <1>5 DEF FixturesAnswerTheirKeys
<1>6. CASE fixtures' = [fixtures EXCEPT ![key] = answer]
  <2> HIDE DEF key
  <2>1. fixtures' \in [Keys -> Answers \cup {None}]
    BY <1>2, <1>3, <1>6
  <2>2. \A k \in Keys : fixtures'[k] = IF k = key THEN answer ELSE fixtures[k]
    BY <1>2, <1>6
  <2>3. FixturesAnswerTheirKeys'
    BY <1>2, <2>2 DEF FixturesAnswerTheirKeys
  <2> QED BY <2>1, <2>3
<1> QED BY <1>4, <1>5, <1>6

LEMMA NextHolds == EvalsInv /\ [Next]_vars => EvalsInv'
<1> SUFFICES ASSUME EvalsInv, [Next]_vars PROVE EvalsInv'
  OBVIOUS
<1>1. ASSUME NEW changed \in Corpora, EditCode(changed) PROVE EvalsInv'
  BY <1>1 DEF EditCode, EvalsInv, TypeOK, FixturesAnswerTheirKeys, VerdictIsCurrent,
              BaselineWasMeasured, SpendIsCounted, Judging
<1>2. ASSUME NEW version \in DOMAIN Prompts, EditPrompt(version) PROVE EvalsInv'
  BY <1>2 DEF EditPrompt, EvalsInv, TypeOK, FixturesAnswerTheirKeys, VerdictIsCurrent,
              BaselineWasMeasured, SpendIsCounted, Judging
<1>3. CASE RunSuite
  <2>1. VerdictIsCurrent'
    BY <1>3, VerdictOfFiles DEF RunSuite, VerdictIsCurrent
  <2> QED BY <1>3, <2>1 DEF RunSuite, files, EvalsInv, TypeOK, FixturesAnswerTheirKeys,
                            BaselineWasMeasured, SpendIsCounted, Judging
<1>4. CASE RecordBaseline
  <2>1. BaselineWasMeasured' /\ baseline'.commit = corpus
    BY <1>4 DEF RecordBaseline, BaselineWasMeasured, Recorded, Measured, HallucinationRate
  <2> QED BY <1>4, <2>1 DEF RecordBaseline, EvalsInv, TypeOK, FixturesAnswerTheirKeys,
                            VerdictIsCurrent, SpendIsCounted, Judging
<1>5. ASSUME NEW mode \in {"record", "live"}, BeginJudging(mode) PROVE EvalsInv'
  <2>1. judge' = [mode |-> mode, at |-> 1, spent |-> 0, charged |-> 0]
    BY <1>5 DEF BeginJudging, Idle
  <2>2. /\ judge' \in [mode : {"idle", "record", "live"}, at : 1..(Len(Drafts) + 1),
                       spent : Nat, charged : Nat]
        /\ SpendIsCounted'
    BY <2>1, DraftsAndPrompts, EvalsAssumption DEF SpendIsCounted
  <2> QED BY <1>5, <2>2, JudgeAlone DEF BeginJudging
<1>6. ASSUME NEW cost \in Costs, NEW score \in Scores, Score(score, cost) PROVE EvalsInv'
  <2> USE <1>6 DEF Score
  <2>1. fixtures' \in [Keys -> Answers \cup {None}] /\ FixturesAnswerTheirKeys'
    BY AnsweredTyped
  <2>2. judge' = [mode |-> judge.mode, at |-> judge.at + 1, spent |-> judge.spent + cost,
                  charged |-> judge.charged + cost]
    BY DEF EvalsInv, TypeOK
  <2>3. /\ judge' \in [mode : {"idle", "record", "live"}, at : 1..(Len(Drafts) + 1),
                       spent : Nat, charged : Nat]
        /\ judge'.charged = judge'.spent /\ judge'.charged < MaxCostUsd + MaxCost
    BY <2>2, DraftsAndPrompts, EvalsAssumption
       DEF EvalsInv, TypeOK, SpendIsCounted, Judging, WithinCap
  <2>4. SpendIsCounted'
    BY <2>2, <2>3 DEF SpendIsCounted, Judging
  <2>5. VerdictIsCurrent'
    BY VerdictOfFiles DEF VerdictIsCurrent, EvalsInv, files
  <2> QED BY <2>1, <2>3, <2>4, <2>5 DEF EvalsInv, TypeOK, BaselineWasMeasured
<1>7. ASSUME NEW cost \in Costs, AnswerIsUnusable(cost) PROVE EvalsInv'
  <2> USE <1>7 DEF AnswerIsUnusable
  <2>1. fixtures' \in [Keys -> Answers \cup {None}] /\ FixturesAnswerTheirKeys'
    BY AnsweredTyped
  <2>2. /\ judge' \in [mode : {"idle", "record", "live"}, at : 1..(Len(Drafts) + 1),
                       spent : Nat, charged : Nat]
        /\ SpendIsCounted'
    <3>1. cost \in 0..MaxCost
      BY EvalsAssumption
    <3> QED BY <3>1, StoppedIsCounted
  <2>3. VerdictIsCurrent'
    BY VerdictOfFiles DEF VerdictIsCurrent, EvalsInv, files
  <2> QED BY <2>1, <2>2, <2>3 DEF EvalsInv, TypeOK, BaselineWasMeasured
<1>8. ASSUME NEW cost \in Costs, Refuse(cost) PROVE EvalsInv'
  <2>1. cost \in 0..MaxCost
    BY EvalsAssumption
  <2> QED BY <1>8, <2>1, StoppedIsCounted, JudgeAlone DEF Refuse
<1>9. CASE CapIsReached
  <2>1. 0 \in 0..MaxCost
    BY EvalsAssumption
  <2> QED BY <1>9, <2>1, StoppedIsCounted, JudgeAlone DEF CapIsReached
<1>10. CASE EndJudging
  <2>1. /\ judge' \in [mode : {"idle", "record", "live"}, at : 1..(Len(Drafts) + 1),
                       spent : Nat, charged : Nat]
        /\ SpendIsCounted'
    BY <1>10, DraftsAndPrompts, EvalsAssumption DEF EndJudging, Idle, SpendIsCounted, Judging
  <2> QED BY <1>10, <2>1, JudgeAlone DEF EndJudging
<1>11. CASE UNCHANGED vars
  <2>1. SpendIsCounted' /\ judge' \in [mode : {"idle", "record", "live"},
                                       at : 1..(Len(Drafts) + 1), spent : Nat, charged : Nat]
    BY <1>11 DEF vars, EvalsInv, TypeOK, SpendIsCounted, Judging
  <2> QED BY <1>11, <2>1, JudgeAlone DEF vars, files
<1> QED BY <1>1, <1>2, <1>3, <1>4, <1>5, <1>6, <1>7, <1>8, <1>9, <1>10, <1>11 DEF Next

\* The inductive invariant of evals/ holds of every reachable state.
THEOREM EvalsInvariance == Spec => []EvalsInv
BY InitHolds, NextHolds, PTL DEF Spec

\* A mean that the suite replays is one of answers to the prompt in force
\* (judge.py fixture_key, _write_fixture, _replay).
THEOREM MeansAreOfThisPrompt == Spec => []ScoresAreOfThisPrompt
<1>1. EvalsInv => ScoresAreOfThisPrompt
  <2> SUFFICES ASSUME EvalsInv, JudgeMean # None, NEW answer \in Replayed
               PROVE  answer.asked = Prompts[prompt]
    BY DEF ScoresAreOfThisPrompt
  <2>1. answer # None
    BY DEF JudgeMean, CanReplay
  <2>2. PICK draft \in Range(Drafts) : answer = fixtures[FixtureKey(draft)]
    BY DEF Replayed
  <2>3. FixtureKey(draft) \in Keys /\ FixtureKey(draft)[1] = Prompts[prompt]
    BY KeyTyped DEF EvalsInv, TypeOK
  <2> QED BY <2>1, <2>2, <2>3 DEF EvalsInv, FixturesAnswerTheirKeys
<1> QED BY <1>1, EvalsInvariance, PTL

\* A run of the judge passes its cap by less than one call (judge.py
\* _assert_within_cap, score).
THEOREM OverspendIsOneCall == Spec => []OverspendsByLessThanACall
<1>1. EvalsInv => OverspendsByLessThanACall
  BY DEF EvalsInv, SpendIsCounted, OverspendsByLessThanACall
<1> QED BY <1>1, EvalsInvariance, PTL

-----------------------------------------------------------------------------
\* The quotient and the remainder of a division by a natural number.
LEMMA Division ==
    ASSUME NEW a \in Nat, NEW t \in 1..90
    PROVE  /\ a \div t \in Nat
           /\ t * (a \div t) <= a
           /\ a < t * (a \div t) + t
OBVIOUS

\* One draft more moves the rate by more than ten thousandths.
LEMMA OneMoreIsSeen ==
    ASSUME NEW t \in 1..90, NEW m \in Nat, NEW n \in Nat, m < n
    PROVE  Thousandths(n, t) - Thousandths(m, t) > 10
<1> DEFINE p == (1000 * m) \div t
           q == (1000 * n) \div t
<1>1. p \in Nat /\ q \in Nat /\ t * p <= 1000 * m /\ 1000 * n < t * q + t
  BY Division
<1>2. 1000 * n >= 1000 * m + 1000
  OBVIOUS
<1> HIDE DEF p, q
<1>3. SUFFICES ASSUME q <= p + 10 PROVE FALSE
  BY <1>1 DEF Thousandths, p, q
<1>4. t * q <= t * (p + 10)
  <2>1. PICK d \in Nat : p + 10 = q + d
    <3>1. (p + 10) - q \in Nat /\ p + 10 = q + ((p + 10) - q)
      BY <1>1, <1>3
    <3> QED BY <3>1
  <2>2. t * (q + d) = t * q + t * d /\ t * d \in Nat /\ t * q \in Nat
    BY <1>1
  <2> QED BY <2>1, <2>2
<1>5. t * (p + 10) = t * p + 10 * t
  BY <1>1
<1> QED BY <1>1, <1>2, <1>4, <1>5

\* A green suite has no more untrue drafts than there were at the commit of the
\* baseline, and every score of the judge that the baseline has
\* (test_baseline.py, baseline.py check_metric).
THEOREM GreenMeansEarned == Spec => []GreenIsEarned
<1>1. EvalsInv => GreenIsEarned
  <2> SUFFICES ASSUME EvalsInv, verdict = "passed" PROVE GreenIsEarned
    BY DEF GreenIsEarned
  <2>1. verdict # None
    BY EvalsAssumption
  <2>2. \A m \in METRICS : Status(m) \in {"ok", "not_established"}
    BY <2>1 DEF EvalsInv, VerdictIsCurrent, Verdict
  <2>3. "hallucination_rate" \in METRICS /\ "judge_mean" \in METRICS
    BY DEF METRICS, TOLERANCES
  <2> DEFINE t == Cardinality(Corpus)
             untrue == Cardinality(Hallucinated(corpus))
             before == Cardinality(Hallucinated(baseline.commit))
  <2>4. t \in 1..90 /\ untrue \in Nat /\ before \in Nat
    <3>1. t \in Nat /\ t # 0
      <4>1. IsFiniteSet(Corpus) /\ Corpus # {}
        BY EvalsAssumption
      <4> QED BY <4>1, FS_CardinalityType, FS_EmptySet
    <3>2. /\ Hallucinated(corpus) \subseteq Corpus
          /\ Hallucinated(baseline.commit) \subseteq Corpus
      BY DEF Hallucinated
    <3>3. IsFiniteSet(Hallucinated(corpus)) /\ IsFiniteSet(Hallucinated(baseline.commit))
      BY <3>2, EvalsAssumption, FS_Subset
    <3>4. untrue \in Nat /\ before \in Nat
      BY <3>3, FS_CardinalityType
    <3>5. t <= 90
      BY SmallCorpus
    <3> HIDE DEF t, untrue, before
    <3> QED BY <3>1, <3>4, <3>5
  <2>5. untrue <= before
    <3>1. /\ Measured.hallucination_rate = Thousandths(untrue, t)
          /\ baseline.metrics.hallucination_rate = Thousandths(before, t)
      BY DEF Measured, HallucinationRate, EvalsInv, BaselineWasMeasured
    <3> HIDE DEF t, untrue, before
    <3>2. Thousandths(untrue, t) \in Nat /\ Thousandths(before, t) \in Nat
      BY <2>4, Division DEF Thousandths
    <3>3. /\ baseline.metrics.hallucination_rate # None
          /\ Measured.hallucination_rate # None
      BY <3>1, <3>2, EvalsAssumption
    <3>4. ~(Thousandths(untrue, t) - Thousandths(before, t) > 10)
      <4>1. Status("hallucination_rate") # "regressed"
        BY <2>2, <2>3
      <4>2. TOLERANCES["hallucination_rate"] = 10
        BY DEF TOLERANCES
      <4>3. ~(Worse("hallucination_rate", baseline.metrics.hallucination_rate,
                    Measured.hallucination_rate) > TOLERANCES["hallucination_rate"])
        BY <3>3, <4>1 DEF Status
      <4>4. Worse("hallucination_rate", Thousandths(before, t), Thousandths(untrue, t))
               = Thousandths(untrue, t) - Thousandths(before, t)
        BY DEF Worse
      <4> QED BY <3>1, <4>2, <4>3, <4>4
    <3>5. before < untrue => Thousandths(untrue, t) - Thousandths(before, t) > 10
      BY <2>4, OneMoreIsSeen
    <3> QED BY <2>4, <3>4, <3>5
  <2>6. ASSUME baseline.metrics.judge_mean # None, NEW draft \in Range(Drafts)
        PROVE  fixtures[<<Prompts[prompt], draft>>] # None
    <3>1. Status("judge_mean") \in {"ok", "not_established"}
      BY <2>2, <2>3
    <3>2. Measured.judge_mean # None
      BY <2>6, <3>1 DEF Status
    <3>3. JudgeMean # None
      BY <3>2 DEF Measured
    <3> QED BY <3>3 DEF JudgeMean, CanReplay, Replayed, FixtureKey
  <2> QED BY <2>5, <2>6 DEF GreenIsEarned
<1> QED BY <1>1, EvalsInvariance, PTL
=============================================================================
