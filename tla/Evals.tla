--------------------------------- MODULE Evals ---------------------------------
(***************************************************************************)
(* evals/: the suite that measures the pipeline and compares it with the   *)
(* baseline (harness/metrics.py, report.py, baseline.py), the judge that   *)
(* scores drafts from recorded answers or by calling a model (judge.py),   *)
(* and the person who edits the code and the prompt, has answers recorded  *)
(* and writes a new baseline (record_baseline.py).                         *)
(*                                                                         *)
(* Rates and means are in thousandths, and a score is of one axis.         *)
(***************************************************************************)
EXTENDS Integers, Sequences, FiniteSets, SequencesExt

CONSTANTS
    None,
    Drafts,          \* the calibration drafts, in their order in the file
    Corpus,          \* the drafts that the gates are run on
    Gates, GROUNDING_GATES,
    Corpora,         \* what the gates may find in the corpus: failed gates by draft
    Prompts,         \* the versions of prompts/judge.md; the first is in force first
    Scores,
    Costs,           \* what a call may cost
    MaxCost,         \* the dearest call
    MaxCostUsd       \* --max-cost-usd

\* The slack of each gated metric.
TOLERANCES == [gate_pass_rate |-> 30, hallucination_rate |-> 10, judge_mean |-> 300]
METRICS == DOMAIN TOLERANCES

Unusable == 0                \* stands for any answer that _parse raises on
Answers == [asked : Range(Prompts), score : Scores \cup {Unusable}]

ASSUME EvalsAssumption ==
    /\ Drafts \in Seq(Range(Drafts)) /\ Drafts # <<>>
    /\ Prompts \in Seq(Range(Prompts)) /\ Prompts # <<>>
    /\ IsFiniteSet(Corpus) /\ Corpus # {}
    /\ GROUNDING_GATES \subseteq Gates
    /\ Corpora \subseteq [Corpus -> SUBSET Gates]
    /\ Scores \subseteq 1..5
    /\ MaxCost \in Nat \ {0} /\ Costs \subseteq 1..MaxCost
    /\ MaxCostUsd \in Nat
    /\ None \notin Answers /\ None \notin Nat /\ None \notin {"passed", "failed"}

\* One draft is more than the slack of a rate over twenty of them, and it is up to
\* ninety.
ASSUME SmallCorpus == Cardinality(Corpus) <= 90

VARIABLES
    corpus,      \* what the gates of the code find
    prompt,      \* the number of the version in force
    fixtures,    \* fixtures/judge: under a key, the request answered and the answer
    baseline,    \* baseline.json: what was found at its commit, and the metrics
    verdict,     \* of the suite on the files as they are; None before it has run
    judge        \* the judge at work: its mode, the case it is at, what it has
                 \* counted as spent and what the provider has charged

vars == <<corpus, prompt, fixtures, baseline, verdict, judge>>
files == <<corpus, prompt, fixtures, baseline>>

-----------------------------------------------------------------------------
\* Mutant: the key does not depend on the prompt.
MutFixtureKey(draft) == <<Prompts[1], draft>>

\* fixture_key: a hash of all that can change the answer.
FixtureKey(draft) == <<Prompts[prompt], draft>>

Keys == Range(Prompts) \X Range(Drafts)

\* hallucination_rate and gate_pass_rate over the reports of the corpus.
Thousandths(n, total) == (1000 * n) \div total
Hallucinated(found) == {d \in Corpus : found[d] \cap GROUNDING_GATES # {}}
HallucinationRate == Thousandths(Cardinality(Hallucinated(corpus)), Cardinality(Corpus))
GatePassRate ==
    LET outcomes == Corpus \X Gates
    IN  Thousandths(Cardinality({o \in outcomes : o[2] \notin corpus[o[1]]}),
                    Cardinality(outcomes))

\* measure_judge: calibrate in fixture mode stops at the first case without an
\* answer it can use, and then there is no mean.
Replayed == {fixtures[FixtureKey(draft)] : draft \in Range(Drafts)}
CanReplay == \A answer \in Replayed : IF answer = None THEN FALSE ELSE answer.score # Unusable
Total(scores) == FoldSeq(LAMBDA x, y : x + y, 0, scores)
JudgeMean ==
    IF CanReplay
    THEN Thousandths(Total([i \in DOMAIN Drafts |-> fixtures[FixtureKey(Drafts[i])].score]),
                     Len(Drafts))
    ELSE None

\* collect
Measured == [gate_pass_rate |-> GatePassRate, hallucination_rate |-> HallucinationRate,
             judge_mean |-> JudgeMean]

\* Mutant: every metric is better when it is higher.
MutWorse(metric, old, new) == old - new

\* How far a metric has moved in its bad direction.
Worse(metric, old, new) == IF metric = "hallucination_rate" THEN new - old ELSE old - new

\* check_metric
Status(metric) ==
    LET old == baseline.metrics[metric]
        new == Measured[metric]
    IN  IF old = None THEN "not_established"
        ELSE IF new = None THEN "not_measured"
        ELSE IF Worse(metric, old, new) > TOLERANCES[metric] THEN "regressed"
        ELSE "ok"

-----------------------------------------------------------------------------
Idle == [mode |-> "idle", at |-> 1, spent |-> 0, charged |-> 0]

\* record_baseline.py measure: the metrics, with the commit they were measured at.
Recorded == [commit |-> corpus, metrics |-> Measured]

\* The first baseline was written before any answer of the judge was recorded.
Init ==
    /\ corpus \in Corpora
    /\ prompt = 1
    /\ fixtures = [key \in Keys |-> None]
    /\ baseline = Recorded
    /\ verdict = None
    /\ judge = Idle

EditCode(changed) ==
    /\ judge.mode = "idle"
    /\ corpus # changed
    /\ corpus' = changed
    /\ verdict' = None
    /\ UNCHANGED <<prompt, fixtures, baseline, judge>>

EditPrompt(version) ==
    /\ judge.mode = "idle"
    /\ prompt # version
    /\ prompt' = version
    /\ verdict' = None
    /\ UNCHANGED <<corpus, fixtures, baseline, judge>>

\* test_metric_has_not_regressed: a metric without a baseline is skipped, and one
\* that is no longer measured fails.
Verdict ==
    IF \A m \in METRICS : Status(m) \in {"ok", "not_established"} THEN "passed" ELSE "failed"

RunSuite ==
    /\ judge.mode = "idle"
    /\ verdict' = Verdict
    /\ UNCHANGED <<files, judge>>

\* record_baseline.py --write: what was measured, and null for what was not.
RecordBaseline ==
    /\ judge.mode = "idle"
    /\ baseline' = Recorded
    /\ verdict' = None
    /\ UNCHANGED <<corpus, prompt, fixtures, judge>>

-----------------------------------------------------------------------------
\* judge.py calibrate, calling the model.
BeginJudging(mode) ==
    /\ judge.mode = "idle"
    /\ judge' = [Idle EXCEPT !.mode = mode]
    /\ UNCHANGED <<files, verdict>>

Judging == judge.mode # "idle" /\ judge.at <= Len(Drafts)

\* Mutant: a run at its cap makes one more call.
MutWithinCap == judge.spent <= MaxCostUsd

\* _assert_within_cap, before the call.
WithinCap == judge.spent < MaxCostUsd

\* Mutant: a draft that got no usable answer is left out and the next one is scored.
MutStopped(cost) == [judge EXCEPT !.at = @ + 1, !.charged = @ + cost]

\* JudgeError ends the run: what it had spent is forgotten with it, and what the
\* last call cost was never added.
Stopped(cost) == [judge EXCEPT !.at = Len(Drafts) + 1, !.charged = @ + cost]

\* In record mode the answer is written before it is parsed.
Answered(score) ==
    IF judge.mode = "record"
    THEN [fixtures EXCEPT ![FixtureKey(Drafts[judge.at])] =
             [asked |-> Prompts[prompt], score |-> score]]
    ELSE fixtures

Score(score, cost) ==
    /\ Judging /\ WithinCap
    /\ fixtures' = Answered(score)
    /\ judge' = [judge EXCEPT !.at = @ + 1,
                              !.spent = @ + cost, !.charged = @ + cost]
    /\ verdict' = IF fixtures' = fixtures THEN verdict ELSE None
    /\ UNCHANGED <<corpus, prompt, baseline>>

AnswerIsUnusable(cost) ==
    /\ Judging /\ WithinCap
    /\ fixtures' = Answered(Unusable)
    /\ judge' = Stopped(cost)
    /\ verdict' = IF fixtures' = fixtures THEN verdict ELSE None
    /\ UNCHANGED <<corpus, prompt, baseline>>

\* A refusal, or an answer cut at max_tokens: there is no text to record.
Refuse(cost) ==
    /\ Judging /\ WithinCap
    /\ judge' = Stopped(cost)
    /\ UNCHANGED <<files, verdict>>

CapIsReached ==
    /\ Judging /\ ~WithinCap
    /\ judge' = Stopped(0)
    /\ UNCHANGED <<files, verdict>>

\* The report is printed, or the error.
EndJudging ==
    /\ judge.mode # "idle" /\ ~Judging
    /\ judge' = Idle
    /\ UNCHANGED <<files, verdict>>

Next ==
    \/ \E changed \in Corpora : EditCode(changed)
    \/ \E version \in DOMAIN Prompts : EditPrompt(version)
    \/ RunSuite
    \/ RecordBaseline
    \/ \E mode \in {"record", "live"} : BeginJudging(mode)
    \/ \E cost \in Costs :
          \/ \E score \in Scores : Score(score, cost)
          \/ AnswerIsUnusable(cost)
          \/ Refuse(cost)
    \/ CapIsReached
    \/ EndJudging

Spec == Init /\ [][Next]_vars
=============================================================================
