---------------------------- MODULE EvalsProperties ----------------------------
(***************************************************************************)
(* What the evaluation suite promises to the person who reads its verdict  *)
(* and to the one who pays for the judge.                                  *)
(***************************************************************************)
EXTENDS Evals

\* The variables have their types, and what the judge counts as spent is what was
\* charged until it stops.
TypeOK ==
    /\ corpus \in Corpora
    /\ prompt \in DOMAIN Prompts
    /\ fixtures \in [Keys -> Answers \cup {None}]
    /\ baseline.commit \in Corpora
    /\ judge \in [mode : {"idle", "record", "live"}, at : 1..(Len(Drafts) + 1),
                  spent : Nat, charged : Nat]

\* What is recorded under a key answers the request that the key was made of.
FixturesAnswerTheirKeys ==
    \A key \in Keys : fixtures[key] # None => fixtures[key].asked = key[1]

\* A verdict stands for as long as the files it was reached on.
VerdictIsCurrent == verdict # None => verdict = Verdict

\* The baseline is what was measured at its commit.
BaselineWasMeasured ==
    baseline.metrics.hallucination_rate =
        Thousandths(Cardinality(Hallucinated(baseline.commit)), Cardinality(Corpus))

SpendIsCounted ==
    /\ judge.mode = "idle" => judge = Idle
    /\ Judging => judge.charged = judge.spent
    /\ judge.charged < MaxCostUsd + MaxCost

\* All of it at once: the inductive invariant of evals/.
EvalsInv ==
    /\ TypeOK
    /\ FixturesAnswerTheirKeys
    /\ VerdictIsCurrent
    /\ BaselineWasMeasured
    /\ SpendIsCounted

\* "When the prompt changes, the fixture key changes, the run fails" (judge.py): a
\* mean the suite replays is a mean of answers to the prompt in force, however the
\* edits, the recordings and the runs that stopped half way were interleaved.
ScoresAreOfThisPrompt ==
    JudgeMean # None => \A answer \in Replayed : answer.asked = Prompts[prompt]

\* A suite that passed is one in which no more drafts of the corpus are untrue than
\* at the commit the baseline was recorded at, and in which the judge, once it has
\* a baseline, has scored every draft with the prompt in force (test_baseline.py).
GreenIsEarned ==
    verdict = "passed" =>
        /\ Cardinality(Hallucinated(corpus)) <= Cardinality(Hallucinated(baseline.commit))
        /\ baseline.metrics.judge_mean # None =>
              \A draft \in Range(Drafts) : fixtures[<<Prompts[prompt], draft>>] # None

\* What a run of the judge costs passes its cap by less than one call, although a
\* call whose answer is refused, cut short or of no use is never counted as spent
\* (score adds the cost after it has parsed the answer).
OverspendsByLessThanACall == judge.charged < MaxCostUsd + MaxCost
=============================================================================
