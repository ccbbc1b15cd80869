-------------------------------- MODULE MCEvals --------------------------------
\* Two drafts of the corpus and of the calibration set, three things the gates may
\* find in them, and two versions of the prompt of the judge.
EXTENDS EvalsProperties

CONSTANTS d1, d2, evidence, spam

MCDrafts == <<d1, d2>>
MCGates == {evidence, spam}
MCGroundingGates == {evidence}
MCPrompts == <<"first rubric", "second rubric">>
MCScores == {2, 5}
MCCosts == {1, 2}

\* One draft untrue; the other one untrue and badly written; none untrue.
MCCorpora ==
    {(d1 :> {evidence}) @@ (d2 :> {}),
     (d1 :> {spam}) @@ (d2 :> {evidence}),
     (d1 :> {}) @@ (d2 :> {spam}),
     (d1 :> {evidence}) @@ (d2 :> {evidence, spam})}
=============================================================================
