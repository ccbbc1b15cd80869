\* The evaluation suite, its files and the judge.
CONSTANTS
    None = None
    d1 = d1
    d2 = d2
    evidence = evidence
    spam = spam
    Drafts <- MCDrafts
    Corpus = {d1, d2}
    Gates <- MCGates
    GROUNDING_GATES <- MCGroundingGates
    Corpora <- MCCorpora
    Prompts <- MCPrompts
    Scores <- MCScores
    Costs <- MCCosts
    MaxCost = 2
    MaxCostUsd = 2

SPECIFICATION Spec

INVARIANTS
    EvalsInv
    ScoresAreOfThisPrompt
    GreenIsEarned
    OverspendsByLessThanACall
