-------------------------------- MODULE Claims --------------------------------
(***************************************************************************)
(* Where the claims of a draft sit in its body, which three parts of the   *)
(* repository each work out for themselves: the draft agent                *)
(* (services/agents/grounding.ts), gate G05 (services/gates/grounding.ts,  *)
(* text.ts) and the dashboard (dashboard/lib/spans.ts), which then cuts    *)
(* the body into segments to highlight.  Text is a sequence of characters, *)
(* an offset counts from 0 and a span ends before its end, as in the code. *)
(***************************************************************************)
EXTENDS Ordered, FiniteSetsExt, SequencesExt

CONSTANTS
    None,        \* null
    Symbols      \* characters, and the names that are only compared

Span == [start : Int, end : Int]

ASSUME NoneIsNoSpan == None \notin Span

Occurs(text, claim, at) ==
    /\ at + Len(claim) <= Len(text)
    /\ SubSeq(text, at + 1, at + Len(claim)) = claim

SpanAt(claim, at) == [start |-> at, end |-> at + Len(claim)]
Occurrences(text, claim) == {at \in 0..Len(text) : Occurs(text, claim, at)}

\* spansOf: the matches found left to right, each after the end of the last.
SpansOf(text, claim) ==
    LET scan[from \in 0..Len(text)] ==
            LET hits == {at \in Occurrences(text, claim) : at >= from}
            IN  IF hits = {} THEN {}
                ELSE {SpanAt(claim, Min(hits))} \cup scan[Min(hits) + Len(claim)]
    IN  IF claim = <<>> THEN {} ELSE scan[0]

Leftmost(spans) ==
    IF spans = {} THEN None
    ELSE CHOOSE s \in spans : \A t \in spans : s.start <= t.start

Overlap(s, t) == s.start < t.end /\ t.start < s.end

\* Mutant: a span is free unless the very same span was taken.
MutFirstFreeSpan(text, claim, taken) == Leftmost(SpansOf(text, claim) \ taken)

FirstFreeSpan(text, claim, taken) ==
    Leftmost({s \in SpansOf(text, claim) : \A t \in taken : ~Overlap(s, t)})

\* The spans of the claims, each found by Find in the text the earlier ones left.
Found(spans) == Range(spans) \ {None}
InTurn(Find(_, _, _), text, claims) ==
    LET spans[n \in 0..Len(claims)] ==
            IF n = 0 THEN <<>>
            ELSE Append(spans[n - 1], Find(text, claims[n], Found(spans[n - 1])))
    IN  spans[Len(claims)]

\* The loop of g05EvidenceGrounding.
GroundClaims(text, claims) == InTurn(FirstFreeSpan, text, claims)

\* Mutants: every ref takes the first occurrence; a ref stays clear of all spans
\* that overlap a taken one.
MutLocateClaim(text, claim, taken) ==
    Leftmost({SpanAt(claim, at) : at \in Occurrences(text, claim)})
MutLocateApart(text, claim, taken) ==
    Leftmost({s \in {SpanAt(claim, at) : at \in Occurrences(text, claim)} :
                  \A t \in taken : ~Overlap(s, t)})

\* One turn of locateClaims: the first occurrence whose span no ref has taken.
LocateClaim(text, claim, taken) ==
    IF claim = <<>> THEN None
    ELSE Leftmost({SpanAt(claim, at) : at \in Occurrences(text, claim)} \ taken)

LocateClaims(text, claims) == InTurn(LocateClaim, text, claims)

FindUngroundedClaims(text, claims) ==
    {i \in DOMAIN claims : Occurrences(text, claims[i]) = {}}

-----------------------------------------------------------------------------
\* composeBody: a body put together from parts, of which some are claims.
BodyOf(parts) == FlattenSeq([i \in DOMAIN parts |-> parts[i].text])
ClaimParts(parts) == Ascending({i \in DOMAIN parts : parts[i].isClaim})
ComposedClaims(parts) ==
    LET at == ClaimParts(parts) IN [i \in DOMAIN at |-> parts[at[i]].text]

\* Mutant: occurrences that overlap an earlier one are not counted.
MutAreUnambiguous(text, claims) ==
    \A i \in DOMAIN claims :
        Cardinality(SpansOf(text, claims[i])) <= Cardinality({j \in DOMAIN claims : claims[j] = claims[i]})

\* assertClaimsAreUnambiguous.
AreUnambiguous(text, claims) ==
    \A i \in DOMAIN claims :
        Cardinality(Occurrences(text, claims[i])) <= Cardinality({j \in DOMAIN claims : claims[j] = claims[i]})

-----------------------------------------------------------------------------
Clamp(value, max) == Min({Max({value, 0}), max})

Covers(span, from, to) == span.start <= from /\ span.end >= to

\* Mutants: the body is cut at the marks only; and not where a mark ends.
MutCutsInside(text, spans) ==
    UNION {{Clamp(s.start, Len(text)), Clamp(s.end, Len(text))} : s \in spans}
MutCuts(text, spans) ==
    {0, Len(text)} \cup {Clamp(s.start, Len(text)) : s \in spans}

Cuts(text, spans) ==
    {0, Len(text)} \cup UNION {{Clamp(s.start, Len(text)), Clamp(s.end, Len(text))} : s \in spans}

\* buildBodySegments: the body between neighbouring cuts, with the refs (by
\* index) and the failing gates whose marks cover it.
BuildBodySegments(text, claims, failing) ==
    LET spans == LocateClaims(text, claims)
        marks == Found(spans) \cup UNION {outcome.spans : outcome \in failing}
        bounds == Ascending(Cuts(text, marks))
        Segment(from, to) ==
            [text |-> SubSeq(text, from + 1, to),
             start |-> from,
             evidence |-> {i \in DOMAIN spans : spans[i] # None /\ Covers(spans[i], from, to)},
             gates |-> {outcome.gate : outcome \in
                           {o \in failing : \E s \in o.spans : Covers(s, from, to)}}]
    IN  [i \in 1..(Len(bounds) - 1) |-> Segment(bounds[i], bounds[i + 1])]
=============================================================================
