-------------------------------- MODULE Numbers --------------------------------
(***************************************************************************)
(* services/gates/numbers.ts: the numbers written in a text, and what each *)
(* of them may denote.  A text is a sequence of characters, of which the   *)
(* digits are "0".."9"; " " is any of DIGIT_GROUP_SPACE.  An offset counts  *)
(* from 0 and a span ends before its end.                                  *)
(***************************************************************************)
EXTENDS Ordered, FiniteSetsExt, SequencesExt

CONSTANTS
    ExactDigits,    \* decimals of so many digits are told apart as doubles: 15
    Rounded(_)      \* the shortest decimal of the double nearest to a longer one

ASSUME ExactDigitsAssumption == ExactDigits \in Nat

Space == " "
Point == "."
Comma == ","
Digits == {"0", "1", "2", "3", "4", "5", "6", "7", "8", "9"}
IsDigit(char) == char \in Digits

\* The runs of digits in a piece of text, and the other characters between them.
Marks(piece) == Filter(piece, LAMBDA char : ~IsDigit(char))
Groups(piece) ==
    LET places == [i \in DOMAIN piece |-> i]
        cuts == <<0>> \o Filter(places, LAMBDA i : ~IsDigit(piece[i])) \o <<Len(piece) + 1>>
    IN  [i \in 1..(Len(cuts) - 1) |-> SubSeq(piece, cuts[i] + 1, cuts[i + 1] - 1)]

All(marks, mark) == \A i \in DOMAIN marks : marks[i] = mark

\* One to three digits, and then groups of exactly three.
InThousands(groups) ==
    /\ Len(groups[1]) \in 1..3
    /\ \A i \in 2..Len(groups) : Len(groups[i]) = 3

\* Whole thousands, and decimals after another mark.
HasDecimals(groups, marks, mark, decimal) ==
    /\ Len(marks) > 1
    /\ All(Front(marks), mark)
    /\ Last(marks) = decimal
    /\ InThousands(Front(groups))
    /\ Last(groups) # <<>>
IsGrouped(groups, marks, mark) ==
    marks # <<>> /\ All(marks, mark) /\ InThousands(groups)

\* The two alternatives of NUMBER_TOKEN_PATTERN.
IsSpaced(piece) ==
    LET groups == Groups(piece)
        marks == Marks(piece)
    IN  \/ IsGrouped(groups, marks, Space)
        \/ \E decimal \in {Point, Comma} : HasDecimals(groups, marks, Space, decimal)

IsPlain(piece) ==
    /\ Range(Marks(piece)) \subseteq {Point, Comma}
    /\ <<>> \notin Range(Groups(piece))

\* Mutant: the second alternative is tried before the first.
MutTokenEnd(spaced, plain) == Max(plain)

\* The first alternative if it matches, else the second, each as far as it goes.
TokenEnd(spaced, plain) == Max(IF spaced # {} THEN spaced ELSE plain)

TokenAt(text, at) ==
    LET to(Is(_)) == {end \in (at + 1)..Len(text) : Is(SubSeq(text, at + 1, end))}
    IN  [start |-> at, end |-> TokenEnd(to(IsSpaced), to(IsPlain))]

\* numberTokens: the matches found left to right, each after the end of the last.
NumberTokens(text) ==
    LET scan[from \in 0..Len(text)] ==
            LET digits == {at \in from..(Len(text) - 1) : IsDigit(text[at + 1])}
                token == TokenAt(text, Min(digits))
            IN  IF digits = {} THEN {} ELSE {token} \cup scan[token.end]
    IN  scan[0]

-----------------------------------------------------------------------------
\* A value is its digits before and after the decimal point, without the zeros
\* that do not count.
WithoutLeading(digits) ==
    LET counts == {i \in DOMAIN digits : digits[i] # "0"}
    IN  IF counts = {} THEN <<>> ELSE SubSeq(digits, Min(counts), Len(digits))
Value(whole, part) ==
    [whole |-> WithoutLeading(whole), part |-> Reverse(WithoutLeading(Reverse(part)))]

\* Number(clean) is an IEEE double, which stands here for the shortest decimal that
\* is read as it: a decimal with no more than ExactDigits is its own.
Infinity == [whole |-> <<"Infinity">>, part |-> <<>>]
IsExact(v) == Len(v.whole) + Len(v.part) <= ExactDigits
AsDouble(v) == IF IsExact(v) THEN v ELSE Rounded(v)

\* After a comma, three digits would be a thousands group.
IsDecimal(groups, marks) ==
    /\ marks \in {<<Point>>, <<Comma>>}
    /\ <<>> \notin Range(groups)
    /\ marks = <<Comma>> => Len(groups[2]) \in 1..2

\* Every decimal a token could denote.
Denoted(token) ==
    LET clean == Filter(token, LAMBDA char : char # Space)
        groups == Groups(clean)
        marks == Marks(clean)
        whole == FlattenSeq(groups)
        thousands == FlattenSeq(Front(groups))
        If(condition, value) == IF condition THEN {value} ELSE {}
    IN  UNION {If(marks = <<>> /\ whole # <<>>, Value(whole, <<>>)),
               If(IsDecimal(groups, marks), Value(groups[1], Last(groups))),
               If(IsGrouped(groups, marks, Comma), Value(whole, <<>>)),
               If(IsGrouped(groups, marks, Point), Value(whole, <<>>)),
               If(HasDecimals(groups, marks, Comma, Point), Value(thousands, Last(groups))),
               If(HasDecimals(groups, marks, Point, Comma), Value(thousands, Last(groups)))}

\* numericInterpretations: what is left of them as finite doubles.
NumericInterpretations(token) == {AsDouble(v) : v \in Denoted(token)} \ {Infinity}

TextOf(text, span) == SubSeq(text, span.start + 1, span.end)

ReadIn(text) == UNION {NumericInterpretations(TextOf(text, t)) : t \in NumberTokens(text)}

\* groundedNumbers: the numeric fields of a record, and the numbers written in
\* its strings.
GroundedNumbers(merchant) ==
    {merchant[f].value : f \in {g \in DOMAIN merchant : merchant[g].kind = "number"}}
    \cup UNION {ReadIn(merchant[f].value) :
                    f \in {g \in DOMAIN merchant : merchant[g].kind = "string"}}

\* Mutant: no reading of the token is missing from the record.
MutIsGrounded(token, grounded) == NumericInterpretations(token) \subseteq grounded

IsGrounded(token, grounded) == NumericInterpretations(token) \cap grounded # {}
=============================================================================
