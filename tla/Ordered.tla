-------------------------------- MODULE Ordered --------------------------------
(***************************************************************************)
(* Numbers in order, and what of a sequence passes a test, in the order of *)
(* the sequence (sort and filter of an array).                             *)
(***************************************************************************)
EXTENDS Integers, Sequences, FiniteSets

\* Numbers in ascending order.
Ascending(numbers) ==
    [n \in 1..Cardinality(numbers) |->
        CHOOSE i \in numbers : Cardinality({j \in numbers : j <= i}) = n]

Filter(seq, Test(_)) ==
    LET kept == Ascending({i \in DOMAIN seq : Test(seq[i])})
    IN  [n \in DOMAIN kept |-> seq[kept[n]]]
=============================================================================
