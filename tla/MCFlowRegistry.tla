--------------------------- MODULE MCFlowRegistry ---------------------------
(***************************************************************************)
(* FlowRegistry with three tasks, two of them with the same configuration, *)
(* and flows that import two files, one of them nested deeper, or that     *)
(* import themselves or each other in a circle.                            *)
(***************************************************************************)
EXTENDS FlowRegistry

FileNames == {"A", "B", "X", "Y"}

Nested == [A |-> <<"X", "Y">>, B |-> <<"X">>, X |-> <<"Y">>, Y |-> <<>>]
Itself == [A |-> <<"X", "A">>, B |-> <<"Y">>, X |-> <<>>, Y |-> <<>>]
Circle == [A |-> <<"Y", "X">>, B |-> <<>>, X |-> <<"B", "A">>, Y |-> <<>>]
Chain == [A |-> <<"B">>, B |-> <<"X">>, X |-> <<"Y">>, Y |-> <<>>]
Nooses == [A |-> <<"X">>, B |-> <<"Y">>, X |-> <<"Y">>, Y |-> <<"X">>]

AnyGraph == {Nested, Itself, Circle, Chain, Nooses}
NestedOnly == {Nested}

\* X and Y name each other, A and Y name themselves.
Names == [A |-> {"A", "X", "Y"}, B |-> {"A", "X"}, X |-> {"Y"}, Y |-> {"X", "Y"}]

TwoAndOne == <<"A", "B", "A">>
Both == <<"A", "B">>

AnyResidue == {"none", "old", "garbage"}
Terminated == {"none"}
=============================================================================
