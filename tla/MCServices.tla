----------------------------- MODULE MCServices ------------------------------
EXTENDS Services

\* Two registries know each other, and one of them a third.
MutualLinks == {<<"a", "b">>, <<"b", "a">>, <<"b", "c">>}

\* Amounts of tokens as a request may carry them.
PlusAndMinus == {-1, 1, 2}
=============================================================================
