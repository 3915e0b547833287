------------------------------ MODULE MCEconomy ------------------------------
EXTENDS Economy, TLC

Symmetry == Permutations(Dids)

\* Amounts as a request may carry them: two of the usual kind and one negative.
PlusAndMinus == {-1, 1, 2}
StakesPlusAndMinus == {-20, 20}
=============================================================================
