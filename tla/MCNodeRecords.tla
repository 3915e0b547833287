---------------------------- MODULE MCNodeRecords -----------------------------
EXTENDS NodeRecords, TLC

\* Records of two kinds that an import reads, in its order, and of one that it
\* does not.
OneOfEach ==
  "message" :> "messages" @@ "relationship" :> "relationships" @@ "membership" :> "spaceMembers"

\* Amounts as a request may carry them: the handlers check nothing.
PlusAndMinus == {-1, 1, 2}
StakesPlusAndMinus == {-50, 50}

\* Two of three texts have one hash.
TwoAlike == "text" :> 1 @@ "same" :> 1 @@ "other" :> 2
=============================================================================
