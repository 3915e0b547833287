------------------------------- MODULE Economy -------------------------------
(***************************************************************************)
(* The node's books: knowledge credits (Credits) beside guardian           *)
(* reputation and stakes (Reputation).  The node handles one request at a  *)
(* time, and the two keep their state in stores of their own.              *)
(***************************************************************************)
EXTENDS Credits, Reputation

economyVars == <<creditVars, reputationVars>>

EconomyInit == CreditInit /\ ReputationInit

EconomyNext ==
  \/ CreditNext /\ UNCHANGED reputationVars
  \/ ReputationNext /\ UNCHANGED creditVars

EconomySpec == EconomyInit /\ [][EconomyNext]_economyVars

\* The books keep their shape; in particular no score is negative (the clamps of
\* the three handlers).
EconomyTypeOK == CreditTypeOK /\ ReputationTypeOK

=============================================================================
