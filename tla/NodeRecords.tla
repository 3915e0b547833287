----------------------------- MODULE NodeRecords ------------------------------
(***************************************************************************)
(* What a node keeps on record: the behaviour of a sender, guardian        *)
(* transfers and forks, credits and reputations, shared spaces, claims, and    *)
(* the stores as an export moves them.                                     *)
(*                                                                         *)
(* Each keeps its state to itself, but for the records an export copies,   *)
(* which module DataSovereignty has in its own terms, so their             *)
(* interleavings show nothing that each does not show alone: a behaviour   *)
(* exercises one of them.                                                  *)
(***************************************************************************)
EXTENDS Behavior, Forks, Economy, Spaces, DataSovereignty, FactVerification

VARIABLE desk   \* the records a behaviour exercises

recordsVars == <<desk, vars, transferVars, forkVars, creditVars, reputationVars, spaceVars,
                 sovereigntyVars, factVars>>

Desks == {"behavior", "transfers", "forks", "credits", "reputation", "spaces", "sovereignty", "facts"}

RecordsInit ==
  /\ desk \in Desks
  /\ Init /\ TransferInit /\ ForksInit /\ EconomyInit /\ SpacesInit /\ SovereigntyInit /\ FactsInit

At(name) == desk = name /\ UNCHANGED desk

AtBehavior ==
  /\ At("behavior")
  /\ UNCHANGED <<transferVars, forkVars, creditVars, reputationVars, spaceVars, sovereigntyVars, factVars>>
AtTransfers ==
  /\ At("transfers")
  /\ UNCHANGED <<vars, forkVars, creditVars, reputationVars, spaceVars, sovereigntyVars, factVars>>
AtForks ==
  /\ At("forks")
  /\ UNCHANGED <<vars, transferVars, creditVars, reputationVars, spaceVars, sovereigntyVars, factVars>>
AtCredits ==
  /\ At("credits")
  /\ UNCHANGED <<vars, transferVars, forkVars, reputationVars, spaceVars, sovereigntyVars, factVars>>
AtReputation ==
  /\ At("reputation")
  /\ UNCHANGED <<vars, transferVars, forkVars, creditVars, spaceVars, sovereigntyVars, factVars>>
AtSpaces ==
  /\ At("spaces")
  /\ UNCHANGED <<vars, transferVars, forkVars, creditVars, reputationVars, sovereigntyVars, factVars>>
AtSovereignty ==
  /\ At("sovereignty")
  /\ UNCHANGED <<vars, transferVars, forkVars, creditVars, reputationVars, spaceVars, factVars>>
AtFacts ==
  /\ At("facts")
  /\ UNCHANGED <<vars, transferVars, forkVars, creditVars, reputationVars, spaceVars, sovereigntyVars>>

RecordsNext ==
  \/ Next /\ AtBehavior
  \/ TransferNext /\ AtTransfers
  \/ ForksNext /\ AtForks
  \/ CreditNext /\ AtCredits
  \/ ReputationNext /\ AtReputation
  \/ SpacesNext /\ AtSpaces
  \/ SovereigntyNext /\ AtSovereignty
  \/ FactsNext /\ AtFacts

RecordsSpec == RecordsInit /\ [][RecordsNext]_recordsVars

=============================================================================
