----------------------------- MODULE Reputation -----------------------------
(***************************************************************************)
(* Guardian reputation and reputation stakes.  Three handlers write the    *)
(* same score: governance.ts (reported events), guardian-abuse-core.ts     *)
(* (abuse reports) and economy-core.ts (slashed stakes).                   *)
(*                                                                         *)
(* The first computes the score anew from its counters, the others deduct  *)
(* from it.  A score of 1.0 is Full = 100; rounding of the floating-point  *)
(* arithmetic is left out.  The amount of a stake is not checked           *)
(* (economy.ts passes the body of the request on) and is any integer.  A   *)
(* crash between the two writes of a handler keeps the first.              *)
(***************************************************************************)
EXTENDS Integers

CONSTANTS Guardians,      \* DIDs with a reputation
          NoGuardian,     \* the staker of an unused stake
          StakeAmounts,   \* amounts staked
          MaxReports,     \* bound: events and abuse reports per guardian
          MaxStakes,      \* bound: stakes ever created
          MaxScore,       \* bound: what slashes of negative stakes raise a score to
          MaxRepCrashes   \* bound: crashes

ASSUME ReputationAssumption ==
  /\ NoGuardian \notin Guardians
  /\ StakeAmounts \subseteq Int
  /\ MaxReports \in Nat /\ MaxStakes \in Nat /\ MaxScore \in Nat /\ MaxRepCrashes \in Nat

VARIABLES reputations,   \* store guardian-reputations.json
          abuseReports,  \* store abuse-reports.json: how many about each guardian
          stakes,        \* store reputation-stakes.json
          repCrashes     \* crashes between two writes so far

reputationVars == <<reputations, abuseReports, stakes, repCrashes>>

Full == 100
StakeIds == 1..MaxStakes
Events == {"agent_registered", "agent_violation", "agent_initiated_transfer"}

Reputation == [exists: BOOLEAN, agentCount: Nat, violationCount: Nat,
               agentInitiatedTransfers: Nat, score: Nat]
NoReputation == [exists |-> FALSE, agentCount |-> 0, violationCount |-> 0,
                 agentInitiatedTransfers |-> 0, score |-> Full]
Stake == [stakerDid: Guardians \cup {NoGuardian}, amount: StakeAmounts \cup {0}, resolved: BOOLEAN]
NoStake == [stakerDid |-> NoGuardian, amount |-> 0, resolved |-> FALSE]

ReputationInit ==
  /\ reputations = [g \in Guardians |-> NoReputation]
  /\ abuseReports = [g \in Guardians |-> 0]
  /\ stakes = [s \in StakeIds |-> NoStake]
  /\ repCrashes = 0

Reported(r) == r.agentCount + r.violationCount + r.agentInitiatedTransfers

Deducted(score, n) == IF score > n THEN score - n ELSE 0

\* computeGuardianScore.
ComputeGuardianScore(agents, violations, transfers) ==
  IF agents = 0 THEN Full ELSE Deducted(Full, 15 * violations + 10 * transfers)

Recomputed(r) ==
  [r EXCEPT !.score = ComputeGuardianScore(r.agentCount, r.violationCount, r.agentInitiatedTransfers)]

\* The counters after an event, the first one included.
Counted(r, event) ==
  LET One(e) == IF event = e THEN 1 ELSE 0 IN
  [exists |-> TRUE,
   agentCount |-> r.agentCount + One("agent_registered"),
   violationCount |-> r.violationCount + One("agent_violation"),
   agentInitiatedTransfers |-> r.agentInitiatedTransfers + One("agent_initiated_transfer"),
   score |-> r.score]

\* reportGuardianEventHandler.
ReportEvent(g, event) ==
  /\ Reported(reputations[g]) < MaxReports
  /\ reputations' = [reputations EXCEPT ![g] = Recomputed(Counted(@, event))]
  /\ UNCHANGED <<abuseReports, stakes, repCrashes>>

\* Mutation: the report counts as a transfer and costs nothing.
AbusedForFree(r) == [r EXCEPT !.agentInitiatedTransfers = @ + 1]

\* What a report makes of the guardian's reputation, if it has one.
Abused(r) == [r EXCEPT !.score = Deducted(@, 10), !.agentInitiatedTransfers = @ + 1]

FileReport(g) ==
  /\ abuseReports[g] < MaxReports
  /\ abuseReports' = [abuseReports EXCEPT ![g] = @ + 1]
  /\ UNCHANGED stakes

\* processAbuseReport stores the report, then the reputation.
AbuseReport(g) ==
  /\ FileReport(g)
  /\ reputations' = IF reputations[g].exists
                    THEN [reputations EXCEPT ![g] = Abused(@)] ELSE reputations
  /\ UNCHANGED repCrashes

AbuseReportCrash(g) ==
  /\ repCrashes < MaxRepCrashes
  /\ repCrashes' = repCrashes + 1
  /\ FileReport(g)
  /\ UNCHANGED reputations

\* createReputationStake.  Nothing is taken from the score.
CreateStake(s, g, n) ==
  /\ stakes[s] = NoStake
  /\ \A t \in StakeIds : t < s => stakes[t] # NoStake
  /\ stakes' = [stakes EXCEPT ![s] = [stakerDid |-> g, amount |-> n, resolved |-> FALSE]]
  /\ UNCHANGED <<reputations, abuseReports, repCrashes>>

\* A slashed stake of n lowers the score by n hundredths, and raises it, past
\* Full if need be, when n is negative.
Slash(g, n) ==
  /\ n < 0 => reputations[g].score - n <= MaxScore
  /\ reputations' = IF reputations[g].exists
                    THEN [reputations EXCEPT ![g].score = Deducted(@, n)] ELSE reputations

\* resolveReputationStake, whether or not the stake is resolved already; the
\* reputation is saved before the stake.
Resolve(s, slashed) ==
  /\ stakes[s].stakerDid \in Guardians
  /\ IF slashed THEN Slash(stakes[s].stakerDid, stakes[s].amount) ELSE UNCHANGED reputations
  /\ stakes' = [stakes EXCEPT ![s].resolved = TRUE]
  /\ UNCHANGED <<abuseReports, repCrashes>>

ResolveCrash(s) ==
  /\ repCrashes < MaxRepCrashes
  /\ repCrashes' = repCrashes + 1
  /\ stakes[s].stakerDid \in Guardians
  /\ Slash(stakes[s].stakerDid, stakes[s].amount)
  /\ UNCHANGED <<abuseReports, stakes>>

ReputationNext ==
  \/ \E g \in Guardians, event \in Events : ReportEvent(g, event)
  \/ \E g \in Guardians : AbuseReport(g) \/ AbuseReportCrash(g)
  \/ \E s \in StakeIds, g \in Guardians, n \in StakeAmounts : CreateStake(s, g, n)
  \/ \E s \in StakeIds, slashed \in BOOLEAN : Resolve(s, slashed)
  \/ \E s \in StakeIds : ResolveCrash(s)

ReputationSpec == ReputationInit /\ [][ReputationNext]_reputationVars

-----------------------------------------------------------------------------
\* Reputations, stakes and counters keep their shape: what three handlers deduct
\* never makes a score negative.
ReputationTypeOK ==
  /\ reputations \in [Guardians -> Reputation]
  /\ abuseReports \in [Guardians -> 0..MaxReports]
  /\ stakes \in [StakeIds -> Stake]
  /\ repCrashes \in 0..MaxRepCrashes

\* The guardian never staked a negative amount (stakes are never removed).
StakedNothingBelow(g) ==
  \A s \in StakeIds : stakes[s].stakerDid = g => stakes[s].amount >= 0

\* The deductions of the three handlers add up: a guardian that staked no
\* negative amount never has a score above 1.0, nor, once it has agents, a better
\* one than its violations and transfers leave it, in whatever order events,
\* abuse reports and slashes arrive, whatever others stake.
ScoreCoversRecord ==
  \A g \in Guardians :
    LET r == reputations[g] IN
    StakedNothingBelow(g) =>
      /\ r.score <= Full
      /\ r.agentCount > 0 =>
           r.score <= ComputeGuardianScore(r.agentCount, r.violationCount, r.agentInitiatedTransfers)

-----------------------------------------------------------------------------
\* governance.ts:74, "Starts at 1.0, penalized by violations and agent-initiated
\* transfers": a reported violation or transfer never raises the score.
PenaltyNeverRaises ==
  [][\A g \in Guardians :
       /\ reputations[g].exists
       /\ \/ reputations'[g].violationCount > reputations[g].violationCount
          \/ reputations'[g].agentInitiatedTransfers > reputations[g].agentInitiatedTransfers
       => reputations'[g].score <= reputations[g].score]_reputationVars

=============================================================================
