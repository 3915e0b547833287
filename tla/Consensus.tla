------------------------------ MODULE Consensus ------------------------------
(***************************************************************************)
(* Proposals to isolate a DID (maip-node/src/handlers/consensus-core.ts),  *)
(* at one node.                                                            *)
(*                                                                         *)
(* A node keeps the proposals made at it, in memory, and votes on them as  *)
(* itself.  It has voted when it proposes, so a vote is either too late or *)
(* a duplicate: the rest of voteOnProposal, which counts votes and         *)
(* isolates, is not reached.                                               *)
(***************************************************************************)
EXTENDS Naturals, Sequences, SequencesExt

CONSTANTS Suspects,         \* the DIDs proposed for isolation
          Registries,       \* what stores.registrations.count() can be
          VotingDays,       \* how long a proposal is open, 7 in the code
          MaxProposals,     \* bound: proposals
          MaxVotingTime     \* bound: the clock

ASSUME ConsensusAssumption ==
  /\ Registries \subseteq Nat /\ VotingDays \in Nat
  /\ MaxProposals \in Nat /\ MaxVotingTime \in Nat

VARIABLES proposals, votingTime

consensusVars == <<proposals, votingTime>>

Proposal == [suspect: Suspects, isolateVotes: Nat, totalVoters: Nat \ {0},
             status: {"voting", "approved", "rejected", "expired"}, expires: Nat]

ConsensusInit == proposals = <<>> /\ votingTime = 0

Voting(suspect) ==
  {i \in DOMAIN proposals : proposals[i].suspect = suspect /\ proposals[i].status = "voting"}

\* Mutation: only an open proposal that is not past its time is a duplicate.
ProposeUnexpired(suspect, registries) ==
  /\ Len(proposals) < MaxProposals
  /\ \A i \in Voting(suspect) : votingTime > proposals[i].expires
  /\ proposals' = Append(proposals,
       [suspect |-> suspect, isolateVotes |-> 1, totalVoters |-> IF registries = 0 THEN 1 ELSE registries,
        status |-> "voting", expires |-> votingTime + VotingDays])
  /\ UNCHANGED votingTime

\* createIsolationProposal, with the proposer's own vote.
Propose(suspect, registries) ==
  /\ Len(proposals) < MaxProposals
  /\ Voting(suspect) = {}
  /\ proposals' = Append(proposals,
       [suspect |-> suspect, isolateVotes |-> 1, totalVoters |-> IF registries = 0 THEN 1 ELSE registries,
        status |-> "voting", expires |-> votingTime + VotingDays])
  /\ UNCHANGED votingTime

\* voteOnProposal, when the proposal is past its time.
VoteLate(i) ==
  /\ i \in DOMAIN proposals
  /\ proposals[i].status = "voting"
  /\ votingTime > proposals[i].expires
  /\ proposals' = [proposals EXCEPT ![i].status = "expired"]
  /\ UNCHANGED votingTime

VotingDay ==
  /\ votingTime < MaxVotingTime
  /\ votingTime' = votingTime + 1
  /\ UNCHANGED proposals

ConsensusNext ==
  \/ \E s \in Suspects, n \in Registries : Propose(s, n)
  \/ \E i \in 1..MaxProposals : VoteLate(i)
  \/ VotingDay

-----------------------------------------------------------------------------
\* Proposals are well formed, and at most one about a DID takes votes.
ConsensusTypeOK ==
  /\ proposals \in Seq(Proposal)
  /\ \A i, j \in DOMAIN proposals :
       proposals[i].status = "voting" /\ proposals[j].status = "voting"
         /\ proposals[i].suspect = proposals[j].suspect => i = j
  /\ votingTime \in 0..MaxVotingTime

-----------------------------------------------------------------------------
(* What the code says and does not do. *)

\* consensus-core.ts:13, "Isolation executes when quorum is reached (>50% of
\* registries)".
QuorumApproves ==
  \A i \in DOMAIN proposals :
    2 * proposals[i].isolateVotes > proposals[i].totalVoters => proposals[i].status = "approved"

=============================================================================
