------------------------------ MODULE Isolation ------------------------------
(***************************************************************************)
(* Network isolation on one registry node: flagging a DID, the automatic   *)
(* isolation of a sender whose message triggers a critical anomaly, the    *)
(* appeal, and the review votes                                            *)
(* (maip-node/src/handlers/governance.ts and messages-core.ts).            *)
(*                                                                         *)
(* A handler runs to completion before the next request is read, so it is  *)
(* one action.  It persists by whole-file writes, one store after another: *)
(* when a handler writes two stores, the process may stop between the two  *)
(* writes, which the ...Crash actions model; the node then restarts from   *)
(* its files.  A write that is cut short leaves a file that no longer      *)
(* parses, and the restarted store is empty (Torn...).                     *)
(*                                                                         *)
(* An id is abstracted to a counter, which is also the order of insertion  *)
(* in the store (handlers take the first match) and stands for isolatedAt; *)
(* an appeal's submittedAt is the next record id at its submission.  Ids   *)
(* are uuids, but for those of automatic isolations, which are the         *)
(* millisecond: two within one clash.  Crashes, torn files and clashes are *)
(* the mishaps.  The reason, category and the appealPending flag (always   *)
(* equal to status = "appealed") are left out.                             *)
(***************************************************************************)
EXTENDS Naturals, FiniteSets

CONSTANTS Dids,         \* DIDs that can be isolated
          Registries,   \* DIDs that flag and review, this node's own included
          Self,         \* this node, the flagger of automatic isolations
          NoDid,        \* the did of an unused record
          MaxRecords,   \* bound: isolation records ever created
          MaxAppeals,   \* bound: appeals ever submitted
          MaxMishaps    \* bound: mishaps

ASSUME IsolationAssumption ==
  /\ IsFiniteSet(Registries)
  /\ Self \in Registries
  /\ NoDid \notin Dids
  /\ MaxRecords \in Nat /\ MaxAppeals \in Nat /\ MaxMishaps \in Nat

VARIABLES isolations,   \* store isolations.json
          appeals,      \* store appeals.json
          nextRecord,   \* the next unused isolation id
          nextAppeal,   \* the next unused appeal id
          autoId,       \* the record of the last automatic isolation, or 0
          mishaps       \* crashes and clashes of ids so far

vars == <<isolations, appeals, nextRecord, nextAppeal, autoId, mishaps>>

RecordIds == 1..MaxRecords
AppealIds == 1..MaxAppeals
ReviewQuorum == 3

Votes == [Registries -> {"none", "uphold", "lift"}]
NoVotes == [r \in Registries |-> "none"]
Voters(votes) == {r \in Registries : votes[r] # "none"}
LiftVotes(votes) == {r \in Registries : votes[r] = "lift"}

IsolationRecord == [did: Dids \cup {NoDid}, flaggedBy: SUBSET Registries,
                    status: {"none", "active", "appealed", "lifted"}]
Appeal == [isolationId: RecordIds \cup {0}, submittedAt: 0..(MaxRecords + 1),
           votes: Votes, outcome: {"none", "open", "lifted", "upheld"}]

NoRecord == [did |-> NoDid, flaggedBy |-> {}, status |-> "none"]
NoAppeal == [isolationId |-> 0, submittedAt |-> 0, votes |-> NoVotes, outcome |-> "none"]

\* The ids of the records that isolate d now, and whether d is shut out.
ActiveRecords(d) ==
  {i \in RecordIds : isolations[i].did = d /\ isolations[i].status = "active"}
Isolated(d) == ActiveRecords(d) # {}

OpenAppeals(i) ==
  {a \in AppealIds : appeals[a].outcome = "open" /\ appeals[a].isolationId = i}

Init ==
  /\ isolations = [i \in RecordIds |-> NoRecord]
  /\ appeals = [a \in AppealIds |-> NoAppeal]
  /\ nextRecord = 1
  /\ nextAppeal = 1
  /\ autoId = 0
  /\ mishaps = 0

\* A crash; the restart takes longer than a millisecond.
Crash == mishaps < MaxMishaps /\ mishaps' = mishaps + 1 /\ autoId' = 0

NewRecord(d, r) ==
  /\ nextRecord <= MaxRecords
  /\ isolations' = [isolations EXCEPT ![nextRecord] =
                      [did |-> d, flaggedBy |-> {r}, status |-> "active"]]
  /\ nextRecord' = nextRecord + 1
  /\ UNCHANGED <<appeals, nextAppeal, mishaps>>

\* POST /governance/isolate for a DID with no active record.
Isolate(d, r) == ~Isolated(d) /\ NewRecord(d, r) /\ UNCHANGED autoId

\* POST /governance/isolate for a DID that is already isolated: the flagger
\* joins the first active record.
AddFlagger(d, r) ==
  /\ \E i \in ActiveRecords(d) :
       /\ \A j \in ActiveRecords(d) : i <= j
       /\ r \notin isolations[i].flaggedBy
       /\ isolations' = [isolations EXCEPT ![i].flaggedBy = @ \cup {r}]
  /\ UNCHANGED <<appeals, nextRecord, nextAppeal, autoId, mishaps>>

\* A message whose behavioural anomaly has severity > 0.9.  The sender is
\* refused before the detector runs when it is isolated.
AutoIsolate(d) == ~Isolated(d) /\ NewRecord(d, Self) /\ autoId' = nextRecord

\* The id is the millisecond: in that of the last automatic isolation the record
\* takes the place of that one, whatever DID it is about and whatever came of it.
AutoIsolateAgain(d) ==
  /\ mishaps < MaxMishaps
  /\ ~Isolated(d)
  /\ autoId # 0
  /\ isolations' = [isolations EXCEPT ![autoId] =
                      [did |-> d, flaggedBy |-> {Self}, status |-> "active"]]
  /\ mishaps' = mishaps + 1
  /\ UNCHANGED <<appeals, nextRecord, nextAppeal, autoId>>

\* Mutation: the status is not changed.
MarkAppealedForgotten(i) == isolations[i].status = "active" /\ UNCHANGED isolations

\* The isolation is saved as appealed before the appeal exists.
MarkAppealed(i) ==
  /\ isolations[i].status = "active"
  /\ isolations' = [isolations EXCEPT ![i].status = "appealed"]

\* POST /governance/appeal.
SubmitAppeal(i) ==
  /\ nextAppeal <= MaxAppeals
  /\ MarkAppealed(i)
  /\ appeals' = [appeals EXCEPT ![nextAppeal] =
                   [isolationId |-> i, submittedAt |-> nextRecord,
                    votes |-> NoVotes, outcome |-> "open"]]
  /\ nextAppeal' = nextAppeal + 1
  /\ UNCHANGED <<nextRecord, autoId, mishaps>>

SubmitAppealCrash(i) ==
  /\ Crash
  /\ MarkAppealed(i)
  /\ UNCHANGED <<appeals, nextRecord, nextAppeal>>

\* The isolation an appeal is about; its record may have been lost.
Known(i) == i \in RecordIds /\ isolations[i].status # "none"

\* Mutation: original flaggers may review.
MayReviewUnchecked(a, r) == appeals[a].outcome = "open"

MayReview(a, r) ==
  /\ appeals[a].outcome = "open"
  /\ ~(Known(appeals[a].isolationId) /\ r \in isolations[appeals[a].isolationId].flaggedBy)

WithVote(a, r, v) == [appeals[a].votes EXCEPT ![r] = v]

Outcome(votes) ==
  IF 2 * Cardinality(LiftVotes(votes)) >= Cardinality(Voters(votes))
  THEN "lifted" ELSE "upheld"

\* Mutation: an upheld appeal leaves the record appealed.
DecideWithoutReset(i, outcome) ==
  isolations' = IF Known(i) /\ outcome = "lifted"
                THEN [isolations EXCEPT ![i].status = "lifted"]
                ELSE isolations

\* What a decided appeal makes of its isolation record.
Decide(i, outcome) ==
  isolations' = IF Known(i)
                THEN [isolations EXCEPT ![i].status =
                        IF outcome = "lifted" THEN "lifted" ELSE "active"]
                ELSE isolations

\* POST /governance/appeal/:id/vote that leaves the appeal open.
Vote(a, r, v) ==
  /\ MayReview(a, r)
  /\ Cardinality(Voters(WithVote(a, r, v))) < ReviewQuorum
  /\ appeals' = [appeals EXCEPT ![a].votes = WithVote(a, r, v)]
  /\ UNCHANGED <<isolations, nextRecord, nextAppeal, autoId, mishaps>>

\* Mutation: the deciding vote is counted but not stored.
ResolvingVoteDropsVote(a, r, v) ==
  LET votes == WithVote(a, r, v) IN
  /\ MayReview(a, r)
  /\ Cardinality(Voters(votes)) >= ReviewQuorum
  /\ Decide(appeals[a].isolationId, Outcome(votes))
  /\ appeals' = [appeals EXCEPT ![a].outcome = Outcome(votes)]
  /\ UNCHANGED <<nextRecord, nextAppeal, autoId, mishaps>>

\* POST /governance/appeal/:id/vote that decides it: the isolation is saved,
\* then the appeal.
ResolvingVote(a, r, v) ==
  LET votes == WithVote(a, r, v) IN
  /\ MayReview(a, r)
  /\ Cardinality(Voters(votes)) >= ReviewQuorum
  /\ Decide(appeals[a].isolationId, Outcome(votes))
  /\ appeals' = [appeals EXCEPT ![a].votes = votes, ![a].outcome = Outcome(votes)]
  /\ UNCHANGED <<nextRecord, nextAppeal, autoId, mishaps>>

ResolvingVoteCrash(a, r, v) ==
  LET votes == WithVote(a, r, v) IN
  /\ Crash
  /\ MayReview(a, r)
  /\ Cardinality(Voters(votes)) >= ReviewQuorum
  /\ Known(appeals[a].isolationId)
  /\ Decide(appeals[a].isolationId, Outcome(votes))
  /\ UNCHANGED <<appeals, nextRecord, nextAppeal>>

\* A write of isolations.json (appeals.json) is cut short.
TornIsolations ==
  /\ Crash
  /\ nextRecord > 1
  /\ isolations' = [i \in RecordIds |-> NoRecord]
  /\ UNCHANGED <<appeals, nextRecord, nextAppeal>>

TornAppeals ==
  /\ Crash
  /\ nextAppeal > 1
  /\ appeals' = [a \in AppealIds |-> NoAppeal]
  /\ UNCHANGED <<isolations, nextRecord, nextAppeal>>

Next ==
  \/ \E d \in Dids : AutoIsolate(d) \/ AutoIsolateAgain(d)
  \/ \E d \in Dids, r \in Registries : Isolate(d, r) \/ AddFlagger(d, r)
  \/ \E i \in RecordIds : SubmitAppeal(i) \/ SubmitAppealCrash(i)
  \/ \E a \in AppealIds, r \in Registries, v \in {"uphold", "lift"} :
       Vote(a, r, v) \/ ResolvingVote(a, r, v) \/ ResolvingVoteCrash(a, r, v)
  \/ TornIsolations
  \/ TornAppeals

Spec == Init /\ [][Next]_vars

-----------------------------------------------------------------------------
(* Properties of every run, mishaps included. *)

\* Every record, appeal and counter has its shape; nothing is stored under an
\* id that has not been handed out.
TypeOK ==
  /\ isolations \in [RecordIds -> IsolationRecord]
  /\ appeals \in [AppealIds -> Appeal]
  /\ nextRecord \in 1..(MaxRecords + 1)
  /\ nextAppeal \in 1..(MaxAppeals + 1)
  /\ autoId \in 0..MaxRecords /\ autoId < nextRecord
  /\ mishaps \in 0..MaxMishaps
  /\ \A i \in RecordIds : i >= nextRecord => isolations[i] = NoRecord
  /\ \A a \in AppealIds : a >= nextAppeal => appeals[a] = NoAppeal

\* A decided appeal rests on the votes of three registries and says what they
\* say; an open one still lacks votes, however the node crashed (governance.ts,
\* appealVoteHandler: the outcome is computed and stored with the votes).
OutcomeFollowsVotes ==
  \A a \in AppealIds :
    /\ appeals[a].outcome \in {"lifted", "upheld"} =>
         /\ Cardinality(Voters(appeals[a].votes)) = ReviewQuorum
         /\ appeals[a].outcome = Outcome(appeals[a].votes)
    /\ appeals[a].outcome = "open" => Cardinality(Voters(appeals[a].votes)) < ReviewQuorum

\* A mishap leaves at most one stray appeal behind: about a record under appeal
\* no more appeals are open than one and as many as there were mishaps, and about
\* any other record, lifted, lost or active, no more than there were mishaps.
OpenAppealsBounded ==
  \A i \in RecordIds :
    Cardinality(OpenAppeals(i)) <=
      mishaps + (IF isolations[i].status = "appealed" THEN 1 ELSE 0)

\* Until the first mishap the two stores agree: a record is "appealed"
\* exactly while an appeal about it is open, and then exactly one is.
OneOpenAppeal ==
  mishaps = 0 => \A i \in RecordIds :
    /\ \A a, b \in OpenAppeals(i) : a = b
    /\ isolations[i].status = "appealed" <=> OpenAppeals(i) # {}

\* Until the first mishap, no registry that flagged a DID has a vote in
\* the open appeal about that record, whichever of the two it did first.
ReviewersIndependent ==
  mishaps = 0 => \A i \in RecordIds : \A a \in OpenAppeals(i) :
    Voters(appeals[a].votes) \cap isolations[i].flaggedBy = {}

\* What makes the two preceding properties inductive: the record an open appeal
\* points to exists, is "appealed", and is pointed to by that appeal alone.
StoresAgree ==
  mishaps = 0 =>
    /\ \A a \in AppealIds : appeals[a].outcome = "open" =>
         /\ appeals[a].isolationId \in RecordIds
         /\ isolations[appeals[a].isolationId].status = "appealed"
         /\ Voters(appeals[a].votes) \cap isolations[appeals[a].isolationId].flaggedBy = {}
         /\ \A b \in AppealIds :
              /\ appeals[b].outcome = "open"
              /\ appeals[b].isolationId = appeals[a].isolationId
              => a = b
    /\ \A i \in RecordIds : isolations[i].status = "appealed" =>
         \E a \in AppealIds : appeals[a].outcome = "open" /\ appeals[a].isolationId = i

\* Until the first mishap, a lifted record stays lifted: no late vote,
\* second appeal or new flag revives it (misbehaviour opens a new record).
LiftedIsFinal ==
  [][mishaps' = 0 => \A i \in RecordIds :
       isolations[i].status = "lifted" => isolations'[i] = isolations[i]]_vars

-----------------------------------------------------------------------------
\* The two stores implement one ballot per record.
BallotOf(i) ==
  IF OpenAppeals(i) = {} THEN NoVotes
  ELSE appeals[CHOOSE a \in OpenAppeals(i) : TRUE].votes

Ballot == INSTANCE IsolationBallot WITH
  Records <- RecordIds,
  Quorum <- ReviewQuorum,
  status <- [i \in RecordIds |-> isolations[i].status],
  flaggers <- [i \in RecordIds |-> isolations[i].flaggedBy],
  ballot <- [i \in RecordIds |-> BallotOf(i)]

\* Refinement: until the first mishap, the isolation and appeal stores
\* implement the abstract ballot, step by step.
ImplementsBallot ==
  Ballot!BallotInit /\ [][mishaps' = 0 => [Ballot!BallotNext]_Ballot!bvars]_vars

-----------------------------------------------------------------------------
(* What the documents say and the code does not do. *)

\* spec/13-governance.md:160, "If the appeal succeeds, the DID is un-flagged":
\* nothing but a successful appeal ends the isolation of a DID.
OnlyLiftedAppealUnflags ==
  [][\A d \in Dids : Isolated(d) /\ ~Isolated(d)' =>
       \E a \in AppealIds : /\ appeals[a].outcome = "open"
                            /\ appeals'[a].outcome = "lifted"]_vars

=============================================================================
