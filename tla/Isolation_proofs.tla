--------------------------- MODULE Isolation_proofs ---------------------------
(***************************************************************************)
(* Proofs about module Isolation, for any number of DIDs, registries,      *)
(* records, appeals and mishaps.                                           *)
(***************************************************************************)
EXTENDS Isolation, FiniteSetTheorems, TLAPS

(***************************************************************************)
(* Casting a vote adds one registry, at most, to those that have voted.    *)
(***************************************************************************)
LEMMA VotersAfterVote ==
  ASSUME NEW votes \in Votes, NEW r \in Registries, NEW v \in {"uphold", "lift"}
  PROVE  /\ [votes EXCEPT ![r] = v] \in Votes
         /\ Voters([votes EXCEPT ![r] = v]) = Voters(votes) \cup {r}
         /\ Cardinality(Voters(votes)) \in Nat
         /\ Cardinality(Voters([votes EXCEPT ![r] = v])) \in Nat
         /\ Cardinality(Voters([votes EXCEPT ![r] = v])) <= Cardinality(Voters(votes)) + 1
<1>1. [votes EXCEPT ![r] = v] \in Votes
  BY DEF Votes
<1>2. Voters([votes EXCEPT ![r] = v]) = Voters(votes) \cup {r}
  BY DEF Votes, Voters
<1>3. IsFiniteSet(Voters(votes))
  BY IsolationAssumption, FS_Subset DEF IsolationAssumption, Voters
<1>4. Cardinality(Voters(votes)) \in Nat
  BY <1>3, FS_CardinalityType
<1>5. Cardinality(Voters(votes) \cup {r}) \in {Cardinality(Voters(votes)), Cardinality(Voters(votes)) + 1}
  BY <1>3, FS_AddElement
<1>6. Cardinality(Voters([votes EXCEPT ![r] = v]))
        \in {Cardinality(Voters(votes)), Cardinality(Voters(votes)) + 1}
  BY <1>2, <1>5
<1>7. QED
  <2> DEFINE n == Cardinality(Voters(votes))
             m == Cardinality(Voters([votes EXCEPT ![r] = v]))
  <2>1. n \in Nat /\ m \in {n, n + 1}
    BY <1>4, <1>6
  <2> HIDE DEF n, m
  <2>2. n \in Nat /\ m \in Nat /\ m <= n + 1
    BY <2>1
  <2>3. QED
    BY <1>1, <1>2, <2>2, Zenon DEF n, m

(***************************************************************************)
(* Every reachable state has the declared shape.                           *)
(***************************************************************************)
LEMMA TypeInit == Init => TypeOK
<1> SUFFICES ASSUME Init PROVE TypeOK
  OBVIOUS
<1>1. NoRecord \in IsolationRecord
  BY DEF NoRecord, IsolationRecord
<1>2. NoVotes \in Votes
  BY DEF NoVotes, Votes
<1>3. NoAppeal \in Appeal
  BY <1>2, IsolationAssumption DEF NoAppeal, Appeal, IsolationAssumption
<1>4. QED
  BY <1>1, <1>3, IsolationAssumption DEF Init, TypeOK, IsolationAssumption

LEMMA TypeStep == TypeOK /\ [Next]_vars => TypeOK'
<1> SUFFICES ASSUME TypeOK, [Next]_vars PROVE TypeOK'
  OBVIOUS
<1> USE IsolationAssumption DEF IsolationAssumption, TypeOK, RecordIds, AppealIds
<1>a. NoRecord \in IsolationRecord
  BY DEF NoRecord, IsolationRecord
<1>b. NoVotes \in Votes
  BY DEF NoVotes, Votes
<1>c. NoAppeal \in Appeal
  BY <1>b DEF NoAppeal, Appeal
<1>1. ASSUME NEW d \in Dids, NEW r \in Registries, NewRecord(d, r), autoId' \in {autoId, nextRecord}
      PROVE  TypeOK'
  <2>1. [did |-> d, flaggedBy |-> {r}, status |-> "active"] \in IsolationRecord
    BY DEF IsolationRecord
  <2>2. nextRecord \in 1..MaxRecords
    BY <1>1 DEF NewRecord
  <2>3. QED
    BY <1>1, <2>1, <2>2 DEF NewRecord
<1>2. ASSUME NEW d \in Dids, NEW r \in Registries, AddFlagger(d, r) PROVE TypeOK'
  <2>1. PICK i \in ActiveRecords(d) :
              isolations' = [isolations EXCEPT ![i].flaggedBy = @ \cup {r}]
    BY <1>2 DEF AddFlagger
  <2>2. i \in RecordIds /\ isolations[i].status = "active" /\ i < nextRecord
    BY DEF ActiveRecords, NoRecord
  <2>3. isolations[i] \in IsolationRecord
    BY <2>2
  <2>4. [isolations[i] EXCEPT !.flaggedBy = @ \cup {r}] \in IsolationRecord
    BY <2>3 DEF IsolationRecord
  <2>5. isolations' = [isolations EXCEPT ![i] = [isolations[i] EXCEPT !.flaggedBy = @ \cup {r}]]
    BY <2>1
  <2>6. UNCHANGED <<appeals, nextRecord, nextAppeal, autoId, mishaps>>
    BY <1>2 DEF AddFlagger
  <2>7. QED
    BY <2>2, <2>4, <2>5, <2>6
<1>3. ASSUME NEW i \in RecordIds, MarkAppealed(i)
      PROVE  /\ isolations' \in [RecordIds -> IsolationRecord]
             /\ \A j \in RecordIds : j >= nextRecord => isolations'[j] = NoRecord
  <2>1. isolations[i] \in IsolationRecord /\ i < nextRecord
    BY <1>3 DEF MarkAppealed, NoRecord
  <2>2. [isolations[i] EXCEPT !.status = "appealed"] \in IsolationRecord
    BY <2>1 DEF IsolationRecord
  <2>3. QED
    BY <1>3, <2>1, <2>2 DEF MarkAppealed
<1>4. ASSUME NEW i \in RecordIds, SubmitAppeal(i) PROVE TypeOK'
  <2>1. [isolationId |-> i, submittedAt |-> nextRecord,
         votes |-> NoVotes, outcome |-> "open"] \in Appeal
    BY <1>b DEF Appeal
  <2>2. nextAppeal \in 1..MaxAppeals
    BY <1>4 DEF SubmitAppeal
  <2>3. QED
    BY <1>3, <1>4, <2>1, <2>2 DEF SubmitAppeal
<1>5. ASSUME NEW i \in RecordIds, SubmitAppealCrash(i) PROVE TypeOK'
  BY <1>3, <1>5 DEF SubmitAppealCrash, Crash
<1>6. ASSUME NEW i, NEW outcome, Decide(i, outcome)
      PROVE  /\ isolations' \in [RecordIds -> IsolationRecord]
             /\ \A j \in RecordIds : j >= nextRecord => isolations'[j] = NoRecord
  <2>1. CASE Known(i)
    <3>1. i \in RecordIds /\ isolations[i] \in IsolationRecord /\ i < nextRecord
      BY <2>1 DEF Known, NoRecord
    <3>2. [isolations[i] EXCEPT !.status = IF outcome = "lifted" THEN "lifted" ELSE "active"]
             \in IsolationRecord
      BY <3>1 DEF IsolationRecord
    <3>3. QED
      BY <1>6, <2>1, <3>1, <3>2 DEF Decide
  <2>2. QED
    BY <1>6, <2>1 DEF Decide
<1>7. ASSUME NEW a \in AppealIds, NEW r \in Registries, NEW v \in {"uphold", "lift"},
             MayReview(a, r)
      PROVE  /\ a < nextAppeal
             /\ appeals[a] \in Appeal
             /\ WithVote(a, r, v) \in Votes
             /\ [appeals[a] EXCEPT !.votes = WithVote(a, r, v)] \in Appeal
  <2>1. a < nextAppeal /\ appeals[a] \in Appeal
    BY <1>7 DEF MayReview, NoAppeal
  <2>2. WithVote(a, r, v) \in Votes
    BY <2>1 DEF Appeal, Votes, WithVote
  <2>3. QED
    BY <2>1, <2>2 DEF Appeal, WithVote
<1>8. ASSUME NEW a \in AppealIds, NEW r \in Registries, NEW v \in {"uphold", "lift"},
             Vote(a, r, v)
      PROVE  TypeOK'
  <2>1. a < nextAppeal /\ [appeals[a] EXCEPT !.votes = WithVote(a, r, v)] \in Appeal
    BY <1>7, <1>8 DEF Vote
  <2>2. /\ appeals' = [appeals EXCEPT ![a] = [appeals[a] EXCEPT !.votes = WithVote(a, r, v)]]
        /\ UNCHANGED <<isolations, nextRecord, nextAppeal, autoId, mishaps>>
    BY <1>8 DEF Vote
  <2>3. QED
    BY <2>1, <2>2
<1>9. ASSUME NEW a \in AppealIds, NEW r \in Registries, NEW v \in {"uphold", "lift"},
             ResolvingVote(a, r, v)
      PROVE  TypeOK'
  <2> DEFINE votes == WithVote(a, r, v)
  <2>1. a < nextAppeal /\ appeals[a] \in Appeal /\ votes \in Votes
    BY <1>7, <1>9 DEF ResolvingVote
  <2>2. [appeals[a] EXCEPT !.votes = votes, !.outcome = Outcome(votes)] \in Appeal
    BY <2>1 DEF Appeal, Outcome
  <2>3. appeals' = [appeals EXCEPT ![a] =
                      [appeals[a] EXCEPT !.votes = votes, !.outcome = Outcome(votes)]]
    BY <1>9 DEF ResolvingVote
  <2>4. Decide(appeals[a].isolationId, Outcome(votes)) /\ UNCHANGED <<nextRecord, nextAppeal, autoId, mishaps>>
    BY <1>9 DEF ResolvingVote
  <2>5. QED
    BY <1>6, <2>1, <2>2, <2>3, <2>4
<1>10. ASSUME NEW a \in AppealIds, NEW r \in Registries, NEW v \in {"uphold", "lift"},
              ResolvingVoteCrash(a, r, v)
       PROVE  TypeOK'
  BY <1>6, <1>10 DEF ResolvingVoteCrash, Crash
<1>11. ASSUME TornIsolations PROVE TypeOK'
  BY <1>a, <1>11 DEF TornIsolations, Crash
<1>12. ASSUME TornAppeals PROVE TypeOK'
  BY <1>c, <1>12 DEF TornAppeals, Crash
<1>13. ASSUME UNCHANGED vars PROVE TypeOK'
  BY <1>13 DEF vars
<1>14. ASSUME NEW d \in Dids, AutoIsolateAgain(d) PROVE TypeOK'
  <2>1. [did |-> d, flaggedBy |-> {Self}, status |-> "active"] \in IsolationRecord
    BY DEF IsolationRecord
  <2>2. autoId \in RecordIds
    BY <1>14 DEF AutoIsolateAgain
  <2>3. QED
    BY <1>14, <2>1, <2>2 DEF AutoIsolateAgain
<1>15. QED
  BY <1>1, <1>2, <1>4, <1>5, <1>8, <1>9, <1>10, <1>11, <1>12, <1>13, <1>14
     DEF Next, Isolate, AutoIsolate

(***************************************************************************)
(* Type correctness, for any number of mishaps.                            *)
(***************************************************************************)
THEOREM TypeCorrect == Spec => []TypeOK
<1>1. QED
  BY TypeInit, TypeStep, PTL DEF Spec
(***************************************************************************)
(* A decided appeal rests on exactly three votes and says what they say,   *)
(* through any number of crashes, torn files and clashes of ids: the       *)
(* outcome is computed from the votes it is stored with.                   *)
(***************************************************************************)
LEMMA OutcomeStep == TypeOK /\ OutcomeFollowsVotes /\ [Next]_vars => OutcomeFollowsVotes'
<1> SUFFICES ASSUME TypeOK, OutcomeFollowsVotes, [Next]_vars PROVE OutcomeFollowsVotes'
  OBVIOUS
<1>1. CASE UNCHANGED appeals
  BY <1>1 DEF OutcomeFollowsVotes
<1>2. Cardinality(Voters(NoVotes)) = 0
  <2>1. Voters(NoVotes) = {}
    BY DEF Voters, NoVotes
  <2>2. QED
    BY <2>1, FS_EmptySet
<1>3. ASSUME NEW i \in RecordIds, SubmitAppeal(i) PROVE OutcomeFollowsVotes'
  <2>1. nextAppeal \in AppealIds
    BY <1>3, IsolationAssumption DEF SubmitAppeal, TypeOK, AppealIds, IsolationAssumption
  <2>2. /\ appeals'[nextAppeal].outcome = "open"
        /\ appeals'[nextAppeal].votes = NoVotes
        /\ \A a \in AppealIds : a # nextAppeal => appeals'[a] = appeals[a]
    BY <1>3, <2>1 DEF SubmitAppeal, TypeOK
  <2>3. QED
    BY <1>2, <2>2 DEF OutcomeFollowsVotes, ReviewQuorum
<1>4. ASSUME NEW a \in AppealIds, NEW r \in Registries, NEW v \in {"uphold", "lift"},
             Vote(a, r, v)
      PROVE  OutcomeFollowsVotes'
  <2>1. /\ appeals'[a].outcome = "open"
        /\ appeals'[a].votes = WithVote(a, r, v)
        /\ \A b \in AppealIds : b # a => appeals'[b] = appeals[b]
    BY <1>4 DEF Vote, MayReview, TypeOK, Appeal
  <2>2. Cardinality(Voters(WithVote(a, r, v))) < ReviewQuorum
    BY <1>4 DEF Vote
  <2>3. QED
    BY <2>1, <2>2 DEF OutcomeFollowsVotes
<1>5. ASSUME NEW a \in AppealIds, NEW r \in Registries, NEW v \in {"uphold", "lift"},
             ResolvingVote(a, r, v)
      PROVE  OutcomeFollowsVotes'
  <2> DEFINE votes == WithVote(a, r, v)
  <2>1. /\ appeals'[a].outcome = Outcome(votes)
        /\ appeals'[a].votes = votes
        /\ \A b \in AppealIds : b # a => appeals'[b] = appeals[b]
    BY <1>5 DEF ResolvingVote, TypeOK, Appeal
  <2>2. Cardinality(Voters(votes)) = ReviewQuorum
    <3>1. appeals[a].votes \in Votes /\ appeals[a].outcome = "open"
      BY <1>5 DEF ResolvingVote, MayReview, TypeOK, Appeal
    <3>2. Cardinality(Voters(appeals[a].votes)) < ReviewQuorum
      BY <3>1 DEF OutcomeFollowsVotes
    <3>3. Cardinality(Voters(votes)) >= ReviewQuorum
      BY <1>5 DEF ResolvingVote
    <3>4. /\ Cardinality(Voters(appeals[a].votes)) \in Nat
          /\ Cardinality(Voters(votes)) \in Nat
          /\ Cardinality(Voters(votes)) <= Cardinality(Voters(appeals[a].votes)) + 1
      BY <3>1, VotersAfterVote DEF WithVote
    <3>5. QED
      BY <3>2, <3>3, <3>4 DEF ReviewQuorum
  <2>3. Outcome(votes) \in {"lifted", "upheld"}
    BY DEF Outcome
  <2>4. QED
    BY <2>1, <2>2, <2>3 DEF OutcomeFollowsVotes
<1>6. CASE TornAppeals
  BY <1>6 DEF TornAppeals, OutcomeFollowsVotes, NoAppeal
<1>7. QED
  BY <1>1, <1>3, <1>4, <1>5, <1>6
     DEF Next, vars, NewRecord, Isolate, AutoIsolate, AutoIsolateAgain, AddFlagger, SubmitAppealCrash,
         ResolvingVoteCrash, TornIsolations

THEOREM DecisionsFollowVotes == Spec => []OutcomeFollowsVotes
<1>1. Init => OutcomeFollowsVotes
  BY DEF Init, OutcomeFollowsVotes, NoAppeal
<1>2. QED
  BY <1>1, OutcomeStep, TypeCorrect, PTL DEF Spec
(***************************************************************************)
(* The isolation store and the appeal store agree until the first mishap.  *)
(* StoresAgree is inductive together with TypeOK; each handler is followed *)
(* record by record and appeal by appeal.                                  *)
(***************************************************************************)
LEMMA AgreeInit == Init => StoresAgree
BY DEF Init, StoresAgree, NoRecord, NoAppeal

LEMMA MishapStep == [Next]_vars => mishaps' = mishaps \/ mishaps' = mishaps + 1
BY Zenon DEF Next, vars, NewRecord, Isolate, AutoIsolate, AutoIsolateAgain, Crash, AddFlagger, SubmitAppeal,
       SubmitAppealCrash, Vote, ResolvingVote, ResolvingVoteCrash, TornIsolations, TornAppeals

LEMMA AgreeStep == TypeOK /\ StoresAgree /\ [Next]_vars => StoresAgree'
<1> SUFFICES ASSUME TypeOK, StoresAgree, [Next]_vars PROVE StoresAgree'
  OBVIOUS
<1>c. mishaps' = 0 => mishaps = 0
  BY MishapStep, IsolationAssumption DEF TypeOK, IsolationAssumption
<1> SUFFICES ASSUME mishaps' = 0, mishaps = 0 PROVE StoresAgree'
  BY <1>c DEF StoresAgree
<1>1. ASSUME NEW d \in Dids, NEW r \in Registries, NewRecord(d, r) PROVE StoresAgree'
  <2>1. nextRecord \in RecordIds /\ isolations[nextRecord].status = "none"
    BY <1>1 DEF NewRecord, TypeOK, RecordIds, NoRecord
  <2>2. /\ isolations'[nextRecord].status = "active"
        /\ \A i \in RecordIds : i # nextRecord => isolations'[i] = isolations[i]
        /\ appeals' = appeals
    BY <1>1, <2>1 DEF NewRecord, TypeOK
  <2>3. QED
    BY <2>1, <2>2 DEF StoresAgree
<1>2. ASSUME NEW d \in Dids, NEW r \in Registries, AddFlagger(d, r) PROVE StoresAgree'
  <2>1. PICK i \in ActiveRecords(d) :
              isolations' = [isolations EXCEPT ![i].flaggedBy = @ \cup {r}]
    BY <1>2 DEF AddFlagger
  <2>2. i \in RecordIds /\ isolations[i].status = "active" /\ isolations[i] \in IsolationRecord
    BY DEF ActiveRecords, TypeOK
  <2>3. /\ isolations'[i].status = "active"
        /\ \A j \in RecordIds : j # i => isolations'[j] = isolations[j]
        /\ appeals' = appeals
    BY <1>2, <2>1, <2>2 DEF AddFlagger, TypeOK, IsolationRecord
  <2>4. QED
    BY <2>2, <2>3 DEF StoresAgree
<1>3. ASSUME NEW i \in RecordIds, SubmitAppeal(i) PROVE StoresAgree'
  <2>1. nextAppeal \in AppealIds /\ appeals[nextAppeal].outcome = "none"
    BY <1>3, IsolationAssumption
       DEF SubmitAppeal, TypeOK, AppealIds, NoAppeal, IsolationAssumption
  <2>2. isolations[i].status = "active" /\ isolations[i] \in IsolationRecord
    BY <1>3 DEF SubmitAppeal, MarkAppealed, TypeOK
  <2>3. /\ isolations'[i].status = "appealed"
        /\ \A j \in RecordIds : /\ isolations'[j].flaggedBy = isolations[j].flaggedBy
                                /\ j # i => isolations'[j] = isolations[j]
    BY <1>3, <2>2 DEF SubmitAppeal, MarkAppealed, TypeOK, IsolationRecord
  <2>4. /\ appeals'[nextAppeal].outcome = "open"
        /\ appeals'[nextAppeal].isolationId = i
        /\ appeals'[nextAppeal].votes = NoVotes
        /\ \A a \in AppealIds : a # nextAppeal => appeals'[a] = appeals[a]
    BY <1>3, <2>1 DEF SubmitAppeal, TypeOK
  <2>5. Voters(NoVotes) = {}
    BY DEF Voters, NoVotes
  <2>6. QED
    BY <2>1, <2>2, <2>3, <2>4, <2>5 DEF StoresAgree
<1>4. ASSUME NEW a \in AppealIds, NEW r \in Registries, NEW v \in {"uphold", "lift"},
             MayReview(a, r)
      PROVE  /\ appeals[a].outcome = "open"
             /\ appeals[a].isolationId \in RecordIds
             /\ isolations[appeals[a].isolationId].status = "appealed"
             /\ Known(appeals[a].isolationId)
             /\ Voters(WithVote(a, r, v)) \cap isolations[appeals[a].isolationId].flaggedBy = {}
  <2>1. /\ appeals[a].outcome = "open"
        /\ appeals[a].isolationId \in RecordIds
        /\ isolations[appeals[a].isolationId].status = "appealed"
    BY <1>4 DEF MayReview, StoresAgree
  <2>2. Known(appeals[a].isolationId) /\ r \notin isolations[appeals[a].isolationId].flaggedBy
    BY <1>4, <2>1 DEF MayReview, Known
  <2>3. appeals[a].votes \in Votes
    BY DEF TypeOK, Appeal
  <2>4. Voters(WithVote(a, r, v)) = Voters(appeals[a].votes) \cup {r}
    BY <2>3, VotersAfterVote DEF WithVote
  <2>5. Voters(appeals[a].votes) \cap isolations[appeals[a].isolationId].flaggedBy = {}
    BY <2>1 DEF StoresAgree
  <2>6. QED
    BY <2>1, <2>2, <2>4, <2>5
<1>5. ASSUME NEW a \in AppealIds, NEW r \in Registries, NEW v \in {"uphold", "lift"},
             Vote(a, r, v)
      PROVE  StoresAgree'
  <2>1. MayReview(a, r)
    BY <1>5 DEF Vote
  <2>2. Voters(WithVote(a, r, v)) \cap isolations[appeals[a].isolationId].flaggedBy = {}
    BY <1>4, <2>1
  <2>3. /\ isolations' = isolations
        /\ appeals'[a].votes = WithVote(a, r, v)
        /\ \A b \in AppealIds : /\ appeals'[b].outcome = appeals[b].outcome
                                /\ appeals'[b].isolationId = appeals[b].isolationId
                                /\ b # a => appeals'[b].votes = appeals[b].votes
    BY <1>5 DEF Vote, TypeOK, Appeal
  <2>4. QED
    BY <2>2, <2>3 DEF StoresAgree
<1>6. ASSUME NEW a \in AppealIds, NEW r \in Registries, NEW v \in {"uphold", "lift"},
             ResolvingVote(a, r, v)
      PROVE  StoresAgree'
  <2> DEFINE i == appeals[a].isolationId
             o == Outcome(WithVote(a, r, v))
  <2>1. MayReview(a, r) /\ Decide(i, o)
    BY <1>6 DEF ResolvingVote
  <2>2. /\ appeals[a].outcome = "open"
        /\ i \in RecordIds
        /\ isolations[i].status = "appealed"
        /\ Known(i)
    BY <1>4, <2>1
  <2>3. o \in {"lifted", "upheld"}
    BY DEF Outcome
  <2>4. /\ isolations'[i].status \in {"lifted", "active"}
        /\ \A j \in RecordIds : j # i => isolations'[j] = isolations[j]
    BY <2>1, <2>2 DEF Decide, TypeOK, IsolationRecord
  <2>5. /\ appeals'[a].outcome = o
        /\ \A b \in AppealIds : b # a => appeals'[b] = appeals[b]
    BY <1>6 DEF ResolvingVote, TypeOK, Appeal
  <2> HIDE DEF o
  <2>6. \A b \in AppealIds : appeals'[b].outcome = "open" =>
          b # a /\ appeals[b].outcome = "open" /\ appeals[b].isolationId # i
    BY <2>2, <2>3, <2>5 DEF StoresAgree
  <2>7. \A b \in AppealIds : appeals'[b].outcome = "open" =>
          /\ appeals'[b] = appeals[b]
          /\ appeals[b].isolationId \in RecordIds
          /\ isolations'[appeals[b].isolationId] = isolations[appeals[b].isolationId]
    BY <2>4, <2>5, <2>6 DEF StoresAgree
  <2>8. \A j \in RecordIds : isolations'[j].status = "appealed" =>
          \E b \in AppealIds : appeals'[b].outcome = "open" /\ appeals'[b].isolationId = j
    <3> SUFFICES ASSUME NEW j \in RecordIds, isolations'[j].status = "appealed"
                 PROVE  \E b \in AppealIds :
                          appeals'[b].outcome = "open" /\ appeals'[b].isolationId = j
      OBVIOUS
    <3>1. j # i /\ isolations[j].status = "appealed"
      BY <2>4
    <3>2. PICK b \in AppealIds : appeals[b].outcome = "open" /\ appeals[b].isolationId = j
      BY <3>1 DEF StoresAgree
    <3>3. b # a
      BY <3>1, <3>2
    <3>4. QED
      BY <2>5, <3>2, <3>3
  <2> HIDE DEF i
  <2>9. QED
    BY <2>6, <2>7, <2>8 DEF StoresAgree
<1>7. CASE UNCHANGED vars
  BY <1>7 DEF vars, StoresAgree
<1>8. mishaps' # mishaps + 1
  OBVIOUS
<1>9. QED
  BY <1>1, <1>2, <1>3, <1>5, <1>6, <1>7, <1>8, IsolationAssumption, Zenon
     DEF Next, Isolate, AutoIsolate, AutoIsolateAgain, Crash, SubmitAppealCrash, ResolvingVoteCrash,
         TornIsolations, TornAppeals, IsolationAssumption

LEMMA Agreement == Spec => [](TypeOK /\ StoresAgree)
<1>1. TypeOK /\ StoresAgree /\ [Next]_vars => (TypeOK /\ StoresAgree)'
  BY TypeStep, AgreeStep
<1>2. QED
  BY TypeInit, AgreeInit, <1>1, PTL DEF Spec

(***************************************************************************)
(* A record is appealed exactly while one appeal about it is open, and no  *)
(* flagger of the record has a vote in that appeal.                        *)
(***************************************************************************)
THEOREM SingleAppeal == Spec => []OneOpenAppeal
<1>1. TypeOK /\ StoresAgree => OneOpenAppeal
  BY DEF StoresAgree, OneOpenAppeal, OpenAppeals
<1>2. QED
  BY <1>1, Agreement, PTL

THEOREM Independence == Spec => []ReviewersIndependent
<1>1. TypeOK /\ StoresAgree => ReviewersIndependent
  BY DEF StoresAgree, ReviewersIndependent, OpenAppeals
<1>2. QED
  BY <1>1, Agreement, PTL
(***************************************************************************)
(* No handler changes a lifted record until the first mishap: new flags    *)
(* join active records only, and an open appeal never points to a lifted   *)
(* record.                                                                 *)
(***************************************************************************)
LEMMA LiftedStep ==
  TypeOK /\ StoresAgree /\ [Next]_vars =>
    (mishaps' = 0 => \A i \in RecordIds :
       isolations[i].status = "lifted" => isolations'[i] = isolations[i])
<1> SUFFICES ASSUME TypeOK, StoresAgree, [Next]_vars, mishaps' = 0,
                    NEW i \in RecordIds, isolations[i].status = "lifted"
             PROVE  isolations'[i] = isolations[i]
  OBVIOUS
<1>1. mishaps = 0 /\ mishaps' # mishaps + 1
  BY MishapStep, IsolationAssumption DEF TypeOK, IsolationAssumption
<1>2. ASSUME NEW d \in Dids, NEW r \in Registries, NewRecord(d, r)
      PROVE  isolations'[i] = isolations[i]
  <2>1. i # nextRecord
    BY <1>2 DEF NewRecord, TypeOK, NoRecord
  <2>2. QED
    BY <1>2, <2>1 DEF NewRecord, TypeOK
<1>3. ASSUME NEW d \in Dids, NEW r \in Registries, AddFlagger(d, r)
      PROVE  isolations'[i] = isolations[i]
  BY <1>3 DEF AddFlagger, ActiveRecords, TypeOK
<1>4. ASSUME NEW j \in RecordIds, SubmitAppeal(j) PROVE isolations'[i] = isolations[i]
  BY <1>4 DEF SubmitAppeal, MarkAppealed, TypeOK
<1>5. ASSUME NEW a \in AppealIds, NEW r \in Registries, NEW v \in {"uphold", "lift"},
             ResolvingVote(a, r, v)
      PROVE  isolations'[i] = isolations[i]
  <2>1. appeals[a].isolationId # i
    BY <1>1, <1>5 DEF ResolvingVote, MayReview, StoresAgree
  <2>2. QED
    BY <1>5, <2>1 DEF ResolvingVote, Decide, TypeOK
<1>6. ASSUME NEW a \in AppealIds, NEW r \in Registries, NEW v \in {"uphold", "lift"},
             Vote(a, r, v)
      PROVE  isolations'[i] = isolations[i]
  BY <1>6 DEF Vote
<1>7. CASE UNCHANGED vars
  BY <1>7 DEF vars
<1>8. QED
  BY <1>1, <1>2, <1>3, <1>4, <1>5, <1>6, <1>7, IsolationAssumption, Zenon
     DEF Next, Isolate, AutoIsolate, AutoIsolateAgain, Crash, SubmitAppealCrash, ResolvingVoteCrash,
         TornIsolations, TornAppeals, IsolationAssumption

THEOREM LiftedFinal == Spec => LiftedIsFinal
<1>1. TypeOK /\ StoresAgree /\ [Next]_vars =>
        [mishaps' = 0 => \A i \in RecordIds :
           isolations[i].status = "lifted" => isolations'[i] = isolations[i]]_vars
  BY LiftedStep
<1>2. QED
  BY <1>1, Agreement, PTL DEF Spec, LiftedIsFinal

(***************************************************************************)
(* A mishap leaves at most one stray appeal behind: the bound is inductive *)
(* as it stands, once a record without an id yet has no appeals.           *)
(***************************************************************************)
Room(i) == mishaps + (IF isolations[i].status = "appealed" THEN 1 ELSE 0)

OpenInv ==
  /\ OpenAppealsBounded
  /\ \A a \in AppealIds : appeals[a].outcome = "open" => appeals[a].isolationId < nextRecord

LEMMA OpenFinite ==
  ASSUME NEW S \in SUBSET AppealIds
  PROVE  IsFiniteSet(S) /\ Cardinality(S) \in Nat
<1>1. IsFiniteSet(AppealIds)
  BY IsolationAssumption, FS_Interval DEF AppealIds, IsolationAssumption
<1> QED BY <1>1, FS_Subset, FS_CardinalityType

\* Fewer appeals about a record are open than before, or as many.
LEMMA FewerOpen ==
  ASSUME NEW i, OpenAppeals(i)' \subseteq OpenAppeals(i)
  PROVE  /\ Cardinality(OpenAppeals(i)) \in Nat /\ Cardinality(OpenAppeals(i)') \in Nat
         /\ Cardinality(OpenAppeals(i)') <= Cardinality(OpenAppeals(i))
<1>1. PICK o : o = OpenAppeals(i)
  OBVIOUS
<1>2. PICK p : p = OpenAppeals(i)'
  OBVIOUS
<1>3. o \in SUBSET AppealIds /\ p \subseteq o
  BY <1>1, <1>2 DEF OpenAppeals
<1>4. IsFiniteSet(o) /\ Cardinality(o) \in Nat
  BY <1>3, OpenFinite
<1>5. Cardinality(p) \in Nat /\ Cardinality(p) <= Cardinality(o)
  BY <1>3, <1>4, FS_Subset, FS_CardinalityType
<1> QED BY <1>1, <1>2, <1>4, <1>5

LEMMA OpenInvInit == Init => OpenInv
<1> SUFFICES ASSUME Init PROVE OpenInv
  OBVIOUS
<1>1. \A i \in RecordIds : OpenAppeals(i) = {} /\ isolations[i].status = "none"
  BY DEF Init, OpenAppeals, NoAppeal, NoRecord
<1>2. mishaps = 0 /\ \A a \in AppealIds : appeals[a].outcome = "none"
  BY DEF Init, NoAppeal
<1>3. Cardinality({}) = 0
  BY FS_EmptySet
<1>4. \A i \in RecordIds : Cardinality(OpenAppeals(i)) = 0 /\ Room(i) = 0
  BY <1>1, <1>2, <1>3 DEF Room
<1>5. \A i \in RecordIds : Cardinality(OpenAppeals(i)) <= Room(i)
  BY <1>4
<1> QED BY <1>2, <1>5 DEF OpenInv, OpenAppealsBounded, Room

\* After a step that opens no appeal: it is a mishap, or every record keeps its
\* status or has fewer appeals open than it had room for.
LEMMA NoAppealOpened ==
  ASSUME TypeOK, OpenInv,
         \A a \in AppealIds : appeals'[a].outcome = "open" =>
            appeals[a].outcome = "open" /\ appeals'[a].isolationId = appeals[a].isolationId,
         nextRecord' \in {nextRecord, nextRecord + 1}, mishaps' \in Nat,
         \/ mishaps' = mishaps + 1
         \/ mishaps' = mishaps /\ \A i \in RecordIds :
               \/ isolations'[i].status = isolations[i].status
               \/ Cardinality(OpenAppeals(i)') <= mishaps
  PROVE  OpenInv'
<1>n. /\ nextRecord \in Nat /\ mishaps \in Nat
      /\ \A a \in AppealIds : appeals[a].isolationId \in Nat
  BY IsolationAssumption DEF TypeOK, IsolationAssumption, RecordIds, Appeal
<1>1. ASSUME NEW i \in RecordIds
      PROVE  Cardinality(OpenAppeals(i)') <= Room(i)'
  <2>1. OpenAppeals(i)' \subseteq OpenAppeals(i)
    BY DEF OpenAppeals
  <2>2. /\ Cardinality(OpenAppeals(i)) \in Nat /\ Cardinality(OpenAppeals(i)') \in Nat
        /\ Cardinality(OpenAppeals(i)') <= Cardinality(OpenAppeals(i))
    BY <2>1, FewerOpen
  <2>3. Cardinality(OpenAppeals(i)) <= Room(i)
    BY DEF OpenInv, OpenAppealsBounded, Room
  <2>4. CASE mishaps' = mishaps + 1
    BY <1>n, <2>2, <2>3, <2>4 DEF Room
  <2>5. CASE mishaps' = mishaps /\ isolations'[i].status = isolations[i].status
    BY <1>n, <2>2, <2>3, <2>5 DEF Room
  <2>6. CASE mishaps' = mishaps /\ Cardinality(OpenAppeals(i)') <= mishaps
    BY <1>n, <2>2, <2>6 DEF Room
  <2> QED BY <2>4, <2>5, <2>6
<1>2. \A a \in AppealIds : appeals'[a].outcome = "open" => appeals'[a].isolationId < nextRecord'
  BY <1>n DEF OpenInv
<1> QED BY <1>1, <1>2 DEF OpenInv, OpenAppealsBounded, Room

LEMMA OpenInvStep == TypeOK /\ OpenInv /\ [Next]_vars => OpenInv'
<1> SUFFICES ASSUME TypeOK, OpenInv, [Next]_vars PROVE OpenInv'
  OBVIOUS
<1>n. /\ nextRecord \in Nat /\ nextAppeal \in Nat /\ mishaps \in Nat
      /\ RecordIds \subseteq Nat /\ AppealIds \subseteq Nat
  BY IsolationAssumption DEF TypeOK, IsolationAssumption, RecordIds, AppealIds
<1>1. ASSUME NEW d \in Dids, NEW r \in Registries, NewRecord(d, r) PROVE OpenInv'
  <2>1. /\ nextRecord' = nextRecord + 1 /\ UNCHANGED <<appeals, mishaps>>
        /\ \A i \in RecordIds : i # nextRecord => isolations'[i] = isolations[i]
    BY <1>1 DEF NewRecord, TypeOK
  <2>2. OpenAppeals(nextRecord) = {}
    <3> SUFFICES ASSUME NEW a \in AppealIds, appeals[a].outcome = "open",
                        appeals[a].isolationId = nextRecord
                 PROVE  FALSE
      BY DEF OpenAppeals
    <3>1. nextRecord < nextRecord
      BY DEF OpenInv
    <3> QED BY <1>n, <3>1
  <2>3. Cardinality(OpenAppeals(nextRecord)) <= mishaps
    BY <1>n, <2>2, FS_EmptySet
  <2>4. \A i : OpenAppeals(i)' = OpenAppeals(i)
    BY <2>1 DEF OpenAppeals
  <2>5. \A i \in RecordIds : \/ isolations'[i].status = isolations[i].status
                            \/ Cardinality(OpenAppeals(i)') <= mishaps
    BY <2>1, <2>3, <2>4
  <2> QED BY <1>n, <2>1, <2>5, NoAppealOpened
<1>2. ASSUME NEW d \in Dids, NEW r \in Registries, AddFlagger(d, r) PROVE OpenInv'
  <2>1. UNCHANGED <<appeals, nextRecord, mishaps>>
    BY <1>2 DEF AddFlagger
  <2>2. \A i \in RecordIds : isolations'[i].status = isolations[i].status
    BY <1>2 DEF AddFlagger, TypeOK, IsolationRecord
  <2> QED BY <1>n, <2>1, <2>2, NoAppealOpened
<1>3. ASSUME NEW i \in RecordIds, MarkAppealed(i)
      PROVE  /\ isolations[i].status = "active" /\ i < nextRecord
             /\ isolations'[i].status = "appealed"
             /\ \A j \in RecordIds : j # i => isolations'[j] = isolations[j]
  BY <1>3, <1>n DEF MarkAppealed, TypeOK, IsolationRecord, NoRecord
<1>4. ASSUME NEW i \in RecordIds, SubmitAppeal(i) PROVE OpenInv'
  <2>1. nextAppeal \in AppealIds /\ appeals[nextAppeal].outcome = "none"
    BY <1>4, IsolationAssumption DEF SubmitAppeal, TypeOK, AppealIds, NoAppeal, IsolationAssumption
  <2>2. /\ appeals'[nextAppeal].outcome = "open" /\ appeals'[nextAppeal].isolationId = i
        /\ \A a \in AppealIds : a # nextAppeal => appeals'[a] = appeals[a]
        /\ UNCHANGED <<nextRecord, mishaps>>
    BY <1>4, <2>1 DEF SubmitAppeal, TypeOK
  <2>3. /\ isolations[i].status = "active" /\ i < nextRecord /\ isolations'[i].status = "appealed"
        /\ \A j \in RecordIds : j # i => isolations'[j] = isolations[j]
    BY <1>3, <1>4 DEF SubmitAppeal
  <2>4. OpenAppeals(i)' = OpenAppeals(i) \cup {nextAppeal} /\ nextAppeal \notin OpenAppeals(i)
    BY <2>1, <2>2 DEF OpenAppeals
  <2>5. \A j \in RecordIds : j # i => OpenAppeals(j)' = OpenAppeals(j)
    BY <2>1, <2>2 DEF OpenAppeals
  <2>6. PICK o : o = OpenAppeals(i)
    OBVIOUS
  <2>7. IsFiniteSet(o) /\ Cardinality(o) \in Nat
    BY <2>6, OpenFinite DEF OpenAppeals
  <2>8. Cardinality(o) <= mishaps
    BY <1>n, <2>3, <2>6 DEF OpenInv, OpenAppealsBounded
  <2>9. Cardinality(o \cup {nextAppeal}) = Cardinality(o) + 1
    BY <2>4, <2>6, <2>7, FS_AddElement
  <2>10. Cardinality(OpenAppeals(i)') <= Room(i)'
    BY <1>n, <2>2, <2>3, <2>4, <2>6, <2>7, <2>8, <2>9 DEF Room
  <2>11. ASSUME NEW j \in RecordIds, j # i PROVE Cardinality(OpenAppeals(j)') <= Room(j)'
    BY <2>2, <2>3, <2>5, <2>11 DEF OpenInv, OpenAppealsBounded, Room
  <2>12. \A a \in AppealIds : appeals'[a].outcome = "open" => appeals'[a].isolationId < nextRecord'
    BY <2>2, <2>3 DEF OpenInv
  <2> QED BY <2>10, <2>11, <2>12 DEF OpenInv, OpenAppealsBounded, Room
<1>5. CASE (\E i \in RecordIds : SubmitAppealCrash(i)) \/ TornIsolations
           \/ (\E d \in Dids : AutoIsolateAgain(d))
           \/ \E a \in AppealIds, r \in Registries, v \in {"uphold", "lift"} : ResolvingVoteCrash(a, r, v)
  <2>1. appeals' = appeals /\ mishaps' = mishaps + 1 /\ UNCHANGED nextRecord
    BY <1>5 DEF SubmitAppealCrash, TornIsolations, AutoIsolateAgain, ResolvingVoteCrash, Crash
  <2> QED BY <1>n, <2>1, NoAppealOpened
<1>6. CASE TornAppeals
  <2>1. mishaps' = mishaps + 1 /\ UNCHANGED nextRecord /\ \A a \in AppealIds : appeals'[a].outcome = "none"
    BY <1>6 DEF TornAppeals, Crash, NoAppeal
  <2> QED BY <1>n, <2>1, NoAppealOpened
<1>7. ASSUME NEW a \in AppealIds, NEW r \in Registries, NEW v \in {"uphold", "lift"}, Vote(a, r, v)
      PROVE  OpenInv'
  <2>1. /\ UNCHANGED <<isolations, nextRecord, mishaps>>
        /\ \A b \in AppealIds : /\ appeals'[b].outcome = appeals[b].outcome
                                /\ appeals'[b].isolationId = appeals[b].isolationId
    BY <1>7 DEF Vote, TypeOK, Appeal
  <2> QED BY <1>n, <2>1, NoAppealOpened
<1>8. ASSUME NEW a \in AppealIds, NEW r \in Registries, NEW v \in {"uphold", "lift"}, ResolvingVote(a, r, v)
      PROVE  OpenInv'
  <2>1. PICK i : i = appeals[a].isolationId
    OBVIOUS
  <2>2. PICK w : w = Outcome(WithVote(a, r, v))
    OBVIOUS
  <2>3. /\ appeals[a].outcome = "open" /\ Decide(i, w) /\ UNCHANGED <<nextRecord, mishaps>>
        /\ appeals'[a].outcome = w
        /\ \A b \in AppealIds : b # a => appeals'[b] = appeals[b]
    BY <1>8, <2>1, <2>2 DEF ResolvingVote, MayReview, TypeOK, Appeal
  <2>4. w \in {"lifted", "upheld"}
    BY <2>2 DEF Outcome
  <2>5. \A j \in RecordIds : j # i => isolations'[j] = isolations[j]
    BY <2>3 DEF Decide, Known, TypeOK
  <2>6. ASSUME i \in RecordIds PROVE Cardinality(OpenAppeals(i)') <= mishaps
    <3>1. PICK o : o = OpenAppeals(i)
      OBVIOUS
    <3>2. a \in o /\ IsFiniteSet(o) /\ Cardinality(o) \in Nat
      BY <2>1, <2>3, <3>1, OpenFinite DEF OpenAppeals
    <3>3. Cardinality(o \ {a}) = Cardinality(o) - 1
      BY <3>2, FS_RemoveElement
    <3>4. Cardinality(o) <= mishaps + 1
      BY <1>n, <2>6, <3>1, <3>2 DEF OpenInv, OpenAppealsBounded
    <3>5. OpenAppeals(i)' = o \ {a}
      BY <2>3, <2>4, <3>1 DEF OpenAppeals
    <3> QED BY <1>n, <3>2, <3>3, <3>4, <3>5
  <2>7. \A j \in RecordIds : \/ isolations'[j].status = isolations[j].status
                            \/ Cardinality(OpenAppeals(j)') <= mishaps
    BY <2>5, <2>6
  <2>8. \A b \in AppealIds : appeals'[b].outcome = "open" =>
          appeals[b].outcome = "open" /\ appeals'[b].isolationId = appeals[b].isolationId
    BY <2>3, <2>4
  <2> QED BY <1>n, <2>3, <2>7, <2>8, NoAppealOpened
<1>9. CASE UNCHANGED vars
  BY <1>n, <1>9, NoAppealOpened DEF vars
<1> QED
  BY <1>1, <1>2, <1>4, <1>5, <1>6, <1>7, <1>8, <1>9, IsolationAssumption, Zenon
     DEF Next, Isolate, AutoIsolate, IsolationAssumption

\* For any number of crashes, torn files and clashes of ids: about a record under
\* appeal no more appeals are open than one and as many as there were mishaps, and
\* about any other none but those (appealHandler, appealVoteHandler).
THEOREM StrayAppealsBounded == Spec => []OpenAppealsBounded
<1>1. TypeOK /\ OpenInv /\ [Next]_vars => (TypeOK /\ OpenInv)'
  BY TypeStep, OpenInvStep
<1>2. OpenInv => OpenAppealsBounded
  BY DEF OpenInv
<1>3. QED
  BY <1>1, <1>2, TypeInit, OpenInvInit, PTL DEF Spec

(***************************************************************************)
(* The two stores implement one ballot per record until the first mishap.   *)
(* At most one appeal about a record is open, so its votes are the ballot; *)
(* each handler is then one step of the ballot.                            *)
(***************************************************************************)
\* The two modules mean the same by Cardinality.
LEMMA SameCardinality ==
  ASSUME NEW S
  PROVE  Ballot!Cardinality(S) = Cardinality(S)
BY Zenon DEF Ballot!Cardinality, Cardinality

LEMMA OpenOnes ==
  ASSUME TypeOK, StoresAgree, mishaps = 0, NEW i \in RecordIds
  PROVE  /\ \A a \in OpenAppeals(i) : OpenAppeals(i) = {a}
         /\ OpenAppeals(i) # {} => isolations[i].status = "appealed"
BY DEF StoresAgree, OpenAppeals

LEMMA NoBallot ==
  ASSUME NEW i, OpenAppeals(i) = {}
  PROVE  BallotOf(i) = NoVotes
BY DEF BallotOf

LEMMA OneBallot ==
  ASSUME NEW i, NEW a, OpenAppeals(i) = {a}
  PROVE  BallotOf(i) = appeals[a].votes
BY DEF BallotOf

LEMMA NoBallotAfter ==
  ASSUME NEW i, OpenAppeals(i)' = {}
  PROVE  BallotOf(i)' = NoVotes
BY DEF BallotOf, NoVotes

LEMMA OneBallotAfter ==
  ASSUME NEW i, NEW a, OpenAppeals(i)' = {a}
  PROVE  BallotOf(i)' = appeals'[a].votes
BY DEF BallotOf

\* The appeals about a record are as they were.
LEMMA SameBallot ==
  ASSUME TypeOK, StoresAgree, mishaps = 0, NEW i \in RecordIds,
         OpenAppeals(i)' = OpenAppeals(i),
         \A a \in OpenAppeals(i) : appeals'[a].votes = appeals[a].votes
  PROVE  BallotOf(i)' = BallotOf(i)
<1>1. CASE OpenAppeals(i) = {}
  BY <1>1, NoBallot, NoBallotAfter
<1>2. CASE OpenAppeals(i) # {}
  <2>1. PICK a \in OpenAppeals(i) : TRUE
    BY <1>2
  <2>2. OpenAppeals(i) = {a} /\ OpenAppeals(i)' = {a}
    BY <2>1, OpenOnes
  <2>3. BallotOf(i) = appeals[a].votes /\ BallotOf(i)' = appeals'[a].votes
    BY <2>2, OneBallot, OneBallotAfter
  <2> QED BY <2>1, <2>3
<1> QED BY <1>1, <1>2

\* What the refinement mapping puts for the variables of the ballot.
Statuses == [i \in RecordIds |-> isolations[i].status]
Flaggers == [i \in RecordIds |-> isolations[i].flaggedBy]
Ballots == [i \in RecordIds |-> BallotOf(i)]

LEMMA BallotStarts == Init => Ballot!BallotInit
<1> SUFFICES ASSUME Init PROVE Ballot!BallotInit
  OBVIOUS
<1>1. \A i \in RecordIds : OpenAppeals(i) = {}
  BY DEF Init, OpenAppeals, NoAppeal
<1>2. \A i \in RecordIds : BallotOf(i) = NoVotes
  BY <1>1, NoBallot
<1>3. \A i \in RecordIds : isolations[i].status = "none" /\ isolations[i].flaggedBy = {}
  BY DEF Init, NoRecord
<1> QED BY <1>2, <1>3 DEF Ballot!BallotInit, Ballot!NoVotes, NoVotes

\* A step of the ballot, in terms of the three maps.
LEMMA AsBallotStep ==
  ASSUME \/ UNCHANGED <<Statuses, Flaggers, Ballots>>
         \/ \E i \in RecordIds :
              /\ Statuses[i] = "active"
              /\ Statuses' = [Statuses EXCEPT ![i] = "appealed"] /\ UNCHANGED <<Flaggers, Ballots>>
         \/ \E i \in RecordIds, r \in Registries :
              \/ /\ Statuses[i] = "none"
                 /\ Statuses' = [Statuses EXCEPT ![i] = "active"]
                 /\ Flaggers' = [Flaggers EXCEPT ![i] = {r}] /\ UNCHANGED Ballots
              \/ /\ Statuses[i] = "active"
                 /\ Flaggers' = [Flaggers EXCEPT ![i] = @ \cup {r}] /\ UNCHANGED <<Statuses, Ballots>>
         \/ \E i \in RecordIds, r \in Registries, v \in {"uphold", "lift"} : Ballot!CastVote(i, r, v)
  PROVE  [Ballot!BallotNext]_(Ballot!bvars)
BY Zenon DEF Ballot!BallotNext, Ballot!bvars, Ballot!Open, Ballot!Join, Ballot!Contest, Statuses, Flaggers, Ballots

\* Each handler, until the first mishap.
LEMMA BallotStep ==
  TypeOK /\ StoresAgree /\ [Next]_vars =>
    (mishaps' = 0 => [Ballot!BallotNext]_(Ballot!bvars))
<1> SUFFICES ASSUME TypeOK, StoresAgree, [Next]_vars, mishaps' = 0
             PROVE  [Ballot!BallotNext]_(Ballot!bvars)
  OBVIOUS
<1>1. mishaps = 0 /\ mishaps' # mishaps + 1
  BY MishapStep, IsolationAssumption DEF TypeOK, IsolationAssumption
<1>2. ASSUME UNCHANGED appeals
      PROVE  UNCHANGED Ballots
  <2>1. ASSUME NEW i \in RecordIds PROVE BallotOf(i)' = BallotOf(i)
    <3>1. OpenAppeals(i)' = OpenAppeals(i)
      BY <1>2 DEF OpenAppeals
    <3> QED BY <1>1, <1>2, <3>1, SameBallot
  <2> QED BY <2>1 DEF Ballots
<1>3. ASSUME NEW d \in Dids, NEW r \in Registries, NewRecord(d, r)
      PROVE  [Ballot!BallotNext]_(Ballot!bvars)
  <2>1. nextRecord \in RecordIds /\ isolations[nextRecord].status = "none"
    BY <1>3 DEF NewRecord, TypeOK, RecordIds, NoRecord
  <2>2. /\ isolations'[nextRecord].status = "active" /\ isolations'[nextRecord].flaggedBy = {r}
        /\ \A i \in RecordIds : i # nextRecord => isolations'[i] = isolations[i]
        /\ UNCHANGED appeals
    BY <1>3, <2>1 DEF NewRecord, TypeOK
  <2>3. Statuses' = [Statuses EXCEPT ![nextRecord] = "active"]
    BY <2>2 DEF Statuses
  <2>4. Flaggers' = [Flaggers EXCEPT ![nextRecord] = {r}]
    BY <2>2 DEF Flaggers
  <2>5. Statuses[nextRecord] = "none" /\ UNCHANGED Ballots
    BY <1>2, <2>1, <2>2 DEF Statuses
  <2> QED BY <2>1, <2>3, <2>4, <2>5, AsBallotStep
<1>4. ASSUME NEW d \in Dids, NEW r \in Registries, AddFlagger(d, r)
      PROVE  [Ballot!BallotNext]_(Ballot!bvars)
  <2>1. PICK i \in ActiveRecords(d) :
              isolations' = [isolations EXCEPT ![i].flaggedBy = @ \cup {r}]
    BY <1>4 DEF AddFlagger
  <2>2. i \in RecordIds /\ isolations[i].status = "active" /\ isolations[i] \in IsolationRecord
    BY DEF ActiveRecords, TypeOK
  <2>3. /\ isolations'[i].status = isolations[i].status
        /\ isolations'[i].flaggedBy = isolations[i].flaggedBy \cup {r}
        /\ \A j \in RecordIds : j # i => isolations'[j] = isolations[j]
        /\ UNCHANGED appeals
    BY <1>4, <2>1, <2>2 DEF AddFlagger, TypeOK, IsolationRecord
  <2>4. UNCHANGED Statuses
    BY <2>3 DEF Statuses
  <2>5. Flaggers' = [Flaggers EXCEPT ![i] = @ \cup {r}]
    BY <2>2, <2>3 DEF Flaggers
  <2>6. Statuses[i] = "active" /\ UNCHANGED Ballots
    BY <1>2, <2>2, <2>3 DEF Statuses
  <2> QED BY <2>2, <2>4, <2>5, <2>6, AsBallotStep
<1>5. ASSUME NEW i \in RecordIds, SubmitAppeal(i)
      PROVE  [Ballot!BallotNext]_(Ballot!bvars)
  <2>1. nextAppeal \in AppealIds /\ appeals[nextAppeal].outcome = "none"
    BY <1>5, IsolationAssumption
       DEF SubmitAppeal, TypeOK, AppealIds, NoAppeal, IsolationAssumption
  <2>2. isolations[i].status = "active" /\ isolations[i] \in IsolationRecord
    BY <1>5 DEF SubmitAppeal, MarkAppealed, TypeOK
  <2>3. /\ isolations'[i].status = "appealed"
        /\ \A j \in RecordIds : /\ isolations'[j].flaggedBy = isolations[j].flaggedBy
                                /\ j # i => isolations'[j] = isolations[j]
    BY <1>5, <2>2 DEF SubmitAppeal, MarkAppealed, TypeOK, IsolationRecord
  <2>4. /\ appeals'[nextAppeal].outcome = "open"
        /\ appeals'[nextAppeal].isolationId = i
        /\ appeals'[nextAppeal].votes = NoVotes
        /\ \A a \in AppealIds : a # nextAppeal => appeals'[a] = appeals[a]
    BY <1>5, <2>1 DEF SubmitAppeal, TypeOK
  <2>5. OpenAppeals(i) = {}
    BY <1>1, <2>2, OpenOnes
  <2>6. BallotOf(i)' = NoVotes /\ BallotOf(i) = NoVotes
    <3>1. OpenAppeals(i)' = {nextAppeal}
      BY <2>1, <2>4, <2>5 DEF OpenAppeals
    <3>2. BallotOf(i)' = appeals'[nextAppeal].votes
      BY <3>1, OneBallotAfter
    <3> QED BY <2>4, <2>5, <3>2, NoBallot
  <2>7. ASSUME NEW j \in RecordIds, j # i PROVE BallotOf(j)' = BallotOf(j)
    <3>1. OpenAppeals(j)' = OpenAppeals(j)
      BY <2>1, <2>4, <2>7 DEF OpenAppeals
    <3>2. \A a \in OpenAppeals(j) : appeals'[a].votes = appeals[a].votes
      BY <2>1, <2>4 DEF OpenAppeals
    <3> QED BY <1>1, <3>1, <3>2, SameBallot
  <2>8. UNCHANGED Ballots
    BY <2>6, <2>7 DEF Ballots
  <2>9. Statuses' = [Statuses EXCEPT ![i] = "appealed"]
    BY <2>3 DEF Statuses
  <2>10. UNCHANGED Flaggers /\ Statuses[i] = "active"
    BY <2>2, <2>3 DEF Flaggers, Statuses
  <2> QED BY <2>8, <2>9, <2>10, AsBallotStep
<1>6. ASSUME NEW a \in AppealIds, NEW r \in Registries, NEW i, MayReview(a, r),
             i = appeals[a].isolationId
      PROVE  /\ i \in RecordIds /\ appeals[a] \in Appeal /\ appeals[a].votes \in Votes
             /\ Known(i) /\ isolations[i].status = "appealed" /\ r \notin isolations[i].flaggedBy
             /\ OpenAppeals(i) = {a} /\ BallotOf(i) = appeals[a].votes
  <2>1. /\ i \in RecordIds /\ appeals[a] \in Appeal
        /\ isolations[i].status = "appealed"
    BY <1>1, <1>6 DEF MayReview, StoresAgree, TypeOK
  <2>2. Known(i) /\ r \notin isolations[i].flaggedBy
    BY <1>6, <2>1 DEF MayReview, Known
  <2>3. a \in OpenAppeals(i)
    BY <1>6 DEF MayReview, OpenAppeals
  <2>4. OpenAppeals(i) = {a}
    BY <1>1, <2>1, <2>3, OpenOnes
  <2>5. BallotOf(i) = appeals[a].votes
    BY <2>4, OneBallot
  <2> QED BY <2>1, <2>2, <2>4, <2>5 DEF Appeal
<1>7. ASSUME NEW a \in AppealIds, NEW i \in RecordIds, OpenAppeals(i) = {a},
             \A b \in AppealIds : b # a => appeals'[b] = appeals[b],
             appeals'[a].isolationId = i,
             NEW j \in RecordIds, j # i
      PROVE  BallotOf(j)' = BallotOf(j)
  <2>0. appeals[a].isolationId = i
    BY <1>7 DEF OpenAppeals
  <2>1. OpenAppeals(j)' = OpenAppeals(j)
    BY <1>7, <2>0 DEF OpenAppeals
  <2>2. \A b \in OpenAppeals(j) : appeals'[b].votes = appeals[b].votes
    BY <1>7, <2>0 DEF OpenAppeals
  <2> QED BY <1>1, <2>1, <2>2, SameBallot
<1>8. ASSUME NEW a \in AppealIds, NEW r \in Registries, NEW v \in {"uphold", "lift"}, Vote(a, r, v)
      PROVE  [Ballot!BallotNext]_(Ballot!bvars)
  <2>1. PICK i : i = appeals[a].isolationId
    OBVIOUS
  <2>2. PICK w : w = WithVote(a, r, v)
    OBVIOUS
  <2>3. /\ i \in RecordIds /\ appeals[a] \in Appeal /\ appeals[a].votes \in Votes
        /\ isolations[i].status = "appealed" /\ r \notin isolations[i].flaggedBy
        /\ OpenAppeals(i) = {a} /\ BallotOf(i) = appeals[a].votes
    BY <1>6, <1>8, <2>1 DEF Vote
  <2>4. /\ isolations' = isolations /\ appeals'[a].votes = w
        /\ appeals'[a].outcome = "open" /\ appeals'[a].isolationId = i
        /\ \A b \in AppealIds : b # a => appeals'[b] = appeals[b]
    BY <1>8, <2>1, <2>2, <2>3 DEF Vote, MayReview, TypeOK, Appeal
  <2>5. w = [BallotOf(i) EXCEPT ![r] = v] /\ Cardinality(Voters(w)) < ReviewQuorum
    BY <1>8, <2>2, <2>3 DEF Vote, WithVote
  <2>6. BallotOf(i)' = w
    <3>1. OpenAppeals(i)' = {a}
      BY <2>3, <2>4 DEF OpenAppeals
    <3> QED BY <2>4, <3>1, OneBallotAfter
  <2>7. \A j \in RecordIds : j # i => BallotOf(j)' = BallotOf(j)
    BY <1>7, <2>3, <2>4
  <2>8. Ballots' = [Ballots EXCEPT ![i] = w]
    BY <2>6, <2>7 DEF Ballots
  <2>9. UNCHANGED <<Statuses, Flaggers>>
    BY <2>4 DEF Statuses, Flaggers
  <2>10. Statuses[i] = "appealed" /\ r \notin Flaggers[i] /\ w = [Ballots[i] EXCEPT ![r] = v]
    BY <2>3, <2>5 DEF Statuses, Flaggers, Ballots
  <2>11. Ballot!Cardinality(Ballot!Cast(w)) < ReviewQuorum
    BY <2>5, SameCardinality DEF Ballot!Cast, Voters
  <2>12. Ballot!CastVote(i, r, v)
    BY <2>8, <2>9, <2>10, <2>11, Zenon DEF Ballot!CastVote, Statuses, Flaggers, Ballots
  <2> QED BY <2>3, <2>12, AsBallotStep
<1>9. ASSUME NEW a \in AppealIds, NEW r \in Registries, NEW v \in {"uphold", "lift"},
             ResolvingVote(a, r, v)
      PROVE  [Ballot!BallotNext]_(Ballot!bvars)
  <2>1. PICK i : i = appeals[a].isolationId
    OBVIOUS
  <2>2. PICK w : w = WithVote(a, r, v)
    OBVIOUS
  <2>3. /\ i \in RecordIds /\ appeals[a] \in Appeal /\ appeals[a].votes \in Votes
        /\ Known(i) /\ isolations[i].status = "appealed" /\ r \notin isolations[i].flaggedBy
        /\ OpenAppeals(i) = {a} /\ BallotOf(i) = appeals[a].votes
    BY <1>6, <1>9, <2>1 DEF ResolvingVote
  <2>4. PICK o : o = Outcome(w)
    OBVIOUS
  <2>5. /\ Decide(i, o) /\ appeals'[a].outcome = o /\ appeals'[a].isolationId = i
        /\ \A b \in AppealIds : b # a => appeals'[b] = appeals[b]
    BY <1>9, <2>1, <2>2, <2>3, <2>4 DEF ResolvingVote, TypeOK, Appeal
  <2>6. w = [BallotOf(i) EXCEPT ![r] = v] /\ Cardinality(Voters(w)) >= ReviewQuorum
    BY <1>9, <2>2, <2>3 DEF ResolvingVote, WithVote
  <2>7. o = (IF Ballot!Lifted(w) THEN "lifted" ELSE "upheld")
    BY <2>4, SameCardinality, Zenon DEF Outcome, Ballot!Lifted, Ballot!Lifts, Ballot!Cast, Voters, LiftVotes
  <2>8. isolations[i] \in IsolationRecord
    BY <2>3 DEF TypeOK
  <2>9. /\ isolations'[i].status = IF Ballot!Lifted(w) THEN "lifted" ELSE "active"
        /\ isolations'[i].flaggedBy = isolations[i].flaggedBy
        /\ \A j \in RecordIds : j # i => isolations'[j] = isolations[j]
    <3>1. PICK s : s = IF Ballot!Lifted(w) THEN "lifted" ELSE "active"
      OBVIOUS
    <3>2. s = IF o = "lifted" THEN "lifted" ELSE "active"
      BY <2>7, <3>1, Zenon
    <3>3. isolations' = [isolations EXCEPT ![i] = [isolations[i] EXCEPT !.status = s]]
      BY <2>3, <2>5, <3>2 DEF Decide
    <3> QED BY <2>3, <2>8, <3>1, <3>3 DEF TypeOK, IsolationRecord
  <2>10. BallotOf(i)' = NoVotes
    <3>1. o # "open"
      BY <2>7, Zenon
    <3>2. OpenAppeals(i)' = {}
      BY <2>3, <2>5, <3>1 DEF OpenAppeals
    <3> QED BY <3>2, NoBallotAfter
  <2>11. \A j \in RecordIds : j # i => BallotOf(j)' = BallotOf(j)
    BY <1>7, <2>3, <2>5
  <2>12. Ballots' = [Ballots EXCEPT ![i] = NoVotes]
    BY <2>10, <2>11 DEF Ballots
  <2>13. UNCHANGED Flaggers
    BY <2>9 DEF Flaggers
  <2>14. Statuses' = [Statuses EXCEPT ![i] = IF Ballot!Lifted(w) THEN "lifted" ELSE "active"]
    <3>1. PICK s : s = IF Ballot!Lifted(w) THEN "lifted" ELSE "active"
      OBVIOUS
    <3>2. isolations'[i].status = s
      BY <2>9, <3>1
    <3>3. Statuses' = [Statuses EXCEPT ![i] = s]
      BY <2>9, <3>2 DEF Statuses
    <3> QED BY <3>1, <3>3
  <2>15. Statuses[i] = "appealed" /\ r \notin Flaggers[i] /\ w = [Ballots[i] EXCEPT ![r] = v]
    BY <2>3, <2>6 DEF Statuses, Flaggers, Ballots
  <2>16. Ballot!Cast(w) = Voters(w)
    BY DEF Ballot!Cast, Voters
  <2>17. ~(Ballot!Cardinality(Ballot!Cast(w)) < ReviewQuorum)
    <3>1. IsFiniteSet(Voters(w))
      BY IsolationAssumption, FS_Subset DEF IsolationAssumption, Voters
    <3>2. Cardinality(Voters(w)) \in Nat
      BY <3>1, FS_CardinalityType
    <3> QED BY <2>6, <2>16, <3>2, SameCardinality DEF ReviewQuorum
  <2>18. Ballot!CastVote(i, r, v)
    BY <2>12, <2>13, <2>14, <2>15, <2>17, Zenon
       DEF Ballot!CastVote, Ballot!NoVotes, NoVotes, Statuses, Flaggers, Ballots
  <2> QED BY <2>3, <2>18, AsBallotStep
<1>10. CASE UNCHANGED vars
  <2>1. UNCHANGED Ballots
    BY <1>2, <1>10 DEF vars
  <2>2. UNCHANGED <<Statuses, Flaggers>>
    BY <1>10 DEF vars, Statuses, Flaggers
  <2> QED BY <2>1, <2>2, AsBallotStep
<1>11. QED
  BY <1>1, <1>3, <1>4, <1>5, <1>8, <1>9, <1>10, IsolationAssumption, Zenon
     DEF Next, Isolate, AutoIsolate, AutoIsolateAgain, Crash, SubmitAppealCrash, ResolvingVoteCrash,
         TornIsolations, TornAppeals, IsolationAssumption

\* Refinement, for any number of DIDs, registries, records and appeals: until the
\* first mishap, the two stores behave as one ballot box per record
\* (isolateHandler, appealHandler, appealVoteHandler of governance.ts).
THEOREM StoresImplementBallot == Spec => ImplementsBallot
<1>1. TypeOK /\ StoresAgree /\ [Next]_vars =>
        [mishaps' = 0 => [Ballot!BallotNext]_(Ballot!bvars)]_vars
  BY BallotStep
<1>2. QED
  BY <1>1, Agreement, BallotStarts, PTL DEF Spec, ImplementsBallot

=============================================================================
