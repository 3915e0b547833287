-------------------------- MODULE NodeRecords_proofs ---------------------------
(***************************************************************************)
(* Proofs about the records of a node, for any entities, spaces, posts,    *)
(* forks, stores, claims and messages.  The transfers, credits and         *)
(* reputations among them have proofs of their own, which carry over: a    *)
(* behaviour of the records is one of each component.                      *)
(***************************************************************************)
EXTENDS NodeRecords, GuardianTransfer_proofs, Economy_proofs, FiniteSetTheorems

(***************************************************************************)
(* What a step of the records is to each of them.                          *)
(***************************************************************************)
LEMMA StepOfEach ==
  [RecordsNext]_recordsVars =>
    /\ [Next]_vars /\ [TransferNext]_transferVars /\ [ForksNext]_forkVars
    /\ [EconomyNext]_economyVars /\ [SpacesNext]_spaceVars
    /\ [SovereigntyNext]_sovereigntyVars /\ [FactsNext]_factVars
<1> SUFFICES ASSUME [RecordsNext]_recordsVars
             PROVE  /\ [Next]_vars /\ [TransferNext]_transferVars /\ [ForksNext]_forkVars
                    /\ [EconomyNext]_economyVars /\ [SpacesNext]_spaceVars
                    /\ [SovereigntyNext]_sovereigntyVars /\ [FactsNext]_factVars
  OBVIOUS
<1> USE DEF economyVars, EconomyNext
<1>1. CASE Next /\ AtBehavior
  BY <1>1 DEF AtBehavior
<1>2. CASE TransferNext /\ AtTransfers
  BY <1>2 DEF AtTransfers
<1>3. CASE ForksNext /\ AtForks
  BY <1>3 DEF AtForks
<1>4. CASE CreditNext /\ AtCredits
  BY <1>4 DEF AtCredits
<1>5. CASE ReputationNext /\ AtReputation
  BY <1>5 DEF AtReputation
<1>6. CASE SpacesNext /\ AtSpaces
  BY <1>6 DEF AtSpaces
<1>7. CASE SovereigntyNext /\ AtSovereignty
  BY <1>7 DEF AtSovereignty
<1>8. CASE FactsNext /\ AtFacts
  BY <1>8 DEF AtFacts
<1>9. CASE UNCHANGED recordsVars
  BY <1>9 DEF recordsVars
<1>10. QED
  BY <1>1, <1>2, <1>3, <1>4, <1>5, <1>6, <1>7, <1>8, <1>9 DEF RecordsNext

LEMMA RecordsAreTransfers == RecordsSpec => TransferSpec
<1>1. RecordsInit => TransferInit
  BY DEF RecordsInit
<1>2. QED
  BY <1>1, StepOfEach, PTL DEF RecordsSpec, TransferSpec

LEMMA RecordsAreEconomy == RecordsSpec => EconomySpec
<1>1. RecordsInit => EconomyInit
  BY DEF RecordsInit
<1>2. QED
  BY <1>1, StepOfEach, PTL DEF RecordsSpec, EconomySpec

(***************************************************************************)
(* The log of transactions never says more than the balances, and a score  *)
(* never forgives what the record holds.                                   *)
(***************************************************************************)

\* Between two writes of a transfer the balances are ahead of the log, never
\* behind it, whatever else the node records (economy-core.ts).
THEOREM RecordsLedgerCovered == RecordsSpec => []LedgerCovered
BY RecordsAreEconomy, LedgerIsCovered, PTL

\* All balances together are what was awarded, less what a crash cut from a
\* transfer, whatever else the node records (economy-core.ts).
THEOREM RecordsCreditsConserved == RecordsSpec => []CreditsConserved
BY RecordsAreEconomy, NoCreditsFromNowhere, PTL

\* A guardian who has agents has no better score than its abuse reports and
\* penalties leave it (guardian-abuse-core.ts).
THEOREM RecordsScoreCovered == RecordsSpec => []ScoreCoversRecord
BY RecordsAreEconomy, ScoresCoverRecords, PTL

(***************************************************************************)
(* Behaviour: every message is in the window or in the baseline.           *)
(***************************************************************************)
CountInv ==
  /\ stats \in [count: Nat, start: Nat]
  /\ baseline \in [total: Nat, days: Nat]
  /\ received \in Nat /\ now \in Nat
  /\ EveryMessageCounted

LEMMA CountInvInit == Init => CountInv
BY DEF Init, CountInv, EveryMessageCounted

LEMMA CountInvStep == CountInv /\ [Next]_vars => CountInv'
<1> SUFFICES ASSUME CountInv, [Next]_vars PROVE CountInv'
  OBVIOUS
<1>1. ASSUME stats' = Stats, baseline' = Baseline, received' = received + 1, now' = now PROVE CountInv'
  <2>1. CASE NewProfile
    <3>1. stats' = [count |-> 1, start |-> now] /\ baseline' = baseline
      BY <1>1, <2>1 DEF Stats, Baseline, RollOver
    <3>2. QED
      BY <1>1, <2>1, <3>1 DEF CountInv, EveryMessageCounted, NewProfile
  <2>2. CASE ~NewProfile /\ RollOver
    <3>1. /\ stats' = [count |-> 1, start |-> now]
          /\ baseline' = [total |-> baseline.total + stats.count, days |-> baseline.days + 1]
      BY <1>1, <2>2 DEF Stats, Baseline
    <3>2. QED
      BY <1>1, <3>1 DEF CountInv, EveryMessageCounted
  <2>3. CASE ~NewProfile /\ ~RollOver
    <3>1. stats' = [stats EXCEPT !.count = @ + 1] /\ baseline' = baseline
      BY <1>1, <2>3 DEF Stats, Baseline
    <3>2. QED
      BY <1>1, <3>1 DEF CountInv, EveryMessageCounted
  <2>4. QED
    BY <2>1, <2>2, <2>3
<1>2. ASSUME NEW other \in Others, Process(other) \/ Reject(other) PROVE CountInv'
  BY <1>1, <1>2 DEF Process, Reject
<1>3. CASE Release \/ Tick \/ UNCHANGED vars
  BY <1>3 DEF Release, Tick, vars, CountInv, EveryMessageCounted
<1>4. QED
  BY <1>2, <1>3 DEF Next

\* Each message of a sender is in its window or its baseline, once
\* (updateBaseline).
THEOREM MessagesCounted == RecordsSpec => []EveryMessageCounted
<1>1. RecordsInit => CountInv
  BY CountInvInit DEF RecordsInit
<1>2. CountInv => EveryMessageCounted
  BY DEF CountInv
<1>3. QED
  BY <1>1, <1>2, CountInvStep, StepOfEach, PTL DEF RecordsSpec

-----------------------------------------------------------------------------
(***************************************************************************)
(* Behaviour: the flags for violations.  What a profile keeps of rejected  *)
(* messages is never more than there were, and before the first flag they  *)
(* are the only violations.                                                *)
(***************************************************************************)
RejectedIn(s) == {i \in DOMAIN s : s[i].kind = "rejection"}

FlagInv ==
  /\ anomalies \in Seq(Anomaly)
  /\ now \in 0..MaxTime /\ rejections \in Nat
  /\ Cardinality(RejectedIn(anomalies)) <= rejections
  /\ FlagsNeedRejections

LEMMA RejectedFinite ==
  ASSUME NEW s \in Seq(Anomaly), NEW S \in SUBSET (DOMAIN s)
  PROVE  IsFiniteSet(S) /\ Cardinality(S) \in Nat
<1>1. DOMAIN s = 1..Len(s) /\ Len(s) \in Nat
  OBVIOUS
<1>2. IsFiniteSet(DOMAIN s)
  BY <1>1, FS_Interval
<1> QED BY <1>2, FS_Subset, FS_CardinalityType

\* What is kept of a profile is part of it.
LEMMA LastKeeps ==
  ASSUME NEW s \in Seq(Anomaly), NEW n \in Nat
  PROVE  /\ Last(s, n) \in Seq(Anomaly)
         /\ Cardinality(RejectedIn(Last(s, n))) <= Cardinality(RejectedIn(s))
         /\ \A i \in DOMAIN Last(s, n) : \E j \in DOMAIN s : Last(s, n)[i] = s[j]
<1>1. RejectedIn(s) \in SUBSET (DOMAIN s) /\ Cardinality(RejectedIn(s)) \in Nat
      /\ IsFiniteSet(RejectedIn(s))
  BY RejectedFinite DEF RejectedIn
<1>2. CASE Len(s) <= n
  <2>1. Last(s, n) = s
    BY <1>2 DEF Last
  <2> QED BY <1>1, <2>1
<1>3. CASE Len(s) > n
  <2>1. PICK d \in Nat : d = Len(s) - n
    BY <1>3
  <2>2. PICK l : l = Last(s, n)
    OBVIOUS
  <2>3. l = SubSeq(s, d + 1, Len(s))
    BY <1>3, <2>1, <2>2 DEF Last
  <2>4. l \in Seq(Anomaly) /\ DOMAIN l = 1..n /\ \A i \in 1..n : i + d \in DOMAIN s /\ l[i] = s[i + d]
    BY <1>3, <2>1, <2>3
  <2>5. PICK f : f = [i \in RejectedIn(l) |-> i + d]
    OBVIOUS
  <2>6. f \in [RejectedIn(l) -> RejectedIn(s)]
    BY <2>4, <2>5 DEF RejectedIn
  <2>7. \A i, j \in RejectedIn(l) : f[i] = f[j] => i = j
    BY <2>1, <2>4, <2>5 DEF RejectedIn
  <2>8. f \in Injection(RejectedIn(l), RejectedIn(s))
    BY <2>6, <2>7 DEF Injection, IsInjective
  <2>9. Cardinality(RejectedIn(l)) <= Cardinality(RejectedIn(s))
    BY <1>1, <2>8, FS_Injection
  <2> QED BY <2>2, <2>4, <2>9
<1> QED BY <1>2, <1>3

\* What the detector says of one message.
LEMMA FlagsOf ==
  ASSUME FlagInv, NEW other \in Others
  PROVE  /\ Flags(other) \in Seq(Anomaly)
         /\ \A i \in DOMAIN Flags(other) : Flags(other)[i].kind # "rejection"
         /\ \A i \in DOMAIN Flags(other) : Flags(other)[i].kind = "trust" => Violations >= Threshold
<1> DEFINE Fine(f) == /\ f \in Seq(Anomaly)
                      /\ \A i \in DOMAIN f : f[i].kind # "rejection"
                      /\ \A i \in DOMAIN f : f[i].kind = "trust" => Violations >= Threshold
<1>n. now \in 0..MaxTime
  BY DEF FlagInv
<1>1. ASSUME NEW a \in Anomaly, a.kind # "rejection", a.kind = "trust" => Violations >= Threshold
      PROVE  Fine(<<a>>)
  BY <1>1
<1>2. Fine(<<>>)
  OBVIOUS
<1>3. ASSUME NEW f, NEW g, Fine(f), Fine(g)
      PROVE  Fine(f \o g)
  <2>1. f \in Seq(Anomaly) /\ g \in Seq(Anomaly)
    BY <1>3
  <2>2. f \o g \in Seq(Anomaly) /\ \A i \in DOMAIN (f \o g) :
          (i \in DOMAIN f /\ (f \o g)[i] = f[i]) \/ (i - Len(f) \in DOMAIN g /\ (f \o g)[i] = g[i - Len(f)])
    BY <2>1
  <2> QED BY <1>3, <2>2
<1>4. Fine(Spike)
  <2>1. CASE Spike = <<>>
    BY <1>2, <2>1
  <2>2. CASE Spike # <<>>
    <3>1. PICK a : a = [kind |-> "spike", critical |-> 10 * (Stats.count * Baseline.days) > 57 * Baseline.total, at |-> now]
      OBVIOUS
    <3>2. Spike = <<a>>
      BY <2>2, <3>1 DEF Spike
    <3>3. a \in Anomaly /\ a.kind = "spike"
      BY <1>n, <3>1 DEF Anomaly, Kinds
    <3>4. Fine(<<a>>)
      BY <1>1, <3>3
    <3> QED BY <3>2, <3>4
  <2> QED BY <2>1, <2>2
<1>5. Fine(Trust)
  <2>1. CASE Trust = <<>>
    BY <1>2, <2>1
  <2>2. CASE Trust # <<>>
    <3>1. PICK a : a = [kind |-> "trust", critical |-> 10 * Violations > 18 * Threshold, at |-> now]
      OBVIOUS
    <3>2. Trust = <<a>> /\ Violations >= Threshold
      BY <2>2, <3>1 DEF Trust
    <3>3. a \in Anomaly /\ a.kind = "trust"
      BY <1>n, <3>1 DEF Anomaly, Kinds
    <3>4. Fine(<<a>>)
      BY <1>1, <3>2, <3>3
    <3> QED BY <3>2, <3>4
  <2> QED BY <2>1, <2>2
<1>6. Fine(other)
  <2>1. CASE other = <<>>
    BY <1>2, <2>1
  <2>2. CASE other # <<>>
    <3>1. PICK c \in BOOLEAN : other = <<[kind |-> "other", critical |-> c, at |-> now]>>
      BY <2>2 DEF Others
    <3>2. PICK a : a = [kind |-> "other", critical |-> c, at |-> now]
      OBVIOUS
    <3>3. a \in Anomaly /\ a.kind = "other"
      BY <1>n, <3>2 DEF Anomaly, Kinds
    <3>4. Fine(<<a>>)
      BY <1>1, <3>3
    <3> QED BY <3>1, <3>2, <3>4
  <2> QED BY <2>1, <2>2
<1> HIDE DEF Fine
<1>7. Fine(Spike \o other \o Trust)
  BY <1>3, <1>4, <1>5, <1>6
<1>8. Fine(Flags(other))
  BY <1>7 DEF Flags
<1> QED BY <1>8 DEF Fine

\* Without a flag yet, the violations are rejected messages.
LEMMA ViolationsAreRejections ==
  ASSUME FlagInv, Violations >= Threshold
  PROVE  rejections >= Threshold
<1>1. CASE \E i \in DOMAIN anomalies : anomalies[i].kind = "trust"
  BY <1>1 DEF FlagInv, FlagsNeedRejections
<1>2. CASE ~ \E i \in DOMAIN anomalies : anomalies[i].kind = "trust"
  <2>1. {i \in DOMAIN anomalies : Violation(anomalies[i])} \subseteq RejectedIn(anomalies)
    BY <1>2 DEF Violation, RejectedIn
  <2>2. RejectedIn(anomalies) \in SUBSET (DOMAIN anomalies) /\ anomalies \in Seq(Anomaly)
    BY DEF RejectedIn, FlagInv
  <2>3. IsFiniteSet(RejectedIn(anomalies)) /\ Cardinality(RejectedIn(anomalies)) \in Nat
    BY <2>2, RejectedFinite
  <2>4. Violations <= Cardinality(RejectedIn(anomalies))
    BY <2>1, <2>3, FS_Subset DEF Violations
  <2>5. Violations \in Nat
    BY <2>1, <2>3, FS_Subset, FS_CardinalityType DEF Violations
  <2> QED BY <2>3, <2>4, <2>5, BehaviorAssumption DEF FlagInv
<1> QED BY <1>1, <1>2

\* What the profile is after the detector.
LEMMA StoredFlags ==
  ASSUME FlagInv, NEW other \in Others
  PROVE  /\ Stored(Flags(other)) \in Seq(Anomaly)
         /\ Cardinality(RejectedIn(Stored(Flags(other)))) <= rejections
         /\ (\E i \in DOMAIN Stored(Flags(other)) : Stored(Flags(other))[i].kind = "trust")
              => rejections >= Threshold
<1>1. PICK f : f = Flags(other)
  OBVIOUS
<1>2. /\ f \in Seq(Anomaly) /\ \A i \in DOMAIN f : f[i].kind # "rejection"
      /\ \A i \in DOMAIN f : f[i].kind = "trust" => rejections >= Threshold
  BY <1>1, FlagsOf, ViolationsAreRejections
<1>3. anomalies \in Seq(Anomaly) /\ rejections \in Nat /\ Cardinality(RejectedIn(anomalies)) <= rejections
  BY DEF FlagInv
<1>4. PICK s : s = anomalies \o f
  OBVIOUS
<1>5. s \in Seq(Anomaly) /\ \A i \in DOMAIN s :
        (i \in DOMAIN anomalies /\ s[i] = anomalies[i]) \/ (i - Len(anomalies) \in DOMAIN f /\ s[i] = f[i - Len(anomalies)])
  BY <1>2, <1>3, <1>4
<1>6. \A i \in DOMAIN anomalies : i \in DOMAIN s /\ s[i] = anomalies[i]
  BY <1>2, <1>3, <1>4
<1>7. RejectedIn(s) = RejectedIn(anomalies)
  BY <1>2, <1>5, <1>6 DEF RejectedIn
<1>8. (\E i \in DOMAIN s : s[i].kind = "trust") => rejections >= Threshold
  BY <1>2, <1>5 DEF FlagInv, FlagsNeedRejections
<1>9. PICK l : l = Last(s, Keep)
  OBVIOUS
<1>10. /\ l \in Seq(Anomaly) /\ Cardinality(RejectedIn(l)) <= Cardinality(RejectedIn(s))
       /\ \A i \in DOMAIN l : \E j \in DOMAIN s : l[i] = s[j]
  BY <1>5, <1>9, LastKeeps, BehaviorAssumption
<1>11. Cardinality(RejectedIn(l)) \in Nat /\ Cardinality(RejectedIn(s)) \in Nat
  <2>1. RejectedIn(l) \in SUBSET (DOMAIN l) /\ RejectedIn(s) \in SUBSET (DOMAIN s)
    BY DEF RejectedIn
  <2> QED BY <1>5, <1>10, <2>1, RejectedFinite
<1>12. Cardinality(RejectedIn(l)) <= rejections
  BY <1>3, <1>7, <1>10, <1>11
<1>13. l = Stored(Flags(other))
  BY <1>1, <1>4, <1>9 DEF Stored
<1> QED BY <1>8, <1>10, <1>12, <1>13

LEMMA FlagInvInit == Init => FlagInv
<1> SUFFICES ASSUME Init PROVE FlagInv
  OBVIOUS
<1>1. anomalies = <<>> /\ now \in 0..MaxTime /\ rejections = 0
  BY BehaviorAssumption DEF Init
<1>2. RejectedIn(anomalies) = {}
  BY <1>1 DEF RejectedIn
<1>3. FlagsNeedRejections
  BY <1>1 DEF FlagsNeedRejections
<1> QED BY <1>1, <1>2, <1>3, FS_EmptySet DEF FlagInv

LEMMA FlagInvStep == FlagInv /\ [Next]_vars => FlagInv'
<1> SUFFICES ASSUME FlagInv, [Next]_vars PROVE FlagInv'
  OBVIOUS
<1>n. now \in 0..MaxTime /\ rejections \in Nat
  BY DEF FlagInv
<1>1. ASSUME NEW other \in Others, Process(other) PROVE FlagInv'
  <2>1. anomalies' = Stored(Flags(other)) /\ now' = now /\ rejections' = rejections
    BY <1>1 DEF Process
  <2>2. PICK l : l = Stored(Flags(other))
    OBVIOUS
  <2>3. /\ l \in Seq(Anomaly) /\ Cardinality(RejectedIn(l)) <= rejections
        /\ (\E i \in DOMAIN l : l[i].kind = "trust") => rejections >= Threshold
    BY <2>2, StoredFlags
  <2> QED BY <1>n, <2>1, <2>2, <2>3 DEF FlagInv, FlagsNeedRejections
<1>2. ASSUME NEW other \in Others, Reject(other) PROVE FlagInv'
  <2>1. PICK a : a = [kind |-> "rejection", critical |-> FALSE, at |-> now]
    OBVIOUS
  <2>2. PICK l : l = Stored(Flags(other))
    OBVIOUS
  <2>3. anomalies' = Append(l, a) /\ now' = now /\ rejections' = rejections + 1
    BY <1>2, <2>1, <2>2 DEF Reject
  <2>4. /\ l \in Seq(Anomaly) /\ Cardinality(RejectedIn(l)) <= rejections
        /\ (\E i \in DOMAIN l : l[i].kind = "trust") => rejections >= Threshold
    BY <2>2, StoredFlags
  <2>5. a \in Anomaly /\ a.kind = "rejection"
    BY <1>n, <2>1 DEF Anomaly, Kinds
  <2>6. PICK s : s = Append(l, a)
    OBVIOUS
  <2>7. s \in Seq(Anomaly) /\ DOMAIN s = 1..(Len(l) + 1) /\ Len(l) \in Nat /\ DOMAIN l = 1..Len(l)
        /\ s[Len(l) + 1] = a /\ \A i \in 1..Len(l) : s[i] = l[i]
    BY <2>4, <2>5, <2>6
  <2>8. RejectedIn(s) = RejectedIn(l) \cup {Len(l) + 1} /\ Len(l) + 1 \notin RejectedIn(l)
    BY <2>5, <2>7 DEF RejectedIn
  <2>9. IsFiniteSet(RejectedIn(l)) /\ Cardinality(RejectedIn(l)) \in Nat
    <3>1. RejectedIn(l) \in SUBSET (DOMAIN l)
      BY DEF RejectedIn
    <3> QED BY <2>4, <3>1, RejectedFinite
  <2>10. Cardinality(RejectedIn(s)) = Cardinality(RejectedIn(l)) + 1
    BY <2>8, <2>9, FS_AddElement
  <2>11. Cardinality(RejectedIn(s)) <= rejections + 1
    BY <1>n, <2>4, <2>9, <2>10
  <2>12. (\E i \in DOMAIN s : s[i].kind = "trust") => rejections >= Threshold
    BY <2>4, <2>5, <2>7
  <2>13. (\E i \in DOMAIN s : s[i].kind = "trust") => rejections + 1 >= Threshold
    BY <1>n, <2>12, BehaviorAssumption
  <2> QED BY <1>n, <2>3, <2>6, <2>7, <2>11, <2>13 DEF FlagInv, FlagsNeedRejections
<1>3. CASE Release \/ Tick \/ UNCHANGED vars
  <2>1. anomalies' = anomalies /\ rejections' = rejections /\ now' \in 0..MaxTime
    BY <1>3, <1>n, BehaviorAssumption DEF Release, Tick, vars
  <2> QED BY <2>1 DEF FlagInv, FlagsNeedRejections
<1>4. QED
  BY <1>1, <1>2, <1>3 DEF Next

\* For any number of messages, any threshold, window and length of the profile: a
\* flag for violations rests on enough rejected messages (trackAndDetect).
THEOREM FlagsExplained == RecordsSpec => []FlagsNeedRejections
<1>1. RecordsInit => FlagInv
  BY FlagInvInit DEF RecordsInit
<1>2. FlagInv => FlagsNeedRejections
  BY DEF FlagInv
<1>3. QED
  BY <1>1, <1>2, FlagInvStep, StepOfEach, PTL DEF RecordsSpec

(***************************************************************************)
(* Forks.  A child is younger than whatever the record of its millisecond  *)
(* held, so replacing that record never leaves a remembered child with an  *)
(* older one.                                                              *)
(***************************************************************************)
ForkInv ==
  /\ ForksTypeOK
  /\ \A c \in 1..children : bornAt[c] \in Instants
  /\ \A t \in Instants : forkTransfers[t] # 0 => bornAt[forkTransfers[t]] = t
  /\ \A c \in lineage : forkTransfers[bornAt[c]] >= c

LEMMA ForkInvInit == ForksInit => ForkInv
BY ForksAssumption DEF ForksAssumption, ForksInit, ForkInv, ForksTypeOK, Instants, Children

LEMMA ForkKeepsInv == ASSUME ForkInv, Fork PROVE ForkInv'
<1> USE ForksAssumption DEF ForksAssumption, Instants, Children
<1> DEFINE c == children + 1
<1>1. /\ children \in 0..MaxForks /\ children < MaxForks /\ forkNow \in 1..MaxForkTime
      /\ children' = c /\ lineage' = lineage \cup {c}
      /\ bornAt' = [bornAt EXCEPT ![c] = forkNow]
      /\ forkTransfers' = [forkTransfers EXCEPT ![forkNow] = c]
      /\ UNCHANGED <<forkNow, forkRestarts>>
  BY DEF Fork, RecordFork, ForkInv, ForksTypeOK
<1>2. c \in 1..MaxForks
  BY <1>1
<1>3. bornAt'[c] = forkNow /\ \A d \in 1..children : bornAt'[d] = bornAt[d]
  BY <1>1, <1>2 DEF ForkInv, ForksTypeOK
<1>4. /\ forkTransfers'[forkNow] = c
      /\ \A t \in 1..MaxForkTime : t # forkNow => forkTransfers'[t] = forkTransfers[t]
  BY <1>1 DEF ForkInv, ForksTypeOK
<1>5. ForksTypeOK'
  <2>1. bornAt' \in [1..MaxForks -> 0..MaxForkTime]
    BY <1>1 DEF ForkInv, ForksTypeOK
  <2>2. forkTransfers' \in [1..MaxForkTime -> 0..c]
    BY <1>1, <1>2 DEF ForkInv, ForksTypeOK
  <2>3. QED
    BY <1>1, <1>2, <2>1, <2>2 DEF ForkInv, ForksTypeOK
<1>6. \A d \in 1..children' : bornAt'[d] \in 1..MaxForkTime
  BY <1>1, <1>3 DEF ForkInv
<1>7. ASSUME NEW t \in 1..MaxForkTime, forkTransfers'[t] # 0 PROVE bornAt'[forkTransfers'[t]] = t
  <2>1. CASE t = forkNow
    BY <1>3, <1>4, <2>1
  <2>2. CASE t # forkNow
    <3>1. forkTransfers'[t] = forkTransfers[t] /\ forkTransfers[t] \in 1..children
      BY <1>4, <1>7, <2>2 DEF ForkInv, ForksTypeOK
    <3>2. QED
      BY <1>3, <1>7, <3>1 DEF ForkInv
  <2>3. QED
    BY <2>1, <2>2
<1>8. ASSUME NEW d \in lineage' PROVE forkTransfers'[bornAt'[d]] >= d
  <2>1. CASE d = c
    BY <1>2, <1>3, <1>4, <2>1
  <2>2. CASE d \in lineage
    <3>1. d \in 1..children /\ bornAt'[d] = bornAt[d] /\ bornAt[d] \in 1..MaxForkTime
      BY <1>3, <2>2 DEF ForkInv, ForksTypeOK
    <3>2. forkTransfers[bornAt[d]] >= d
      BY <2>2 DEF ForkInv
    <3>3. QED
      BY <1>1, <1>4, <3>1, <3>2
  <2>3. QED
    BY <1>1, <1>8, <2>1, <2>2
<1>9. QED
  BY <1>5, <1>6, <1>7, <1>8 DEF ForkInv

LEMMA ForkInvStep == ForkInv /\ [ForksNext]_forkVars => ForkInv'
<1> SUFFICES ASSUME ForkInv, [ForksNext]_forkVars PROVE ForkInv'
  OBVIOUS
<1> USE ForksAssumption DEF ForksAssumption, Instants, Children
<1>1. CASE RestartForks
  BY <1>1 DEF RestartForks, ForkInv, ForksTypeOK
<1>2. CASE ForkTick
  BY <1>2 DEF ForkTick, ForkInv, ForksTypeOK
<1>3. CASE UNCHANGED forkVars
  BY <1>3 DEF forkVars, ForkInv, ForksTypeOK
<1>4. QED
  BY <1>1, <1>2, <1>3, ForkKeepsInv DEF ForksNext

LEMMA ForkInvariant == RecordsSpec => []ForkInv
<1>1. RecordsInit => ForkInv
  BY ForkInvInit DEF RecordsInit
<1>2. QED
  BY <1>1, ForkInvStep, StepOfEach, PTL DEF RecordsSpec

\* Every completed transfer in the store has its three consents or is the record
\* of a fork made in the millisecond it is named for (processFork,
\* processTransferConsent).
THEOREM CompletionsAreExplained == RecordsSpec => []CompletionsExplained
<1>1. CompletedMeansConsent /\ ForkInv => CompletionsExplained
  BY DEF CompletionsExplained, ForkInv
<1>2. QED
  BY <1>1, RecordsAreTransfers, CompletionIsConsented, ForkInvariant, PTL

(***************************************************************************)
(* Spaces.  A limit is a statement about a cardinality, and joining adds   *)
(* one member.                                                             *)
(***************************************************************************)
MembersInv == SpacesTypeOK /\ MembershipSound

LEMMA MembersInvInit == SpacesInit => MembersInv
<1> SUFFICES ASSUME SpacesInit PROVE MembersInv
  OBVIOUS
<1>1. <<>> \in Seq(Post)
  OBVIOUS
<1>2. SpacesTypeOK
  BY <1>1, SpacesAssumption DEF SpacesAssumption, SpacesInit, SpacesTypeOK
<1>3. MembershipSound
  BY DEF SpacesInit, MembershipSound
<1>4. QED
  BY <1>2, <1>3 DEF MembersInv

\* One space changes, and is sound after it.
SoundIn(s) ==
  /\ \A i \in DOMAIN posts[s] : posts[s][i].from \in members[s]
  /\ spaces[s] = NoSpace => members[s] = {}
  /\ spaces[s] # NoSpace =>
       /\ spaces[s].maxMembers > 0 => Cardinality(members[s]) <= spaces[s].maxMembers
       /\ spaces[s].membershipPolicy = "invite_only" => members[s] \subseteq {spaces[s].creatorDid}

LEMMA MembersInvFromOne ==
  ASSUME MembersInv, SpacesTypeOK', NEW s \in SpaceIds, SoundIn(s)',
         \A t \in SpaceIds : t # s =>
           spaces'[t] = spaces[t] /\ members'[t] = members[t] /\ posts'[t] = posts[t]
  PROVE  MembersInv'
BY Zenon DEF MembersInv, MembershipSound, SoundIn

LEMMA CreationIsSound ==
  ASSUME MembersInv, NEW s \in SpaceIds, NEW space \in Space,
         CreateSpace(s, space) \/ CreateSpaceCrash(s, space)
  PROVE  MembersInv'
<1>1. /\ spaces \in [SpaceIds -> Space \cup {NoSpace}]
      /\ members \in [SpaceIds -> SUBSET Entities]
      /\ spaces[s] = NoSpace
      /\ spaces' = [spaces EXCEPT ![s] = space]
      /\ UNCHANGED <<posts, lastSeen, given, spaceNow>>
  BY DEF MembersInv, SpacesTypeOK, CreateSpace, CreateSpaceCrash, SaveSpace
<1>2. space.creatorDid \in Entities /\ space.maxMembers \in Nat /\ space # NoSpace
  BY SpacesAssumption DEF SpacesAssumption, Space
<1>3. members[s] = {}
  BY <1>1 DEF MembersInv, MembershipSound
<1>4. /\ members'[s] \in {{}, {space.creatorDid}}
      /\ members' \in [SpaceIds -> SUBSET Entities]
      /\ \A t \in SpaceIds : t # s => members'[t] = members[t]
  BY <1>1, <1>2, <1>3 DEF CreateSpace, CreateSpaceCrash
<1>5. SpacesTypeOK'
  BY <1>1, <1>4 DEF MembersInv, SpacesTypeOK
<1>6. Cardinality(members'[s]) \in {0, 1}
  BY <1>4, FS_EmptySet, FS_Singleton
<1>7. \A i \in DOMAIN posts[s] : FALSE
  BY <1>3 DEF MembersInv, MembershipSound
<1>8. SoundIn(s)'
  BY <1>1, <1>2, <1>4, <1>6, <1>7 DEF SoundIn
<1>9. QED
  BY <1>1, <1>4, <1>5, <1>8, MembersInvFromOne

LEMMA JoiningIsSound ==
  ASSUME MembersInv, NEW s \in SpaceIds, NEW d \in Entities, JoinSpace(s, d)
  PROVE  MembersInv'
<1>1. /\ members \in [SpaceIds -> SUBSET Entities]
      /\ spaces[s] \in Space /\ spaces[s] # NoSpace
      /\ d \notin members[s]
      /\ spaces[s].membershipPolicy # "invite_only"
      /\ members' = [members EXCEPT ![s] = @ \cup {d}]
      /\ UNCHANGED <<spaces, posts, lastSeen, given, spaceNow>>
  BY DEF MembersInv, SpacesTypeOK, JoinSpace
<1>2. /\ members'[s] = members[s] \cup {d}
      /\ members' \in [SpaceIds -> SUBSET Entities]
      /\ \A t \in SpaceIds : t # s => members'[t] = members[t]
  BY <1>1
<1>3. SpacesTypeOK'
  BY <1>1, <1>2 DEF MembersInv, SpacesTypeOK
<1>4. IsFiniteSet(members[s])
  BY <1>1, SpacesAssumption, FS_Subset DEF SpacesAssumption
<1>5. Cardinality(members'[s]) = Cardinality(members[s]) + 1 /\ Cardinality(members[s]) \in Nat
  BY <1>1, <1>2, <1>4, FS_AddElement, FS_CardinalityType
<1>6. spaces[s].maxMembers \in Nat
  BY <1>1, SpacesAssumption DEF SpacesAssumption, Space
<1>7. spaces[s].maxMembers > 0 => Cardinality(members'[s]) <= spaces[s].maxMembers
  BY <1>5, <1>6 DEF JoinSpace, HasRoom
<1>8. \A i \in DOMAIN posts[s] : posts[s][i].from \in members'[s]
  BY <1>2 DEF MembersInv, MembershipSound
<1>9. SoundIn(s)'
  BY <1>1, <1>7, <1>8 DEF SoundIn
<1>10. QED
  BY <1>1, <1>2, <1>3, <1>9, MembersInvFromOne

LEMMA PostingIsSound ==
  ASSUME MembersInv, NEW s \in SpaceIds, NEW d \in Entities, PostToSpace(s, d)
  PROVE  MembersInv'
<1> DEFINE post == [from |-> d, timestamp |-> spaceNow]
<1>1. /\ posts \in [SpaceIds -> Seq(Post)] /\ post \in Post /\ d \in members[s]
      /\ posts' = [posts EXCEPT ![s] = Append(@, post)]
      /\ UNCHANGED <<spaces, members, lastSeen, given, spaceNow>>
  BY DEF MembersInv, SpacesTypeOK, PostToSpace, Post
<1>2. post.from = d
  OBVIOUS
<1> HIDE DEF post
<1>3. /\ posts'[s] = Append(posts[s], post) /\ posts' \in [SpaceIds -> Seq(Post)]
      /\ \A t \in SpaceIds : t # s => posts'[t] = posts[t]
  BY <1>1
<1>4. /\ DOMAIN posts[s] \subseteq DOMAIN posts'[s]
      /\ \A i \in DOMAIN posts'[s] : posts'[s][i] = post \/ (i \in DOMAIN posts[s] /\ posts'[s][i] = posts[s][i])
  <2>1. posts[s] \in Seq(Post)
    BY <1>1
  <2>2. /\ DOMAIN posts'[s] = 1..Len(posts[s]) + 1 /\ DOMAIN posts[s] = 1..Len(posts[s])
        /\ Len(posts[s]) \in Nat
        /\ \A i \in 1..Len(posts[s]) + 1 :
             posts'[s][i] = IF i = Len(posts[s]) + 1 THEN post ELSE posts[s][i]
    BY <1>1, <1>3, <2>1
  <2>3. DOMAIN posts[s] \subseteq DOMAIN posts'[s]
    BY <2>2
  <2>4. ASSUME NEW i \in DOMAIN posts'[s]
        PROVE  posts'[s][i] = post \/ (i \in DOMAIN posts[s] /\ posts'[s][i] = posts[s][i])
    <3>1. i \in 1..Len(posts[s]) + 1
      BY <2>2
    <3>2. posts'[s][i] = IF i = Len(posts[s]) + 1 THEN post ELSE posts[s][i]
      BY <2>2, <3>1
    <3>3. CASE i = Len(posts[s]) + 1
      BY <3>2, <3>3
    <3>4. CASE i \in 1..Len(posts[s])
      BY <2>2, <3>2, <3>4, SMT
    <3>5. QED
      BY <2>2, <3>1, <3>3, <3>4
  <2>5. QED
    BY <2>3, <2>4
<1>5. SpacesTypeOK'
  BY <1>1, <1>3, <1>4 DEF MembersInv, SpacesTypeOK
<1>6. \A i \in DOMAIN posts'[s] : posts'[s][i].from \in members[s]
  BY <1>1, <1>2, <1>4 DEF MembersInv, MembershipSound
<1>7. SoundIn(s)'
  BY <1>1, <1>6 DEF SoundIn, MembersInv, MembershipSound
<1>8. QED
  BY <1>1, <1>3, <1>5, <1>7, MembersInvFromOne

LEMMA ReadingIsTyped ==
  ASSUME MembersInv, NEW s \in SpaceIds, ReadSpace(s)
  PROVE  MembersInv'
<1>1. PICK page \in SUBSET After(s, lastSeen[s]), last \in DOMAIN posts[s] :
        /\ given' = [given EXCEPT ![s] = @ \cup page]
        /\ lastSeen' = [lastSeen EXCEPT ![s] = posts[s][last].timestamp]
  BY DEF ReadSpace
<1>2. UNCHANGED <<spaces, members, posts, spaceNow>>
  BY DEF ReadSpace
<1>3. page \subseteq DOMAIN posts[s] /\ posts[s][last].timestamp \in 0..MaxSpaceTime
  <2>1. posts[s] \in Seq(Post)
    BY DEF MembersInv, SpacesTypeOK
  <2>2. posts[s][last] \in Post
    BY <2>1
  <2>3. QED
    BY <2>2, SpacesAssumption DEF SpacesAssumption, After, Post
<1>4. lastSeen' \in [SpaceIds -> 0..MaxSpaceTime]
  BY <1>1, <1>3 DEF MembersInv, SpacesTypeOK
<1>5. /\ given' \in [SpaceIds -> SUBSET Nat]
      /\ \A t \in SpaceIds : given'[t] \subseteq DOMAIN posts[t]
  BY <1>1, <1>3 DEF MembersInv, SpacesTypeOK
<1>6. QED
  BY <1>2, <1>4, <1>5 DEF MembersInv, SpacesTypeOK, MembershipSound

LEMMA MembersInvStep == MembersInv /\ [SpacesNext]_spaceVars => MembersInv'
<1> SUFFICES ASSUME MembersInv, [SpacesNext]_spaceVars PROVE MembersInv'
  OBVIOUS
<1>1. CASE SpaceTick
  <2>1. spaceNow' \in 1..MaxSpaceTime
    BY <1>1, SpacesAssumption DEF SpacesAssumption, SpaceTick, MembersInv, SpacesTypeOK
  <2>2. UNCHANGED <<spaces, members, posts, lastSeen, given>>
    BY <1>1 DEF SpaceTick
  <2>3. QED
    BY <2>1, <2>2 DEF MembersInv, SpacesTypeOK, MembershipSound
<1>2. CASE UNCHANGED spaceVars
  BY <1>2 DEF spaceVars, MembersInv, SpacesTypeOK, MembershipSound
<1>3. QED
  BY <1>1, <1>2, CreationIsSound, JoiningIsSound, PostingIsSound, ReadingIsTyped DEF SpacesNext

LEMMA MembersInvariant == RecordsSpec => []MembersInv
<1>1. RecordsInit => MembersInv
  BY MembersInvInit DEF RecordsInit
<1>2. QED
  BY <1>1, MembersInvStep, StepOfEach, PTL DEF RecordsSpec

\* Spaces, memberships, messages and readers keep their shape.
THEOREM SpacesTyped == RecordsSpec => []SpacesTypeOK
BY MembersInvariant, PTL DEF MembersInv

\* Authors are members, limits hold and an invite-only space has its creator at
\* most, for any number of entities and after any crash (processJoinSpace,
\* processPostToSpace).
THEOREM MembershipIsSound == RecordsSpec => []MembershipSound
BY MembersInvariant, PTL DEF MembersInv
-----------------------------------------------------------------------------
(***************************************************************************)
(* Readers.  A page is cut in the order of the timestamps, so what is left *)
(* behind is no earlier than the last message given; and a message posted  *)
(* later is no earlier than any that is there, for the clock does not go   *)
(* back.  Both may be of the same millisecond, which is the tie the        *)
(* property allows.                                                        *)
(***************************************************************************)

\* What a reader passes as "after" was read off a message it was given.
SeenWasGiven ==
  \A s \in SpaceIds : lastSeen[s] > 0 => \E j \in given[s] : posts[s][j].timestamp = lastSeen[s]

NothingFromLater == \A s \in SpaceIds : \A i \in DOMAIN posts[s] : posts[s][i].timestamp <= spaceNow

ReaderInv == MembersInv /\ SeenWasGiven /\ NothingFromLater /\ ReadersMissOnlyTies

LEMMA ReaderInvInit == SpacesInit => ReaderInv
<1> SUFFICES ASSUME SpacesInit PROVE ReaderInv
  OBVIOUS
<1>1. MembersInv
  BY MembersInvInit
<1>2. \A s \in SpaceIds : posts[s] = <<>> /\ lastSeen[s] = 0
  BY DEF SpacesInit
<1>3. \A s \in SpaceIds : \A i \in DOMAIN posts[s] : FALSE
  BY <1>2
<1>4. QED
  BY <1>1, <1>2, <1>3 DEF ReaderInv, SeenWasGiven, NothingFromLater, ReadersMissOnlyTies

\* The reader's part of the invariant, of one space.
ReadsWell(s) ==
  /\ lastSeen[s] > 0 => \E j \in given[s] : posts[s][j].timestamp = lastSeen[s]
  /\ \A i \in DOMAIN posts[s] : posts[s][i].timestamp <= spaceNow
  /\ \A i \in DOMAIN posts[s] :
       posts[s][i].timestamp <= lastSeen[s] =>
         i \in given[s] \/ \E j \in given[s] : posts[s][j].timestamp = posts[s][i].timestamp

LEMMA ReadsWellEverywhere ==
  ReaderInv <=> MembersInv /\ \A s \in SpaceIds : ReadsWell(s)
BY Zenon DEF ReaderInv, SeenWasGiven, NothingFromLater, ReadersMissOnlyTies, ReadsWell

LEMMA ReadsWellAfterwards ==
  ASSUME MembersInv', \A s \in SpaceIds : ReadsWell(s)'
  PROVE  ReaderInv'
BY Zenon DEF ReaderInv, SeenWasGiven, NothingFromLater, ReadersMissOnlyTies, ReadsWell

LEMMA PostingKeepsReaders ==
  ASSUME ReaderInv, NEW s \in SpaceIds, NEW d \in Entities, PostToSpace(s, d)
  PROVE  ReaderInv'
<1> DEFINE post == [from |-> d, timestamp |-> spaceNow]
<1>1. MembersInv'
  BY PostingIsSound DEF ReaderInv
<1>2. /\ posts \in [SpaceIds -> Seq(Post)] /\ spaceNow \in 1..MaxSpaceTime
      /\ lastSeen[s] \in 0..MaxSpaceTime /\ given[s] \subseteq DOMAIN posts[s]
      /\ posts' = [posts EXCEPT ![s] = Append(@, post)]
      /\ UNCHANGED <<lastSeen, given, spaceNow>>
  BY DEF ReaderInv, MembersInv, SpacesTypeOK, PostToSpace
<1>3. post.timestamp = spaceNow /\ post \in Post
  BY <1>2 DEF Post
<1> HIDE DEF post
<1>4. posts[s] \in Seq(Post)
  BY <1>2
<1>5. /\ posts'[s] = Append(posts[s], post)
      /\ \A t \in SpaceIds : t # s => posts'[t] = posts[t]
  BY <1>2
<1>6. /\ DOMAIN posts'[s] = 1..Len(posts[s]) + 1 /\ DOMAIN posts[s] = 1..Len(posts[s])
      /\ Len(posts[s]) \in Nat
      /\ posts'[s][Len(posts[s]) + 1] = post
      /\ \A i \in 1..Len(posts[s]) : posts'[s][i] = posts[s][i]
  BY <1>3, <1>4, <1>5
<1>7. ReadsWell(s)
  BY ReadsWellEverywhere
<1>8. lastSeen[s] > 0 => \E j \in given[s] : posts'[s][j].timestamp = lastSeen[s]
  BY <1>2, <1>6, <1>7 DEF ReadsWell
<1>9. ASSUME NEW i \in DOMAIN posts'[s]
      PROVE  /\ posts'[s][i].timestamp <= spaceNow
             /\ posts'[s][i].timestamp <= lastSeen[s] =>
                  i \in given[s] \/ \E j \in given[s] : posts'[s][j].timestamp = posts'[s][i].timestamp
  <2>1. CASE i \in 1..Len(posts[s])
    BY <1>2, <1>6, <1>7, <2>1 DEF ReadsWell
  <2>2. CASE i = Len(posts[s]) + 1
    <3>1. posts'[s][i].timestamp = spaceNow /\ spaceNow > 0 /\ spaceNow \in Nat
      BY <1>2, <1>3, <1>6, <2>2, SpacesAssumption DEF SpacesAssumption
    <3>2. lastSeen[s] > 0 => lastSeen[s] <= spaceNow
      BY <1>2, <1>6, <1>7 DEF ReadsWell
    <3>3. QED
      BY <1>2, <1>8, <3>1, <3>2, SpacesAssumption DEF SpacesAssumption
  <2>3. QED
    BY <1>6, <2>1, <2>2
<1>10. ReadsWell(s)'
  BY <1>2, <1>8, <1>9 DEF ReadsWell
<1>11. \A t \in SpaceIds : t # s => ReadsWell(t)'
  BY <1>2, <1>5, ReadsWellEverywhere DEF ReadsWell
<1>12. QED
  BY <1>1, <1>10, <1>11, ReadsWellAfterwards

LEMMA ReadingMissesOnlyTies ==
  ASSUME ReaderInv, NEW s \in SpaceIds, ReadSpace(s)
  PROVE  ReaderInv'
<1>1. MembersInv'
  BY ReadingIsTyped DEF ReaderInv
<1>2. /\ lastSeen \in [SpaceIds -> 0..MaxSpaceTime]
      /\ given \in [SpaceIds -> SUBSET Nat]
      /\ \A i \in DOMAIN posts[s] : posts[s][i].timestamp \in 1..MaxSpaceTime
  <2>1. posts[s] \in Seq(Post)
    BY DEF ReaderInv, MembersInv, SpacesTypeOK
  <2>2. \A i \in DOMAIN posts[s] : posts[s][i] \in Post
    BY <2>1
  <2>3. QED
    BY <2>2 DEF Post, ReaderInv, MembersInv, SpacesTypeOK
<1>3. PICK page \in SUBSET After(s, lastSeen[s]), last \in DOMAIN posts[s] :
        /\ FirstOnes(s, page, After(s, lastSeen[s]))
        /\ last \in page
        /\ given' = [given EXCEPT ![s] = @ \cup page]
        /\ lastSeen' = [lastSeen EXCEPT ![s] = posts[s][last].timestamp]
  BY DEF ReadSpace
<1>4. UNCHANGED <<spaces, members, posts, spaceNow>>
  BY DEF ReadSpace
<1>5. /\ given'[s] = given[s] \cup page /\ lastSeen'[s] = posts[s][last].timestamp
      /\ \A t \in SpaceIds : t # s => given'[t] = given[t] /\ lastSeen'[t] = lastSeen[t]
  BY <1>2, <1>3
<1>6. ReadsWell(s)
  BY ReadsWellEverywhere
<1>7. ASSUME NEW i \in DOMAIN posts[s], posts[s][i].timestamp <= lastSeen'[s]
      PROVE  i \in given'[s] \/ \E j \in given'[s] : posts[s][j].timestamp = posts[s][i].timestamp
  <2>1. CASE posts[s][i].timestamp <= lastSeen[s]
    BY <1>5, <1>6, <2>1 DEF ReadsWell
  <2>2. CASE i \in page
    BY <1>5, <2>2
  <2>3. CASE i \in After(s, lastSeen[s]) \ page
    <3>1. Precedes(s, last, i)
      BY <1>3, <2>3 DEF FirstOnes
    <3>2. posts[s][i].timestamp = posts[s][last].timestamp
      BY <1>2, <1>5, <1>7, <3>1, SpacesAssumption DEF SpacesAssumption, Precedes
    <3>3. QED
      BY <1>3, <1>5, <3>2
  <2>4. QED
    BY <1>2, <2>1, <2>2, <2>3, SpacesAssumption DEF SpacesAssumption, After
<1>8. ReadsWell(s)'
  BY <1>3, <1>4, <1>5, <1>6, <1>7 DEF ReadsWell
<1>9. \A t \in SpaceIds : t # s => ReadsWell(t)'
  BY <1>4, <1>5, ReadsWellEverywhere DEF ReadsWell
<1>10. QED
  BY <1>1, <1>8, <1>9, ReadsWellAfterwards

LEMMA ReaderInvStep == ReaderInv /\ [SpacesNext]_spaceVars => ReaderInv'
<1> SUFFICES ASSUME ReaderInv, [SpacesNext]_spaceVars PROVE ReaderInv'
  OBVIOUS
<1>1. MembersInv'
  BY MembersInvStep DEF ReaderInv
<1>2. ASSUME UNCHANGED <<posts, lastSeen, given>>, spaceNow' \in Nat, spaceNow <= spaceNow'
      PROVE  ReaderInv'
  <2>1. ASSUME NEW s \in SpaceIds PROVE ReadsWell(s)'
    <3>1. \A i \in DOMAIN posts[s] : posts[s][i].timestamp \in Int
      <4>1. posts[s] \in Seq(Post)
        BY DEF ReaderInv, MembersInv, SpacesTypeOK
      <4>2. \A i \in DOMAIN posts[s] : posts[s][i] \in Post
        BY <4>1
      <4>3. QED
        BY <4>2 DEF Post
    <3>2. ReadsWell(s) /\ spaceNow \in Int
      BY ReadsWellEverywhere DEF ReaderInv, MembersInv, SpacesTypeOK
    <3>3. QED
      BY <1>2, <3>1, <3>2 DEF ReadsWell
  <2>2. QED
    BY <1>1, <2>1, ReadsWellAfterwards
<1>3. spaceNow \in Nat
  BY SpacesAssumption DEF SpacesAssumption, ReaderInv, MembersInv, SpacesTypeOK
<1>4. CASE UNCHANGED spaceVars
  BY <1>2, <1>3, <1>4 DEF spaceVars
<1>5. CASE SpaceTick
  BY <1>2, <1>3, <1>5 DEF SpaceTick
<1>6. ASSUME NEW s \in SpaceIds, NEW space \in Space, CreateSpace(s, space) \/ CreateSpaceCrash(s, space)
      PROVE  ReaderInv'
  BY <1>2, <1>3, <1>6 DEF CreateSpace, CreateSpaceCrash, SaveSpace
<1>7. ASSUME NEW s \in SpaceIds, NEW d \in Entities, JoinSpace(s, d)
      PROVE  ReaderInv'
  BY <1>2, <1>3, <1>7 DEF JoinSpace
<1>8. QED
  BY <1>4, <1>5, <1>6, <1>7, PostingKeepsReaders, ReadingMissesOnlyTies DEF SpacesNext

\* A reader who pages by the last timestamp misses nothing but ties, however
\* many post between two of its readings (processGetSpaceMessages).
THEOREM ReadersMissNothingElse == RecordsSpec => []ReadersMissOnlyTies
<1>1. RecordsInit => ReaderInv
  BY ReaderInvInit DEF RecordsInit
<1>2. ReaderInv => ReadersMissOnlyTies
  BY DEF ReaderInv
<1>3. QED
  BY <1>1, <1>2, ReaderInvStep, StepOfEach, PTL DEF RecordsSpec
-----------------------------------------------------------------------------
(***************************************************************************)
(* Export, import and norms.  What a restored node holds rests on the      *)
(* numbers of saves: no copy, in a store or in the file, is of a later     *)
(* save than the last one, so that a handler's next save never makes a     *)
(* record older than the file's.                                           *)
(***************************************************************************)

LEMMA PrefixesArePortable == \A done \in Prefixes : done \subseteq Portable
BY DEF Prefixes

NormsInv == SovereigntyTypeOK /\ AgreedUntilImport

LEMMA NormsInvInit == SovereigntyInit => NormsInv
<1> SUFFICES ASSUME SovereigntyInit PROVE NormsInv
  OBVIOUS
<1>1. SovereigntyTypeOK
  BY DEF SovereigntyInit, SovereigntyTypeOK, NoFile
<1>2. AgreedUntilImport
  BY DEF SovereigntyInit, AgreedUntilImport
<1>3. QED
  BY <1>1, <1>2 DEF NormsInv

\* What is agreed of one record, at one node, is in its copy.
AgreedIn(copy, topics) == topics # {} => copy # Absent /\ topics \subseteq copy.avoidTopics

LEMMA SavingKeepsNorms ==
  ASSUME NormsInv, NEW n \in Homes, NEW r \in Records, SaveRecord(n, r)
  PROVE  NormsInv'
<1> DEFINE fresh == [save |-> saves'[r], tone |-> Unset, avoidTopics |-> {}]
           changed == [store[n][r] EXCEPT !.save = saves'[r]]
           copy == IF store[n][r] = Absent THEN fresh ELSE changed
<1>1. /\ store \in [Homes -> [Records -> Copy \cup {Absent}]] /\ saves \in [Records -> Nat]
      /\ saves' = [saves EXCEPT ![r] = @ + 1]
      /\ store' = [store EXCEPT ![n][r] = copy]
      /\ UNCHANGED <<file, restored, agreed>>
  BY DEF NormsInv, SovereigntyTypeOK, SaveRecord
<1>2. saves' \in [Records -> Nat] /\ saves'[r] \in Nat
  BY <1>1
<1>3. fresh \in Copy /\ (store[n][r] # Absent => changed \in Copy /\ changed.avoidTopics = store[n][r].avoidTopics)
  <2>1. fresh \in Copy
    BY <1>2 DEF Copy
  <2>2. ASSUME store[n][r] # Absent
        PROVE  changed \in Copy /\ changed.avoidTopics = store[n][r].avoidTopics
    <3>1. store[n][r] \in Copy
      BY <1>1, <2>2
    <3>2. QED
      BY <1>2, <3>1 DEF Copy
  <2>3. QED
    BY <2>1, <2>2
<1>4. copy \in Copy /\ (store[n][r] # Absent => copy.avoidTopics = store[n][r].avoidTopics)
  BY <1>3
<1> HIDE DEF copy, fresh, changed
<1>5. /\ store' \in [Homes -> [Records -> Copy \cup {Absent}]]
      /\ store'[n][r] = copy
      /\ \A m \in Homes, q \in Records : m # n \/ q # r => store'[m][q] = store[m][q]
  BY <1>1, <1>4
<1>6. SovereigntyTypeOK'
  BY <1>1, <1>2, <1>5 DEF NormsInv, SovereigntyTypeOK
<1>7. copy # Absent
  BY <1>4, SovereigntyAssumption DEF SovereigntyAssumption
<1>8. AgreedUntilImport'
  <2>1. ASSUME NEW m \in Homes, NEW q \in Records
        PROVE  agreed[m][q] # {} => store'[m][q] # Absent /\ agreed[m][q] \subseteq store'[m][q].avoidTopics
    <3>1. agreed[m][q] # {} => store[m][q] # Absent /\ agreed[m][q] \subseteq store[m][q].avoidTopics
      BY DEF NormsInv, AgreedUntilImport
    <3>2. CASE m = n /\ q = r
      BY <1>4, <1>5, <1>7, <3>1, <3>2
    <3>3. CASE m # n \/ q # r
      BY <1>5, <3>1, <3>3
    <3>4. QED
      BY <3>2, <3>3
  <2>2. QED
    BY <1>1, <2>1 DEF AgreedUntilImport
<1>9. QED
  BY <1>6, <1>8 DEF NormsInv

LEMMA ProposingKeepsNorms ==
  ASSUME NormsInv, NEW n \in Homes, NEW r \in Records,
         NEW tone \in Tones \cup {Unset}, NEW topics \in SUBSET Topics, ProposeNorms(n, r, tone, topics)
  PROVE  NormsInv'
<1> DEFINE copy == Merged(store[n][r], tone, topics)
<1>1. /\ store \in [Homes -> [Records -> Copy \cup {Absent}]]
      /\ agreed \in [Homes -> [Records -> SUBSET Topics]]
      /\ store[n][r] # Absent
      /\ store' = [store EXCEPT ![n][r] = copy]
      /\ agreed' = [agreed EXCEPT ![n][r] = @ \cup topics]
      /\ UNCHANGED <<saves, file, restored>>
  BY DEF NormsInv, SovereigntyTypeOK, ProposeNorms
<1>2. copy \in Copy /\ copy.avoidTopics = store[n][r].avoidTopics \cup topics
  <2>1. store[n][r] \in Copy
    BY <1>1
  <2>2. QED
    BY <2>1 DEF Merged, Copy
<1> HIDE DEF copy
<1>3. /\ store' \in [Homes -> [Records -> Copy \cup {Absent}]]
      /\ store'[n][r] = copy
      /\ \A m \in Homes, q \in Records : m # n \/ q # r => store'[m][q] = store[m][q]
  BY <1>1, <1>2
<1>4. /\ agreed' \in [Homes -> [Records -> SUBSET Topics]]
      /\ agreed'[n][r] = agreed[n][r] \cup topics
      /\ \A m \in Homes, q \in Records : m # n \/ q # r => agreed'[m][q] = agreed[m][q]
  BY <1>1
<1>5. SovereigntyTypeOK'
  BY <1>1, <1>3, <1>4 DEF NormsInv, SovereigntyTypeOK
<1>6. copy # Absent
  BY <1>2, SovereigntyAssumption DEF SovereigntyAssumption
<1>7. AgreedUntilImport'
  <2>1. ASSUME NEW m \in Homes, NEW q \in Records
        PROVE  agreed'[m][q] # {} => store'[m][q] # Absent /\ agreed'[m][q] \subseteq store'[m][q].avoidTopics
    <3>1. agreed[m][q] # {} => store[m][q] # Absent /\ agreed[m][q] \subseteq store[m][q].avoidTopics
      BY DEF NormsInv, AgreedUntilImport
    <3>2. CASE m = n /\ q = r
      BY <1>2, <1>3, <1>4, <1>6, <3>1, <3>2
    <3>3. CASE m # n \/ q # r
      BY <1>3, <1>4, <3>1, <3>3
    <3>4. QED
      BY <3>2, <3>3
  <2>2. QED
    BY <2>1 DEF AgreedUntilImport
<1>8. QED
  BY <1>5, <1>7 DEF NormsInv

LEMMA LoadingKeepsNorms ==
  ASSUME NormsInv, NEW n \in Homes, NEW done \in SUBSET Portable, Load(n, done),
         restored' \subseteq Homes
  PROVE  NormsInv'
<1>1. /\ store \in [Homes -> [Records -> Copy \cup {Absent}]]
      /\ agreed \in [Homes -> [Records -> SUBSET Topics]]
      /\ file.copies \in [Records -> Copy \cup {Absent}]
      /\ store' = [store EXCEPT ![n] = With(@, done)]
      /\ agreed' = [agreed EXCEPT ![n] = [r \in Records |-> IF r \in done THEN {} ELSE @[r]]]
      /\ UNCHANGED <<saves, file>>
  BY DEF NormsInv, SovereigntyTypeOK, Load
<1>2. With(store[n], done) \in [Records -> Copy \cup {Absent}]
  BY <1>1 DEF With
<1>3. /\ store' \in [Homes -> [Records -> Copy \cup {Absent}]]
      /\ store'[n] = With(store[n], done)
      /\ \A m \in Homes : m # n => store'[m] = store[m]
  BY <1>1, <1>2
<1>4. /\ agreed' \in [Homes -> [Records -> SUBSET Topics]]
      /\ agreed'[n] = [r \in Records |-> IF r \in done THEN {} ELSE agreed[n][r]]
      /\ \A m \in Homes : m # n => agreed'[m] = agreed[m]
  BY <1>1
<1>5. SovereigntyTypeOK'
  BY <1>1, <1>3, <1>4 DEF NormsInv, SovereigntyTypeOK
<1>6. ASSUME NEW m \in Homes, NEW q \in Records, agreed'[m][q] # {}
      PROVE  store'[m][q] # Absent /\ agreed'[m][q] \subseteq store'[m][q].avoidTopics
  <2>1. agreed[m][q] = agreed'[m][q] /\ store[m][q] = store'[m][q]
    <3>1. CASE m # n
      BY <1>3, <1>4, <3>1
    <3>2. CASE m = n /\ q \notin done
      BY <1>3, <1>4, <3>2 DEF With
    <3>3. CASE m = n /\ q \in done
      BY <1>4, <1>6, <3>3
    <3>4. QED
      BY <3>1, <3>2, <3>3
  <2>2. QED
    BY <1>6, <2>1 DEF NormsInv, AgreedUntilImport
<1>7. AgreedUntilImport'
  BY <1>6 DEF AgreedUntilImport
<1>8. QED
  BY <1>5, <1>7 DEF NormsInv

LEMMA TearingKeepsNorms ==
  ASSUME NormsInv, NEW n \in Homes, NEW kind, StoreTorn(n, kind)
  PROVE  NormsInv'
<1>1. /\ store \in [Homes -> [Records -> Copy \cup {Absent}]]
      /\ agreed \in [Homes -> [Records -> SUBSET Topics]]
      /\ store' = [store EXCEPT ![n] = [r \in Records |-> IF r \in Held(n, kind) THEN Absent ELSE @[r]]]
      /\ agreed' = [agreed EXCEPT ![n] = [r \in Records |-> IF r \in Held(n, kind) THEN {} ELSE @[r]]]
      /\ restored' \subseteq Homes
      /\ UNCHANGED <<saves, file>>
  BY DEF NormsInv, SovereigntyTypeOK, StoreTorn
<1>2. /\ store' \in [Homes -> [Records -> Copy \cup {Absent}]]
      /\ agreed' \in [Homes -> [Records -> SUBSET Topics]]
  BY <1>1
<1>3. \A m \in Homes, q \in Records :
        agreed'[m][q] = {} \/ (agreed'[m][q] = agreed[m][q] /\ store'[m][q] = store[m][q])
  BY <1>1
<1>4. SovereigntyTypeOK'
  BY <1>1, <1>2 DEF NormsInv, SovereigntyTypeOK
<1>5. AgreedUntilImport'
  BY <1>3 DEF NormsInv, AgreedUntilImport
<1>6. QED
  BY <1>4, <1>5 DEF NormsInv

LEMMA NormsInvStep == NormsInv /\ [SovereigntyNext]_sovereigntyVars => NormsInv'
<1> SUFFICES ASSUME NormsInv, [SovereigntyNext]_sovereigntyVars PROVE NormsInv'
  OBVIOUS
<1>1. ASSUME NEW n \in Homes, Export(n)
      PROVE  NormsInv'
  BY <1>1 DEF Export, NormsInv, SovereigntyTypeOK, AgreedUntilImport
<1>2. CASE DamageFile
  BY <1>2 DEF DamageFile, NormsInv, SovereigntyTypeOK, AgreedUntilImport
<1>3. ASSUME NEW n \in Homes, Import(n)
      PROVE  NormsInv'
  <2>1. restored' \subseteq Homes /\ Load(n, Portable)
    BY <1>3 DEF Import, NormsInv, SovereigntyTypeOK
  <2>2. QED
    BY <2>1, LoadingKeepsNorms
<1>4. ASSUME NEW n \in Homes, NEW done \in Prefixes, ImportCrash(n, done)
      PROVE  NormsInv'
  <2>1. restored' \subseteq Homes /\ Load(n, done) /\ done \in SUBSET Portable
    BY <1>4, PrefixesArePortable DEF ImportCrash, NormsInv, SovereigntyTypeOK
  <2>2. QED
    BY <2>1, LoadingKeepsNorms
<1>5. CASE UNCHANGED sovereigntyVars
  BY <1>5 DEF sovereigntyVars, NormsInv, SovereigntyTypeOK, AgreedUntilImport
<1>6. QED
  BY <1>1, <1>2, <1>3, <1>4, <1>5, SavingKeepsNorms, ProposingKeepsNorms, TearingKeepsNorms
     DEF SovereigntyNext

\* No copy is of a later save than the last, in a store or in the file.
SavesKnown ==
  \A r \in Records :
    /\ file.copies[r] # Absent => file.copies[r].save <= saves[r]
    /\ \A n \in Homes : store[n][r] # Absent => store[n][r].save <= saves[r]

RestoreInv == NormsInv /\ SavesKnown /\ RestoredHolds

\* One copy is no older than another and avoids what it avoids.
Covers(copy, old) ==
  copy # Absent /\ copy.save >= old.save /\ old.avoidTopics \subseteq copy.avoidTopics

LEMMA SavingKeepsRestored ==
  ASSUME RestoreInv, NEW n \in Homes, NEW r \in Records, SaveRecord(n, r)
  PROVE  SavesKnown' /\ RestoredHolds'
<1> DEFINE fresh == [save |-> saves'[r], tone |-> Unset, avoidTopics |-> {}]
           changed == [store[n][r] EXCEPT !.save = saves'[r]]
           copy == IF store[n][r] = Absent THEN fresh ELSE changed
<1>1. /\ store \in [Homes -> [Records -> Copy \cup {Absent}]] /\ saves \in [Records -> Nat]
      /\ saves' = [saves EXCEPT ![r] = @ + 1]
      /\ store' = [store EXCEPT ![n][r] = copy]
      /\ UNCHANGED <<file, restored>>
  BY DEF RestoreInv, NormsInv, SovereigntyTypeOK, SaveRecord
<1>2. /\ saves'[r] = saves[r] + 1 /\ \A q \in Records : saves[q] \in Nat /\ saves'[q] \in Nat
      /\ \A q \in Records : saves'[q] >= saves[q]
  BY <1>1
<1>3. /\ copy.save = saves'[r]
      /\ store[n][r] # Absent => copy.avoidTopics = store[n][r].avoidTopics
      /\ copy # Absent
  <2>1. store[n][r] # Absent => store[n][r] \in Copy
    BY <1>1
  <2>2. fresh \in Copy
    BY <1>2 DEF Copy
  <2>3. store[n][r] # Absent =>
          changed \in Copy /\ changed.save = saves'[r] /\ changed.avoidTopics = store[n][r].avoidTopics
    BY <1>2, <2>1 DEF Copy
  <2>4. QED
    BY <2>2, <2>3, SovereigntyAssumption DEF SovereigntyAssumption
<1> HIDE DEF copy, fresh, changed
<1>4. /\ store'[n][r] = copy
      /\ \A m \in Homes, q \in Records : m # n \/ q # r => store'[m][q] = store[m][q]
  BY <1>1
<1>5. \A q \in Records : file.copies[q] # Absent => file.copies[q].save \in Nat
  BY DEF RestoreInv, NormsInv, SovereigntyTypeOK, Copy
<1>6. \A m \in Homes, q \in Records : store[m][q] # Absent => store[m][q].save \in Nat
  BY <1>1 DEF Copy
<1>7. SavesKnown'
  BY <1>1, <1>2, <1>3, <1>4, <1>5, <1>6 DEF RestoreInv, SavesKnown
<1>8. ASSUME NEW m \in restored, NEW q \in Portable
      PROVE  Covers(store'[m][q], file.copies[q])
  <2>1. m \in Homes /\ q \in Records /\ file.copies[q] # Absent /\ Covers(store[m][q], file.copies[q])
    BY <1>8 DEF RestoreInv, NormsInv, SovereigntyTypeOK, Portable, RestoredHolds, Covers
  <2>2. CASE m = n /\ q = r
    <3>1. file.copies[q].save \in Nat /\ file.copies[q].save <= saves[q]
      BY <1>5, <2>1 DEF RestoreInv, SavesKnown
    <3>2. copy.save >= file.copies[q].save
      BY <1>2, <1>3, <2>1, <2>2, <3>1
    <3>3. QED
      BY <1>3, <1>4, <2>1, <2>2, <3>2 DEF Covers
  <2>3. CASE m # n \/ q # r
    BY <1>4, <2>1, <2>3
  <2>4. QED
    BY <2>2, <2>3
<1>9. RestoredHolds'
  BY <1>1, <1>8 DEF RestoredHolds, Covers, Portable
<1>10. QED
  BY <1>7, <1>9

LEMMA ProposingKeepsRestored ==
  ASSUME RestoreInv, NEW n \in Homes, NEW r \in Records,
         NEW tone \in Tones \cup {Unset}, NEW topics \in SUBSET Topics, ProposeNorms(n, r, tone, topics)
  PROVE  SavesKnown' /\ RestoredHolds'
<1> DEFINE copy == Merged(store[n][r], tone, topics)
<1>1. /\ store \in [Homes -> [Records -> Copy \cup {Absent}]]
      /\ store[n][r] # Absent
      /\ store' = [store EXCEPT ![n][r] = copy]
      /\ UNCHANGED <<saves, file, restored>>
  BY DEF RestoreInv, NormsInv, SovereigntyTypeOK, ProposeNorms
<1>2. /\ copy \in Copy
      /\ copy.save = store[n][r].save /\ copy.avoidTopics = store[n][r].avoidTopics \cup topics
  <2>1. store[n][r] \in Copy
    BY <1>1
  <2>2. QED
    BY <2>1 DEF Merged, Copy
<1>3. copy # Absent
  BY <1>2, SovereigntyAssumption DEF SovereigntyAssumption
<1> HIDE DEF copy
<1>4. /\ store'[n][r] = copy
      /\ \A m \in Homes, q \in Records : m # n \/ q # r => store'[m][q] = store[m][q]
  BY <1>1
<1>5. SavesKnown'
  BY <1>1, <1>2, <1>4 DEF RestoreInv, SavesKnown
<1>6. ASSUME NEW m \in restored, NEW q \in Portable
      PROVE  Covers(store'[m][q], file.copies[q])
  <2>1. m \in Homes /\ q \in Records /\ Covers(store[m][q], file.copies[q])
    BY <1>6 DEF RestoreInv, NormsInv, SovereigntyTypeOK, Portable, RestoredHolds, Covers
  <2>2. CASE m = n /\ q = r
    BY <1>2, <1>3, <1>4, <2>1, <2>2 DEF Covers
  <2>3. CASE m # n \/ q # r
    BY <1>4, <2>1, <2>3
  <2>4. QED
    BY <2>2, <2>3
<1>7. RestoredHolds'
  BY <1>1, <1>6 DEF RestoredHolds, Covers, Portable
<1>8. QED
  BY <1>5, <1>7

LEMMA LoadingKeepsRestored ==
  ASSUME RestoreInv, NEW n \in Homes, NEW done \in SUBSET Portable, Load(n, done),
         \A m \in restored' : m \in restored \/ (m = n /\ done = Portable)
  PROVE  SavesKnown' /\ RestoredHolds'
<1>1. /\ store \in [Homes -> [Records -> Copy \cup {Absent}]]
      /\ file.copies \in [Records -> Copy \cup {Absent}]
      /\ restored \subseteq Homes
      /\ store' = [store EXCEPT ![n] = With(@, done)]
      /\ UNCHANGED <<saves, file>>
  BY DEF RestoreInv, NormsInv, SovereigntyTypeOK, Load
<1>2. /\ \A q \in Records : store'[n][q] = IF q \in done THEN file.copies[q] ELSE store[n][q]
      /\ \A m \in Homes : m # n => store'[m] = store[m]
  BY <1>1 DEF With
<1>3. SavesKnown'
  BY <1>1, <1>2 DEF RestoreInv, SavesKnown
<1>4. ASSUME NEW m \in restored', NEW q \in Portable
      PROVE  Covers(store'[m][q], file.copies[q])
  <2>1. m \in Homes /\ q \in Records /\ file.copies[q] # Absent /\ file.copies[q] \in Copy
    BY <1>1, <1>4 DEF Portable
  <2>2. CASE m = n /\ q \in done
    <3>1. store'[m][q] = file.copies[q] /\ file.copies[q].save \in Nat
      BY <1>2, <2>1, <2>2 DEF Copy
    <3>2. QED
      BY <2>1, <3>1 DEF Covers
  <2>3. CASE ~(m = n /\ q \in done)
    <3>1. m \in restored /\ store'[m][q] = store[m][q]
      BY <1>2, <1>4, <2>1, <2>3
    <3>2. QED
      BY <3>1 DEF RestoreInv, RestoredHolds, Covers
  <2>4. QED
    BY <2>2, <2>3
<1>5. RestoredHolds'
  BY <1>1, <1>4 DEF RestoredHolds, Covers, Portable
<1>6. QED
  BY <1>3, <1>5

LEMMA TearingKeepsRestored ==
  ASSUME RestoreInv, NEW n \in Homes, NEW kind, StoreTorn(n, kind)
  PROVE  SavesKnown' /\ RestoredHolds'
<1>1. /\ store \in [Homes -> [Records -> Copy \cup {Absent}]] /\ restored \subseteq Homes
      /\ store' = [store EXCEPT ![n] = [r \in Records |-> IF r \in Held(n, kind) THEN Absent ELSE @[r]]]
      /\ restored' = restored \ {n}
      /\ UNCHANGED <<saves, file>>
  BY DEF RestoreInv, NormsInv, SovereigntyTypeOK, StoreTorn
<1>2. /\ \A q \in Records : store'[n][q] = Absent \/ store'[n][q] = store[n][q]
      /\ \A m \in Homes : m # n => store'[m] = store[m]
  BY <1>1
<1>3. SavesKnown'
  BY <1>1, <1>2 DEF RestoreInv, SavesKnown
<1>4. RestoredHolds'
  BY <1>1, <1>2 DEF RestoreInv, RestoredHolds, Portable
<1>5. QED
  BY <1>3, <1>4

LEMMA RestoreInvInit == SovereigntyInit => RestoreInv
<1> SUFFICES ASSUME SovereigntyInit PROVE RestoreInv
  OBVIOUS
<1>1. SavesKnown /\ RestoredHolds
  BY DEF SovereigntyInit, NoFile, SavesKnown, RestoredHolds
<1>2. QED
  BY <1>1, NormsInvInit DEF RestoreInv

\* Only what the copies are matters, not the state of the file.
LEMMA SameCopies ==
  ASSUME SavesKnown, RestoredHolds, file'.copies = file.copies, Portable' = Portable,
         UNCHANGED <<store, saves, restored>>
  PROVE  SavesKnown' /\ RestoredHolds'
<1>1. store' = store /\ saves' = saves /\ restored' = restored
  OBVIOUS
<1>2. SavesKnown'
  BY <1>1 DEF SavesKnown
<1>3. RestoredHolds'
  BY <1>1 DEF RestoredHolds
<1>4. QED
  BY <1>2, <1>3

LEMMA RestoreInvStep == RestoreInv /\ [SovereigntyNext]_sovereigntyVars => RestoreInv'
<1> SUFFICES ASSUME RestoreInv, [SovereigntyNext]_sovereigntyVars PROVE RestoreInv'
  OBVIOUS
<1>1. NormsInv'
  BY NormsInvStep DEF RestoreInv
<1>2. ASSUME NEW n \in Homes, Export(n) PROVE SavesKnown' /\ RestoredHolds'
  BY <1>2 DEF Export, RestoreInv, SavesKnown, RestoredHolds
<1>3. ASSUME DamageFile PROVE SavesKnown' /\ RestoredHolds'
  <2>1. /\ file'.copies = file.copies /\ UNCHANGED <<store, saves, restored>>
    BY <1>3 DEF DamageFile, RestoreInv, NormsInv, SovereigntyTypeOK
  <2>2. Portable' = Portable
    BY <2>1 DEF Portable
  <2>3. QED
    BY <2>1, <2>2, SameCopies DEF RestoreInv
<1>4. ASSUME NEW n \in Homes, Import(n) PROVE SavesKnown' /\ RestoredHolds'
  BY <1>4, LoadingKeepsRestored DEF Import
<1>5. ASSUME NEW n \in Homes, NEW done \in Prefixes, ImportCrash(n, done)
      PROVE  SavesKnown' /\ RestoredHolds'
  BY <1>5, LoadingKeepsRestored, PrefixesArePortable DEF ImportCrash
<1>6. ASSUME UNCHANGED sovereigntyVars PROVE SavesKnown' /\ RestoredHolds'
  <2>1. UNCHANGED <<store, saves, file, restored>>
    BY <1>6 DEF sovereigntyVars
  <2>2. Portable' = Portable
    BY <2>1 DEF Portable
  <2>3. QED
    BY <2>1, <2>2, SameCopies DEF RestoreInv
<1>7. SavesKnown' /\ RestoredHolds'
  BY <1>2, <1>3, <1>4, <1>5, <1>6, SavingKeepsRestored, ProposingKeepsRestored, TearingKeepsRestored,
     Zenon DEF SovereigntyNext
<1>8. QED
  BY <1>1, <1>7 DEF RestoreInv

LEMMA RestoreInvariant == RecordsSpec => []RestoreInv
<1>1. RecordsInit => RestoreInv
  BY RestoreInvInit DEF RecordsInit
<1>2. QED
  BY <1>1, RestoreInvStep, StepOfEach, PTL DEF RecordsSpec

\* Stores, exports and agreements keep their shape.
THEOREM SovereigntyTyped == RecordsSpec => []SovereigntyTypeOK
BY RestoreInvariant, PTL DEF RestoreInv, NormsInv

\* What was agreed stands until an import brings an older copy or a crash tears
\* the store, for any number of nodes and relationships (proposeCulturalNorms).
THEOREM NormsStandUntilImport == RecordsSpec => []AgreedUntilImport
BY RestoreInvariant, PTL DEF RestoreInv, NormsInv

\* A restored node holds what the import reads of the export, none of it older,
\* for any number of saves, partial imports and torn stores before and since
\* (importNodeData).
THEOREM RestoredNodesHold == RecordsSpec => []RestoredHolds
BY RestoreInvariant, PTL DEF RestoreInv
-----------------------------------------------------------------------------
(***************************************************************************)
(* Claims.  Every verdict is the node's own, and whoever gave one may not  *)
(* give another: there is never a second, and one settles nothing.  The    *)
(* aggregate plays no part in it, so its value is left open.               *)
(***************************************************************************)

\* A claim is a record of four fields, with own verdicts, and open.
Open(fact) ==
  /\ fact = [claim |-> fact.claim, verifications |-> fact.verifications,
             aggregateConfidence |-> fact.aggregateConfidence, status |-> fact.status]
  /\ fact.verifications \in Seq(Verification)
  /\ fact.status \in {"none", "pending"}

ClaimsInv == facts = [h \in Hashes |-> facts[h]] /\ \A h \in Hashes : Open(facts[h])

LEMMA NoClaimIsOpen == Open(NoClaim)
BY DEF Open, NoClaim

LEMMA SubmittedIsOpen == \A t \in Texts : Open(NewClaim(t))
BY DEF Open, NewClaim

LEMMA FirstVerdictIsPending ==
  ASSUME ClaimsInv, NEW h \in Hashes, MayVerify(h), NEW verdict \in Verdicts, NEW confidence \in Nat
  PROVE  LET vs == Append(facts[h].verifications,
                          [verifierDid |-> Node, verdict |-> verdict, confidence |-> confidence])
         IN  vs \in Seq(Verification) /\ Status(vs) = "pending"
<1> DEFINE old == facts[h].verifications
           new == [verifierDid |-> Node, verdict |-> verdict, confidence |-> confidence]
<1>1. old \in Seq(Verification) /\ new \in Verification
  BY DEF ClaimsInv, Open, Verification
<1>2. \A i \in DOMAIN old : old[i] \in Verification /\ old[i].verifierDid # Node
  BY <1>1 DEF MayVerify
<1>3. \A i \in DOMAIN old : FALSE
  BY <1>2 DEF Verification
<1> HIDE DEF old, new
<1>4. Len(old) = 0
  <2>1. Len(old) \in Nat /\ DOMAIN old = 1..Len(old)
    BY <1>1
  <2>2. 1 \notin 1..Len(old)
    BY <1>3, <2>1
  <2>3. QED
    BY <2>1, <2>2
<1>5. Append(old, new) \in Seq(Verification) /\ Len(Append(old, new)) = 1
  BY <1>1, <1>4
<1>6. Status(Append(old, new)) = "pending"
  BY <1>5, FactsAssumption DEF FactsAssumption, Status
<1>7. QED
  BY <1>5, <1>6 DEF old, new

LEMMA VerifyingSettlesNothing ==
  ASSUME ClaimsInv, NEW h \in Hashes, NEW verdict \in Verdicts, NEW confidence \in Confidences,
         VerifyFact(h, verdict, confidence)
  PROVE  ClaimsInv'
<1> DEFINE vs == Append(facts[h].verifications,
                        [verifierDid |-> Node, verdict |-> verdict, confidence |-> confidence])
<1>1. vs \in Seq(Verification) /\ Status(vs) = "pending"
  BY FirstVerdictIsPending, FactsAssumption DEF FactsAssumption, VerifyFact
<1>2. facts' = [facts EXCEPT ![h].verifications = vs, ![h].aggregateConfidence = Aggregate(vs),
                             ![h].status = Status(vs)]
  BY DEF VerifyFact
<1> HIDE DEF vs
<1>3. facts'[h] = [claim |-> facts[h].claim, verifications |-> vs,
                   aggregateConfidence |-> Aggregate(vs), status |-> "pending"]
  <2>1. facts'[h] = [facts[h] EXCEPT !.verifications = vs, !.aggregateConfidence = Aggregate(vs),
                                    !.status = Status(vs)]
    BY <1>2 DEF ClaimsInv
  <2>2. PICK claim, old, aggregate, status :
          facts[h] = [claim |-> claim, verifications |-> old,
                      aggregateConfidence |-> aggregate, status |-> status]
    BY DEF ClaimsInv, Open
  <2>3. QED
    BY <1>1, <2>1, <2>2
<1>4. facts' = [g \in Hashes |-> facts'[g]] /\ \A g \in Hashes : g # h => facts'[g] = facts[g]
  BY <1>2 DEF ClaimsInv
<1>5. Open(facts'[h])
  BY <1>1, <1>3 DEF Open
<1>6. QED
  BY <1>4, <1>5 DEF ClaimsInv

LEMMA ClaimsInvStep == ClaimsInv /\ [FactsNext]_factVars => ClaimsInv'
<1> SUFFICES ASSUME ClaimsInv, [FactsNext]_factVars PROVE ClaimsInv'
  OBVIOUS
<1>1. ASSUME NEW t \in Texts, SubmitFact(t)
      PROVE  ClaimsInv'
  BY <1>1, SubmittedIsOpen DEF SubmitFact, ClaimsInv, Hashes
<1>2. CASE ForgetFacts
  BY <1>2, NoClaimIsOpen DEF ForgetFacts, ClaimsInv
<1>3. CASE UNCHANGED factVars
  BY <1>3 DEF factVars, ClaimsInv
<1>4. QED
  BY <1>1, <1>2, <1>3, VerifyingSettlesNothing DEF FactsNext

\* However many texts there are and whichever share a hash, the node settles none
\* of its claims alone (verifyFactClaim, minVerifications).
THEOREM ClaimsStayOpen == RecordsSpec => []NobodySettlesAlone
<1>1. RecordsInit => ClaimsInv
  BY NoClaimIsOpen DEF RecordsInit, FactsInit, ClaimsInv
<1>2. ClaimsInv => NobodySettlesAlone
  BY DEF ClaimsInv, Open, NobodySettlesAlone, Settled
<1>3. QED
  BY <1>1, <1>2, ClaimsInvStep, StepOfEach, PTL DEF RecordsSpec


=============================================================================
