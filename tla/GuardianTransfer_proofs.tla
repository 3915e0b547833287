----------------------- MODULE GuardianTransfer_proofs -----------------------
(***************************************************************************)
(* Proofs about module GuardianTransfer, for any parties, expiry and       *)
(* number of transfers.                                                    *)
(***************************************************************************)
EXTENDS GuardianTransfer, TLAPS

LEMMA TypeInit == TransferInit => TransferTypeOK
<1> SUFFICES ASSUME TransferInit PROVE TransferTypeOK
  OBVIOUS
<1>1. NoTransfer \in TransferRecord
  BY TransferAssumption DEF NoTransfer, TransferRecord, TransferTimes, TransferAssumption
<1>2. QED
  BY <1>1, TransferAssumption
     DEF TransferInit, TransferTypeOK, TransferIds, TransferTimes, NoTransfer, TransferAssumption

LEMMA TypeStep == TransferTypeOK /\ [TransferNext]_transferVars => TransferTypeOK'
<1> SUFFICES ASSUME TransferTypeOK, [TransferNext]_transferVars PROVE TransferTypeOK'
  OBVIOUS
<1> USE TransferAssumption DEF TransferAssumption, TransferIds, TransferTimes
<1>1. ASSUME NEW agent \in Parties, NEW current \in Parties, NEW new \in Parties,
             NEW role \in Roles, Initiate(agent, current, new, role)
      PROVE  TransferTypeOK'
  <2> DEFINE t == [agentDid |-> agent, currentGuardianDid |-> current, newGuardianDid |-> new,
                   approved |-> {InitiatorDid(role, agent, current, new)}, refused |-> {},
                   createdAt |-> transferNow, completedAt |-> 0, status |-> "pending"]
  <2>1. InitiatorDid(role, agent, current, new) \in Parties
    BY DEF InitiatorDid, Roles
  <2>2. t \in TransferRecord /\ Involved(t) \subseteq Parties /\ t.createdAt = transferNow
    BY <2>1 DEF TransferRecord, Involved, TransferTypeOK
  <2>3. /\ transfers' = [transfers EXCEPT ![nextTransfer] = t]
        /\ nextTransfer \in 1..MaxTransfers
        /\ nextTransfer' = nextTransfer + 1
        /\ transferNow' = transferNow
    BY <1>1 DEF Initiate, TransferTypeOK
  <2> HIDE DEF t
  <2>4. QED
    BY <2>2, <2>3 DEF TransferTypeOK
<1>2. ASSUME NEW t \in TransferIds, NEW u \in TransferRecord, transfers[t].status # "none",
             transfers' = [transfers EXCEPT ![t] = u],
             Involved(u) = Involved(transfers[t]), u.createdAt = transfers[t].createdAt,
             UNCHANGED <<nextTransfer, transferNow>>
      PROVE  TransferTypeOK'
  <2>1. t < nextTransfer
    BY <1>2 DEF TransferTypeOK, NoTransfer
  <2>2. QED
    BY <1>2, <2>1 DEF TransferTypeOK
<1>3. ASSUME NEW t \in TransferIds, Expire(t) PROVE TransferTypeOK'
  <2> DEFINE u == [transfers[t] EXCEPT !.status = "expired"]
  <2>1. u \in TransferRecord /\ Involved(u) = Involved(transfers[t]) /\ u.createdAt = transfers[t].createdAt
    BY DEF TransferTypeOK, TransferRecord, Involved
  <2>2. /\ transfers' = [transfers EXCEPT ![t] = u]
        /\ transfers[t].status # "none"
        /\ UNCHANGED <<nextTransfer, transferNow>>
    BY <1>3 DEF Expire
  <2> HIDE DEF u
  <2>3. QED
    BY <1>2, <2>1, <2>2
<1>4. ASSUME NEW t \in TransferIds, NEW p \in Parties, Refuse(t, p) PROVE TransferTypeOK'
  <2> DEFINE u == [transfers[t] EXCEPT !.refused = @ \cup {p}, !.status = "rejected"]
  <2>1. u \in TransferRecord /\ Involved(u) = Involved(transfers[t]) /\ u.createdAt = transfers[t].createdAt
    BY DEF TransferTypeOK, TransferRecord, Involved
  <2>2. /\ transfers' = [transfers EXCEPT ![t] = u]
        /\ transfers[t].status # "none"
        /\ UNCHANGED <<nextTransfer, transferNow>>
    BY <1>4 DEF Refuse, MayConsent
  <2> HIDE DEF u
  <2>3. QED
    BY <1>2, <2>1, <2>2
<1>5. ASSUME NEW t \in TransferIds, NEW p \in Parties, Approve(t, p) PROVE TransferTypeOK'
  <2> DEFINE approved == transfers[t].approved \cup {p}
             complete == Involved(transfers[t]) \subseteq approved
             u == [transfers[t] EXCEPT
                     !.approved = approved,
                     !.status = IF complete THEN "completed" ELSE "pending",
                     !.completedAt = IF complete THEN transferNow ELSE @]
  <2>1. transfers[t] \in TransferRecord /\ transferNow \in TransferTimes
    BY DEF TransferTypeOK
  <2>2. /\ approved \subseteq Parties
        /\ (IF complete THEN "completed" ELSE "pending") \in {"pending", "completed"}
        /\ (IF complete THEN transferNow ELSE transfers[t].completedAt) \in TransferTimes
    BY <2>1 DEF TransferRecord
  <2>3. /\ transfers' = [transfers EXCEPT ![t] = u]
        /\ transfers[t].status # "none"
        /\ UNCHANGED <<nextTransfer, transferNow>>
    BY <1>5 DEF Approve, MayConsent
  <2> HIDE DEF approved, complete
  <2>4. u \in TransferRecord /\ Involved(u) = Involved(transfers[t]) /\ u.createdAt = transfers[t].createdAt
    BY <2>1, <2>2 DEF TransferRecord, Involved
  <2> HIDE DEF u
  <2>5. QED
    BY <1>2, <2>4, <2>3
<1>6. ASSUME TransferTick PROVE TransferTypeOK'
  BY <1>6 DEF TransferTick, TransferTypeOK, TransferRecord
<1>7. CASE UNCHANGED transferVars
  BY <1>7 DEF transferVars, TransferTypeOK
<1>8. QED
  BY <1>1, <1>3, <1>4, <1>5, <1>6, <1>7 DEF TransferNext

(***************************************************************************)
(* Type correctness.                                                       *)
(***************************************************************************)
THEOREM TypeCorrect == TransferSpec => []TransferTypeOK
<1>1. QED
  BY TypeInit, TypeStep, PTL DEF TransferSpec

(***************************************************************************)
(* What one step does to one transfer: it is left alone, opened, expired,  *)
(* refused or approved.  The proofs below follow these five cases.         *)
(***************************************************************************)
LEMMA StepOfTransfer ==
  ASSUME TransferTypeOK, [TransferNext]_transferVars, NEW t \in TransferIds
  PROVE  \/ transfers'[t] = transfers[t]
         \/ /\ transfers[t].status = "none"
            /\ t = nextTransfer
            /\ \E agent, current, new \in Parties, role \in Roles :
                 Initiate(agent, current, new, role)
         \/ Expire(t)
         \/ \E p \in Parties : Refuse(t, p)
         \/ \E p \in Parties : Approve(t, p)
<1>1. ASSUME NEW agent \in Parties, NEW current \in Parties, NEW new \in Parties,
             NEW role \in Roles, Initiate(agent, current, new, role), t # nextTransfer
      PROVE  transfers'[t] = transfers[t]
  BY <1>1 DEF Initiate, TransferTypeOK
<1>2. t = nextTransfer => transfers[t].status = "none"
  BY TransferAssumption DEF TransferTypeOK, NoTransfer, TransferIds, TransferAssumption
<1>3. ASSUME NEW u \in TransferIds, u # t,
             Expire(u) \/ \E p \in Parties : Refuse(u, p) \/ Approve(u, p)
      PROVE  transfers'[t] = transfers[t]
  BY <1>3 DEF Expire, Refuse, Approve, TransferTypeOK
<1>4. CASE TransferTick \/ UNCHANGED transferVars
  BY <1>4 DEF TransferTick, transferVars
<1>5. QED
  BY <1>1, <1>2, <1>3, <1>4 DEF TransferNext

(***************************************************************************)
(* The consents of a transfer.  Completion needs all three parties within  *)
(* the expiry and no refusal; a refusal closes; nobody is on both sides.   *)
(* Both properties are inductive together: that nobody refused a pending   *)
(* transfer is what keeps refusals out of a completed one.                 *)
(***************************************************************************)
ConsentInv == CompletedMeansConsent /\ ConsentIsOnce /\
  \A t \in TransferIds : transfers[t].status # "none" =>
    transfers[t].approved \subseteq Involved(transfers[t])

LEMMA ConsentStep == TransferTypeOK /\ ConsentInv /\ [TransferNext]_transferVars => ConsentInv'
<1> SUFFICES ASSUME TransferTypeOK, ConsentInv, [TransferNext]_transferVars, NEW t \in TransferIds
             PROVE  /\ transfers'[t].status = "completed" =>
                         /\ Involved(transfers'[t]) = transfers'[t].approved
                         /\ transfers'[t].refused = {}
                         /\ transfers'[t].completedAt - transfers'[t].createdAt <= Expiry
                    /\ transfers'[t].approved \cap transfers'[t].refused = {}
                    /\ transfers'[t].refused # {} <=> transfers'[t].status = "rejected"
                    /\ transfers'[t].status = "pending" /\ ~SameParty(transfers'[t])
                         => transfers'[t].approved # Involved(transfers'[t])
                    /\ transfers'[t].status # "none" =>
                         transfers'[t].approved \subseteq Involved(transfers'[t])
  BY DEF ConsentInv, CompletedMeansConsent, ConsentIsOnce
<1>1. CASE transfers'[t] = transfers[t]
  BY <1>1 DEF ConsentInv, CompletedMeansConsent, ConsentIsOnce
<1>2. ASSUME NEW agent \in Parties, NEW current \in Parties, NEW new \in Parties,
             NEW role \in Roles, Initiate(agent, current, new, role), t = nextTransfer
      PROVE  /\ transfers'[t].status = "pending"
             /\ transfers'[t].refused = {}
             /\ transfers'[t].approved \subseteq Involved(transfers'[t])
             /\ ~SameParty(transfers'[t]) => transfers'[t].approved # Involved(transfers'[t])
  <2>1. transfers'[t] =
          [agentDid |-> agent, currentGuardianDid |-> current, newGuardianDid |-> new,
           approved |-> {InitiatorDid(role, agent, current, new)}, refused |-> {},
           createdAt |-> transferNow, completedAt |-> 0, status |-> "pending"]
    BY <1>2 DEF Initiate, TransferTypeOK
  <2>2. InitiatorDid(role, agent, current, new) \in {agent, current, new}
    BY DEF InitiatorDid, Roles
  <2>3. QED
    BY <2>1, <2>2 DEF Involved, SameParty
<1>3. transfers[t] \in TransferRecord
  BY DEF TransferTypeOK
<1>4. CASE Expire(t)
  <2>1. transfers'[t] = [transfers[t] EXCEPT !.status = "expired"] /\ transfers[t].status = "pending"
    BY <1>4 DEF Expire, TransferTypeOK
  <2>2. QED
    BY <1>3, <2>1 DEF ConsentInv, ConsentIsOnce, TransferRecord, Involved
<1>5. ASSUME NEW p \in Parties, Refuse(t, p)
      PROVE  /\ transfers'[t].status = "rejected"
             /\ transfers'[t].refused # {}
             /\ transfers'[t].approved \cap transfers'[t].refused = {}
             /\ transfers'[t].approved \subseteq Involved(transfers'[t])
  <2>1. /\ transfers'[t] = [transfers[t] EXCEPT !.refused = @ \cup {p}, !.status = "rejected"]
        /\ transfers[t].status = "pending"
        /\ p \notin transfers[t].approved
    BY <1>5 DEF Refuse, MayConsent, TransferTypeOK
  <2>2. QED
    BY <1>3, <2>1 DEF ConsentInv, ConsentIsOnce, TransferRecord, Involved
<1>6. ASSUME NEW p \in Parties, Approve(t, p)
      PROVE  /\ transfers'[t].refused = {}
             /\ transfers'[t].status \in {"pending", "completed"}
             /\ transfers'[t].status = "pending" => transfers'[t].approved # Involved(transfers'[t])
             /\ transfers'[t].approved \subseteq Involved(transfers'[t])
             /\ transfers'[t].status = "completed" =>
                  /\ Involved(transfers'[t]) = transfers'[t].approved
                  /\ transfers'[t].completedAt - transfers'[t].createdAt <= Expiry
  <2> DEFINE approved == transfers[t].approved \cup {p}
             complete == Involved(transfers[t]) \subseteq approved
  <2>1. /\ transfers'[t] = [transfers[t] EXCEPT
                              !.approved = approved,
                              !.status = IF complete THEN "completed" ELSE "pending",
                              !.completedAt = IF complete THEN transferNow ELSE @]
        /\ transfers[t].status = "pending"
        /\ ~(transferNow - transfers[t].createdAt > Expiry)
        /\ p \in Involved(transfers[t])
    BY <1>6 DEF Approve, MayConsent, TransferTypeOK, Overdue
  <2>2. transfers[t].refused = {} /\ approved \subseteq Involved(transfers[t])
    BY <2>1 DEF ConsentInv, ConsentIsOnce
  <2>3. Involved(transfers'[t]) = Involved(transfers[t])
    BY <1>3, <2>1 DEF Involved, TransferRecord
  <2>4. transferNow \in Int /\ transfers[t].createdAt \in Int /\ Expiry \in Int
    BY <1>3, TransferAssumption DEF TransferTypeOK, TransferRecord, TransferTimes, TransferAssumption
  <2>5. /\ transfers'[t].refused = transfers[t].refused
        /\ transfers'[t].createdAt = transfers[t].createdAt
        /\ transfers'[t].approved = approved
        /\ transfers'[t].status = IF complete THEN "completed" ELSE "pending"
        /\ complete => transfers'[t].completedAt = transferNow
    BY <1>3, <2>1 DEF TransferRecord
  <2>6. CASE complete
    <3>1. approved = Involved(transfers[t])
      BY <2>2, <2>6
    <3>2. transferNow - transfers[t].createdAt <= Expiry
      BY <2>1, <2>4
    <3> HIDE DEF approved
    <3>3. QED
      BY <2>2, <2>3, <2>5, <2>6, <3>1, <3>2
  <2>7. CASE ~complete
    BY <2>2, <2>3, <2>5, <2>7
  <2>8. QED
    BY <2>6, <2>7
<1>7. QED
  BY <1>1, <1>2, <1>4, <1>5, <1>6, StepOfTransfer

LEMMA Consents == TransferSpec => []ConsentInv
<1>1. TransferInit => ConsentInv
  BY DEF TransferInit, ConsentInv, CompletedMeansConsent, ConsentIsOnce, NoTransfer
<1>2. QED
  BY <1>1, ConsentStep, TypeCorrect, PTL DEF TransferSpec

(***************************************************************************)
(* A completed transfer has the timely consent of all three parties.       *)
(***************************************************************************)
THEOREM CompletionIsConsented == TransferSpec => []CompletedMeansConsent
<1>1. ConsentInv => CompletedMeansConsent
  BY DEF ConsentInv
<1>2. QED
  BY <1>1, Consents, PTL

THEOREM ConsentOnce == TransferSpec => []ConsentIsOnce
<1>1. ConsentInv => ConsentIsOnce
  BY DEF ConsentInv
<1>2. QED
  BY <1>1, Consents, PTL

(***************************************************************************)
(* A transfer pending after a step was pending before it, for the same     *)
(* agent, or was opened by the step while its agent had none outstanding.  *)
(***************************************************************************)
LEMMA PendingStep ==
  ASSUME TransferTypeOK, [TransferNext]_transferVars, NEW t \in TransferIds, transfers'[t].status = "pending"
  PROVE  \/ /\ transfers[t].status = "pending"
            /\ transfers'[t].agentDid = transfers[t].agentDid
         \/ /\ t = nextTransfer
            /\ Outstanding(transfers'[t].agentDid) = {}
<1>1. transfers[t] \in TransferRecord
  BY DEF TransferTypeOK
<1>2. CASE transfers'[t] = transfers[t]
  BY <1>2
<1>3. ASSUME NEW agent \in Parties, NEW current \in Parties, NEW new \in Parties,
             NEW role \in Roles, Initiate(agent, current, new, role), t = nextTransfer
      PROVE  Outstanding(transfers'[t].agentDid) = {}
  <2>1. transfers'[t].agentDid = agent
    BY <1>3 DEF Initiate, TransferTypeOK
  <2>2. QED
    BY <1>3, <2>1 DEF Initiate
<1>4. CASE Expire(t)
  BY <1>4 DEF Expire, TransferTypeOK
<1>5. ASSUME NEW p \in Parties, Refuse(t, p) PROVE FALSE
  BY <1>1, <1>5 DEF Refuse, TransferTypeOK, TransferRecord
<1>6. ASSUME NEW p \in Parties, Approve(t, p)
      PROVE  transfers[t].status = "pending" /\ transfers'[t].agentDid = transfers[t].agentDid
  <2>1. transfers[t].status = "pending"
    BY <1>6 DEF Approve, MayConsent
  <2>2. transfers'[t].agentDid = transfers[t].agentDid
    BY <1>1, <1>6 DEF Approve, TransferTypeOK, TransferRecord
  <2>3. QED
    BY <2>1, <2>2
<1>7. QED
  BY <1>2, <1>3, <1>4, <1>5, <1>6, StepOfTransfer

(***************************************************************************)
(* An agent never has two transfers under way.                             *)
(***************************************************************************)
LEMMA OutstandingStep == TransferTypeOK /\ OneOutstanding /\ [TransferNext]_transferVars => OneOutstanding'
<1> SUFFICES ASSUME TransferTypeOK, OneOutstanding, [TransferNext]_transferVars,
                    NEW agent \in Parties, NEW t \in TransferIds, NEW u \in TransferIds,
                    transfers'[t].status = "pending", transfers'[t].agentDid = agent,
                    transfers'[u].status = "pending", transfers'[u].agentDid = agent
             PROVE  t = u
  BY DEF OneOutstanding, Outstanding
<1>1. CASE /\ transfers[t].status = "pending" /\ transfers[t].agentDid = agent
           /\ transfers[u].status = "pending" /\ transfers[u].agentDid = agent
  BY <1>1 DEF OneOutstanding, Outstanding
<1>2. CASE t = nextTransfer /\ u = nextTransfer
  BY <1>2
<1>3. CASE /\ Outstanding(agent) = {}
           /\ \E w \in {t, u} : transfers[w].status = "pending" /\ transfers[w].agentDid = agent
  BY <1>3 DEF Outstanding
<1>4. QED
  BY <1>1, <1>2, <1>3, PendingStep

THEOREM AtMostOneOutstanding == TransferSpec => []OneOutstanding
<1>1. TransferInit => OneOutstanding
  BY DEF TransferInit, OneOutstanding, Outstanding, NoTransfer
<1>2. QED
  BY <1>1, OutstandingStep, TypeCorrect, PTL DEF TransferSpec

(***************************************************************************)
(* A closed transfer is never touched again: each of the handlers that     *)
(* could change it finds it neither unused nor pending.                    *)
(***************************************************************************)
LEMMA ClosedStep ==
  TransferTypeOK /\ [TransferNext]_transferVars =>
    \A t \in TransferIds :
      transfers[t].status \in {"completed", "rejected", "expired"} => transfers'[t] = transfers[t]
<1> SUFFICES ASSUME TransferTypeOK, [TransferNext]_transferVars, NEW t \in TransferIds,
                    transfers[t].status \in {"completed", "rejected", "expired"}
             PROVE  transfers'[t] = transfers[t]
  OBVIOUS
<1>1. ~Expire(t)
  BY DEF Expire
<1>2. \A p \in Parties : ~Refuse(t, p) /\ ~Approve(t, p)
  BY DEF Refuse, Approve, MayConsent
<1>3. QED
  BY <1>1, <1>2, StepOfTransfer

THEOREM ClosedForGood == TransferSpec => ClosedIsFinal
<1>1. TransferTypeOK /\ [TransferNext]_transferVars =>
        [\A t \in TransferIds :
           transfers[t].status \in {"completed", "rejected", "expired"} =>
             transfers'[t] = transfers[t]]_transferVars
  BY ClosedStep
<1>2. QED
  BY <1>1, TypeCorrect, PTL DEF TransferSpec, ClosedIsFinal
=============================================================================
