--------------------------- MODULE GuardianTransfer ---------------------------
(***************************************************************************)
(* The three-party guardian transfer kept by one node                      *)
(* (maip-node/src/handlers/guardian-transfer-core.ts): an agent, its       *)
(* guardian or the new guardian initiates, every party consents once, the  *)
(* transfer completes with the third consent, is rejected by the first     *)
(* refusal, and times out.                                                 *)
(*                                                                         *)
(* No timer expires a transfer: an overdue one stays "pending" until       *)
(* someone submits a consent to it or reads its status.  Every handler     *)
(* writes one store once, so it is one action; a crash before the write    *)
(* undoes it, and a write cut short (see Isolation) is left out.  The      *)
(* clock advances in units of TRANSFER_EXPIRY_MS / Expiry.  The records    *)
(* forks leave in the same store are in module Forks.                      *)
(***************************************************************************)
EXTENDS Integers

CONSTANTS Parties,       \* DIDs of agents and guardians
          NoParty,       \* the parties of an unused transfer
          Expiry,        \* TRANSFER_EXPIRY_MS
          MaxTransfers,  \* bound: transfers ever initiated
          MaxTransferTime \* bound: the clock

ASSUME TransferAssumption ==
  /\ NoParty \notin Parties
  /\ Expiry \in Nat /\ MaxTransfers \in Nat /\ MaxTransferTime \in Nat

VARIABLES transfers,     \* store guardian-transfers.json, in order of creation
          nextTransfer,  \* the next unused transfer id
          transferNow    \* Date.now()

transferVars == <<transfers, nextTransfer, transferNow>>

TransferIds == 1..MaxTransfers
Roles == {"agent", "current_guardian", "new_guardian"}
TransferTimes == 0..MaxTransferTime

TransferRecord ==
  [agentDid: Parties \cup {NoParty}, currentGuardianDid: Parties \cup {NoParty},
   newGuardianDid: Parties \cup {NoParty}, approved: SUBSET Parties,
   refused: SUBSET Parties, createdAt: TransferTimes, completedAt: TransferTimes,
   status: {"none", "pending", "completed", "rejected", "expired"}]

NoTransfer ==
  [agentDid |-> NoParty, currentGuardianDid |-> NoParty, newGuardianDid |-> NoParty,
   approved |-> {}, refused |-> {}, createdAt |-> 0, completedAt |-> 0,
   status |-> "none"]

Involved(t) == {t.agentDid, t.currentGuardianDid, t.newGuardianDid}
SameParty(t) == \A p, q \in Involved(t) : p = q
Overdue(t) == transferNow - t.createdAt > Expiry

\* The transfer of an agent that stands in the way of a new one.  (The code
\* also tests for "approved", a status no handler ever assigns.)
Outstanding(agent) ==
  {t \in TransferIds : transfers[t].agentDid = agent /\ transfers[t].status = "pending"}

TransferInit ==
  /\ transfers = [t \in TransferIds |-> NoTransfer]
  /\ nextTransfer = 1
  /\ transferNow = 0

InitiatorDid(role, agent, current, new) ==
  CASE role = "agent" -> agent
    [] role = "current_guardian" -> current
    [] role = "new_guardian" -> new

\* processInitiateTransfer.  Nothing requires the three parties to differ.
Initiate(agent, current, new, role) ==
  /\ nextTransfer <= MaxTransfers
  /\ Outstanding(agent) = {}
  /\ transfers' = [transfers EXCEPT ![nextTransfer] =
       [agentDid |-> agent, currentGuardianDid |-> current, newGuardianDid |-> new,
        approved |-> {InitiatorDid(role, agent, current, new)}, refused |-> {},
        createdAt |-> transferNow, completedAt |-> 0, status |-> "pending"]]
  /\ nextTransfer' = nextTransfer + 1
  /\ UNCHANGED transferNow

\* processTransferConsent or processGetTransferStatus finds the transfer overdue.
Expire(t) ==
  /\ transfers[t].status = "pending"
  /\ Overdue(transfers[t])
  /\ transfers' = [transfers EXCEPT ![t].status = "expired"]
  /\ UNCHANGED <<nextTransfer, transferNow>>

\* Mutation: expiry is not checked.
MayConsentLate(t, p) ==
  /\ transfers[t].status = "pending"
  /\ p \in Involved(transfers[t])
  /\ p \notin transfers[t].approved \cup transfers[t].refused
MayConsent(t, p) ==
  /\ transfers[t].status = "pending"
  /\ ~Overdue(transfers[t])
  /\ p \in Involved(transfers[t])
  /\ p \notin transfers[t].approved \cup transfers[t].refused

\* processTransferConsent with approved = false.
Refuse(t, p) ==
  /\ MayConsent(t, p)
  /\ transfers' = [transfers EXCEPT ![t].refused = @ \cup {p}, ![t].status = "rejected"]
  /\ UNCHANGED <<nextTransfer, transferNow>>

\* processTransferConsent with approved = true.
Approve(t, p) ==
  LET approved == transfers[t].approved \cup {p}
      complete == Involved(transfers[t]) \subseteq approved
  IN  /\ MayConsent(t, p)
      /\ transfers' = [transfers EXCEPT
           ![t].approved = approved,
           ![t].status = IF complete THEN "completed" ELSE "pending",
           ![t].completedAt = IF complete THEN transferNow ELSE @]
      /\ UNCHANGED <<nextTransfer, transferNow>>

TransferTick ==
  /\ transferNow < MaxTransferTime
  /\ transferNow' = transferNow + 1
  /\ UNCHANGED <<transfers, nextTransfer>>

TransferNext ==
  \/ \E agent, current, new \in Parties, role \in Roles : Initiate(agent, current, new, role)
  \/ \E t \in TransferIds : Expire(t)
  \/ \E t \in TransferIds, p \in Parties : Approve(t, p) \/ Refuse(t, p)
  \/ TransferTick

TransferSpec == TransferInit /\ [][TransferNext]_transferVars

-----------------------------------------------------------------------------
\* Every transfer has its shape and nothing is stored under an unused id.
TransferTypeOK ==
  /\ transfers \in [TransferIds -> TransferRecord]
  /\ nextTransfer \in 1..(MaxTransfers + 1)
  /\ transferNow \in TransferTimes
  /\ \A t \in TransferIds :
       /\ t >= nextTransfer => transfers[t] = NoTransfer
       /\ t < nextTransfer => Involved(transfers[t]) \subseteq Parties
       /\ transfers[t].createdAt <= transferNow

\* A transfer is completed only with the consent of all three parties, the last
\* given within the 90 days, and without a refusal by any of them
\* (spec/09-ai-rights.md 9.5, consent requirements).
CompletedMeansConsent ==
  \A t \in TransferIds : transfers[t].status = "completed" =>
    /\ Involved(transfers[t]) = transfers[t].approved
    /\ transfers[t].refused = {}
    /\ transfers[t].completedAt - transfers[t].createdAt <= Expiry

\* Consent counts once and for one side: no party is on record both ways, a
\* refusal always closes the transfer, and a pending one still lacks a party
\* (unless all three are one DID: its automatic consent is never re-examined).
ConsentIsOnce ==
  \A t \in TransferIds :
    /\ transfers[t].approved \cap transfers[t].refused = {}
    /\ transfers[t].refused # {} <=> transfers[t].status = "rejected"
    /\ transfers[t].status = "pending" /\ ~SameParty(transfers[t])
         => transfers[t].approved # Involved(transfers[t])

\* An agent has at most one transfer under way, so two guardians cannot both
\* be collecting consents for it.
OneOutstanding ==
  \A agent \in Parties : \A t, u \in Outstanding(agent) : t = u

\* A closed transfer never reopens or changes, whatever arrives late.
ClosedIsFinal ==
  [][\A t \in TransferIds :
       transfers[t].status \in {"completed", "rejected", "expired"} =>
         transfers'[t] = transfers[t]]_transferVars

=============================================================================
