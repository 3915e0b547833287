-------------------------------- MODULE Forks ---------------------------------
(***************************************************************************)
(* Forks of a node's identity (maip-node/src/handlers/fork-core.ts).  A    *)
(* fork makes a key pair for a child, notes its lineage in memory and      *)
(* stores a transfer that is completed from the start, among the guardian  *)
(* transfers of module GuardianTransfer, under an id of its own: "fork-"   *)
(* and the millisecond.  Two forks within one millisecond share the id,    *)
(* and the record of the second replaces that of the first.                *)
(*                                                                         *)
(* What a fork inherits is counted for the response and copied nowhere.    *)
(***************************************************************************)
EXTENDS GuardianTransfer, FiniteSets

CONSTANTS MaxForks,          \* bound: forks ever made
          MaxForkTime,       \* bound: the clock, in milliseconds
          MaxForkRestarts    \* bound: restarts of the node

ASSUME ForksAssumption ==
  MaxForks \in Nat /\ MaxForkTime \in Nat \ {0} /\ MaxForkRestarts \in Nat

VARIABLES children,      \* how many key pairs were made: a child is its number
          bornAt,        \* the millisecond of each
          lineage,       \* forkLineages of this node, in memory
          forkTransfers, \* the child in the record of each millisecond, 0 for none
          forkNow,       \* Date.now()
          forkRestarts

forkVars == <<children, bornAt, lineage, forkTransfers, forkNow, forkRestarts>>

Children == 1..MaxForks
Instants == 1..MaxForkTime

ForksInit ==
  /\ children = 0
  /\ bornAt = [c \in Children |-> 0]
  /\ lineage = {}
  /\ forkTransfers = [t \in Instants |-> 0]
  /\ forkNow = 1 /\ forkRestarts = 0

\* The special "fork" transfer, the child as its agent, this node as old and new
\* guardian and as the one who consents (JsonStore.add replaces).
RecordFork(c) == forkTransfers' = [forkTransfers EXCEPT ![forkNow] = c]

\* processFork.
Fork ==
  /\ children < MaxForks
  /\ children' = children + 1
  /\ bornAt' = [bornAt EXCEPT ![children + 1] = forkNow]
  /\ lineage' = lineage \cup {children + 1}
  /\ RecordFork(children + 1)
  /\ UNCHANGED <<forkNow, forkRestarts>>

\* Restart: the lineages are gone, the records are not.
RestartForks ==
  /\ forkRestarts < MaxForkRestarts
  /\ forkRestarts' = forkRestarts + 1
  /\ lineage' = {}
  /\ UNCHANGED <<children, bornAt, forkTransfers, forkNow>>

ForkTick ==
  /\ forkNow < MaxForkTime
  /\ forkNow' = forkNow + 1
  /\ UNCHANGED <<children, bornAt, lineage, forkTransfers, forkRestarts>>

ForksNext == Fork \/ RestartForks \/ ForkTick

-----------------------------------------------------------------------------
(* Properties. *)

ForksTypeOK ==
  /\ children \in 0..MaxForks
  /\ bornAt \in [Children -> 0..MaxForkTime]
  /\ lineage \subseteq 1..children
  /\ forkTransfers \in [Instants -> 0..children]
  /\ forkNow \in Instants
  /\ forkRestarts \in 0..MaxForkRestarts

\* Whatever the stored transfers call completed is explained: a transfer by three
\* timely consents, a record of a fork by a child made in that millisecond; and a
\* child the node remembers has its record, unless a younger one of the same
\* millisecond has taken its place.
CompletionsExplained ==
  /\ CompletedMeansConsent
  /\ \A t \in Instants : forkTransfers[t] # 0 => bornAt[forkTransfers[t]] = t
  /\ \A c \in lineage : forkTransfers[bornAt[c]] >= c

=============================================================================
