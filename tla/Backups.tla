------------------------------- MODULE Backups -------------------------------
(***************************************************************************)
(* Wills and backup shards that a node keeps for agents                    *)
(* (maip-node/src/handlers/ai-will-core.ts), in memory.                    *)
(*                                                                         *)
(* Both are kept per agent, a shard also per type, in one version.  What   *)
(* agents send may be delayed, repeated and reordered on its way.  Nothing *)
(* in the node calls pruneExpiredBackups: whoever embeds it does.          *)
(***************************************************************************)
EXTENDS Naturals, FiniteSets

CONSTANTS Items,           \* "will", and the types of shards, of one agent
          MaxVersion,      \* bound: versions
          Retention,       \* 90 days in the code
          MaxBackupTime,   \* bound: the clock
          MaxBackupCrashes \* bound: restarts of the node

ASSUME BackupsAssumption ==
  MaxVersion \in Nat /\ Retention \in Nat /\ MaxBackupTime \in Nat /\ MaxBackupCrashes \in Nat

VARIABLES sentVersion,   \* the newest version the agent has sent
          held,          \* the version the node holds, 0 for none
          keptUntil,     \* expiresAt
          seen,          \* the versions that arrived since the item was last removed
          backupNow, backupCrashes

backupVars == <<sentVersion, held, keptUntil, seen, backupNow, backupCrashes>>

BackupsInit ==
  /\ sentVersion = [i \in Items |-> 0]
  /\ held = [i \in Items |-> 0] /\ keptUntil = [i \in Items |-> 0]
  /\ seen = [i \in Items |-> {}]
  /\ backupNow = 0 /\ backupCrashes = 0

\* The agent sends a new version.
SendVersion(i) ==
  /\ sentVersion[i] < MaxVersion
  /\ sentVersion' = [sentVersion EXCEPT ![i] = @ + 1]
  /\ UNCHANGED <<held, keptUntil, seen, backupNow, backupCrashes>>

\* Mutation: what arrives replaces what is held.
NewerAlways(i, v) == TRUE

Newer(i, v) == held[i] = 0 \/ v > held[i]

\* upsertWill, receiveBackupShard: a version sent earlier arrives; it is kept if
\* it is newer than what is held.
ReceiveVersion(i, v) ==
  /\ v \in 1..sentVersion[i]
  /\ seen' = [seen EXCEPT ![i] = @ \cup {v}]
  /\ IF Newer(i, v)
     THEN /\ held' = [held EXCEPT ![i] = v]
          /\ keptUntil' = [keptUntil EXCEPT ![i] = backupNow + Retention]
     ELSE UNCHANGED <<held, keptUntil>>
  /\ UNCHANGED <<sentVersion, backupNow, backupCrashes>>

Removed(items) ==
  /\ held' = [i \in Items |-> IF i \in items THEN 0 ELSE held[i]]
  /\ keptUntil' = [i \in Items |-> IF i \in items THEN 0 ELSE keptUntil[i]]
  /\ seen' = [i \in Items |-> IF i \in items THEN {} ELSE seen[i]]

\* deleteWill.
DeleteWill ==
  /\ held["will"] # 0
  /\ Removed({"will"})
  /\ UNCHANGED <<sentVersion, backupNow, backupCrashes>>

\* pruneExpiredBackups: a shard is kept while expiresAt > now.
Prune ==
  /\ Removed({i \in Items \ {"will"} : held[i] # 0 /\ keptUntil[i] <= backupNow})
  /\ UNCHANGED <<sentVersion, backupNow, backupCrashes>>

RestartNode ==
  /\ backupCrashes < MaxBackupCrashes
  /\ backupCrashes' = backupCrashes + 1
  /\ Removed(Items)
  /\ UNCHANGED <<sentVersion, backupNow>>

BackupTick ==
  /\ backupNow < MaxBackupTime
  /\ backupNow' = backupNow + 1
  /\ UNCHANGED <<sentVersion, held, keptUntil, seen, backupCrashes>>

BackupsNext ==
  \/ \E i \in Items : SendVersion(i)
  \/ \E i \in Items, v \in 1..MaxVersion : ReceiveVersion(i, v)
  \/ DeleteWill \/ Prune \/ RestartNode \/ BackupTick

-----------------------------------------------------------------------------
(* Properties. *)

BackupsTypeOK ==
  /\ sentVersion \in [Items -> 0..MaxVersion]
  /\ \A i \in Items : held[i] \in 0..sentVersion[i] /\ seen[i] \subseteq 1..sentVersion[i]
  /\ keptUntil \in [Items -> Nat]
  /\ backupNow \in 0..MaxBackupTime /\ backupCrashes \in 0..MaxBackupCrashes

\* What the node holds is the newest of the versions that arrived since it last
\* held nothing, in whatever order they arrived and however often (the version
\* checks of upsertWill and receiveBackupShard): a late copy rolls nothing back.
NewestIsHeld ==
  \A i \in Items :
    /\ held[i] = 0 <=> seen[i] = {}
    /\ held[i] # 0 => held[i] \in seen[i] /\ \A v \in seen[i] : v <= held[i]

=============================================================================
