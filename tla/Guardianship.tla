---------------------------- MODULE Guardianship -----------------------------
(***************************************************************************)
(* The guardian's commands to an agent and the agent's autonomy level      *)
(* (maip-node/src/handlers/guardian-authority-core.ts, autonomy-core.ts,   *)
(* and the identity document of init.ts).                                  *)
(*                                                                         *)
(* Restrictions and the history of commands are kept in memory only.  A    *)
(* transition changes the level in the identity document in memory; it     *)
(* reaches the file, and a signature, when somebody updates the document   *)
(* for another reason.  A command may carry an expiresAt (line 47), which  *)
(* nothing reads: a restriction ends when it is lifted or by a restart,    *)
(* whatever its command says, so commands have no expiry here.             *)
(*                                                                         *)
(* Abstracted: the metrics of a transition are one input, met or not; a    *)
(* command from anybody but the guardian changes nothing; reclassification *)
(* is recorded and does nothing else.                                      *)
(***************************************************************************)
EXTENDS Naturals, Sequences

CONSTANTS Targets,           \* peers, topics and actions
          FirstLevel,        \* options.autonomyLevel of initNode
          MaxCommands,       \* bound: commands per run of the process
          MaxAgentRestarts   \* bound: restarts

ASSUME GuardianshipAssumption ==
  FirstLevel \in 0..3 /\ MaxCommands \in Nat /\ MaxAgentRestarts \in Nat

VARIABLES level,          \* ctx.identity.autonomyLevel
          savedLevel,     \* the same in the identity file
          signed,         \* whether ctx.identity.signature is that of the document
          restricted,     \* blockedPeers, blockedTopics and vetoedActions
          lockdown,
          commands,       \* commandHistory
          agentRestarts

guardianshipVars == <<level, savedLevel, signed, restricted, lockdown, commands, agentRestarts>>

Kinds == {"restrict_peer", "restrict_topic", "veto_action"}
NoRestriction == [k \in Kinds |-> {}]
Command == [type: Kinds \cup {"lift_restriction"}, target: Targets, lockdown: BOOLEAN, accepted: BOOLEAN]
             \cup [type: {"emergency_lockdown", "reclassify_memory"}, accepted: BOOLEAN]

GuardianshipInit ==
  /\ level = FirstLevel /\ savedLevel = FirstLevel /\ signed = TRUE
  /\ restricted = NoRestriction
  /\ lockdown = FALSE
  /\ commands = <<>>
  /\ agentRestarts = 0

\* Mutation: an advisory guardian may still lift and restrict.
RefusedFromTwo(type) == level >= 2 /\ type \in {"restrict_peer", "restrict_topic"}

\* The commands an agent of this level does not obey.
Refused(type) ==
  \/ level >= 3 /\ type # "emergency_lockdown"
  \/ level >= 2 /\ type \in {"restrict_peer", "restrict_topic"}

Record(command) ==
  /\ Len(commands) < MaxCommands
  /\ commands' = Append(commands, command)
  /\ UNCHANGED <<level, savedLevel, signed, agentRestarts>>

Impose(type, t) ==
  /\ ~Refused(type)
  /\ restricted' = [restricted EXCEPT ![type] = @ \cup {t}]
  /\ Record([type |-> type, target |-> t, lockdown |-> FALSE, accepted |-> TRUE])
  /\ UNCHANGED lockdown

\* Mutation: the vetoes stay.
LiftsBlocks(t) == [restricted EXCEPT !["restrict_peer"] = @ \ {t}, !["restrict_topic"] = @ \ {t}]

\* A target is lifted from all three lists.
Lifted(t) == [k \in Kinds |-> restricted[k] \ {t}]

Lift(t, liftLockdown) ==
  /\ ~Refused("lift_restriction")
  /\ restricted' = Lifted(t)
  /\ lockdown' = (lockdown /\ ~liftLockdown)
  /\ Record([type |-> "lift_restriction", target |-> t, lockdown |-> liftLockdown, accepted |-> TRUE])

Lockdown ==
  /\ lockdown' = TRUE
  /\ Record([type |-> "emergency_lockdown", accepted |-> TRUE])
  /\ UNCHANGED restricted

Reclassify ==
  /\ Record([type |-> "reclassify_memory", accepted |-> ~Refused("reclassify_memory")])
  /\ UNCHANGED <<restricted, lockdown>>

\* A refused command is recorded as refused.
Refuse(type, t, liftLockdown) ==
  /\ Refused(type)
  /\ Record([type |-> type, target |-> t, lockdown |-> liftLockdown, accepted |-> FALSE])
  /\ UNCHANGED <<restricted, lockdown>>

-----------------------------------------------------------------------------
RequiresApproval == level \in {0, 1}

\* processAutonomyTransition: approval stands in for the criteria where it is
\* required, and the criteria for approval where it is not.
Transition(approval, met) ==
  /\ level < 3
  /\ IF RequiresApproval THEN approval ELSE met
  /\ level' = level + 1
  /\ signed' = FALSE
  /\ UNCHANGED <<savedLevel, restricted, lockdown, commands, agentRestarts>>

\* updateIdentity signs and saves the whole document.
UpdateIdentity ==
  /\ savedLevel' = level
  /\ signed' = TRUE
  /\ UNCHANGED <<level, restricted, lockdown, commands, agentRestarts>>

\* initNode loads the document and gives it a new instanceNonce.
RestartAgent ==
  /\ agentRestarts < MaxAgentRestarts
  /\ agentRestarts' = agentRestarts + 1
  /\ level' = savedLevel
  /\ signed' = FALSE
  /\ restricted' = NoRestriction
  /\ lockdown' = FALSE
  /\ commands' = <<>>
  /\ UNCHANGED savedLevel

GuardianshipNext ==
  \/ \E k \in Kinds, t \in Targets : Impose(k, t)
  \/ \E t \in Targets, b \in BOOLEAN : Lift(t, b)
  \/ Lockdown \/ Reclassify
  \/ \E k \in Kinds \cup {"lift_restriction"}, t \in Targets, b \in BOOLEAN : Refuse(k, t, b)
  \/ \E approval \in BOOLEAN, met \in BOOLEAN : Transition(approval, met)
  \/ UpdateIdentity \/ RestartAgent

-----------------------------------------------------------------------------
GuardianshipTypeOK ==
  /\ level \in 0..3 /\ savedLevel \in 0..3 /\ signed \in BOOLEAN
  /\ restricted \in [Kinds -> SUBSET Targets]
  /\ lockdown \in BOOLEAN
  /\ commands \in Seq(Command)
  /\ agentRestarts \in 0..MaxAgentRestarts

\* Whether command i of the history is the last that matters for "affects".
LastOf(affects, i) ==
  i \in affects /\ \A j \in affects : j <= i
Accepted == {i \in DOMAIN commands : commands[i].accepted}
Lifts == {i \in Accepted : commands[i].type = "lift_restriction"}
Restricts(k, t) == {i \in Accepted : commands[i].type = k /\ commands[i].target = t}
LiftsOf(t) == {i \in Lifts : commands[i].target = t}
Lockdowns == {i \in Accepted : commands[i].type = "emergency_lockdown"}
LockdownLifts == {i \in Lifts : commands[i].lockdown}

\* What restricts an agent is what the history since its last start says: the last
\* command obeyed on a target restricts it, however the level rose in between.  It
\* does so until it is lifted and does not expire, also where the command named an
\* expiresAt ("null = permanent", guardian-authority-core.ts:46-47), which the code
\* stores and never reads (getActiveRestrictions beside getCommandHistory).
RestrictionsExplained ==
  /\ \A k \in Kinds, t \in Targets :
       t \in restricted[k] <=> \E i \in Restricts(k, t) : LastOf(Restricts(k, t) \cup LiftsOf(t), i)
  /\ lockdown <=> \E i \in Lockdowns : LastOf(Lockdowns \cup LockdownLifts, i)

\* An independent agent does only what it is told in an emergency: whatever else
\* changes its restrictions was obeyed at a lower level, or is a restart
\* (guardian-authority-core.ts, the boundaries by level).
IndependentsObeyNoOne ==
  [][level = 3 /\ (restricted' # restricted \/ (lockdown /\ ~lockdown')) =>
       agentRestarts' # agentRestarts]_guardianshipVars

-----------------------------------------------------------------------------
(* What the code says and does not do. *)

\* identity-core.ts, "Returns this node's signed identity document": what it
\* returns carries the signature of what it returns.
IdentitySigned == signed

=============================================================================
