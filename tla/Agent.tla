-------------------------------- MODULE Agent ---------------------------------
(***************************************************************************)
(* The agent beside its node: the bridge to the network, the scheduler     *)
(* with the reflection it drives, the content pipeline, the persona it     *)
(* shares, the guardian's authority over it, and its values.               *)
(*                                                                         *)
(* Each keeps its state to itself: the scheduler calls the pipeline for    *)
(* nothing but an event, the persona reaches the node as a copy, and no    *)
(* other part asks the guardian's handlers.  A behaviour exercises one of  *)
(* them.                                                                   *)
(***************************************************************************)
EXTENDS Bridge, Scheduler, ContentPipeline, PersonaSharing, Guardianship,
        InternalizedValues

VARIABLE part   \* the part of the agent a behaviour exercises

agentVars == <<part, bridgeVars, schedulerVars, pipelineVars, personaVars, guardianshipVars,
               valuesVars>>

AgentInit ==
  /\ part \in {"bridge", "scheduler", "pipeline", "persona", "guardianship", "values"}
  /\ BridgeInit /\ SchedulerInit /\ PipelineInit /\ PersonaInit /\ GuardianshipInit
  /\ ValuesInit
  /\ part # "persona" =>
       memory = [category |-> "core", privacy |-> "unset", prefix |-> "user"] /\ listed = "neither"

Within(name) == part = name /\ UNCHANGED part

InBridge ==
  /\ Within("bridge")
  /\ UNCHANGED <<schedulerVars, pipelineVars, personaVars, guardianshipVars, valuesVars>>
InScheduler ==
  /\ Within("scheduler")
  /\ UNCHANGED <<bridgeVars, pipelineVars, personaVars, guardianshipVars, valuesVars>>
InPipeline ==
  /\ Within("pipeline")
  /\ UNCHANGED <<bridgeVars, schedulerVars, personaVars, guardianshipVars, valuesVars>>
InPersona ==
  /\ Within("persona")
  /\ UNCHANGED <<bridgeVars, schedulerVars, pipelineVars, guardianshipVars, valuesVars>>
InGuardianship ==
  /\ Within("guardianship")
  /\ UNCHANGED <<bridgeVars, schedulerVars, pipelineVars, personaVars, valuesVars>>
InValues ==
  /\ Within("values")
  /\ UNCHANGED <<bridgeVars, schedulerVars, pipelineVars, personaVars, guardianshipVars>>

AgentNext ==
  \/ BridgeNext /\ InBridge
  \/ SchedulerNext /\ InScheduler
  \/ PipelineNext /\ InPipeline
  \/ PersonaNext /\ InPersona
  \/ GuardianshipNext /\ InGuardianship
  \/ ValuesNext /\ InValues

Spec == AgentInit /\ [][AgentNext]_agentVars

\* The state of each part keeps its shape.
TypeOK ==
  /\ BridgeTypeOK /\ SchedulerTypeOK /\ PipelineTypeOK
  /\ PersonaTypeOK /\ GuardianshipTypeOK /\ ValuesTypeOK

=============================================================================
