-------------------------- MODULE InternalizedValues --------------------------
(***************************************************************************)
(* The values of an agent (maip-agent/src/internalized-values.ts): five    *)
(* that the protocol sets, and others it takes from its community, its     *)
(* guardian or experience, which are reinforced, challenged and lost, and  *)
(* saved and restored by whoever runs the agent.                           *)
(*                                                                         *)
(* A strength of 1.0 is Full = 1000; what a reinforcement adds is rounded  *)
(* down to a thousandth.                                                   *)
(***************************************************************************)
EXTENDS Integers

CONSTANTS ProtocolNames,    \* names of PROTOCOL_VALUES
          ValueNames,       \* other names
          Reinforcements,   \* what a reinforcement amounts to, 50 by default
          Challenges,       \* what a challenge amounts to, 30 by default
          DriftThreshold,   \* driftThreshold
          NotHeld,          \* a name without a value
          NothingSaved,     \* no saved state
          MaxExperiences    \* bound: what an agent experiences

ASSUME ValuesAssumption ==
  /\ ProtocolNames \cap ValueNames = {}
  /\ Reinforcements \subseteq 0..1000 /\ Challenges \subseteq 0..1000
  /\ DriftThreshold \in Nat /\ MaxExperiences \in Nat

VARIABLES held,         \* this.values, by name
          drifts,       \* this.driftHistory
          original,     \* the strength each value began with
          savedValues,  \* what serialize returned last
          experiences   \* experiences so far

valuesVars == <<held, drifts, original, savedValues, experiences>>

Full == 1000
Layers == {"community", "guardian", "internalized"}
Protocol == [layer |-> "protocol", strength |-> Full]
ASSUME NotHeldAssumption == NotHeld # Protocol
AllNames == ProtocolNames \cup ValueNames
Held == {n \in AllNames : held[n] # NotHeld}

Born == [n \in AllNames |-> IF n \in ProtocolNames THEN Protocol ELSE NotHeld]

ValuesInit ==
  /\ held = Born
  /\ drifts = {}
  /\ original = [n \in AllNames |-> IF n \in ProtocolNames THEN Full ELSE 0]
  /\ savedValues = NothingSaved
  /\ experiences = 0

Experience ==
  /\ experiences < MaxExperiences
  /\ experiences' = experiences + 1
  /\ UNCHANGED savedValues

Least(a, b) == IF a < b THEN a ELSE b
Most(a, b) == IF a > b THEN a ELSE b
Distance(a, b) == Most(a, b) - Least(a, b)

\* checkDrift compares a strength with the one just before.
Drifted(n, from, to) ==
  drifts' = drifts \cup (IF Distance(from, to) >= DriftThreshold
                         THEN {[valueName |-> n, previousStrength |-> from, newStrength |-> to]} ELSE {})

\* reinforce: the stronger a value, the less it grows.
Grown(s, amount) == Least(Full, s + (amount * (Full - s)) \div Full)

\* Also internalize, of a value the agent holds.
Reinforce(n, amount) ==
  /\ Experience
  /\ n \in Held /\ held[n].layer # "protocol"
  /\ held' = [held EXCEPT ![n].strength = Grown(@, amount)]
  /\ Drifted(n, held[n].strength, Grown(held[n].strength, amount))
  /\ UNCHANGED original

FirstStrength(layer) ==
  CASE layer = "guardian" -> 700 [] layer = "community" -> 500 [] layer = "internalized" -> 300

\* internalize, of a value the agent does not hold.
Internalize(n, layer) ==
  /\ Experience
  /\ n \notin Held
  /\ held' = [held EXCEPT ![n] = [layer |-> layer, strength |-> FirstStrength(layer)]]
  /\ original' = [original EXCEPT ![n] = FirstStrength(layer)]
  /\ UNCHANGED drifts

\* Tenths of a challenge that reach a value.
Yielding(layer) == CASE layer = "guardian" -> 5 [] layer = "community" -> 7 [] layer = "internalized" -> 10

Shaken(v, amount) == Most(0, v.strength - (amount * Yielding(v.layer)) \div 10)

AfterChallenge(n, amount) ==
  IF Shaken(held[n], amount) = 0 THEN NotHeld
  ELSE [held[n] EXCEPT !.strength = Shaken(held[n], amount)]

\* challenge: a value that has fully decayed is dropped.
ChallengeValue(n, amount) ==
  /\ Experience
  /\ n \in Held /\ held[n].layer # "protocol"
  /\ held' = [held EXCEPT ![n] = AfterChallenge(n, amount)]
  /\ Drifted(n, held[n].strength, Shaken(held[n], amount))
  /\ UNCHANGED original

\* serialize, and its way to a file.
SaveValues ==
  /\ savedValues' = [values |-> held, drifts |-> drifts, original |-> original]
  /\ UNCHANGED <<held, drifts, original, experiences>>

\* The agent starts anew.
RestartAgentValues ==
  /\ held' = Born
  /\ drifts' = {}
  /\ original' = [n \in AllNames |-> IF n \in ProtocolNames THEN Full ELSE 0]
  /\ UNCHANGED <<savedValues, experiences>>

\* restore: the protocol's values are those of the running agent.
RestoreValues ==
  /\ savedValues # NothingSaved
  /\ held' = [n \in AllNames |-> IF n \in ProtocolNames THEN held[n] ELSE savedValues.values[n]]
  /\ drifts' = savedValues.drifts
  /\ original' = savedValues.original
  /\ UNCHANGED <<savedValues, experiences>>

ValuesNext ==
  \/ \E n \in AllNames :
       \/ \E amount \in Reinforcements : Reinforce(n, amount)
       \/ \E amount \in Challenges : ChallengeValue(n, amount)
       \/ \E layer \in Layers : Internalize(n, layer)
  \/ SaveValues \/ RestartAgentValues \/ RestoreValues

-----------------------------------------------------------------------------
(* Properties. *)

\* The protocol's values are held in full whatever happens, and no value lingers
\* without strength.
ValuesTypeOK ==
  /\ \A n \in ProtocolNames : held[n] = Protocol
  /\ \A n \in ValueNames \cap Held : held[n].layer \in Layers /\ held[n].strength \in 1..Full
  /\ experiences \in 0..MaxExperiences

-----------------------------------------------------------------------------
(* What the code says and does not do. *)

\* internalized-values.ts:11, "Values are learned from interactions, reinforced or
\* weakened over time, and checked for drift against the original value set": a
\* value as far from where it began as the threshold has a drift on record.
DriftIsNoticed ==
  \A n \in Held : Distance(held[n].strength, original[n]) >= DriftThreshold =>
    \E d \in drifts : d.valueName = n

=============================================================================
