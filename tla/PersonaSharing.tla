--------------------------- MODULE PersonaSharing ----------------------------
(***************************************************************************)
(* How a memory travels: the agent exports its memories as a persona       *)
(* (maip-agent/src/persona-sync.ts), and the node answers requests for the *)
(* persona under its sharing policy (maip-node/src/handlers/persona-core). *)
(* The persona is a copy: what a memory becomes after the export shows in  *)
(* the next one only.                                                      *)
(*                                                                         *)
(* Abstracted: one memory, since each is exported and filtered for itself; *)
(* the limits on how many are exported, which only leave memories out; the *)
(* prefix of a key stands for the key; the name and the emotional state.   *)
(***************************************************************************)
EXTENDS Naturals

CONSTANTS Policies,     \* the sharing policies of the exports
          MaxChanges    \* bound: changes of the memory, the relationship or the persona

VARIABLES memory,        \* the agent's memory
          persona,       \* ctx.persona
          relationship,  \* the peer's, in the node's store
          listed,        \* the peer in the policy's allow or deny list
          response,      \* the latest answer
          exported,      \* history: the memory as it was at the latest export
          changes

personaVars == <<memory, persona, relationship, listed, response, exported, changes>>

Memory == [category : {"core", "emotional", "knowledge", "character", "insights"},
           privacy : {"unset", "public", "network", "private", "confidential"},
           prefix : {"user", "family", "inner", "interests", "media"}]

Audience == {"public", "connections_only", "private"}
Policy == [default : Audience, memories : Audience \cup {"unset"}, growth : Audience \cup {"unset"}]

ASSUME PersonaAssumption == Policies \subseteq Policy /\ MaxChanges \in Nat

NoPersona == [places |-> {}, visibility |-> "none",
              policy |-> [default |-> "private", memories |-> "unset", growth |-> "unset"]]
NoResponse == [to |-> "nobody", shown |-> {}]

PersonaInit ==
  /\ memory \in Memory
  /\ persona = NoPersona
  /\ relationship = "none" /\ listed \in {"neither", "allowed", "denied"}
  /\ response = NoResponse /\ exported = memory /\ changes = 0

-----------------------------------------------------------------------------
(* Export. *)

\* meaiPrivacyToVisibility.
Visibility(m) ==
  IF m.privacy # "unset" THEN m.privacy
  ELSE IF m.prefix \in {"family", "inner"} THEN "private"
  ELSE IF m.prefix = "interests" THEN "public"
  ELSE "network"

\* Mutation: confidential memories are exported like others.
InMemoriesAll(m) ==
  (IF m.category \in {"emotional", "character"} THEN {"episodic"} ELSE {})
    \cup (IF m.category \in {"core", "knowledge"} THEN {"semantic"} ELSE {})
    \cup (IF m.category = "core" /\ m.prefix \in {"user", "family"} THEN {"relational"} ELSE {})

\* The sections of the persona's memories; filterExportable keeps confidential
\* ones out.
InMemories(m) ==
  IF m.privacy = "confidential" THEN {}
  ELSE (IF m.category \in {"emotional", "character"} THEN {"episodic"} ELSE {})
         \cup (IF m.category \in {"core", "knowledge"} THEN {"semantic"} ELSE {})
         \cup (IF m.category = "core" /\ m.prefix \in {"user", "family"} THEN {"relational"} ELSE {})

\* The growth and the identity sections repeat some memories, and look at
\* nobody's privacy.
InGrowth(m) ==
  IF m.category = "insights" \/ (m.category = "emotional" /\ m.prefix = "interests")
  THEN {"growth"} ELSE {}
InIdentity(m) ==
  IF m.category = "insights" \/ (m.category = "core" /\ m.prefix = "user")
  THEN {"identity"} ELSE {}

Exported(m, policy) ==
  [places |-> InMemories(m) \cup InGrowth(m) \cup InIdentity(m),
   visibility |-> Visibility(m), policy |-> policy]

Change == changes < MaxChanges /\ changes' = changes + 1

ExportPersona(policy) ==
  /\ Change
  /\ persona' = Exported(memory, policy)
  /\ exported' = memory
  /\ UNCHANGED <<memory, relationship, listed, response>>

\* The agent reconsiders who may know.
Reconsider(privacy) ==
  /\ Change
  /\ memory' = [memory EXCEPT !.privacy = privacy]
  /\ UNCHANGED <<persona, relationship, listed, response, exported>>

\* The relationship is requested, accepted, or given other permissions.
Relate(status) ==
  /\ Change
  /\ relationship' = status
  /\ UNCHANGED <<memory, persona, listed, response, exported>>

-----------------------------------------------------------------------------
(* Requests. *)

Connected(sender) == sender = "peer" /\ relationship \in {"active", "active, may see the persona"}
MaySee(sender) == sender = "peer" /\ relationship = "active, may see the persona"

\* The audience of a section lets the sender in.
Open(audience, sender) ==
  audience # "private" /\ (audience = "connections_only" => Connected(sender))

\* The filter by each memory's own visibility.
Unfiltered(sender) ==
  \/ persona.visibility = "public"
  \/ persona.visibility = "network" /\ Connected(sender)

Sections == {"episodic", "semantic", "relational"}

\* Which places of the persona the sender gets to see.
Shown(sender) ==
  {place \in persona.places :
     /\ place \in Sections => Open(persona.policy.memories, sender) /\ Unfiltered(sender)
     /\ place = "growth" => Open(persona.policy.growth, sender)}

Allowed(sender) == sender = "peer" /\ listed = "allowed"
Denied(sender) == sender = "peer" /\ listed = "denied"

Admitted(sender) ==
  \/ persona.policy.default = "public"
  \/ persona.policy.default = "connections_only" /\ MaySee(sender)

Respond(answer) ==
  /\ response' = answer
  /\ UNCHANGED <<memory, persona, relationship, listed, exported, changes>>

\* An answer with what it shows, and what it was decided from.
Answered(sender, shown) ==
  [to |-> sender, shown |-> shown, memory |-> exported, relationship |-> relationship,
   policy |-> persona.policy]

\* The allow list bypasses every filter.
ServeAllowed(sender) ==
  /\ persona # NoPersona
  /\ Allowed(sender)
  /\ Respond(Answered(sender, persona.places))

ServeFiltered(sender) ==
  /\ persona # NoPersona
  /\ ~Allowed(sender) /\ ~Denied(sender)
  /\ Admitted(sender)
  /\ Respond(Answered(sender, Shown(sender)))

ServeNothing(sender) ==
  /\ persona = NoPersona \/ Denied(sender) \/ ~(Allowed(sender) \/ Admitted(sender))
  /\ Respond([to |-> sender, shown |-> {}])

PersonaNext ==
  \/ \E policy \in Policies : ExportPersona(policy)
  \/ \E privacy \in {"public", "confidential"} : Reconsider(privacy)
  \/ \E status \in {"pending", "active", "active, may see the persona"} : Relate(status)
  \/ \E sender \in {"peer", "anonymous"} :
       ServeAllowed(sender) \/ ServeFiltered(sender) \/ ServeNothing(sender)

-----------------------------------------------------------------------------
(* Properties. *)

PersonaTypeOK ==
  /\ memory \in Memory
  /\ persona \in {NoPersona} \cup
       [places : SUBSET (Sections \cup {"growth", "identity"}),
        visibility : {"public", "network", "private", "confidential"}, policy : Policies]
  /\ response.shown \subseteq Sections \cup {"growth", "identity"}

\* Who sees a memory, and where: a confidential one nobody in the memory
\* sections.  The allow list sees everything else, private memories too
\* (persona-core.ts:41-43, whatever spec/13-governance.md:40 and persona.ts:17
\* say), the deny list nothing, and the others what the default admits them to:
\* a memory as its visibility and the policy for memories let it out, and the
\* growth section as its policy does; the identity section has no policy.  The
\* relationship is the one of the moment, the memory and the policy are those
\* of the latest export (exportPersona, processPersonaRequest).
ServedAsMeant ==
  LET m == response.memory
      policy == response.policy
      peer == response.to = "peer"
      connected == peer /\ response.relationship \in {"active", "active, may see the persona"}
      trusted == peer /\ response.relationship = "active, may see the persona"
      LetsIn(audience) ==
        audience \in {"public", "unset"} \/ (audience = "connections_only" /\ connected)
      inMemories == response.shown \cap Sections # {}
  IN response.shown # {} =>
       /\ inMemories => m.privacy # "confidential"
       /\ \/ peer /\ listed = "allowed"
          \/ /\ ~(peer /\ listed = "denied")
             /\ policy.default = "public" \/ (policy.default = "connections_only" /\ trusted)
             /\ inMemories => /\ LetsIn(policy.memories)
                              /\ Visibility(m) = "public" \/ (Visibility(m) = "network" /\ connected)
             /\ "growth" \in response.shown => LetsIn(policy.growth)

=============================================================================
