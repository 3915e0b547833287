------------------------------- MODULE Bridge --------------------------------
(***************************************************************************)
(* The agent's bridge to the network (maip-agent/src/adapter.ts and        *)
(* channel.ts): messages to peers under a daily cap, discovery cycles that *)
(* greet new peers, and homecoming reports to the guardian.                *)
(*                                                                         *)
(* The code between two awaits is one action, and everything else may      *)
(* happen during an await.  All of this state is in memory.                *)
(*                                                                         *)
(* Abstracted: a call during the quiet period or over the cap changes      *)
(* nothing but the day of the counter; a message is its number; an ack is  *)
(* any response with data, "rejected" ones included.  A registry lists a   *)
(* peer under the DID its endpoint answers with.                           *)
(***************************************************************************)
EXTENDS Naturals, Sequences, FiniteSets

CONSTANTS Peers,          \* the other agents
          Guardian,       \* config.guardianDid
          NoPeer,
          Cap,            \* config.dailyInteractionCap, set
          MaxGreetings,   \* config.maxGreetingsPerCycle
          Discoveries,    \* what a discovery can return: sequences of peers
          MaxMessages,    \* bound: messages in and out
          MaxAwaiting,    \* bound: messagePeer calls in flight at once
          Cycles,         \* the discovery cycles, some of them overlapping
          MaxReports,     \* bound: homecoming reports
          MaxDays,        \* bound: the calendar
          MaxRestarts     \* bound: restarts

ASSUME BridgeAssumption ==
  /\ Guardian \notin Peers /\ NoPeer \notin Peers \cup {Guardian}
  /\ Cap \in Nat \ {0} /\ MaxGreetings \in Nat
  /\ Discoveries \subseteq Seq(Peers) /\ IsFiniteSet(Cycles)
  /\ MaxMessages \in Nat /\ MaxAwaiting \in Nat /\ MaxReports \in Nat
  /\ MaxDays \in Nat /\ MaxRestarts \in Nat

VARIABLES party,             \* the other end of each message
          status,            \* what became of each message
          period,            \* reportingData.messages
          guardianMessages,
          reports,           \* the homecoming reports, delivered or not
          interactions,      \* dailyInteractionCount and lastCounterResetDay
          knownPeers,
          peerEndpoints,     \* the channel's: the peers it can reply to
          related,           \* the peers whose node has the relationship with this one
          cycles,            \* the discovery cycles under way
          onMessage,         \* who handles incoming messages
          today,
          restarts

messageVars == <<party, status, period, guardianMessages, reports>>
peerVars == <<knownPeers, peerEndpoints, related, cycles>>
bridgeVars == <<messageVars, peerVars, interactions, onMessage, today, restarts>>

Messages == 1..MaxMessages
Days == 0..MaxDays
Cycle == [state : {"idle", "discovering", "greeting"}, todo : Seq(Peers), greeted : 0..MaxGreetings]
NoCycle == [state |-> "idle", todo |-> <<>>, greeted |-> 0]

BridgeInit ==
  /\ party = [m \in Messages |-> NoPeer]
  /\ status = [m \in Messages |-> "none"]
  /\ period = {} /\ guardianMessages = {} /\ reports = <<>>
  /\ interactions = [count |-> 0, day |-> 0]
  /\ knownPeers = {} /\ peerEndpoints = {} /\ related = {}
  /\ cycles = [k \in Cycles |-> NoCycle]
  /\ onMessage = "bridge"
  /\ today = 0 /\ restarts = 0

-----------------------------------------------------------------------------
(* The daily cap. *)

\* isWithinInteractionLimits starts a new day's count, and so does
\* incrementInteractionCount.
Checked == IF interactions.day = today THEN interactions ELSE [count |-> 0, day |-> today]
WithinLimits == Checked.count < Cap
Incremented == [count |-> Checked.count + 1, day |-> today]

-----------------------------------------------------------------------------
(* Messages. *)

\* isGuardianMessage: from or to the guardian.
IsGuardianMessage(p) == p = Guardian

Track(m, p) ==
  IF IsGuardianMessage(p)
  THEN guardianMessages' = guardianMessages \cup {m} /\ UNCHANGED period
  ELSE period' = period \cup {m} /\ UNCHANGED guardianMessages

Unused(m) == status[m] = "none" /\ \A k \in Messages : k < m => status[k] # "none"
Awaiting == {m \in Messages : status[m] = "awaiting"}

\* Mutation: the cap is not looked at.
MessagePeerUncapped(m, p) ==
  /\ Unused(m)
  /\ Cardinality(Awaiting) < MaxAwaiting
  /\ interactions' = IF p = Guardian THEN interactions ELSE Checked
  /\ party' = [party EXCEPT ![m] = p]
  /\ status' = [status EXCEPT ![m] = "awaiting"]
  /\ UNCHANGED <<period, guardianMessages, reports, peerVars, onMessage, today, restarts>>

\* messagePeer, up to its await.
MessagePeer(m, p) ==
  /\ Unused(m)
  /\ Cardinality(Awaiting) < MaxAwaiting
  /\ p # Guardian => WithinLimits
  /\ interactions' = IF p = Guardian THEN interactions ELSE Checked
  /\ party' = [party EXCEPT ![m] = p]
  /\ status' = [status EXCEPT ![m] = "awaiting"]
  /\ UNCHANGED <<period, guardianMessages, reports, peerVars, onMessage, today, restarts>>

\* ... and after it.
MessageAcked(m) ==
  /\ status[m] = "awaiting"
  /\ status' = [status EXCEPT ![m] = "exchanged"]
  /\ Track(m, party[m])
  /\ interactions' = IF IsGuardianMessage(party[m]) THEN interactions ELSE Incremented
  /\ UNCHANGED <<party, reports, peerVars, onMessage, today, restarts>>

MessageFailed(m) ==
  /\ status[m] = "awaiting"
  /\ status' = [status EXCEPT ![m] = "failed"]
  /\ UNCHANGED <<party, period, guardianMessages, reports, peerVars, interactions, onMessage,
                 today, restarts>>

\* ctx.onMessage, as start() sets it.
Incoming(m, p) ==
  /\ Unused(m)
  /\ onMessage = "bridge"
  /\ party' = [party EXCEPT ![m] = p]
  /\ status' = [status EXCEPT ![m] = "exchanged"]
  /\ Track(m, p)
  /\ UNCHANGED <<reports, peerVars, interactions, onMessage, today, restarts>>

\* channel.start() puts a handler in its place that tracks nothing, and
\* channel.stop() none.
ChannelStart == onMessage' = "channel" /\ UNCHANGED <<messageVars, peerVars, interactions, today, restarts>>
ChannelStop == onMessage' = "none" /\ UNCHANGED <<messageVars, peerVars, interactions, today, restarts>>

-----------------------------------------------------------------------------
(* Homecoming reports. *)

\* The report and the reset of the period are one step, before the delivery.
GenerateReport ==
  /\ Len(reports) < MaxReports
  /\ reports' = Append(reports, [messages |-> period, state |-> "sending"])
  /\ period' = {}
  /\ UNCHANGED <<party, status, guardianMessages, peerVars, interactions, onMessage, today,
                 restarts>>

\* Mutation: the period is reset when the report was delivered.
DeliverReportResets(i, acked) ==
  /\ i \in DOMAIN reports
  /\ reports[i].state = "sending"
  /\ reports' = [reports EXCEPT ![i].state = IF acked THEN "delivered" ELSE "undelivered"]
  /\ period' = {}
  /\ UNCHANGED <<party, status, guardianMessages, peerVars, interactions, onMessage, today,
                 restarts>>

\* A report that is not acknowledged is not sent again.
DeliverReport(i, acked) ==
  /\ i \in DOMAIN reports
  /\ reports[i].state = "sending"
  /\ reports' = [reports EXCEPT ![i].state = IF acked THEN "delivered" ELSE "undelivered"]
  /\ UNCHANGED <<party, status, period, guardianMessages, peerVars, interactions, onMessage,
                 today, restarts>>

-----------------------------------------------------------------------------
(* Discovery cycles. *)

\* What connectToPeer comes to: the peer's node accepts the first request, and
\* may be unreachable or its response lost; any later request it refuses
\* (ALREADY_EXISTS in module Messaging).
Outcomes(p) == IF p \in related THEN {"null"} ELSE {"accepted", "lost", "null"}
RelatedAfter(p, outcome) == IF outcome = "null" THEN related ELSE related \cup {p}
EndpointsAfter(p, outcome) == IF outcome = "accepted" THEN peerEndpoints \cup {p} ELSE peerEndpoints

\* What is left to do of a cycle: it skips the peers it knows, and stops after
\* maxGreetings or at the cap.
Unknown(todo, known) ==
  LET unknown == {i \in DOMAIN todo : todo[i] \notin known}
  IN  IF unknown = {} THEN <<>>
      ELSE SubSeq(todo, CHOOSE i \in unknown : \A j \in unknown : i <= j, Len(todo))

\* Mutation: a cycle with nobody left to greet goes on.
ContinueOn(todo, greeted, known, used) ==
  IF greeted >= MaxGreetings \/ used >= Cap
  THEN NoCycle
  ELSE [state |-> "greeting", todo |-> Unknown(todo, known), greeted |-> greeted]

Continue(todo, greeted, known, used) ==
  LET left == Unknown(todo, known)
  IN  IF left = <<>> \/ greeted >= MaxGreetings \/ used >= Cap
      THEN NoCycle
      ELSE [state |-> "greeting", todo |-> left, greeted |-> greeted]

StartCycle(k) ==
  /\ cycles[k].state = "idle"
  /\ WithinLimits
  /\ interactions' = Checked
  /\ cycles' = [cycles EXCEPT ![k].state = "discovering"]
  /\ UNCHANGED <<messageVars, knownPeers, peerEndpoints, related, onMessage, today, restarts>>

Discovered(k, peers) ==
  /\ cycles[k].state = "discovering"
  /\ cycles' = [cycles EXCEPT ![k] = Continue(peers, 0, knownPeers, Checked.count)]
  /\ interactions' = IF Unknown(peers, knownPeers) = <<>> \/ MaxGreetings = 0
                     THEN interactions ELSE Checked
  /\ UNCHANGED <<messageVars, knownPeers, peerEndpoints, related, onMessage, today, restarts>>

\* A peer is known once it answered.
KnownAfter(p, outcome) == IF outcome = "accepted" THEN knownPeers \cup {p} ELSE knownPeers

Greeted(k, outcome) ==
  LET p == Head(cycles[k].todo)
      connected == outcome = "accepted"
      greeted == cycles[k].greeted + (IF connected THEN 1 ELSE 0)
      after == IF connected THEN Incremented ELSE Checked
      left == Tail(cycles[k].todo)
  IN  /\ cycles[k].state = "greeting"
      /\ outcome \in Outcomes(p)
      /\ related' = RelatedAfter(p, outcome)
      /\ peerEndpoints' = EndpointsAfter(p, outcome)
      /\ knownPeers' = KnownAfter(p, outcome)
      /\ interactions' = IF connected \/ (Unknown(left, knownPeers) # <<>> /\ greeted < MaxGreetings)
                         THEN after ELSE interactions
      /\ cycles' = [cycles EXCEPT ![k] = Continue(left, greeted, knownPeers', after.count)]
      /\ UNCHANGED <<messageVars, onMessage, today, restarts>>

\* connectToPeer, called by the agent itself: neither known nor counted.
Connect(p, outcome) ==
  /\ outcome \in Outcomes(p)
  /\ related' = RelatedAfter(p, outcome)
  /\ peerEndpoints' = EndpointsAfter(p, outcome)
  /\ UNCHANGED <<messageVars, knownPeers, cycles, interactions, onMessage, today, restarts>>

-----------------------------------------------------------------------------
(* Time and restarts. *)

NextDay ==
  /\ today < MaxDays
  /\ today' = today + 1
  /\ UNCHANGED <<messageVars, peerVars, interactions, onMessage, restarts>>

\* The process stops and starts again.
Restart ==
  /\ restarts < MaxRestarts
  /\ restarts' = restarts + 1
  /\ status' = [m \in Messages |->
       IF status[m] = "awaiting" \/ m \in period \cup guardianMessages THEN "forgotten"
       ELSE status[m]]
  /\ period' = {} /\ guardianMessages' = {}
  /\ reports' = [i \in DOMAIN reports |->
       IF reports[i].state = "sending" THEN [reports[i] EXCEPT !.state = "undelivered"]
       ELSE reports[i]]
  /\ interactions' = [count |-> 0, day |-> 0]
  /\ knownPeers' = {} /\ peerEndpoints' = {}
  /\ cycles' = [k \in Cycles |-> NoCycle]
  /\ onMessage' = "bridge"
  /\ UNCHANGED <<party, related, today>>

-----------------------------------------------------------------------------
BridgeNext ==
  \/ \E m \in Messages, p \in Peers \cup {Guardian} : MessagePeer(m, p) \/ Incoming(m, p)
  \/ \E m \in Messages : MessageAcked(m) \/ MessageFailed(m)
  \/ ChannelStart \/ ChannelStop
  \/ GenerateReport
  \/ \E i \in 1..MaxReports, acked \in BOOLEAN : DeliverReport(i, acked)
  \/ \E k \in Cycles : StartCycle(k)
  \/ \E k \in Cycles, peers \in Discoveries : Discovered(k, peers)
  \/ \E k \in Cycles, outcome \in {"accepted", "lost", "null"} : Greeted(k, outcome)
  \/ \E p \in Peers, outcome \in {"accepted", "lost", "null"} : Connect(p, outcome)
  \/ NextDay \/ Restart

-----------------------------------------------------------------------------
(* Properties. *)

Parties == Peers \cup {Guardian, NoPeer}

BridgeTypeOK ==
  /\ party \in [Messages -> Parties]
  /\ status \in [Messages -> {"none", "awaiting", "failed", "exchanged", "forgotten"}]
  /\ period \subseteq Messages /\ guardianMessages \subseteq Messages
  /\ reports \in Seq([messages : SUBSET Messages, state : {"sending", "delivered", "undelivered"}])
  /\ interactions \in [count : Nat, day : 0..today]
  /\ knownPeers \subseteq Peers /\ peerEndpoints \subseteq Peers /\ related \subseteq Peers
  /\ cycles \in [Cycles -> Cycle]
  /\ \A k \in Cycles : cycles[k].state = "greeting" =>
       cycles[k].todo # <<>> /\ cycles[k].greeted < MaxGreetings
  /\ onMessage \in {"bridge", "channel", "none"}
  /\ today \in Days /\ restarts \in 0..MaxRestarts

\* What was exchanged under the bridge's handler is accounted for once: in the
\* current period, in one report or among the guardian's messages, whatever
\* arrives while a report is on its way (generateHomecomingReport).
AccountedOnce ==
  \A m \in Messages :
    LET reported == {i \in DOMAIN reports : m \in reports[i].messages}
        places == Cardinality(reported) + Cardinality({m} \cap period)
                    + Cardinality({m} \cap guardianMessages)
    IN  places = IF status[m] = "exchanged" THEN 1 ELSE 0

\* Each call looks at the cap before its await and counts after it, so the cap
\* is exceeded by no more than what waits beside it: never by a caller that
\* awaits every call.
InFlight ==
  Cardinality({m \in Awaiting : party[m] # Guardian})
    + Cardinality({k \in Cycles : cycles[k].state = "greeting"})
OvershootBounded ==
  interactions.day = today =>
    interactions.count + InFlight < Cap + MaxAwaiting + Cardinality(Cycles)

=============================================================================
