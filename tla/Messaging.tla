------------------------------ MODULE Messaging ------------------------------
(***************************************************************************)
(* Nodes that request relationships of each other and exchange messages    *)
(* over a network that loses, repeats and delays requests and loses        *)
(* responses (maip-node/src/client.ts, handlers/relationships-core.ts,     *)
(* handlers/messages-core.ts).                                             *)
(*                                                                         *)
(* A handler is one action.  It persists store after store, so a crash     *)
(* between two writes keeps the first (Store...Crash), and a crash within  *)
(* one leaves a file that no longer parses, which the restarted node reads *)
(* as an empty store (...Torn).  A crash between two handlers loses the    *)
(* in-memory rate limits only (Restart).  The sender waits for each        *)
(* response without a retry and without a timeout of its own: a call that  *)
(* fails reports nothing about what the receiver did.                      *)
(*                                                                         *)
(* Abstracted: signatures and schemas are valid, every request proposes    *)
(* canMessage = true (the client's default), content is left out, and the  *)
(* anomaly detector is the choice of "critical" (module Behavior has its   *)
(* profile).  The clock counts in units of RATE and DRIFT.                 *)
(***************************************************************************)
EXTENDS Naturals, FiniteSets

CONSTANTS Nodes,          \* the nodes, each with one DID
          CallIds,        \* the requests the clients can send; bound: how many
          NoNode,         \* the holder and peer of an unused relationship record
          AutoAccept,     \* the nodes with config.autoAcceptRelationships
          Drift,          \* MAX_TIMESTAMP_DRIFT_MS
          RateWindow,     \* WINDOW_MS
          MaxPerWindow,   \* MAX_PER_MINUTE
          MaxDeliveries,  \* bound: requests ever delivered, repetitions included
          MaxRecords,     \* bound: relationship records ever created
          MaxTime,        \* bound: the clock
          MaxCrashes      \* bound: crashes

ASSUME MessagingAssumption ==
  /\ NoNode \notin Nodes
  /\ AutoAccept \subseteq Nodes
  /\ Drift \in Nat /\ RateWindow \in Nat /\ MaxPerWindow \in Nat \ {0}
  /\ IsFiniteSet(CallIds)
  /\ MaxDeliveries \in Nat /\ MaxRecords \in Nat
  /\ MaxTime \in Nat /\ MaxCrashes \in Nat

VARIABLES calls,          \* every request a client sent, and what it got back
          relationships,  \* the nodes' relationships.json
          nextRecord,     \* the next unused relationship id
          messages,       \* the nodes' messages.json: the calls stored there
          isolations,     \* the DIDs each node isolates now
          rateLimits,     \* the nodes' rateLimits, lost by a restart
          now,            \* Date.now(), the same everywhere
          deliveries,     \* requests delivered so far
          crashes,        \* crashes so far
          lost,           \* history: the calls whose stored message a torn file took
          orphaned        \* history: the calls stored at a node when a torn file took
                          \* its relationships, and not counted since

history == <<lost, orphaned>>
vars == <<calls, relationships, nextRecord, messages, isolations,
          rateLimits, now, deliveries, crashes, history>>

RecordIds == 1..MaxRecords
Times == 0..MaxTime
Kinds == {"greeting", "conversation", "relationship"}

\* What the client of a call knows: nothing yet, a null (no response, or one
\* without data), or the data of the response.
Replies == {"waiting", "null", "received", "rejected", "accepted", "pending"}

Call == [kind: Kinds \cup {"none"}, from: Nodes \cup {NoNode}, to: Nodes \cup {NoNode},
         sentAt: Times, reply: Replies]
NoCall == [kind |-> "none", from |-> NoNode, to |-> NoNode, sentAt |-> 0, reply |-> "waiting"]

Record == [at: Nodes \cup {NoNode}, peer: Nodes \cup {NoNode},
           status: {"none", "pending", "active"}, interactionCount: Nat]
NoRecord == [at |-> NoNode, peer |-> NoNode, status |-> "none", interactionCount |-> 0]

RateLimit == [count: 0..MaxPerWindow, windowStart: Times]
NoLimit == [count |-> 0, windowStart |-> 0]

\* The records of peer m in the store of node n, whatever their status, and the
\* active ones.
RecordsOf(n, m) == {r \in RecordIds : relationships[r].at = n /\ relationships[r].peer = m}
ActiveRecords(n, m) == {r \in RecordsOf(n, m) : relationships[r].status = "active"}

Init ==
  /\ calls = [c \in CallIds |-> NoCall]
  /\ relationships = [r \in RecordIds |-> NoRecord]
  /\ nextRecord = 1
  /\ messages = [n \in Nodes |-> {}]
  /\ isolations = [n \in Nodes |-> {}]
  /\ rateLimits = [n \in Nodes |-> [m \in Nodes |-> NoLimit]]
  /\ now = 0
  /\ deliveries = 0
  /\ crashes = 0
  /\ lost = {}
  /\ orphaned = {}

-----------------------------------------------------------------------------
(* The client (client.ts). *)

\* sendMessage and sendRelationshipRequest.
Send(c, from, to, kind) ==
  /\ calls[c].kind = "none"
  /\ from # to
  /\ calls' = [calls EXCEPT ![c] = [kind |-> kind, from |-> from, to |-> to,
                                    sentAt |-> now, reply |-> "waiting"]]
  /\ UNCHANGED <<relationships, nextRecord, messages, isolations, rateLimits, now,
                 deliveries, crashes, history>>

\* fetch fails, before or after the request reached the other node.
CallFails(c) ==
  /\ calls[c].kind # "none"
  /\ calls[c].reply = "waiting"
  /\ calls' = [calls EXCEPT ![c].reply = "null"]
  /\ UNCHANGED <<relationships, nextRecord, messages, isolations, rateLimits,
                 now, deliveries, crashes, history>>

\* The response reaches a client that still waits for it.
Answer(c, reply) ==
  calls' = [calls EXCEPT ![c].reply = IF @ = "waiting" THEN reply ELSE @]

-----------------------------------------------------------------------------
(* The network. *)

\* One delivery of a request, late or again; a lost one is never delivered.
Delivery(c) ==
  /\ calls[c].kind # "none"
  /\ deliveries < MaxDeliveries
  /\ deliveries' = deliveries + 1

-----------------------------------------------------------------------------
(* POST /maip/relationships (relationships-core.ts). *)

\* Mutation: an existing record is not looked for.
RequestNewUnchecked(c) ==
  LET n == calls[c].to
      status == IF n \in AutoAccept THEN "active" ELSE "pending"
  IN  /\ Delivery(c)
      /\ calls[c].kind = "relationship"
      /\ nextRecord <= MaxRecords
      /\ relationships' = [relationships EXCEPT ![nextRecord] =
           [at |-> n, peer |-> calls[c].from, status |-> status, interactionCount |-> 0]]
      /\ nextRecord' = nextRecord + 1
      /\ Answer(c, IF n \in AutoAccept THEN "accepted" ELSE "pending")
      /\ UNCHANGED <<messages, isolations, rateLimits, now, crashes, history>>

\* A first request creates the record, in the receiver's store only.
RequestNew(c) ==
  LET n == calls[c].to
      status == IF n \in AutoAccept THEN "active" ELSE "pending"
  IN  /\ Delivery(c)
      /\ calls[c].kind = "relationship"
      /\ RecordsOf(n, calls[c].from) = {}
      /\ nextRecord <= MaxRecords
      /\ relationships' = [relationships EXCEPT ![nextRecord] =
           [at |-> n, peer |-> calls[c].from, status |-> status, interactionCount |-> 0]]
      /\ nextRecord' = nextRecord + 1
      /\ Answer(c, IF n \in AutoAccept THEN "accepted" ELSE "pending")
      /\ UNCHANGED <<messages, isolations, rateLimits, now, crashes, history>>

\* ALREADY_EXISTS: an error response carries no data, which the client returns
\* as null.  No handler ends a relationship or accepts a pending one.
RequestKnown(c) ==
  /\ Delivery(c)
  /\ calls[c].kind = "relationship"
  /\ RecordsOf(calls[c].to, calls[c].from) # {}
  /\ Answer(c, "null")
  /\ UNCHANGED <<relationships, nextRecord, messages, isolations, rateLimits, now, crashes, history>>

-----------------------------------------------------------------------------
(* POST /maip/messages (messages-core.ts). *)

IsMessage(c) == calls[c].kind \in {"greeting", "conversation"}
Fresh(c) == now <= calls[c].sentAt + Drift
Admissible(c) == IsMessage(c) /\ Fresh(c) /\ calls[c].from \notin isolations[calls[c].to]

\* TIMESTAMP_DRIFT and ISOLATED: refused before anything is recorded.
Refuse(c) ==
  /\ Delivery(c)
  /\ IsMessage(c)
  /\ ~Admissible(c)
  /\ Answer(c, "null")
  /\ UNCHANGED <<relationships, nextRecord, messages, isolations, rateLimits, now, crashes, history>>

\* A critical anomaly isolates the sender; its message is processed all the same.
AutoIsolate(c, critical) ==
  isolations' = IF critical
                THEN [isolations EXCEPT ![calls[c].to] = @ \cup {calls[c].from}]
                ELSE isolations

\* checkRateLimit: the fixed window of the sender, and its verdict.
LimitOf(c) == rateLimits[calls[c].to][calls[c].from]
WindowOver(c) == LimitOf(c).count = 0 \/ now > LimitOf(c).windowStart + RateWindow
\* checkRateLimit: whether the sender may send one more in this window.
WithinRate(c) == WindowOver(c) \/ LimitOf(c).count < MaxPerWindow
CountAttempt(c) ==
  rateLimits' = IF WithinRate(c)
                THEN [rateLimits EXCEPT ![calls[c].to][calls[c].from] =
                        IF WindowOver(c) THEN [count |-> 1, windowStart |-> now]
                        ELSE [count |-> @.count + 1, windowStart |-> @.windowStart]]
                ELSE rateLimits

\* Mutation: any record will do, active or not.
PermittedByAnyRecord(c) ==
  calls[c].kind = "greeting" \/ RecordsOf(calls[c].to, calls[c].from) # {}

Permitted(c) ==
  calls[c].kind = "greeting" \/ ActiveRecords(calls[c].to, calls[c].from) # {}

\* RATE_LIMITED and NO_RELATIONSHIP: the response carries a "rejected" ack.
Reject(c, critical) ==
  /\ Delivery(c)
  /\ Admissible(c)
  /\ ~(WithinRate(c) /\ Permitted(c))
  /\ AutoIsolate(c, critical)
  /\ CountAttempt(c)
  /\ Answer(c, "rejected")
  /\ UNCHANGED <<relationships, nextRecord, messages, now, crashes, history>>

\* ctx.stores.messages.add, an upsert by message id.
StoreMessage(c) ==
  /\ messages' = [messages EXCEPT ![calls[c].to] = @ \cup {c}]
  /\ lost' = lost \ {c}

\* Mutation: the interaction is not counted.
CountInteractionNot(c) == UNCHANGED <<relationships, orphaned>>

\* Trust accumulation on the active relationships with the sender.
CountInteraction(c) ==
  /\ relationships' = [r \in RecordIds |->
       IF r \in ActiveRecords(calls[c].to, calls[c].from)
       THEN [relationships[r] EXCEPT !.interactionCount = @ + 1]
       ELSE relationships[r]]
  /\ orphaned' = orphaned \ {c}

\* Mutation: the ack is sent before the message is stored, which then is not.
AcceptAcksFirst(c, critical) ==
  /\ Delivery(c)
  /\ Admissible(c)
  /\ WithinRate(c) /\ Permitted(c)
  /\ AutoIsolate(c, critical)
  /\ CountAttempt(c)
  /\ CountInteraction(c)
  /\ Answer(c, "received")
  /\ UNCHANGED <<nextRecord, messages, now, crashes, lost>>

Accept(c, critical) ==
  /\ Delivery(c)
  /\ Admissible(c)
  /\ WithinRate(c) /\ Permitted(c)
  /\ AutoIsolate(c, critical)
  /\ CountAttempt(c)
  /\ StoreMessage(c)
  /\ CountInteraction(c)
  /\ Answer(c, "received")
  /\ UNCHANGED <<nextRecord, now, crashes>>

-----------------------------------------------------------------------------
(* Crashes and time. *)

\* The node of a call stops and starts again from its files.
CrashOf(n) ==
  /\ crashes < MaxCrashes
  /\ crashes' = crashes + 1
  /\ rateLimits' = [rateLimits EXCEPT ![n] = [m \in Nodes |-> NoLimit]]

Restart(n) ==
  /\ CrashOf(n)
  /\ UNCHANGED <<calls, relationships, nextRecord, messages, isolations, now, deliveries,
                 history>>

\* The record is stored and the response is not sent.
StoreRequestCrash(c) ==
  LET n == calls[c].to
      status == IF n \in AutoAccept THEN "active" ELSE "pending"
  IN  /\ Delivery(c)
      /\ calls[c].kind = "relationship"
      /\ RecordsOf(n, calls[c].from) = {}
      /\ nextRecord <= MaxRecords
      /\ relationships' = [relationships EXCEPT ![nextRecord] =
           [at |-> n, peer |-> calls[c].from, status |-> status, interactionCount |-> 0]]
      /\ nextRecord' = nextRecord + 1
      /\ CrashOf(n)
      /\ UNCHANGED <<calls, messages, isolations, now, history>>

\* The crash comes after the isolation is stored, after the message is, or
\* after the relationship is.
StoreIsolationCrash(c) ==
  /\ Delivery(c)
  /\ Admissible(c)
  /\ AutoIsolate(c, TRUE)
  /\ CrashOf(calls[c].to)
  /\ UNCHANGED <<calls, relationships, nextRecord, messages, now, history>>

StoreMessageCrash(c, critical, counted) ==
  /\ Delivery(c)
  /\ Admissible(c)
  /\ WithinRate(c) /\ Permitted(c)
  /\ AutoIsolate(c, critical)
  /\ StoreMessage(c)
  /\ IF counted THEN CountInteraction(c) ELSE UNCHANGED <<relationships, orphaned>>
  /\ CrashOf(calls[c].to)
  /\ UNCHANGED <<calls, nextRecord, now>>

(* The crash comes within a write: the node comes back with that store empty. *)

TearRelationships(n) ==
  /\ relationships' = [r \in RecordIds |->
       IF relationships[r].at = n THEN NoRecord ELSE relationships[r]]
  /\ orphaned' = orphaned \cup messages'[n]
  /\ CrashOf(n)

StoreRequestTorn(c) ==
  /\ Delivery(c)
  /\ calls[c].kind = "relationship"
  /\ RecordsOf(calls[c].to, calls[c].from) = {}
  /\ UNCHANGED <<calls, nextRecord, messages, isolations, now, lost>>
  /\ TearRelationships(calls[c].to)

\* A critical anomaly: the isolation is not stored, and the others are gone.
StoreIsolationTorn(c) ==
  /\ Delivery(c)
  /\ Admissible(c)
  /\ isolations' = [isolations EXCEPT ![calls[c].to] = {}]
  /\ CrashOf(calls[c].to)
  /\ UNCHANGED <<calls, relationships, nextRecord, messages, now, history>>

StoreMessageTorn(c, critical) ==
  /\ Delivery(c)
  /\ Admissible(c)
  /\ WithinRate(c) /\ Permitted(c)
  /\ AutoIsolate(c, critical)
  /\ messages' = [messages EXCEPT ![calls[c].to] = {}]
  /\ lost' = lost \cup messages[calls[c].to]
  /\ CrashOf(calls[c].to)
  /\ UNCHANGED <<calls, relationships, nextRecord, now, orphaned>>

CountTorn(c, critical) ==
  /\ Delivery(c)
  /\ Admissible(c)
  /\ WithinRate(c) /\ Permitted(c)
  /\ ActiveRecords(calls[c].to, calls[c].from) # {}
  /\ AutoIsolate(c, critical)
  /\ StoreMessage(c)
  /\ TearRelationships(calls[c].to)
  /\ UNCHANGED <<calls, nextRecord, now>>

\* An isolation ends (module Isolation).
Release(n, m) ==
  /\ m \in isolations[n]
  /\ isolations' = [isolations EXCEPT ![n] = @ \ {m}]
  /\ UNCHANGED <<calls, relationships, nextRecord, messages, rateLimits, now,
                 deliveries, crashes, history>>

Tick ==
  /\ now < MaxTime
  /\ now' = now + 1
  /\ UNCHANGED <<calls, relationships, nextRecord, messages, isolations,
                 rateLimits, deliveries, crashes, history>>

-----------------------------------------------------------------------------
Next ==
  \/ \E c \in CallIds, from, to \in Nodes, kind \in Kinds : Send(c, from, to, kind)
  \/ \E c \in CallIds :
       \/ CallFails(c)
       \/ RequestNew(c) \/ RequestKnown(c) \/ StoreRequestCrash(c)
       \/ Refuse(c) \/ StoreIsolationCrash(c)
       \/ StoreRequestTorn(c) \/ StoreIsolationTorn(c)
  \/ \E c \in CallIds, critical \in BOOLEAN :
       \/ Reject(c, critical) \/ Accept(c, critical)
       \/ StoreMessageTorn(c, critical) \/ CountTorn(c, critical)
  \/ \E c \in CallIds, critical, counted \in BOOLEAN : StoreMessageCrash(c, critical, counted)
  \/ \E n \in Nodes : Restart(n)
  \/ \E n, m \in Nodes : Release(n, m)
  \/ Tick

Spec == Init /\ [][Next]_vars

-----------------------------------------------------------------------------
(* Properties. *)

TypeOK ==
  /\ calls \in [CallIds -> Call]
  /\ \A c \in CallIds : calls[c].kind # "none" => {calls[c].from, calls[c].to} \subseteq Nodes
  /\ relationships \in [RecordIds -> Record]
  /\ nextRecord \in 1..(MaxRecords + 1)
  /\ \A r \in RecordIds : r >= nextRecord => relationships[r] = NoRecord
  /\ messages \in [Nodes -> SUBSET CallIds]
  /\ isolations \in [Nodes -> SUBSET Nodes]
  /\ rateLimits \in [Nodes -> [Nodes -> RateLimit]]
  /\ now \in Times
  /\ deliveries \in 0..MaxDeliveries
  /\ crashes \in 0..MaxCrashes
  /\ lost \subseteq CallIds
  /\ orphaned \subseteq CallIds

\* A "received" ack is a promise: the message is in the recipient's store, and
\* of all the crashes only one within a later write of messages.json takes it
\* back, for good unless the message arrives and is stored again
\* (messages-core.ts stores before it signs the ack; json-store.ts reads a file
\* cut short as an empty one).
AckedMeansStored ==
  \A c \in CallIds : calls[c].reply = "received" => c \in messages[calls[c].to] \cup lost

\* Conversations are stored only at their recipient and only from a peer with
\* an active relationship there, however requests, messages and repetitions
\* overtook each other; it is gone only when a crash tore relationships.json
\* after the conversation was last counted.
ConversationsNeedConsent ==
  \A n \in Nodes : \A c \in messages[n] :
    /\ calls[c].to = n
    /\ calls[c].kind = "conversation" => ActiveRecords(n, calls[c].from) # {} \/ c \in orphaned

\* Repeated, crossing and concurrent requests leave at most one relationship
\* record per pair in each store (ALREADY_EXISTS in relationships-core.ts).
OneRelationship ==
  \A n, m \in Nodes : \A r, s \in RecordsOf(n, m) : r = s

\* No interaction goes missing except by a crash: the count behind trustLevel
\* covers every stored conversation but one per crash between the two writes
\* and those counted in a relationships.json that was torn.  It counts
\* deliveries, so a repeated message counts again, but nothing counts twice.
InteractionsCounted ==
  \A n, m \in Nodes : \A r \in ActiveRecords(n, m) :
    /\ Cardinality({c \in messages[n] \ orphaned :
                      calls[c].kind = "conversation" /\ calls[c].from = m})
         <= relationships[r].interactionCount + crashes
    /\ relationships[r].interactionCount <= deliveries

=============================================================================
