-------------------------- MODULE Messaging_proofs --------------------------
(***************************************************************************)
(* Proofs about module Messaging, for any nodes, rate limits, drift and    *)
(* bounds.                                                                 *)
(***************************************************************************)
EXTENDS Messaging, FiniteSetTheorems, TLAPS

(***************************************************************************)
(* What the parts of a handler make of the state they touch.               *)
(***************************************************************************)
LEMMA Answered ==
  ASSUME TypeOK, NEW c \in CallIds, NEW reply \in Replies, Answer(c, reply)
  PROVE  /\ calls' \in [CallIds -> Call]
         /\ \A b \in CallIds : /\ calls'[b].kind = calls[b].kind
                               /\ calls'[b].from = calls[b].from
                               /\ calls'[b].to = calls[b].to
                               /\ calls'[b].reply # calls[b].reply => b = c /\ calls'[b].reply = reply
<1> DEFINE r == IF calls[c].reply = "waiting" THEN reply ELSE calls[c].reply
           new == [calls[c] EXCEPT !.reply = r]
<1>1. r \in Replies /\ (r # calls[c].reply => r = reply)
  BY DEF TypeOK, Call
<1>2. calls' = [calls EXCEPT ![c] = new]
  BY DEF Answer
<1> HIDE DEF r
<1>3. /\ new \in Call /\ new.reply = r
      /\ new.kind = calls[c].kind /\ new.from = calls[c].from /\ new.to = calls[c].to
  BY <1>1 DEF TypeOK, Call
<1> HIDE DEF new
<1>4. QED
  BY <1>1, <1>2, <1>3 DEF TypeOK

LEMMA Delivered ==
  ASSUME TypeOK, NEW c \in CallIds, Delivery(c)
  PROVE  /\ deliveries' \in 0..MaxDeliveries
         /\ calls[c].kind # "none"
         /\ calls[c].from \in Nodes /\ calls[c].to \in Nodes
BY MessagingAssumption DEF Delivery, TypeOK, MessagingAssumption

LEMMA Isolated ==
  ASSUME TypeOK, NEW c \in CallIds, Delivery(c), NEW critical \in BOOLEAN, AutoIsolate(c, critical)
  PROVE  isolations' \in [Nodes -> SUBSET Nodes]
BY Delivered DEF AutoIsolate, TypeOK

LEMMA Attempted ==
  ASSUME TypeOK, NEW c \in CallIds, Delivery(c), CountAttempt(c)
  PROVE  rateLimits' \in [Nodes -> [Nodes -> RateLimit]]
<1> DEFINE n == calls[c].to
           m == calls[c].from
           l == IF WindowOver(c) THEN [count |-> 1, windowStart |-> now]
                ELSE [count |-> rateLimits[n][m].count + 1,
                      windowStart |-> rateLimits[n][m].windowStart]
<1>1. n \in Nodes /\ m \in Nodes
  BY Delivered
<1>2. \/ rateLimits' = rateLimits
      \/ /\ WithinRate(c)
         /\ rateLimits' = [rateLimits EXCEPT ![n] = [rateLimits[n] EXCEPT ![m] = l]]
  BY DEF CountAttempt
<1>3. ASSUME WithinRate(c) PROVE l \in RateLimit
  BY <1>1, <1>3, MessagingAssumption
     DEF WithinRate, WindowOver, LimitOf, RateLimit, TypeOK, MessagingAssumption
<1> HIDE DEF l, n, m
<1>4. rateLimits \in [Nodes -> [Nodes -> RateLimit]]
  BY DEF TypeOK
<1>5. ASSUME WithinRate(c)
      PROVE  [rateLimits EXCEPT ![n] = [rateLimits[n] EXCEPT ![m] = l]]
               \in [Nodes -> [Nodes -> RateLimit]]
  <2>1. [rateLimits[n] EXCEPT ![m] = l] \in [Nodes -> RateLimit]
    BY <1>1, <1>3, <1>4, <1>5
  <2>2. QED
    BY <1>1, <1>4, <2>1
<1>6. QED
  BY <1>2, <1>4, <1>5

LEMMA Counted ==
  ASSUME TypeOK, NEW c \in CallIds, CountInteraction(c)
  PROVE  /\ relationships' \in [RecordIds -> Record]
         /\ \A r \in RecordIds : /\ relationships'[r].at = relationships[r].at
                                 /\ relationships'[r].peer = relationships[r].peer
                                 /\ relationships'[r].status = relationships[r].status
                                 /\ relationships[r].status = "none"
                                      => relationships'[r] = relationships[r]
         /\ orphaned' = orphaned \ {c}
<1> DEFINE new(r) == [relationships[r] EXCEPT !.interactionCount = relationships[r].interactionCount + 1]
<1>1. ASSUME NEW r \in RecordIds
      PROVE  /\ new(r) \in Record
             /\ new(r).at = relationships[r].at
             /\ new(r).peer = relationships[r].peer
             /\ new(r).status = relationships[r].status
  <2>1. relationships[r] \in Record /\ relationships[r].interactionCount + 1 \in Nat
    BY DEF TypeOK, Record
  <2> DEFINE k == relationships[r].interactionCount + 1
  <2> HIDE DEF k
  <2>2. [relationships[r] EXCEPT !.interactionCount = k] \in Record
    BY <2>1 DEF k, Record
  <2>3. QED
    BY <2>1, <2>2 DEF k, Record
<1>2. relationships' = [r \in RecordIds |->
        IF r \in ActiveRecords(calls[c].to, calls[c].from) THEN new(r) ELSE relationships[r]]
  BY DEF CountInteraction
<1> HIDE DEF new
<1>3. QED
  BY <1>1, <1>2 DEF TypeOK, ActiveRecords, CountInteraction

\* A new record goes where there was none.
Created(c, new) ==
  /\ nextRecord \in RecordIds
  /\ new \in Record
  /\ new.at = calls[c].to /\ new.peer = calls[c].from /\ new.status # "none"
  /\ new.interactionCount = 0
  /\ relationships' = [relationships EXCEPT ![nextRecord] = new]
  /\ nextRecord' = nextRecord + 1

LEMMA NewRecord ==
  ASSUME TypeOK, NEW c \in CallIds, RequestNew(c) \/ StoreRequestCrash(c)
  PROVE  /\ \E new \in Record : Created(c, new)
         /\ RecordsOf(calls[c].to, calls[c].from) = {}
<1> DEFINE status == IF calls[c].to \in AutoAccept THEN "active" ELSE "pending"
           new == [at |-> calls[c].to, peer |-> calls[c].from, status |-> status,
                   interactionCount |-> 0]
<1>1. Delivery(c)
  BY DEF RequestNew, StoreRequestCrash
<1>2. calls[c].to \in Nodes /\ calls[c].from \in Nodes
  BY <1>1, Delivered
<1>3. status \in {"active", "pending"}
  OBVIOUS
<1>4. /\ nextRecord <= MaxRecords
      /\ relationships' = [relationships EXCEPT ![nextRecord] = new]
      /\ nextRecord' = nextRecord + 1
      /\ RecordsOf(calls[c].to, calls[c].from) = {}
  BY DEF RequestNew, StoreRequestCrash
<1> HIDE DEF status
<1>5. /\ new \in Record
      /\ new.at = calls[c].to /\ new.peer = calls[c].from /\ new.status # "none"
      /\ new.interactionCount = 0
  BY <1>2, <1>3 DEF Record
<1>6. nextRecord \in RecordIds
  BY <1>4, MessagingAssumption DEF TypeOK, RecordIds, MessagingAssumption
<1> HIDE DEF new
<1>7. QED
  BY <1>4, <1>5, <1>6 DEF Created

LEMMA Crashed ==
  ASSUME TypeOK, NEW n \in Nodes, CrashOf(n)
  PROVE  /\ crashes' \in 0..MaxCrashes
         /\ rateLimits' \in [Nodes -> [Nodes -> RateLimit]]
<1>1. NoLimit \in RateLimit
  BY MessagingAssumption DEF NoLimit, RateLimit, Times, MessagingAssumption
<1>2. QED
  BY <1>1, MessagingAssumption DEF CrashOf, TypeOK, MessagingAssumption

LEMMA Torn ==
  ASSUME TypeOK, NEW n \in Nodes, TearRelationships(n), messages' \in [Nodes -> SUBSET CallIds]
  PROVE  /\ crashes' \in 0..MaxCrashes
         /\ rateLimits' \in [Nodes -> [Nodes -> RateLimit]]
         /\ orphaned' \subseteq CallIds /\ orphaned' = orphaned \cup messages'[n]
         /\ relationships' \in [RecordIds -> Record]
         /\ \A r \in RecordIds : relationships'[r] =
              IF relationships[r].at = n THEN NoRecord ELSE relationships[r]
<1>1. NoRecord \in Record
  BY DEF NoRecord, Record
<1>2. QED
  BY <1>1, Crashed DEF TearRelationships, TypeOK

(***************************************************************************)
(* Type correctness.                                                       *)
(***************************************************************************)
LEMMA TypeInit == Init => TypeOK
<1> SUFFICES ASSUME Init PROVE TypeOK
  OBVIOUS
<1>1. NoCall \in Call /\ NoRecord \in Record /\ NoLimit \in RateLimit
  BY MessagingAssumption
     DEF NoCall, Call, Kinds, Replies, NoRecord, Record, NoLimit, RateLimit, Times,
         MessagingAssumption
<1>2. QED
  BY <1>1, MessagingAssumption
     DEF Init, TypeOK, RecordIds, Times, NoCall, MessagingAssumption

\* The conjuncts about calls and relationships, which most steps share.
CallsTyped ==
  /\ calls \in [CallIds -> Call]
  /\ \A c \in CallIds : calls[c].kind # "none" => {calls[c].from, calls[c].to} \subseteq Nodes
RecordsTyped ==
  /\ relationships \in [RecordIds -> Record]
  /\ nextRecord \in 1..(MaxRecords + 1)
  /\ \A r \in RecordIds : r >= nextRecord => relationships[r] = NoRecord

LEMMA AnswerTyped ==
  ASSUME TypeOK, NEW c \in CallIds, Delivery(c), NEW reply \in Replies,
         Answer(c, reply) \/ calls' = calls
  PROVE  CallsTyped'
<1>1. CASE Answer(c, reply)
  <2>1. /\ calls' \in [CallIds -> Call]
        /\ \A b \in CallIds : /\ calls'[b].kind = calls[b].kind
                              /\ calls'[b].from = calls[b].from
                              /\ calls'[b].to = calls[b].to
    BY <1>1, Answered
  <2>2. \A b \in CallIds : calls[b].kind # "none" => calls[b].from \in Nodes /\ calls[b].to \in Nodes
    BY DEF TypeOK
  <2>3. QED
    BY <2>1, <2>2 DEF CallsTyped
<1>2. CASE calls' = calls
  BY <1>2, Delivered DEF TypeOK, CallsTyped
<1>3. QED
  BY <1>1, <1>2

LEMMA RecordsStep ==
  ASSUME TypeOK, NEW c \in CallIds,
         \/ \E new \in Record : Created(c, new)
         \/ CountInteraction(c) /\ nextRecord' = nextRecord
         \/ UNCHANGED <<relationships, nextRecord>>
         \/ /\ TearRelationships(calls[c].to) /\ nextRecord' = nextRecord
            /\ calls[c].to \in Nodes /\ messages' \in [Nodes -> SUBSET CallIds]
  PROVE  RecordsTyped'
<1>1. CASE \E new \in Record : Created(c, new)
  BY <1>1, MessagingAssumption DEF Created, TypeOK, RecordsTyped, RecordIds, MessagingAssumption
<1>2. CASE CountInteraction(c) /\ nextRecord' = nextRecord
  BY <1>2, Counted DEF TypeOK, RecordsTyped, NoRecord
<1>3. CASE UNCHANGED <<relationships, nextRecord>>
  BY <1>3 DEF TypeOK, RecordsTyped
<1>4. CASE /\ TearRelationships(calls[c].to) /\ nextRecord' = nextRecord
           /\ calls[c].to \in Nodes /\ messages' \in [Nodes -> SUBSET CallIds]
  BY <1>4, Torn DEF TypeOK, RecordsTyped
<1>5. QED
  BY <1>1, <1>2, <1>3, <1>4

LEMMA TypeStep == TypeOK /\ [Next]_vars => TypeOK'
<1> SUFFICES ASSUME TypeOK, [Next]_vars PROVE TypeOK'
  OBVIOUS
<1> USE DEF CallsTyped, RecordsTyped, history
<1>1. ASSUME NEW c \in CallIds, NEW from \in Nodes, NEW to \in Nodes, NEW kind \in Kinds,
             Send(c, from, to, kind)
      PROVE  TypeOK'
  <2> DEFINE new == [kind |-> kind, from |-> from, to |-> to, sentAt |-> now, reply |-> "waiting"]
  <2>1. new \in Call /\ new.kind # "none" /\ new.from \in Nodes /\ new.to \in Nodes
    BY DEF Call, Kinds, Replies, TypeOK
  <2>2. /\ calls' = [calls EXCEPT ![c] = new]
        /\ UNCHANGED <<relationships, nextRecord, messages, isolations, rateLimits, now,
                       deliveries, crashes, history>>
    BY <1>1 DEF Send
  <2> HIDE DEF new
  <2>3. CallsTyped'
    BY <2>1, <2>2 DEF TypeOK
  <2>4. QED
    BY <2>2, <2>3 DEF TypeOK
<1>2. ASSUME NEW c \in CallIds, CallFails(c) PROVE TypeOK'
  <2>0. calls[c] \in Call /\ "null" \in Replies
    BY DEF TypeOK, Replies
  <2>1. [calls[c] EXCEPT !.reply = "null"] \in Call
    BY <2>0 DEF Call
  <2>2. /\ calls' = [calls EXCEPT ![c] = [calls[c] EXCEPT !.reply = "null"]]
        /\ UNCHANGED <<relationships, nextRecord, messages, isolations, rateLimits,
                       now, deliveries, crashes, history>>
    BY <1>2 DEF CallFails
  <2>3. \A b \in CallIds : /\ calls'[b].kind = calls[b].kind
                           /\ calls'[b].from = calls[b].from
                           /\ calls'[b].to = calls[b].to
    BY <2>2 DEF TypeOK, Call
  <2>4. calls' \in [CallIds -> Call]
    BY <2>1, <2>2 DEF TypeOK
  <2>5. CallsTyped'
    BY <2>2, <2>3, <2>4 DEF TypeOK
  <2>6. QED
    BY <2>2, <2>5 DEF TypeOK
<1>4. ASSUME NEW c \in CallIds, RequestNew(c) PROVE TypeOK'
  <2>1. CallsTyped'
    BY <1>4, AnswerTyped DEF RequestNew, Replies
  <2>2. RecordsTyped'
    BY <1>4, NewRecord, RecordsStep
  <2>3. QED
    BY <1>4, <2>1, <2>2, Delivered DEF RequestNew, TypeOK
<1>5. ASSUME NEW c \in CallIds, RequestKnown(c) \/ Refuse(c) PROVE TypeOK'
  <2>1. CallsTyped'
    BY <1>5, AnswerTyped DEF RequestKnown, Refuse, Replies
  <2>2. QED
    BY <1>5, <2>1, Delivered DEF RequestKnown, Refuse, TypeOK
<1>6. ASSUME NEW c \in CallIds, StoreRequestCrash(c) PROVE TypeOK'
  <2>1. Delivery(c) /\ CrashOf(calls[c].to) /\ UNCHANGED <<calls, messages, isolations, now, history>>
    BY <1>6 DEF StoreRequestCrash
  <2>2. CallsTyped' /\ RecordsTyped'
    BY <1>6, <2>1, AnswerTyped, NewRecord, RecordsStep DEF Replies
  <2>3. QED
    BY <2>1, <2>2, Delivered, Crashed DEF TypeOK
<1>7. ASSUME NEW c \in CallIds, StoreIsolationCrash(c) PROVE TypeOK'
  <2>1. /\ Delivery(c) /\ AutoIsolate(c, TRUE) /\ CrashOf(calls[c].to)
        /\ UNCHANGED <<calls, relationships, nextRecord, messages, now, history>>
    BY <1>7 DEF StoreIsolationCrash
  <2>2. CallsTyped' /\ isolations' \in [Nodes -> SUBSET Nodes]
    BY <2>1, AnswerTyped, Isolated DEF Replies
  <2>3. QED
    BY <2>1, <2>2, Delivered, Crashed DEF TypeOK
<1>8. ASSUME NEW c \in CallIds, NEW critical \in BOOLEAN, Reject(c, critical) PROVE TypeOK'
  <2>1. /\ Delivery(c) /\ AutoIsolate(c, critical) /\ CountAttempt(c) /\ Answer(c, "rejected")
        /\ UNCHANGED <<relationships, nextRecord, messages, now, crashes, history>>
    BY <1>8 DEF Reject
  <2>2. CallsTyped'
    BY <2>1, AnswerTyped DEF Replies
  <2>3. /\ isolations' \in [Nodes -> SUBSET Nodes]
        /\ rateLimits' \in [Nodes -> [Nodes -> RateLimit]]
    BY <2>1, Isolated, Attempted
  <2>4. QED
    BY <2>1, <2>2, <2>3, Delivered DEF TypeOK
<1>9. ASSUME NEW c \in CallIds, Delivery(c), StoreMessage(c)
      PROVE  messages' \in [Nodes -> SUBSET CallIds] /\ lost' \subseteq CallIds
  BY <1>9, Delivered DEF StoreMessage, TypeOK
<1>10. ASSUME NEW c \in CallIds, NEW critical \in BOOLEAN, Accept(c, critical) PROVE TypeOK'
  <2>1. /\ Delivery(c) /\ AutoIsolate(c, critical) /\ CountAttempt(c) /\ Answer(c, "received")
        /\ StoreMessage(c) /\ CountInteraction(c)
        /\ UNCHANGED <<nextRecord, now, crashes>>
    BY <1>10 DEF Accept
  <2>2. CallsTyped' /\ RecordsTyped'
    BY <2>1, AnswerTyped, RecordsStep DEF Replies
  <2>3. /\ isolations' \in [Nodes -> SUBSET Nodes]
        /\ rateLimits' \in [Nodes -> [Nodes -> RateLimit]]
        /\ messages' \in [Nodes -> SUBSET CallIds] /\ lost' \subseteq CallIds
        /\ orphaned' \subseteq CallIds
    BY <1>9, <2>1, Isolated, Attempted, Counted DEF TypeOK
  <2>4. QED
    BY <2>1, <2>2, <2>3, Delivered DEF TypeOK
<1>11. ASSUME NEW c \in CallIds, NEW critical \in BOOLEAN, NEW counted \in BOOLEAN,
              StoreMessageCrash(c, critical, counted)
       PROVE  TypeOK'
  <2>1. /\ Delivery(c) /\ AutoIsolate(c, critical) /\ StoreMessage(c)
        /\ CountInteraction(c) \/ UNCHANGED <<relationships, orphaned>>
        /\ CrashOf(calls[c].to)
        /\ UNCHANGED <<calls, nextRecord, now>>
    BY <1>11 DEF StoreMessageCrash
  <2>2. CallsTyped' /\ RecordsTyped'
    BY <2>1, AnswerTyped, RecordsStep DEF Replies
  <2>3. /\ isolations' \in [Nodes -> SUBSET Nodes]
        /\ messages' \in [Nodes -> SUBSET CallIds] /\ lost' \subseteq CallIds
        /\ orphaned' \subseteq CallIds
    BY <1>9, <2>1, Isolated, Counted DEF TypeOK
  <2>4. QED
    BY <2>1, <2>2, <2>3, Delivered, Crashed DEF TypeOK
<1>12. ASSUME NEW n \in Nodes, Restart(n) PROVE TypeOK'
  BY <1>12, Crashed DEF Restart, TypeOK
<1>13. ASSUME NEW n \in Nodes, NEW m \in Nodes, Release(n, m) PROVE TypeOK'
  BY <1>13 DEF Release, TypeOK
<1>14. ASSUME Tick PROVE TypeOK'
  BY <1>14, MessagingAssumption DEF Tick, TypeOK, Times, MessagingAssumption
<1>15. CASE UNCHANGED vars
  BY <1>15 DEF vars, TypeOK
<1>16. ASSUME NEW c \in CallIds, StoreRequestTorn(c) \/ StoreIsolationTorn(c) PROVE TypeOK'
  <2>1. Delivery(c) /\ UNCHANGED <<calls, nextRecord, messages, now, lost>>
    BY <1>16 DEF StoreRequestTorn, StoreIsolationTorn
  <2>2. calls[c].to \in Nodes /\ messages' \in [Nodes -> SUBSET CallIds]
    BY <2>1, Delivered DEF TypeOK
  <2>3. CASE StoreRequestTorn(c)
    <3>1. TearRelationships(calls[c].to) /\ UNCHANGED isolations
      BY <2>3 DEF StoreRequestTorn
    <3>2. CallsTyped' /\ RecordsTyped'
      BY <2>1, <2>2, <3>1, AnswerTyped, RecordsStep DEF Replies
    <3>3. QED
      BY <2>1, <2>2, <3>1, <3>2, Delivered, Torn DEF TypeOK
  <2>4. CASE StoreIsolationTorn(c)
    <3>1. /\ isolations' = [isolations EXCEPT ![calls[c].to] = {}]
          /\ CrashOf(calls[c].to) /\ UNCHANGED <<relationships, orphaned>>
      BY <2>4 DEF StoreIsolationTorn
    <3>2. CallsTyped'
      BY <2>1, AnswerTyped DEF Replies
    <3>3. QED
      BY <2>1, <2>2, <3>1, <3>2, Delivered, Crashed DEF TypeOK
  <2>5. QED
    BY <1>16, <2>3, <2>4
<1>17. ASSUME NEW c \in CallIds, NEW critical \in BOOLEAN,
              StoreMessageTorn(c, critical) \/ CountTorn(c, critical)
       PROVE  TypeOK'
  <2>1. Delivery(c) /\ AutoIsolate(c, critical) /\ UNCHANGED <<calls, nextRecord, now>>
    BY <1>17 DEF StoreMessageTorn, CountTorn
  <2>2. /\ CallsTyped' /\ isolations' \in [Nodes -> SUBSET Nodes]
        /\ calls[c].to \in Nodes
    BY <2>1, AnswerTyped, Isolated, Delivered DEF Replies
  <2>3. CASE StoreMessageTorn(c, critical)
    <3>1. /\ messages' = [messages EXCEPT ![calls[c].to] = {}]
          /\ lost' = lost \cup messages[calls[c].to]
          /\ CrashOf(calls[c].to) /\ UNCHANGED <<relationships, orphaned>>
      BY <2>3 DEF StoreMessageTorn
    <3>2. QED
      BY <2>1, <2>2, <3>1, Delivered, Crashed DEF TypeOK
  <2>4. CASE CountTorn(c, critical)
    <3>1. StoreMessage(c) /\ TearRelationships(calls[c].to)
      BY <2>4 DEF CountTorn
    <3>2. messages' \in [Nodes -> SUBSET CallIds] /\ lost' \subseteq CallIds
      BY <1>9, <2>1, <3>1
    <3>3. RecordsTyped'
      BY <2>1, <2>2, <3>1, <3>2, RecordsStep
    <3>4. QED
      BY <2>1, <2>2, <3>1, <3>2, <3>3, Delivered, Torn DEF TypeOK
  <2>5. QED
    BY <1>17, <2>3, <2>4
<1>18. QED
  BY <1>1, <1>2, <1>16, <1>17, <1>4, <1>5, <1>6, <1>7, <1>8, <1>10, <1>11, <1>12, <1>13, <1>14,
     <1>15, Zenon DEF Next

\* The state keeps its types: a call that was sent has two nodes as its ends, and no
\* relationship record exists before it is created (client.ts, messages-core.ts,
\* relationships-core.ts).
THEOREM TypeCorrect == Spec => []TypeOK
BY TypeInit, TypeStep, PTL DEF Spec

(***************************************************************************)
(* What every step leaves alone: a call, once sent, keeps its kind and its *)
(* ends; a record, once made, keeps its pair and its status; what is       *)
(* stored stays.                                                           *)
(***************************************************************************)
LEMMA CallsKept ==
  ASSUME TypeOK, [Next]_vars, NEW b \in CallIds, calls[b].kind # "none"
  PROVE  calls'[b].kind = calls[b].kind /\ calls'[b].from = calls[b].from /\ calls'[b].to = calls[b].to
<1> DEFINE Kept == /\ calls'[b].kind = calls[b].kind
                   /\ calls'[b].from = calls[b].from
                   /\ calls'[b].to = calls[b].to
<1>1. ASSUME NEW c \in CallIds, NEW reply \in Replies, Answer(c, reply) PROVE Kept
  BY <1>1, Answered
<1>2. ASSUME NEW c \in CallIds, NEW from \in Nodes, NEW to \in Nodes, NEW kind \in Kinds,
             Send(c, from, to, kind)
      PROVE  Kept
  BY <1>2 DEF Send, TypeOK
<1>3. ASSUME NEW c \in CallIds, CallFails(c) PROVE Kept
  BY <1>3 DEF CallFails, TypeOK, Call
<1>4. ASSUME NEW c \in CallIds, RequestNew(c) \/ RequestKnown(c) \/ Refuse(c) PROVE Kept
  <2>1. \E reply \in Replies : Answer(c, reply)
    BY <1>4 DEF RequestNew, RequestKnown, Refuse, Replies
  <2>2. QED
    BY <1>1, <2>1
<1>5. ASSUME NEW c \in CallIds, NEW critical \in BOOLEAN, Reject(c, critical) \/ Accept(c, critical)
      PROVE  Kept
  <2>1. \E reply \in Replies : Answer(c, reply)
    BY <1>5 DEF Reject, Accept, Replies
  <2>2. QED
    BY <1>1, <2>1
<1>8. ASSUME NEW c \in CallIds, \/ StoreRequestCrash(c) \/ StoreIsolationCrash(c)
                                \/ StoreRequestTorn(c) \/ StoreIsolationTorn(c)
      PROVE  Kept
  BY <1>8 DEF StoreRequestCrash, StoreIsolationCrash, StoreRequestTorn, StoreIsolationTorn
<1>13. ASSUME NEW c \in CallIds, NEW critical \in BOOLEAN,
              StoreMessageTorn(c, critical) \/ CountTorn(c, critical)
       PROVE  Kept
  BY <1>13 DEF StoreMessageTorn, CountTorn
<1>9. ASSUME NEW c \in CallIds, NEW critical \in BOOLEAN, NEW counted \in BOOLEAN,
             StoreMessageCrash(c, critical, counted)
      PROVE  Kept
  BY <1>9 DEF StoreMessageCrash
<1>10. ASSUME NEW n \in Nodes, Restart(n) PROVE Kept
  BY <1>10 DEF Restart
<1>11. ASSUME NEW n \in Nodes, NEW m \in Nodes, Release(n, m) PROVE Kept
  BY <1>11 DEF Release
<1>12. ASSUME Tick \/ UNCHANGED vars PROVE Kept
  BY <1>12 DEF Tick, vars
<1> HIDE DEF Kept
<1>6. Kept
  BY <1>2, <1>3, <1>4, <1>5, <1>8, <1>9, <1>10, <1>11, <1>12, <1>13, Zenon DEF Next
<1>7. QED
  BY <1>6 DEF Kept

\* What a step makes of the stores: a first record, a stored message with or
\* without its count, a torn file, or nothing.
CreatesFirst(c, new) ==
  Created(c, new) /\ RecordsOf(calls[c].to, calls[c].from) = {} /\ UNCHANGED <<messages, history>>
Stores(c) ==
  /\ Delivery(c) /\ Permitted(c) /\ StoreMessage(c)
  /\ \/ CountInteraction(c)
     \/ UNCHANGED <<relationships, orphaned>> /\ crashes' = crashes + 1
Tears(n) ==
  /\ TearRelationships(n)
  /\ \/ UNCHANGED <<messages, lost>>
     \/ \E c \in CallIds : calls[c].to = n /\ Delivery(c) /\ StoreMessage(c)
TearsMessages(n) ==
  /\ messages' = [messages EXCEPT ![n] = {}]
  /\ lost' = lost \cup messages[n]
  /\ UNCHANGED <<relationships, orphaned>>

LEMMA StepOfStores ==
  ASSUME TypeOK, [Next]_vars
  PROVE  /\ crashes' = crashes \/ crashes' = crashes + 1
         /\ deliveries' = deliveries \/ deliveries' = deliveries + 1
         /\ \/ \E c \in CallIds, new \in Record : CreatesFirst(c, new)
            \/ \E c \in CallIds : Stores(c)
            \/ \E n \in Nodes : Tears(n) \/ TearsMessages(n)
            \/ UNCHANGED <<messages, relationships, history>>
<1> DEFINE C == /\ crashes' = crashes \/ crashes' = crashes + 1
                /\ deliveries' = deliveries \/ deliveries' = deliveries + 1
           P == \/ \E c \in CallIds, new \in Record : CreatesFirst(c, new)
                \/ \E c \in CallIds : Stores(c)
                \/ \E n \in Nodes : Tears(n) \/ TearsMessages(n)
                \/ UNCHANGED <<messages, relationships, history>>
<1>1. ASSUME NEW c \in CallIds, RequestNew(c) \/ StoreRequestCrash(c) PROVE C /\ P
  <2>1. UNCHANGED <<messages, history>> /\ C
    BY <1>1 DEF RequestNew, StoreRequestCrash, CrashOf, Delivery
  <2>2. \E new \in Record : CreatesFirst(c, new)
    BY <1>1, <2>1, NewRecord DEF CreatesFirst
  <2> QED BY <2>1, <2>2
<1>2. ASSUME NEW c \in CallIds, NEW critical \in BOOLEAN, Accept(c, critical) PROVE C /\ P
  BY <1>2 DEF Accept, Stores, Delivery
<1>3. ASSUME NEW c \in CallIds, NEW critical \in BOOLEAN, NEW counted \in BOOLEAN,
             StoreMessageCrash(c, critical, counted)
      PROVE  C /\ P
  BY <1>3 DEF StoreMessageCrash, CrashOf, Stores, Delivery
<1>4. ASSUME NEW c \in CallIds,
             \/ CallFails(c) \/ RequestKnown(c) \/ Refuse(c)
             \/ StoreIsolationCrash(c) \/ StoreIsolationTorn(c)
      PROVE  C /\ P
  BY <1>4
     DEF CallFails, RequestKnown, Refuse, StoreIsolationCrash, StoreIsolationTorn, CrashOf,
         Delivery
<1>5. ASSUME NEW c \in CallIds, NEW critical \in BOOLEAN, Reject(c, critical) PROVE C /\ P
  BY <1>5 DEF Reject, Delivery
<1>6. ASSUME NEW c \in CallIds, NEW from \in Nodes, NEW to \in Nodes, NEW kind \in Kinds,
             Send(c, from, to, kind)
      PROVE  C /\ P
  BY <1>6 DEF Send
<1>7. ASSUME NEW n \in Nodes, Restart(n) PROVE C /\ P
  BY <1>7 DEF Restart, CrashOf
<1>8. ASSUME NEW n \in Nodes, NEW m \in Nodes, Release(n, m) PROVE C /\ P
  BY <1>8 DEF Release
<1>9. ASSUME Tick \/ UNCHANGED vars PROVE C /\ P
  BY <1>9 DEF Tick, vars
<1>10. ASSUME NEW c \in CallIds, StoreRequestTorn(c) PROVE C /\ P
  <2>1. calls[c].to \in Nodes /\ Tears(calls[c].to)
    BY <1>10, Delivered DEF StoreRequestTorn, Tears
  <2> QED BY <1>10, <2>1 DEF StoreRequestTorn, TearRelationships, CrashOf, Delivery
<1>11. ASSUME NEW c \in CallIds, NEW critical \in BOOLEAN, StoreMessageTorn(c, critical)
       PROVE  C /\ P
  <2>1. calls[c].to \in Nodes /\ TearsMessages(calls[c].to)
    BY <1>11, Delivered DEF StoreMessageTorn, TearsMessages
  <2> QED BY <1>11, <2>1 DEF StoreMessageTorn, CrashOf, Delivery
<1>12. ASSUME NEW c \in CallIds, NEW critical \in BOOLEAN, CountTorn(c, critical) PROVE C /\ P
  <2>1. calls[c].to \in Nodes /\ Tears(calls[c].to)
    BY <1>12, Delivered DEF CountTorn, Tears
  <2> QED BY <1>12, <2>1 DEF CountTorn, TearRelationships, CrashOf, Delivery
<1> HIDE DEF C, P
<1>13. C /\ P
  BY <1>1, <1>2, <1>3, <1>4, <1>5, <1>6, <1>7, <1>8, <1>9, <1>10, <1>11, <1>12, Zenon DEF Next
<1> QED BY <1>13 DEF C, P

\* A torn relationships.json leaves the other nodes' records as they are.
LEMMA Emptied ==
  ASSUME TypeOK, NEW n \in Nodes, Tears(n)
  PROVE  /\ orphaned' = orphaned \cup messages'[n]
         /\ \A r \in RecordIds : relationships'[r] =
              IF relationships[r].at = n THEN NoRecord ELSE relationships[r]
<1>1. messages' \in [Nodes -> SUBSET CallIds]
  BY DEF Tears, StoreMessage, TypeOK
<1> QED BY <1>1, Torn DEF Tears

(***************************************************************************)
(* Repeated and crossing requests leave one record per pair.               *)
(***************************************************************************)
LEMMA OneRelationshipStep == TypeOK /\ OneRelationship /\ [Next]_vars => OneRelationship'
<1> SUFFICES ASSUME TypeOK, OneRelationship, [Next]_vars PROVE OneRelationship'
  OBVIOUS
<1>1. ASSUME NEW c \in CallIds, NEW new \in Record, Created(c, new),
             RecordsOf(calls[c].to, calls[c].from) = {}
      PROVE  OneRelationship'
  <2>1. \A r \in RecordIds : relationships'[r] = IF r = nextRecord THEN new ELSE relationships[r]
    BY <1>1 DEF Created, TypeOK
  <2>2. SUFFICES ASSUME NEW n \in Nodes, NEW m \in Nodes,
                        NEW r \in RecordsOf(n, m)', NEW s \in RecordsOf(n, m)'
                 PROVE  r = s
    BY DEF OneRelationship
  <2>3. CASE n = calls[c].to /\ m = calls[c].from
    BY <1>1, <2>1, <2>3 DEF RecordsOf
  <2>4. CASE ~(n = calls[c].to /\ m = calls[c].from)
    <3>1. r # nextRecord /\ s # nextRecord
      BY <1>1, <2>1, <2>4 DEF RecordsOf, Created
    <3>2. r \in RecordsOf(n, m) /\ s \in RecordsOf(n, m)
      BY <2>1, <3>1 DEF RecordsOf
    <3>3. QED
      BY <3>2 DEF OneRelationship
  <2>5. QED
    BY <2>3, <2>4
<1>2. ASSUME \A r \in RecordIds : /\ relationships'[r].at = relationships[r].at
                                /\ relationships'[r].peer = relationships[r].peer
      PROVE  OneRelationship'
  BY <1>2 DEF OneRelationship, RecordsOf
<1>3. ASSUME NEW n \in Nodes, Tears(n) PROVE OneRelationship'
  <2>1. \A k, m \in Nodes : RecordsOf(k, m)' \subseteq RecordsOf(k, m)
    BY <1>3, Emptied, MessagingAssumption DEF RecordsOf, NoRecord, MessagingAssumption
  <2> QED BY <2>1 DEF OneRelationship
<1>4. ASSUME NEW c \in CallIds, Stores(c) PROVE OneRelationship'
  BY <1>2, <1>4, Counted DEF Stores
<1>5. QED
  BY <1>1, <1>2, <1>3, <1>4, StepOfStores DEF CreatesFirst, TearsMessages

\* However often requests repeat and cross, a store has one record per peer
\* (ALREADY_EXISTS in relationships-core.ts).
THEOREM SingleRelationship == Spec => []OneRelationship
<1>1. Init => OneRelationship
  BY MessagingAssumption DEF Init, OneRelationship, RecordsOf, NoRecord, MessagingAssumption
<1>2. QED
  BY <1>1, TypeInit, TypeStep, OneRelationshipStep, PTL DEF Spec

(***************************************************************************)
(* What is stored was sent to the node that stores it, and a conversation  *)
(* under an active relationship, which ends only with its file.            *)
(***************************************************************************)
Stored ==
  \A n \in Nodes : \A c \in messages[n] :
    /\ calls[c].kind # "none"
    /\ calls[c].to = n
    /\ \A m \in Nodes : calls[c].kind = "conversation" /\ calls[c].from = m =>
                          ActiveRecords(n, m) # {} \/ c \in orphaned

LEMMA ActiveKept ==
  ASSUME TypeOK, [Next]_vars, NEW n \in Nodes, NEW m \in Nodes
  PROVE  Tears(n) \/ ActiveRecords(n, m) \subseteq ActiveRecords(n, m)'
<1> DEFINE Kept == ActiveRecords(n, m) \subseteq ActiveRecords(n, m)'
<1>1. ASSUME NEW c \in CallIds, NEW new \in Record, Created(c, new) PROVE Kept
  <2>1. \A r \in RecordIds : r # nextRecord => relationships'[r] = relationships[r]
    BY <1>1 DEF Created, TypeOK
  <2>2. relationships[nextRecord].status = "none"
    BY <1>1 DEF Created, TypeOK, NoRecord
  <2>3. QED
    BY <2>1, <2>2 DEF ActiveRecords, RecordsOf
<1>2. ASSUME NEW c \in CallIds, Stores(c) PROVE Kept
  BY <1>2, Counted DEF Stores, ActiveRecords, RecordsOf
<1>3. ASSUME NEW k \in Nodes, Tears(k), k # n PROVE Kept
  BY <1>3, Emptied DEF ActiveRecords, RecordsOf
<1>4. ASSUME relationships' = relationships PROVE Kept
  BY <1>4 DEF ActiveRecords, RecordsOf
<1>5. QED
  BY <1>1, <1>2, <1>3, <1>4, StepOfStores DEF CreatesFirst, TearsMessages

LEMMA StoredStep == TypeOK /\ Stored /\ [Next]_vars => Stored'
<1> SUFFICES ASSUME TypeOK, Stored, [Next]_vars, NEW n \in Nodes, NEW c \in messages'[n]
             PROVE  /\ calls'[c].kind # "none" /\ calls'[c].to = n
                    /\ \A m \in Nodes : calls'[c].kind = "conversation" /\ calls'[c].from = m =>
                                          ActiveRecords(n, m)' # {} \/ c \in orphaned'
  BY DEF Stored
<1>1. \/ c \in messages[n]
      \/ c \in CallIds /\ calls[c].to = n /\ (Stores(c) \/ (Tears(n) /\ Delivery(c)))
  BY StepOfStores
     DEF CreatesFirst, Stores, Tears, TearsMessages, StoreMessage, TypeOK
<1>2. c \in CallIds /\ calls[c].kind # "none" /\ calls[c].to = n
  BY <1>1, Delivered DEF Stored, TypeOK, Stores
<1>3. calls'[c].kind = calls[c].kind /\ calls'[c].from = calls[c].from /\ calls'[c].to = calls[c].to
  BY <1>2, CallsKept
<1>4. CASE Tears(n)
  BY <1>2, <1>3, <1>4, Emptied
<1>5. CASE ~Tears(n)
  <2> SUFFICES ASSUME NEW m \in Nodes, calls[c].kind = "conversation", calls[c].from = m,
                      c \notin orphaned'
               PROVE  ActiveRecords(n, m)' # {}
    BY <1>2, <1>3
  <2>1. CASE Stores(c)
    <3>1. ActiveRecords(n, m) # {}
      BY <1>2, <2>1 DEF Stores, Permitted
    <3> QED BY <1>5, <3>1, ActiveKept
  <2>2. CASE ~Stores(c)
    <3>1. c \in messages[n]
      BY <1>1, <1>5, <2>2
    <3>2. c \notin orphaned
      BY <2>2, StepOfStores, Emptied, Counted
         DEF CreatesFirst, Stores, TearsMessages, history
    <3> QED BY <1>5, <3>1, <3>2, ActiveKept DEF Stored
  <2> QED BY <2>1, <2>2
<1> QED BY <1>4, <1>5

\* No conversation is stored without an active relationship with its sender, in
\* whatever order requests and messages arrive, repeat and are cut by a crash, but
\* for those whose relationships.json a crash tore after they were last counted
\* (messages-core.ts checks the relationship that relationships-core.ts stores).
THEOREM ConversationsConsented == Spec => []ConversationsNeedConsent
<1>1. Init => Stored
  BY DEF Init, Stored
<1>2. TypeOK /\ Stored => ConversationsNeedConsent
  BY DEF TypeOK, Stored, ConversationsNeedConsent
<1>3. QED
  BY <1>1, <1>2, TypeInit, TypeStep, StoredStep, PTL DEF Spec

(***************************************************************************)
(* The ack.  An answer is "received" only in the step that stores the      *)
(* message; a new call waits, and only a torn file takes what is stored.   *)
(***************************************************************************)
Acked ==
  \A c \in CallIds : calls[c].reply = "received" =>
    calls[c].kind # "none" /\ c \in messages[calls[c].to] \cup lost

LEMMA ReceivedByAccept ==
  ASSUME TypeOK, [Next]_vars, NEW b \in CallIds, calls'[b].reply = "received"
  PROVE  \/ calls[b].reply = "received"
         \/ \E critical \in BOOLEAN : Accept(b, critical)
<1> DEFINE Goal == \/ calls[b].reply = "received"
                   \/ \E critical \in BOOLEAN : Accept(b, critical)
<1>1. ASSUME NEW c \in CallIds, NEW reply \in Replies, reply # "received", Answer(c, reply)
      PROVE  calls[b].reply = "received"
  BY <1>1, Answered
<1>2. ASSUME NEW c \in CallIds, NEW from \in Nodes, NEW to \in Nodes, NEW kind \in Kinds,
             Send(c, from, to, kind)
      PROVE  Goal
  BY <1>2 DEF Send, TypeOK
<1>3. ASSUME NEW c \in CallIds, CallFails(c) PROVE Goal
  BY <1>3 DEF CallFails, TypeOK, Call
<1>4. ASSUME NEW c \in CallIds, RequestNew(c) \/ RequestKnown(c) \/ Refuse(c) PROVE Goal
  <2>1. \E reply \in Replies : reply # "received" /\ Answer(c, reply)
    BY <1>4 DEF RequestNew, RequestKnown, Refuse, Replies
  <2>2. QED
    BY <1>1, <2>1
<1>5. ASSUME NEW c \in CallIds, NEW critical \in BOOLEAN, Reject(c, critical) PROVE Goal
  <2>1. "rejected" \in Replies /\ Answer(c, "rejected")
    BY <1>5 DEF Reject, Replies
  <2>2. QED
    BY <1>1, <2>1
<1>6. ASSUME NEW c \in CallIds, NEW critical \in BOOLEAN, Accept(c, critical) PROVE Goal
  <2>1. CASE b = c
    BY <1>6, <2>1
  <2>2. CASE b # c
    <3>1. "received" \in Replies /\ Answer(c, "received")
      BY <1>6 DEF Accept, Replies
    <3>2. calls'[b].reply = calls[b].reply
      BY <2>2, <3>1, Answered
    <3>3. QED
      BY <3>2
  <2>3. QED
    BY <2>1, <2>2
<1>7. ASSUME NEW c \in CallIds, \/ StoreRequestCrash(c) \/ StoreIsolationCrash(c)
                                \/ StoreRequestTorn(c) \/ StoreIsolationTorn(c)
      PROVE  Goal
  BY <1>7 DEF StoreRequestCrash, StoreIsolationCrash, StoreRequestTorn, StoreIsolationTorn
<1>8. ASSUME NEW c \in CallIds, NEW critical \in BOOLEAN, NEW counted \in BOOLEAN,
             StoreMessageCrash(c, critical, counted)
      PROVE  Goal
  BY <1>8 DEF StoreMessageCrash
<1>14. ASSUME NEW c \in CallIds, NEW critical \in BOOLEAN,
              StoreMessageTorn(c, critical) \/ CountTorn(c, critical)
       PROVE  Goal
  BY <1>14 DEF StoreMessageTorn, CountTorn
<1>9. ASSUME NEW n \in Nodes, Restart(n) PROVE Goal
  BY <1>9 DEF Restart
<1>10. ASSUME NEW n \in Nodes, NEW m \in Nodes, Release(n, m) PROVE Goal
  BY <1>10 DEF Release
<1>11. ASSUME Tick \/ UNCHANGED vars PROVE Goal
  BY <1>11 DEF Tick, vars
<1> HIDE DEF Goal
<1>12. Goal
  BY <1>2, <1>3, <1>4, <1>5, <1>6, <1>7, <1>8, <1>9, <1>10, <1>11, <1>14, Zenon DEF Next
<1>13. QED
  BY <1>12 DEF Goal

LEMMA AckedStep == TypeOK /\ Acked /\ [Next]_vars => Acked'
<1> SUFFICES ASSUME TypeOK, Acked, [Next]_vars,
                    NEW c \in CallIds, calls'[c].reply = "received"
             PROVE  calls'[c].kind # "none" /\ c \in messages'[calls'[c].to] \cup lost'
  BY DEF Acked
<1>1. CASE calls[c].reply = "received"
  <2>1. /\ calls[c].kind # "none" /\ calls[c].to \in Nodes
        /\ c \in messages[calls[c].to] \cup lost
    BY <1>1 DEF Acked, TypeOK
  <2>2. calls'[c].kind = calls[c].kind /\ calls'[c].to = calls[c].to
    BY <2>1, CallsKept
  <2>3. PICK n : n = calls[c].to
    OBVIOUS
  <2>4. ASSUME NEW b \in CallIds, calls[b].to \in Nodes, StoreMessage(b)
        PROVE  c \in messages'[n] \cup lost'
    BY <2>1, <2>3, <2>4 DEF StoreMessage, TypeOK
  <2>5. ASSUME NEW b \in CallIds, Delivery(b), StoreMessage(b)
        PROVE  c \in messages'[n] \cup lost'
    BY <2>4, <2>5, Delivered
  <2>6. ASSUME NEW k \in Nodes, TearsMessages(k)
        PROVE  c \in messages'[n] \cup lost'
    BY <2>1, <2>3, <2>6 DEF TearsMessages, TypeOK
  <2>7. ASSUME UNCHANGED <<messages, lost>> PROVE c \in messages'[n] \cup lost'
    BY <2>1, <2>3, <2>7
  <2>8. c \in messages'[n] \cup lost'
    BY <2>5, <2>6, <2>7, StepOfStores DEF CreatesFirst, Stores, Tears, history
  <2>9. QED
    BY <2>1, <2>2, <2>3, <2>8
<1>2. ASSUME NEW critical \in BOOLEAN, Accept(c, critical)
      PROVE  calls'[c].kind # "none" /\ c \in messages'[calls'[c].to]
  <2>1. Delivery(c) /\ StoreMessage(c)
    BY <1>2 DEF Accept
  <2>2. calls[c].kind # "none" /\ calls[c].to \in Nodes
    BY <2>1, Delivered
  <2>3. calls'[c].kind = calls[c].kind /\ calls'[c].to = calls[c].to
    BY <2>2, CallsKept
  <2>4. c \in messages'[calls[c].to]
    BY <2>1, <2>2 DEF StoreMessage, TypeOK
  <2>5. QED
    BY <2>2, <2>3, <2>4
<1>3. QED
  BY <1>1, <1>2, ReceivedByAccept

\* A message acknowledged as received is in the recipient's store, whatever is
\* repeated or crashes afterwards, until a crash within a write of messages.json
\* takes it, and again when it is stored again (messages-core.ts stores first;
\* json-store.ts reads a torn file as an empty one).
THEOREM AcksAreKept == Spec => []AckedMeansStored
<1>1. Init => Acked
  BY DEF Init, Acked, NoCall
<1>2. Acked => AckedMeansStored
  BY DEF Acked, AckedMeansStored
<1>3. QED
  BY <1>1, <1>2, TypeInit, TypeStep, AckedStep, PTL DEF Spec

(***************************************************************************)
(* The interactions.  The count of a record covers the conversations       *)
(* stored from its peer, but for one per crash and the orphaned ones;      *)
(* before there is a record there are no others to cover.                  *)
(***************************************************************************)
Conversations(n, m) ==
  {c \in messages[n] \ orphaned : calls[c].kind = "conversation" /\ calls[c].from = m}

LEMMA ConversationsFinite ==
  ASSUME NEW S \in SUBSET CallIds
  PROVE  IsFiniteSet(S) /\ Cardinality(S) \in Nat
BY MessagingAssumption, FS_Subset, FS_CardinalityType DEF MessagingAssumption

\* Only a stored message adds a conversation, and only its own.
LEMMA ConversationsStep ==
  ASSUME TypeOK, Stored, [Next]_vars, NEW n \in Nodes, NEW m \in Nodes, ~Tears(n)
  PROVE  /\ Conversations(n, m) \in SUBSET CallIds
         /\ \/ Conversations(n, m)' \subseteq Conversations(n, m)
            \/ \E c \in CallIds : /\ Stores(c) /\ calls[c].to = n /\ calls[c].from = m
                                  /\ Conversations(n, m)' \subseteq Conversations(n, m) \cup {c}
<1>1. \A b \in messages[n] : b \in CallIds /\ calls[b].kind # "none" /\ calls[b].to = n
  BY DEF Stored, TypeOK
<1>2. ASSUME NEW b \in CallIds, calls[b].kind # "none"
      PROVE  calls'[b].kind = calls[b].kind /\ calls'[b].from = calls[b].from
  BY <1>2, CallsKept
<1>3. ASSUME messages'[n] \subseteq messages[n], orphaned \subseteq orphaned'
      PROVE  Conversations(n, m)' \subseteq Conversations(n, m)
  BY <1>1, <1>2, <1>3 DEF Conversations
<1>4. ASSUME NEW c \in CallIds, Stores(c), NEW b \in Conversations(n, m)'
      PROVE  b \in Conversations(n, m) \/ (b = c /\ calls[c].to = n /\ calls[c].from = m)
  <2>1. /\ calls[c].kind # "none" /\ StoreMessage(c)
        /\ orphaned' = orphaned \/ orphaned' = orphaned \ {c}
    BY <1>4, Delivered, Counted DEF Stores
  <2>2. /\ b \in messages'[n] /\ b \notin orphaned'
        /\ calls'[b].kind = "conversation" /\ calls'[b].from = m
    BY <1>4 DEF Conversations
  <2>3. b \in messages[n] \/ (b = c /\ calls[c].to = n)
    BY <2>1, <2>2 DEF StoreMessage, TypeOK
  <2>4. /\ b \in CallIds
        /\ calls'[b].kind = calls[b].kind /\ calls'[b].from = calls[b].from
    BY <1>1, <1>2, <2>1, <2>3
  <2>5. CASE b = c
    BY <1>1, <2>2, <2>3, <2>4, <2>5
  <2>6. CASE b # c
    BY <2>1, <2>2, <2>3, <2>4, <2>6 DEF Conversations
  <2> QED BY <2>5, <2>6
<1>5. Conversations(n, m) \in SUBSET CallIds
  BY <1>1 DEF Conversations
<1>6. ASSUME NEW c \in CallIds, Stores(c)
      PROVE  \/ Conversations(n, m)' \subseteq Conversations(n, m)
             \/ /\ Stores(c) /\ calls[c].to = n /\ calls[c].from = m
                /\ Conversations(n, m)' \subseteq Conversations(n, m) \cup {c}
  BY <1>4, <1>6
<1>7. ASSUME NEW k \in Nodes, Tears(k) PROVE Conversations(n, m)' \subseteq Conversations(n, m)
  <2>1. messages'[n] = messages[n]
    BY <1>7 DEF Tears, StoreMessage, TypeOK
  <2> QED BY <1>3, <1>7, <2>1, Emptied
<1>8. ASSUME NEW k \in Nodes, TearsMessages(k)
      PROVE  Conversations(n, m)' \subseteq Conversations(n, m)
  BY <1>3, <1>8 DEF TearsMessages, TypeOK
<1>9. ASSUME UNCHANGED <<messages, orphaned>>
      PROVE  Conversations(n, m)' \subseteq Conversations(n, m)
  BY <1>3, <1>9
<1> QED BY <1>5, <1>6, <1>7, <1>8, <1>9, StepOfStores DEF CreatesFirst, history

\* The count of a record that stays active at a node whose file is not torn: it
\* grows with each message stored from its peer, unless a crash comes first.
LEMMA CountsStep ==
  ASSUME TypeOK, [Next]_vars, NEW n \in Nodes, NEW m \in Nodes, ~Tears(n),
         NEW r \in ActiveRecords(n, m)
  PROVE  /\ \/ relationships'[r].interactionCount = relationships[r].interactionCount
            \/ /\ relationships'[r].interactionCount = relationships[r].interactionCount + 1
               /\ deliveries' = deliveries + 1
         /\ \A c \in CallIds : Stores(c) /\ calls[c].to = n /\ calls[c].from = m =>
              \/ relationships'[r].interactionCount = relationships[r].interactionCount + 1
              \/ /\ relationships'[r].interactionCount = relationships[r].interactionCount
                 /\ crashes' = crashes + 1
<1>1. /\ r \in RecordIds /\ relationships[r].at = n /\ relationships[r].peer = m
      /\ relationships[r] \in Record /\ relationships[r].status = "active"
  BY DEF ActiveRecords, RecordsOf, TypeOK
<1>2. ASSUME NEW c \in CallIds, CountInteraction(c)
      PROVE  relationships'[r].interactionCount =
               IF calls[c].to = n /\ calls[c].from = m
               THEN relationships[r].interactionCount + 1 ELSE relationships[r].interactionCount
  <2>1. r \in ActiveRecords(calls[c].to, calls[c].from) <=> calls[c].to = n /\ calls[c].from = m
    BY <1>1 DEF ActiveRecords, RecordsOf
  <2> QED BY <1>1, <1>2, <2>1 DEF CountInteraction, Record
<1>3. ASSUME NEW c \in CallIds, Stores(c)
      PROVE  /\ deliveries' = deliveries + 1
             /\ CountInteraction(c) \/ (relationships' = relationships /\ crashes' = crashes + 1)
  BY <1>3 DEF Stores, Delivery
<1>4. ASSUME NEW c \in CallIds, NEW new \in Record, CreatesFirst(c, new)
      PROVE  relationships'[r] = relationships[r]
  BY <1>1, <1>4 DEF CreatesFirst, Created, TypeOK, NoRecord
<1>5. ASSUME NEW k \in Nodes, Tears(k) PROVE relationships'[r] = relationships[r]
  BY <1>1, <1>5, Emptied
<1>6. \/ \E c \in CallIds : Stores(c)
      \/ relationships'[r] = relationships[r]
  BY <1>4, <1>5, StepOfStores DEF TearsMessages
<1> QED BY <1>2, <1>3, <1>6

LEMMA InteractionsStep ==
  TypeOK /\ Stored /\ InteractionsCounted /\ [Next]_vars => InteractionsCounted'
<1> SUFFICES ASSUME TypeOK, Stored, InteractionsCounted, [Next]_vars,
                    NEW n \in Nodes, NEW m \in Nodes, NEW r \in ActiveRecords(n, m)'
             PROVE  /\ Cardinality(Conversations(n, m)') <= relationships'[r].interactionCount + crashes'
                    /\ relationships'[r].interactionCount <= deliveries'
  BY DEF InteractionsCounted, Conversations
<1>1. /\ r \in RecordIds /\ relationships'[r].at = n /\ relationships'[r].peer = m
      /\ relationships'[r].status = "active"
  BY DEF ActiveRecords, RecordsOf
<1>2. ~Tears(n)
  BY <1>1, Emptied, MessagingAssumption DEF NoRecord, MessagingAssumption
<1>3. PICK o : o = Conversations(n, m)
  OBVIOUS
<1>4. PICK p : p = Conversations(n, m)'
  OBVIOUS
<1>5. /\ o \in SUBSET CallIds
      /\ \/ p \subseteq o
         \/ \E c \in CallIds : /\ Stores(c) /\ calls[c].to = n /\ calls[c].from = m
                               /\ p \subseteq o \cup {c}
  BY <1>2, <1>3, <1>4, ConversationsStep
<1>6. IsFiniteSet(o) /\ Cardinality(o) \in Nat
  BY <1>5, ConversationsFinite
<1>7. /\ crashes \in Nat /\ (crashes' = crashes \/ crashes' = crashes + 1)
      /\ deliveries \in Nat /\ (deliveries' = deliveries \/ deliveries' = deliveries + 1)
  BY StepOfStores, MessagingAssumption DEF TypeOK, MessagingAssumption
<1>8. PICK l : l = relationships'[r].interactionCount
  OBVIOUS
<1>9. CASE r \in ActiveRecords(n, m)
  <2>1. PICK k : k = relationships[r].interactionCount
    OBVIOUS
  <2>2. k \in Nat /\ Cardinality(o) <= k + crashes /\ k <= deliveries
    BY <1>1, <1>3, <1>9, <2>1 DEF InteractionsCounted, Conversations, TypeOK, Record
  <2>3. l = k \/ (l = k + 1 /\ deliveries' = deliveries + 1)
    BY <1>2, <1>8, <1>9, <2>1, CountsStep
  <2>4. CASE p \subseteq o
    <3>1. Cardinality(p) \in Nat /\ Cardinality(p) <= Cardinality(o)
      BY <1>6, <2>4, FS_Subset, FS_CardinalityType
    <3> QED BY <1>4, <1>6, <1>7, <1>8, <2>2, <2>3, <3>1
  <2>5. ASSUME NEW c \in CallIds, Stores(c), calls[c].to = n, calls[c].from = m,
               p \subseteq o \cup {c}
        PROVE  Cardinality(p) <= l + crashes' /\ l <= deliveries'
    <3>1. l = k + 1 \/ (l = k /\ crashes' = crashes + 1)
      BY <1>2, <1>8, <1>9, <2>1, <2>5, CountsStep
    <3>2. IsFiniteSet(o \cup {c}) /\ Cardinality(o \cup {c}) \in {Cardinality(o), Cardinality(o) + 1}
      BY <1>6, FS_AddElement
    <3>3. Cardinality(p) \in Nat /\ Cardinality(p) <= Cardinality(o \cup {c})
      BY <2>5, <3>2, FS_Subset, FS_CardinalityType
    <3>4. PICK q : q = Cardinality(o \cup {c})
      OBVIOUS
    <3>5. Cardinality(p) <= Cardinality(o) + 1
      BY <1>6, <3>2, <3>3, <3>4
    <3> QED BY <1>6, <1>7, <2>2, <2>3, <3>1, <3>3, <3>5
  <2> QED BY <1>4, <1>5, <1>8, <2>4, <2>5
<1>10. CASE r \notin ActiveRecords(n, m)
  <2>1. ASSUME NEW c \in CallIds, Stores(c) PROVE FALSE
    BY <1>1, <1>10, <2>1, Counted DEF Stores, ActiveRecords, RecordsOf
  <2>2. ASSUME NEW k \in Nodes, Tears(k) PROVE FALSE
    BY <1>1, <1>10, <2>2, Emptied DEF ActiveRecords, RecordsOf, NoRecord
  <2>3. PICK c \in CallIds, new \in Record : CreatesFirst(c, new)
    BY <1>1, <1>10, <2>1, <2>2, StepOfStores DEF TearsMessages, ActiveRecords, RecordsOf
  <2>4. r = nextRecord
    BY <1>1, <1>10, <2>3 DEF CreatesFirst, Created, TypeOK, ActiveRecords, RecordsOf
  <2>6. /\ relationships'[r] = new /\ new \in Record
        /\ new.at = calls[c].to /\ new.peer = calls[c].from /\ new.interactionCount = 0
    BY <1>1, <2>3, <2>4 DEF CreatesFirst, Created, TypeOK
  <2>7. n = calls[c].to /\ m = calls[c].from
    BY <1>1, <2>6
  <2>8. ActiveRecords(n, m) = {}
    BY <2>3, <2>7 DEF CreatesFirst, ActiveRecords
  <2>9. o = {}
    BY <1>3, <2>8 DEF Conversations, Stored
  <2>10. ~\E b \in CallIds : Stores(b)
    BY <2>1
  <2>11. Cardinality(p) = 0
    BY <1>5, <2>9, <2>10, FS_EmptySet
  <2> QED BY <1>4, <1>7, <2>6, <2>11
<1> QED BY <1>9, <1>10

\* For any nodes, repetitions, losses and crashes: the count behind a trust level
\* covers every stored conversation, but for one per crash between the two writes
\* and those of a torn relationships.json, and counts no more than was delivered
\* (messages-core.ts stores the message, then counts it).
THEOREM TrustIsCounted == Spec => []InteractionsCounted
<1>1. Init => Stored /\ InteractionsCounted
  <2> SUFFICES ASSUME Init PROVE Stored /\ InteractionsCounted
    OBVIOUS
  <2>1. Stored
    BY DEF Init, Stored
  <2>2. \A n, m \in Nodes : ActiveRecords(n, m) = {}
    BY DEF Init, ActiveRecords, RecordsOf, NoRecord
  <2> QED BY <2>1, <2>2 DEF InteractionsCounted
<1>2. TypeOK /\ (Stored /\ InteractionsCounted) /\ [Next]_vars => (Stored /\ InteractionsCounted)'
  BY StoredStep, InteractionsStep
<1>3. QED
  BY <1>1, <1>2, TypeInit, TypeStep, PTL DEF Spec

=============================================================================
