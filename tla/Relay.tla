-------------------------------- MODULE Relay --------------------------------
(***************************************************************************)
(* The relay mailbox: a node stores messages for recipients that are       *)
(* offline and hands them over on request                                  *)
(* (maip-node/src/handlers/relay-core.ts, stores/index.ts purgeExpiredRelay*)
(* and the client in relay.ts).                                            *)
(*                                                                         *)
(* Retrieval purges what has expired, takes the recipient's messages out   *)
(* of the store one file write at a time, and sends them in the response,  *)
(* which the network may lose and a crash may prevent.  Nothing else       *)
(* purges: an expired message stays, and occupies the mailbox, until       *)
(* somebody retrieves.                                                     *)
(***************************************************************************)
EXTENDS Integers, Sequences, FiniteSets

CONSTANTS Recipients,   \* DIDs with a mailbox
          Capacity,     \* MAX_RELAY_PER_DID
          TTL,          \* DEFAULT_TTL_DAYS
          MaxStores,    \* bound: messages ever stored
          MaxFailures,  \* bound: lost responses and crashes
          MaxTime       \* bound: the clock

ASSUME RelayAssumption ==
  /\ Capacity \in Nat \ {0} /\ TTL \in Nat
  /\ MaxStores \in Nat /\ MaxFailures \in Nat /\ MaxTime \in Nat

VARIABLES mailbox,     \* store relay.json: ids are given, and kept, in order of insertion
          nextId,      \* the next unused message id
          expiresAt,   \* the expiry the sender was told, per message id
          received,    \* what the recipients' clients returned, one set per retrieval
          relayNow,    \* Date.now()
          retrieveFailures \* lost responses and crashes so far

relayVars == <<mailbox, nextId, expiresAt, received, relayNow, retrieveFailures>>

Ids == 1..MaxStores
Entry == [id: Ids, to: Recipients]

RelayInit ==
  /\ mailbox = {}
  /\ nextId = 1
  /\ expiresAt = [i \in Ids |-> 0]
  /\ received = [d \in Recipients |-> <<>>]
  /\ relayNow = 0
  /\ retrieveFailures = 0

For(d) == {m \in mailbox : m.to = d}

\* processRelayStore, for a recipient whose mailbox has room.
Store(d) ==
  /\ nextId <= MaxStores
  /\ Cardinality(For(d)) < Capacity
  /\ mailbox' = mailbox \cup {[id |-> nextId, to |-> d]}
  /\ expiresAt' = [expiresAt EXCEPT ![nextId] = relayNow + TTL]
  /\ nextId' = nextId + 1
  /\ UNCHANGED <<received, relayNow, retrieveFailures>>

\* Mutation: a message that expires now is purged.
ExpiredEarly == {m \in mailbox : expiresAt[m.id] <= relayNow}

\* purgeExpiredRelay, over the mailboxes of everybody.
Expired == {m \in mailbox : expiresAt[m.id] < relayNow}
Live(d) == For(d) \ Expired

\* Mutation: the messages handed over stay in the store.
WithoutExpired(taken) == mailbox \ (taken \cap Expired)

\* What is left of the store when the messages in "taken" are removed.
Without(taken) == mailbox \ taken

\* processRelayRetrieve by the recipient, whose client gets the response.
Retrieve(d) ==
  /\ Live(d) # {}
  /\ mailbox' = Without(Expired \cup Live(d))
  /\ received' = [received EXCEPT ![d] = Append(@, {m.id : m \in Live(d)})]
  /\ UNCHANGED <<nextId, expiresAt, relayNow, retrieveFailures>>

\* The same with nothing to hand over.
RetrieveNothing(d) ==
  /\ Live(d) = {}
  /\ mailbox' = Without(Expired)
  /\ UNCHANGED <<nextId, expiresAt, received, relayNow, retrieveFailures>>

\* The response is lost: the client returns an empty list.
RetrieveLost(d) ==
  /\ retrieveFailures < MaxFailures
  /\ mailbox' = Without(Expired \cup Live(d))
  /\ retrieveFailures' = retrieveFailures + 1
  /\ UNCHANGED <<nextId, expiresAt, received, relayNow>>

\* A retrieval removes the expired messages first, each kind as it was inserted.
RemovedBefore(m, n) ==
  IF m \in Expired <=> n \in Expired THEN m.id < n.id ELSE m \in Expired

\* The relay stops when it has removed some of the messages.
RetrieveCrash(d) ==
  /\ retrieveFailures < MaxFailures
  /\ \E gone \in SUBSET (Expired \cup Live(d)) \ {{}} :
       /\ \A m \in gone, n \in (Expired \cup Live(d)) \ gone : RemovedBefore(m, n)
       /\ mailbox' = Without(gone)
  /\ retrieveFailures' = retrieveFailures + 1
  /\ UNCHANGED <<nextId, expiresAt, received, relayNow>>

RelayTick ==
  /\ relayNow < MaxTime
  /\ relayNow' = relayNow + 1
  /\ UNCHANGED <<mailbox, nextId, expiresAt, received, retrieveFailures>>

RelayNext ==
  \/ \E d \in Recipients :
       Store(d) \/ Retrieve(d) \/ RetrieveNothing(d) \/ RetrieveLost(d) \/ RetrieveCrash(d)
  \/ RelayTick

-----------------------------------------------------------------------------
Stored(i) == \E m \in mailbox : m.id = i
Received(i) == \E d \in Recipients : \E j \in DOMAIN received[d] : i \in received[d][j]

RelayTypeOK ==
  /\ mailbox \subseteq Entry
  /\ \A m, n \in mailbox : m.id = n.id => m = n
  /\ nextId \in 1..(MaxStores + 1)
  /\ \A i \in Ids : Stored(i) \/ Received(i) => i < nextId
  /\ expiresAt \in [Ids -> Nat]
  /\ received \in [Recipients -> Seq(SUBSET Ids)]
  /\ relayNow \in 0..MaxTime
  /\ retrieveFailures \in 0..MaxFailures

\* A message is handed over at most once, even if a retrieval is repeated after
\* a lost response or a crash (it is deleted before the response is sent).
AtMostOnce ==
  \A d, e \in Recipients : \A j \in DOMAIN received[d], k \in DOMAIN received[e] :
    received[d][j] \cap received[e][k] # {} => d = e /\ j = k

\* As long as no retrieval fails, a stored message is in the store or with its
\* recipient until it expires.
KeptUntilExpiry ==
  retrieveFailures = 0 => \A i \in 1..(nextId - 1) : Stored(i) \/ Received(i) \/ expiresAt[i] < relayNow

=============================================================================
