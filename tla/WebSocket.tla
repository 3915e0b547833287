------------------------------ MODULE WebSocket ------------------------------
(***************************************************************************)
(* Requests and responses over a WebSocket connection                      *)
(* (maip-transport-ws/src/ws-client.ts and ws-server.ts).                  *)
(*                                                                         *)
(* The client keeps one map of pending requests for all the sockets it has *)
(* had.  A promise settles by the response with its id, by the close of    *)
(* any of these sockets or by its timer.  The server answers a frame at a  *)
(* time; a frame it cannot process it answers without an id.               *)
(*                                                                         *)
(* Abstracted: what a request asks and what a handler does with it (the    *)
(* handlers have their own modules).  A frame is the number of its request *)
(* and its id.  A socket delivers in order and may fail at any moment.     *)
(***************************************************************************)
EXTENDS Naturals, Sequences

CONSTANTS MaxRequests,   \* bound: calls of request()
          MaxSockets     \* bound: calls of connect()

ASSUME WebSocketAssumption == MaxRequests \in Nat /\ MaxSockets \in Nat

VARIABLES readyState,    \* the client's view of every socket it made
          current,       \* this.ws: the last of them, or 0
          uplink,        \* the requests under way on each socket
          downlink,      \* the responses under way on each socket
          requestCounter,
          ids,           \* the request id of each request sent, or 0
          pending,       \* request id -> the request whose promise waits, or 0
          timers,        \* the requests whose timeout has not fired
          promise,       \* what became of each promise
          handled        \* the requests the server processed

socketVars == <<readyState, current, uplink, downlink, requestCounter, ids, pending, timers,
          promise, handled>>

Requests == 1..MaxRequests
Sockets == 1..MaxSockets
States == {"none", "connecting", "open", "closing", "closed"}
Fates == {"none", "waiting", "answered", "closed", "timedout", "refused"}
Response == [id : 0..MaxRequests]   \* 0: a response without a requestId

SocketInit ==
  /\ readyState = [s \in Sockets |-> "none"]
  /\ current = 0
  /\ uplink = [s \in Sockets |-> <<>>]
  /\ downlink = [s \in Sockets |-> <<>>]
  /\ requestCounter = 0
  /\ ids = [r \in Requests |-> 0]
  /\ pending = [i \in Requests |-> 0]
  /\ timers = {}
  /\ promise = [r \in Requests |-> "none"]
  /\ handled = {}

-----------------------------------------------------------------------------
(* The client. *)

\* Mutation: the ids start again with every connection.
ConnectRestartsIds(s) ==
  /\ readyState[s] = "none"
  /\ \A t \in Sockets : t < s => readyState[t] # "none"
  /\ readyState' = [readyState EXCEPT ![s] = "connecting"]
  /\ current' = s
  /\ requestCounter' = 0
  /\ UNCHANGED <<uplink, downlink, ids, pending, timers, promise, handled>>

\* connect() replaces this.ws, whatever became of the socket before.
Connect(s) ==
  /\ readyState[s] = "none"
  /\ \A t \in Sockets : t < s => readyState[t] # "none"
  /\ readyState' = [readyState EXCEPT ![s] = "connecting"]
  /\ current' = s
  /\ UNCHANGED <<uplink, downlink, requestCounter, ids, pending, timers, promise, handled>>

Opened(s) ==
  /\ readyState[s] = "connecting"
  /\ readyState' = [readyState EXCEPT ![s] = "open"]
  /\ UNCHANGED <<current, uplink, downlink, requestCounter, ids, pending, timers, promise,
                 handled>>

\* The other side has begun to close it.
PeerCloses(s) ==
  /\ readyState[s] = "open"
  /\ readyState' = [readyState EXCEPT ![s] = "closing"]
  /\ UNCHANGED <<current, uplink, downlink, requestCounter, ids, pending, timers, promise,
                 handled>>

Disconnect ==
  /\ current # 0
  /\ readyState' = [readyState EXCEPT ![current] = IF @ = "closed" THEN @ ELSE "closing"]
  /\ current' = 0
  /\ UNCHANGED <<uplink, downlink, requestCounter, ids, pending, timers, promise, handled>>

\* "WebSocket not connected": there is no open socket.
Connected == current # 0 /\ readyState[current] = "open"

IsNext(r) == promise[r] = "none" /\ \A q \in Requests : q < r => promise[q] # "none"

RequestRefused(r) ==
  /\ IsNext(r)
  /\ ~Connected
  /\ promise' = [promise EXCEPT ![r] = "refused"]
  /\ UNCHANGED <<readyState, current, uplink, downlink, requestCounter, ids, pending, timers,
                 handled>>

Request(r) ==
  LET id == requestCounter + 1
  IN  /\ IsNext(r)
      /\ Connected
      /\ requestCounter' = id
      /\ ids' = [ids EXCEPT ![r] = id]
      /\ pending' = [pending EXCEPT ![id] = r]
      /\ uplink' = [uplink EXCEPT ![current] = Append(@, r)]
      /\ timers' = timers \cup {r}
      /\ promise' = [promise EXCEPT ![r] = "waiting"]
      /\ UNCHANGED <<readyState, current, downlink, handled>>

\* A promise takes the first of its outcomes only.
Settled(rs, fate) ==
  [r \in Requests |-> IF r \in rs /\ promise[r] = "waiting" THEN fate ELSE promise[r]]

\* A response settles the request with its id, if that one still waits.
Receive(s) ==
  LET id == Head(downlink[s]).id
  IN  /\ readyState[s] \in {"open", "closing"}
      /\ downlink[s] # <<>>
      /\ downlink' = [downlink EXCEPT ![s] = Tail(@)]
      /\ IF id # 0 /\ pending[id] # 0
         THEN /\ promise' = Settled({pending[id]}, "answered")
              /\ pending' = [pending EXCEPT ![id] = 0]
         ELSE UNCHANGED <<promise, pending>>
      /\ UNCHANGED <<readyState, current, uplink, requestCounter, ids, timers, handled>>

\* Mutation: a timeout that waits for a connection.
TimesOutConnected(r) ==
  /\ r \in timers
  /\ Connected
  /\ timers' = timers \ {r}
  /\ IF pending[ids[r]] # 0
     THEN /\ promise' = Settled({r}, "timedout")
          /\ pending' = [pending EXCEPT ![ids[r]] = 0]
     ELSE UNCHANGED <<promise, pending>>
  /\ UNCHANGED <<readyState, current, uplink, downlink, requestCounter, ids, handled>>

\* The timer of a request that was settled finds nothing to do.
TimesOut(r) ==
  /\ r \in timers
  /\ timers' = timers \ {r}
  /\ IF pending[ids[r]] # 0
     THEN /\ promise' = Settled({r}, "timedout")
          /\ pending' = [pending EXCEPT ![ids[r]] = 0]
     ELSE UNCHANGED <<promise, pending>>
  /\ UNCHANGED <<readyState, current, uplink, downlink, requestCounter, ids, handled>>

PendingRequests == {pending[i] : i \in Requests} \ {0}

\* Mutation: the requests are forgotten without being rejected.
CloseForgets(s) ==
  /\ readyState[s] \in {"connecting", "open", "closing"}
  /\ readyState' = [readyState EXCEPT ![s] = "closed"]
  /\ \E n \in 0..Len(uplink[s]) : uplink' = [uplink EXCEPT ![s] = SubSeq(@, 1, n)]
  /\ downlink' = [downlink EXCEPT ![s] = <<>>]
  /\ pending' = [i \in Requests |-> 0]
  /\ UNCHANGED <<current, requestCounter, ids, timers, promise, handled>>

\* The close of a socket, by either side or by a failure, rejects all that is
\* pending, whichever socket it was sent on.  The server still gets the frames
\* that arrived before.
Close(s) ==
  /\ readyState[s] \in {"connecting", "open", "closing"}
  /\ readyState' = [readyState EXCEPT ![s] = "closed"]
  /\ \E n \in 0..Len(uplink[s]) : uplink' = [uplink EXCEPT ![s] = SubSeq(@, 1, n)]
  /\ downlink' = [downlink EXCEPT ![s] = <<>>]
  /\ promise' = Settled(PendingRequests, "closed")
  /\ pending' = [i \in Requests |-> 0]
  /\ UNCHANGED <<current, requestCounter, ids, timers, handled>>

-----------------------------------------------------------------------------
(* The server: handleWSMessage. *)

\* A frame that is processed is answered under its id; one that is too large
\* or whose handler throws is answered without.
Serve(s, processed) ==
  LET r == Head(uplink[s])
  IN  /\ uplink[s] # <<>>
      /\ uplink' = [uplink EXCEPT ![s] = Tail(@)]
      /\ handled' = IF processed THEN handled \cup {r} ELSE handled
      /\ downlink' = IF readyState[s] = "closed" THEN downlink
                     ELSE [downlink EXCEPT ![s] =
                             Append(@, [id |-> IF processed THEN ids[r] ELSE 0])]
      /\ UNCHANGED <<readyState, current, requestCounter, ids, pending, timers, promise>>

-----------------------------------------------------------------------------
SocketNext ==
  \/ \E s \in Sockets : Connect(s) \/ Opened(s) \/ PeerCloses(s) \/ Close(s) \/ Receive(s)
  \/ Disconnect
  \/ \E r \in Requests : Request(r) \/ RequestRefused(r) \/ TimesOut(r)
  \/ \E s \in Sockets, processed \in BOOLEAN : Serve(s, processed)

-----------------------------------------------------------------------------
(* Properties. *)

SocketTypeOK ==
  /\ readyState \in [Sockets -> States]
  /\ current \in Sockets \cup {0}
  /\ uplink \in [Sockets -> Seq(Requests)]
  /\ downlink \in [Sockets -> Seq(Response)]
  /\ \A s \in Sockets : readyState[s] \in {"none", "closed"} => downlink[s] = <<>>
  /\ requestCounter \in 0..MaxRequests
  /\ ids \in [Requests -> 0..MaxRequests]
  /\ pending \in [Requests -> 0..MaxRequests]
  /\ timers \subseteq Requests
  /\ promise \in [Requests -> Fates]
  /\ handled \subseteq Requests

\* An answer is the answer to that request: the server processed it, also when
\* late answers, repeated connections and timeouts cross (the requestId).
AnswersAreOwn ==
  \A r \in Requests : promise[r] = "answered" => r \in handled

\* The map and the promises agree: a request waits exactly while it is in the
\* map under its own id, with its timer running, so nothing leaks and nothing
\* is left without a way to settle.
WaitingIsPending ==
  \A r \in Requests :
    promise[r] = "waiting" <=> ids[r] # 0 /\ pending[ids[r]] = r /\ r \in timers

\* Every request settles in the end, whatever becomes of sockets and server.
EveryRequestSettles ==
  \A r \in Requests : promise[r] = "waiting" ~> promise[r] \in {"answered", "closed", "timedout"}

=============================================================================
