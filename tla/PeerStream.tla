----------------------------- MODULE PeerStream ------------------------------
(***************************************************************************)
(* A request and its answer over a libp2p stream (maip-transport-p2p:      *)
(* stream-utils.ts, p2p-transport.ts, p2p-handlers.ts).                    *)
(*                                                                         *)
(* Each end writes one frame and closes its side; each reads until the     *)
(* other has closed.  The stream is reliable and ordered, cuts a frame     *)
(* into chunks, and may be reset at any moment.  There is no timeout.      *)
(*                                                                         *)
(* Abstracted: what is asked and what it does at the node (processed       *)
(* stands for the handler of the other modules); a frame is its chunks.    *)
(***************************************************************************)
EXTENDS Naturals, Sequences

CONSTANTS Exchanges,   \* calls of dialAndExchange, each with a stream of its own
          Chunks       \* bound: the chunks the network makes of a frame

ASSUME PeerStreamAssumption == Chunks \in Nat \ {0}

VARIABLES caller,       \* the end that dialled
          handler,      \* the end that answers
          toHandler,    \* in flight, with the end of the stream
          toCaller,
          handlerRead,  \* the chunks read so far
          callerRead,
          processed,    \* how often the request was carried out
          hurt          \* what went wrong outside this code

streamVars == <<caller, handler, toHandler, toCaller, handlerRead, callerRead, processed, hurt>>

Frames == {"request", "ok", "error"}
Hurts == {"nothing", "unreachable", "reset", "too large", "threw"}

PeerStreamInit ==
  /\ caller = [e \in Exchanges |-> "idle"]
  /\ handler = [e \in Exchanges |-> "none"]
  /\ toHandler = [e \in Exchanges |-> <<>>] /\ toCaller = [e \in Exchanges |-> <<>>]
  /\ handlerRead = [e \in Exchanges |-> <<>>] /\ callerRead = [e \in Exchanges |-> <<>>]
  /\ processed = [e \in Exchanges |-> 0]
  /\ hurt = [e \in Exchanges |-> "nothing"]

\* Mutation: the side that wrote stays open.
FrameOpen(kind) == [i \in 1..Chunks |-> kind]

\* writeLengthPrefixed: the frame and the end of the stream.
Frame(kind) == [i \in 1..(Chunks + 1) |-> IF i <= Chunks THEN kind ELSE "end"]

\* Mutation: a chunk is taken for a frame.
EndsHereAnyway(flight) == TRUE

\* readLengthPrefixed reads on until the stream ends ...
EndsHere(flight) == Head(flight) = "end"

\* ... and then wants a whole frame.
Whole(chunks) == Len(chunks) >= Chunks

-----------------------------------------------------------------------------
(* The caller. *)

DialFails(e) ==
  /\ caller[e] = "idle"
  /\ caller' = [caller EXCEPT ![e] = "null"]
  /\ hurt' = [hurt EXCEPT ![e] = "unreachable"]
  /\ UNCHANGED <<handler, toHandler, toCaller, handlerRead, callerRead, processed>>

\* The stream opens at both ends and the request is written.
Dial(e) ==
  /\ caller[e] = "idle"
  /\ caller' = [caller EXCEPT ![e] = "reading"]
  /\ handler' = [handler EXCEPT ![e] = "reading"]
  /\ toHandler' = [toHandler EXCEPT ![e] = Frame("request")]
  /\ UNCHANGED <<toCaller, handlerRead, callerRead, processed, hurt>>

\* A request over the limit is not written: the stream is aborted.
DialTooLarge(e) ==
  /\ caller[e] = "idle"
  /\ caller' = [caller EXCEPT ![e] = "null"]
  /\ handler' = [handler EXCEPT ![e] = "reading"]
  /\ hurt' = [hurt EXCEPT ![e] = "reset"]
  /\ UNCHANGED <<toHandler, toCaller, handlerRead, callerRead, processed>>

CallerReads(e) ==
  /\ caller[e] = "reading" /\ toCaller[e] # <<>>
  /\ ~EndsHere(toCaller[e])
  /\ callerRead' = [callerRead EXCEPT ![e] = Append(@, Head(toCaller[e]))]
  /\ toCaller' = [toCaller EXCEPT ![e] = Tail(@)]
  /\ UNCHANGED <<caller, handler, toHandler, handlerRead, processed, hurt>>

\* The answer is complete: the methods of Libp2pTransport return its data, or
\* null if it says that something failed.
CallerEnds(e) ==
  /\ caller[e] = "reading" /\ toCaller[e] # <<>>
  /\ EndsHere(toCaller[e])
  /\ toCaller' = [toCaller EXCEPT ![e] = Tail(@)]
  /\ caller' = [caller EXCEPT ![e] =
       IF Whole(callerRead[e]) /\ Head(callerRead[e]) = "ok" THEN "answered" ELSE "null"]
  /\ UNCHANGED <<handler, toHandler, handlerRead, callerRead, processed, hurt>>

\* Reading throws: the stream is aborted and the method returns null.
CallerFails(e) ==
  /\ caller[e] = "reading" /\ hurt[e] = "reset"
  /\ caller' = [caller EXCEPT ![e] = "null"]
  /\ UNCHANGED <<handler, toHandler, toCaller, handlerRead, callerRead, processed, hurt>>

-----------------------------------------------------------------------------
(* The handler. *)

HandlerReads(e) ==
  /\ handler[e] = "reading" /\ toHandler[e] # <<>>
  /\ ~EndsHere(toHandler[e])
  /\ handlerRead' = [handlerRead EXCEPT ![e] = Append(@, Head(toHandler[e]))]
  /\ toHandler' = [toHandler EXCEPT ![e] = Tail(@)]
  /\ UNCHANGED <<caller, handler, toCaller, callerRead, processed, hurt>>

Serves(e, answer, harm, times) ==
  /\ handler[e] = "reading" /\ toHandler[e] # <<>>
  /\ EndsHere(toHandler[e])
  /\ handler' = [handler EXCEPT ![e] = "done"]
  /\ toHandler' = [toHandler EXCEPT ![e] = Tail(@)]
  /\ toCaller' = [toCaller EXCEPT ![e] = Frame(answer)]
  /\ processed' = [processed EXCEPT ![e] = @ + times]
  /\ hurt' = [hurt EXCEPT ![e] = harm]
  /\ UNCHANGED <<caller, handlerRead, callerRead>>

\* handleStream: a whole request is carried out, then answered.
Handle(e) ==
  IF Whole(handlerRead[e]) THEN Serves(e, "ok", hurt[e], 1) ELSE Serves(e, "error", hurt[e], 0)

\* ... its processor throws, or refuses what it is asked ...
HandleThrows(e) == Whole(handlerRead[e]) /\ Serves(e, "error", "threw", 0)

\* ... or the answer is over the limit: it was carried out, and says it failed.
HandleTooLarge(e) == Whole(handlerRead[e]) /\ Serves(e, "error", "too large", 1)

\* Reading throws, and so does answering: nothing is written.
HandlerFails(e) ==
  /\ handler[e] = "reading" /\ hurt[e] = "reset"
  /\ handler' = [handler EXCEPT ![e] = "done"]
  /\ UNCHANGED <<caller, toHandler, toCaller, handlerRead, callerRead, processed, hurt>>

-----------------------------------------------------------------------------
\* The connection breaks, and what is in flight is lost.
Reset(e) ==
  /\ caller[e] = "reading" /\ hurt[e] # "reset"
  /\ hurt' = [hurt EXCEPT ![e] = "reset"]
  /\ toHandler' = [toHandler EXCEPT ![e] = <<>>]
  /\ toCaller' = [toCaller EXCEPT ![e] = <<>>]
  /\ UNCHANGED <<caller, handler, handlerRead, callerRead, processed>>

PeerStreamNext ==
  \E e \in Exchanges :
    \/ DialFails(e) \/ Dial(e) \/ DialTooLarge(e)
    \/ CallerReads(e) \/ CallerEnds(e) \/ CallerFails(e)
    \/ HandlerReads(e) \/ Handle(e) \/ HandleThrows(e) \/ HandleTooLarge(e) \/ HandlerFails(e)
    \/ Reset(e)

-----------------------------------------------------------------------------
(* Properties. *)

Flight == Frames \cup {"end"}

PeerStreamTypeOK ==
  /\ caller \in [Exchanges -> {"idle", "reading", "answered", "null"}]
  /\ handler \in [Exchanges -> {"none", "reading", "done"}]
  /\ toHandler \in [Exchanges -> Seq(Flight)] /\ toCaller \in [Exchanges -> Seq(Flight)]
  /\ handlerRead \in [Exchanges -> Seq(Frames)] /\ callerRead \in [Exchanges -> Seq(Frames)]
  /\ processed \in [Exchanges -> 0..1]
  /\ hurt \in [Exchanges -> Hurts]

\* A caller that gets an answer was served, and one that gets null lost the
\* connection, was refused, or met the size limit: no answer is lost or cut
\* short by how the two ends read and close the stream (readLengthPrefixed).
ResultsAreTruthful ==
  \A e \in Exchanges :
    /\ caller[e] = "answered" => processed[e] = 1 /\ hurt[e] = "nothing"
    /\ caller[e] = "null" => hurt[e] # "nothing"

\* The two ends never wait for each other: as long as the stream is whole, an
\* end that reads has something on its way or the other end still to write
\* (each end closes its side before it reads or returns).
NobodyWaitsInVain ==
  \A e \in Exchanges : hurt[e] # "reset" =>
    /\ handler[e] = "reading" => toHandler[e] # <<>>
    /\ caller[e] = "reading" => handler[e] = "reading" \/ toCaller[e] # <<>>

=============================================================================
