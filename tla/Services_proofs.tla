--------------------------- MODULE Services_proofs ---------------------------
(***************************************************************************)
(* Proofs about the services of a node, for every value of the constants:  *)
(* the relay mailbox, federation, gossip, proposals, attention tokens, the *)
(* WebSocket connection, the backups a node keeps and the libp2p streams   *)
(* it answers on.                                                          *)
(***************************************************************************)
EXTENDS Services, SumFacts, TLAPS

(***************************************************************************)
(* Backups.  The invariant is the type of the versions with NewestIsHeld.  *)
(***************************************************************************)
BackupInv ==
  /\ sentVersion \in [Items -> Nat]
  /\ held \in [Items -> Nat]
  /\ seen \in [Items -> SUBSET (Nat \ {0})]
  /\ NewestIsHeld

LEMMA BackupInvInit == BackupsInit => BackupInv
BY DEF BackupsInit, BackupInv, NewestIsHeld

\* A version that arrives is the newest seen or is not kept.
LEMMA ReceiveKeepsNewest ==
  ASSUME BackupInv, NEW i \in Items, NEW v \in Nat, ReceiveVersion(i, v)
  PROVE  BackupInv'
<1>1. v > 0 /\ sentVersion' = sentVersion /\ seen' = [seen EXCEPT ![i] = @ \cup {v}]
  BY DEF ReceiveVersion, BackupInv
<1>2. CASE Newer(i, v)
  <2>1. held' = [held EXCEPT ![i] = v]
    BY <1>2 DEF ReceiveVersion
  <2>2. QED
    BY <1>1, <1>2, <2>1 DEF BackupInv, NewestIsHeld, Newer
<1>3. CASE ~Newer(i, v)
  <2>1. held' = held
    BY <1>3 DEF ReceiveVersion
  <2>2. QED
    BY <1>1, <1>3, <2>1 DEF BackupInv, NewestIsHeld, Newer
<1>4. QED
  BY <1>2, <1>3

LEMMA RemovalKeepsNewest ==
  ASSUME BackupInv, NEW S \in SUBSET Items, Removed(S), sentVersion' = sentVersion
  PROVE  BackupInv'
BY DEF BackupInv, NewestIsHeld, Removed

LEMMA BackupInvStep == BackupInv /\ [BackupsNext]_backupVars => BackupInv'
<1> SUFFICES ASSUME BackupInv, [BackupsNext]_backupVars PROVE BackupInv'
  OBVIOUS
<1>1. ASSUME NEW i \in Items, SendVersion(i) PROVE BackupInv'
  BY <1>1 DEF SendVersion, BackupInv, NewestIsHeld
<1>2. ASSUME NEW i \in Items, NEW v \in 1..MaxVersion, ReceiveVersion(i, v) PROVE BackupInv'
  BY <1>2, ReceiveKeepsNewest, BackupsAssumption DEF BackupsAssumption
<1>3. ASSUME DeleteWill PROVE BackupInv'
  <2>1. {"will"} \cap Items \in SUBSET Items
    OBVIOUS
  <2>2. Removed({"will"} \cap Items) /\ sentVersion' = sentVersion
    BY <1>3 DEF DeleteWill, Removed
  <2>3. QED
    BY <2>1, <2>2, RemovalKeepsNewest
<1>4. ASSUME Prune PROVE BackupInv'
  BY <1>4, RemovalKeepsNewest DEF Prune
<1>5. ASSUME RestartNode PROVE BackupInv'
  BY <1>5, RemovalKeepsNewest DEF RestartNode
<1>6. ASSUME BackupTick \/ UNCHANGED backupVars PROVE BackupInv'
  BY <1>6 DEF BackupTick, backupVars, BackupInv, NewestIsHeld
<1>7. QED
  BY <1>1, <1>2, <1>3, <1>4, <1>5, <1>6 DEF BackupsNext

\* No version is held or was seen that the agent did not send.
LEMMA BackupsTypesInit == BackupsInit => BackupsTypeOK
BY BackupsAssumption DEF BackupsAssumption, BackupsInit, BackupsTypeOK

LEMMA RemovalKeepsTypes ==
  ASSUME BackupInv, BackupsTypeOK, NEW S \in SUBSET Items, Removed(S),
         UNCHANGED sentVersion, backupNow' = backupNow, backupCrashes' \in 0..MaxBackupCrashes
  PROVE  BackupsTypeOK'
<1>1. sentVersion' \in [Items -> 0..MaxVersion] /\ backupNow' \in 0..MaxBackupTime
  BY DEF BackupsTypeOK
<1>2. ASSUME NEW i \in Items PROVE held'[i] \in 0..sentVersion'[i] /\ seen'[i] \subseteq 1..sentVersion'[i]
  <2>1. held[i] \in 0..sentVersion[i] /\ seen[i] \subseteq 1..sentVersion[i] /\ 0 \in 0..sentVersion[i]
    BY DEF BackupsTypeOK, BackupInv
  <2>2. held'[i] \in {0, held[i]} /\ seen'[i] \in {{}, seen[i]}
    BY DEF Removed
  <2> QED BY <2>1, <2>2
<1>3. keptUntil' \in [Items -> Nat]
  BY DEF Removed, BackupsTypeOK
<1> QED BY <1>1, <1>2, <1>3 DEF BackupsTypeOK

LEMMA BackupsTypesStep == BackupInv /\ BackupsTypeOK /\ [BackupsNext]_backupVars => BackupsTypeOK'
<1> SUFFICES ASSUME BackupInv, BackupsTypeOK, [BackupsNext]_backupVars PROVE BackupsTypeOK'
  OBVIOUS
<1>a. /\ MaxVersion \in Nat /\ Retention \in Nat /\ MaxBackupTime \in Nat /\ MaxBackupCrashes \in Nat
      /\ backupNow \in 0..MaxBackupTime /\ backupCrashes \in 0..MaxBackupCrashes
  BY BackupsAssumption DEF BackupsAssumption, BackupsTypeOK
<1>1. ASSUME NEW i \in Items, SendVersion(i) PROVE BackupsTypeOK'
  <2>1. /\ sentVersion' = [sentVersion EXCEPT ![i] = @ + 1] /\ sentVersion[i] < MaxVersion
        /\ UNCHANGED <<held, keptUntil, seen, backupNow, backupCrashes>>
    BY <1>1 DEF SendVersion
  <2>2. sentVersion[i] \in 0..MaxVersion /\ sentVersion[i] + 1 \in 0..MaxVersion
    BY <1>a, <2>1 DEF BackupsTypeOK
  <2>3. sentVersion' \in [Items -> 0..MaxVersion]
    BY <2>1, <2>2 DEF BackupsTypeOK
  <2>4. ASSUME NEW j \in Items PROVE held[j] \in 0..sentVersion'[j] /\ seen[j] \subseteq 1..sentVersion'[j]
    <3>1. /\ sentVersion[j] \in Nat /\ held[j] \in 0..sentVersion[j] /\ seen[j] \subseteq 1..sentVersion[j]
          /\ sentVersion'[j] \in {sentVersion[j], sentVersion[j] + 1}
      BY <2>1 DEF BackupsTypeOK
    <3> QED BY <3>1
  <2> QED BY <2>1, <2>3, <2>4 DEF BackupsTypeOK
<1>2. ASSUME NEW i \in Items, NEW v \in 1..MaxVersion, ReceiveVersion(i, v) PROVE BackupsTypeOK'
  <2>1. v \in 1..sentVersion[i] /\ UNCHANGED <<sentVersion, backupNow, backupCrashes>>
    BY <1>2 DEF ReceiveVersion
  <2>2. seen' = [seen EXCEPT ![i] = @ \cup {v}]
    BY <1>2 DEF ReceiveVersion
  <2>3. /\ held' \in [Items -> Nat] /\ keptUntil' \in [Items -> Nat]
        /\ \A j \in Items : held'[j] = held[j] \/ (j = i /\ held'[j] = v)
    <3>1. CASE Newer(i, v)
      <4>1. backupNow + Retention \in Nat /\ v \in Nat
        BY <1>a
      <4> QED BY <1>2, <3>1, <4>1 DEF ReceiveVersion, BackupsTypeOK, BackupInv
    <3>2. CASE ~Newer(i, v)
      BY <1>2, <3>2 DEF ReceiveVersion, BackupsTypeOK, BackupInv
    <3> QED BY <3>1, <3>2
  <2>4. ASSUME NEW j \in Items PROVE held'[j] \in 0..sentVersion'[j] /\ seen'[j] \subseteq 1..sentVersion'[j]
    <3>1. held[j] \in 0..sentVersion[j] /\ seen[j] \subseteq 1..sentVersion[j] /\ sentVersion[j] \in Nat
      BY DEF BackupsTypeOK
    <3>2. seen'[j] = seen[j] \/ (j = i /\ seen'[j] = seen[j] \cup {v})
      BY <2>2 DEF BackupInv
    <3> QED BY <2>1, <2>3, <3>1, <3>2
  <2> QED BY <2>1, <2>3, <2>4 DEF BackupsTypeOK
<1>3. CASE DeleteWill
  <2>1. Removed({"will"} \cap Items) /\ UNCHANGED <<sentVersion, backupNow, backupCrashes>>
    BY <1>3 DEF DeleteWill, Removed
  <2> QED BY <1>a, <2>1, RemovalKeepsTypes
<1>4. CASE Prune
  <2>1. PICK S \in SUBSET Items : Removed(S)
    BY <1>4 DEF Prune
  <2> QED BY <1>a, <1>4, <2>1, RemovalKeepsTypes DEF Prune
<1>5. CASE RestartNode
  <2>1. Removed(Items) /\ UNCHANGED <<sentVersion, backupNow>> /\ backupCrashes' \in 0..MaxBackupCrashes
    BY <1>5, <1>a DEF RestartNode
  <2> QED BY <2>1, RemovalKeepsTypes
<1>6. CASE BackupTick
  BY <1>6, <1>a DEF BackupTick, BackupsTypeOK
<1>7. CASE UNCHANGED backupVars
  BY <1>7 DEF backupVars, BackupsTypeOK
<1> QED BY <1>1, <1>2, <1>3, <1>4, <1>5, <1>6, <1>7 DEF BackupsNext

(***************************************************************************)
(* Streams.  In flight is always the rest of one frame: what was read of   *)
(* it and what is under way make the whole.                                *)
(***************************************************************************)
Rest(kind, read, flight) ==
  /\ Len(read) \in 0..Chunks
  /\ Len(flight) = Chunks + 1 - Len(read)
  /\ \A j \in 1..Len(read) : read[j] = kind
  /\ \A j \in 1..Len(flight) : flight[j] = IF Len(read) + j <= Chunks THEN kind ELSE "end"

Unbroken(e) ==
  /\ handler[e] = "none" => caller[e] \in {"idle", "null"}
  /\ handler[e] = "reading" =>
       /\ caller[e] = "reading" /\ processed[e] = 0 /\ hurt[e] = "nothing"
       /\ Rest("request", handlerRead[e], toHandler[e])
       /\ callerRead[e] = <<>> /\ toCaller[e] = <<>>
  /\ handler[e] = "done" /\ caller[e] = "reading" =>
       \/ Rest("ok", callerRead[e], toCaller[e]) /\ processed[e] = 1 /\ hurt[e] = "nothing"
       \/ Rest("error", callerRead[e], toCaller[e]) /\ hurt[e] # "nothing"

Exchange(e) ==
  /\ caller[e] = "idle" =>
       /\ handler[e] = "none" /\ processed[e] = 0 /\ hurt[e] = "nothing"
       /\ handlerRead[e] = <<>> /\ callerRead[e] = <<>>
       /\ toHandler[e] = <<>> /\ toCaller[e] = <<>>
  /\ caller[e] = "answered" => handler[e] = "done" /\ processed[e] = 1 /\ hurt[e] = "nothing"
  /\ caller[e] = "null" => hurt[e] # "nothing"
  /\ hurt[e] = "reset" => toHandler[e] = <<>> /\ toCaller[e] = <<>>
  /\ hurt[e] # "reset" => Unbroken(e)

StreamInv == PeerStreamTypeOK /\ \A e \in Exchanges : Exchange(e)

\* What a writer puts on the stream, and what reading makes of it.
LEMMA FrameIsRest ==
  ASSUME NEW kind \in Frames
  PROVE  Frame(kind) \in Seq(Flight) /\ Frame(kind) # <<>> /\ Rest(kind, <<>>, Frame(kind))
<1>1. Chunks \in Nat /\ Chunks > 0
  BY PeerStreamAssumption DEF PeerStreamAssumption
<1>2. Frame(kind) \in Seq(Flight) /\ Len(Frame(kind)) = Chunks + 1
  BY <1>1 DEF Frame, Flight
<1>3. \A j \in 1..Len(Frame(kind)) : Frame(kind)[j] = IF j <= Chunks THEN kind ELSE "end"
  BY <1>1, <1>2 DEF Frame
<1>4. QED
  BY <1>1, <1>2, <1>3 DEF Rest

LEMMA RestGoesOn ==
  ASSUME NEW kind \in Frames, NEW read \in Seq(Frames), NEW flight \in Seq(Flight),
         Rest(kind, read, flight), ~EndsHere(flight)
  PROVE  /\ Append(read, Head(flight)) \in Seq(Frames) /\ Tail(flight) \in Seq(Flight)
         /\ Rest(kind, Append(read, Head(flight)), Tail(flight))
<1>1. Chunks \in Nat /\ Chunks > 0
  BY PeerStreamAssumption DEF PeerStreamAssumption
<1>2. Len(read) \in 0..Chunks /\ Len(flight) = Chunks + 1 - Len(read) /\ flight # <<>>
  BY <1>1 DEF Rest
<1>3. Head(flight) = flight[1] /\ Head(flight) \in Flight
  BY <1>2
<1>4. Len(read) + 1 <= Chunks /\ Head(flight) = kind
  BY <1>1, <1>2, <1>3 DEF Rest, EndsHere
<1>5. /\ Tail(flight) \in Seq(Flight) /\ Len(Tail(flight)) = Len(flight) - 1
      /\ \A j \in 1..Len(Tail(flight)) : Tail(flight)[j] = flight[j + 1]
  BY <1>2
<1>6. /\ Append(read, kind) \in Seq(Frames) /\ Len(Append(read, kind)) = Len(read) + 1
      /\ \A j \in 1..(Len(read) + 1) : Append(read, kind)[j] = IF j <= Len(read) THEN read[j] ELSE kind
  BY <1>3, <1>4
<1>7. \A j \in 1..Len(Append(read, kind)) : Append(read, kind)[j] = kind
  BY <1>6 DEF Rest
<1>8. \A j \in 1..Len(Tail(flight)) :
        Tail(flight)[j] = IF Len(Append(read, kind)) + j <= Chunks THEN kind ELSE "end"
  BY <1>1, <1>2, <1>5, <1>6 DEF Rest
<1>9. Rest(kind, Append(read, kind), Tail(flight))
  <2> DEFINE longer == Append(read, kind)  shorter == Tail(flight)
  <2>1. Len(longer) = Len(read) + 1 /\ Len(shorter) = Len(flight) - 1
    BY <1>5, <1>6
  <2>2. /\ \A j \in 1..Len(longer) : longer[j] = kind
        /\ \A j \in 1..Len(shorter) : shorter[j] = IF Len(longer) + j <= Chunks THEN kind ELSE "end"
    BY <1>7, <1>8
  <2> HIDE DEF longer, shorter
  <2>3. Len(longer) \in 0..Chunks /\ Len(shorter) = Chunks + 1 - Len(longer)
    BY <1>1, <1>2, <1>4, <2>1
  <2>4. Rest(kind, longer, shorter)
    BY <2>2, <2>3 DEF Rest
  <2>5. QED
    BY <2>4 DEF longer, shorter
<1>10. QED
  BY <1>4, <1>5, <1>6, <1>9

LEMMA RestEnds ==
  ASSUME NEW kind \in Frames, NEW read \in Seq(Frames), NEW flight \in Seq(Flight),
         Rest(kind, read, flight), EndsHere(flight)
  PROVE  Whole(read) /\ Head(read) = kind
<1>1. Chunks \in Nat /\ Chunks > 0
  BY PeerStreamAssumption DEF PeerStreamAssumption
<1>2. Len(read) \in 0..Chunks /\ Len(flight) = Chunks + 1 - Len(read) /\ flight # <<>>
  BY <1>1 DEF Rest
<1>3. Head(flight) = flight[1]
  BY <1>2
<1>4. Len(read) = Chunks
  BY <1>1, <1>2, <1>3 DEF Rest, EndsHere, Frames
<1>5. Head(read) = read[1] /\ read[1] = kind
  BY <1>1, <1>4 DEF Rest
<1>6. QED
  BY <1>1, <1>4, <1>5 DEF Whole

LEMMA StreamInvInit == PeerStreamInit => StreamInv
BY DEF PeerStreamInit, StreamInv, PeerStreamTypeOK, Exchange, Unbroken, Hurts

\* Every step is the step of one exchange.
LEMMA StreamInvFromOne ==
  ASSUME StreamInv, PeerStreamTypeOK', NEW e \in Exchanges, Exchange(e)',
         \A x \in Exchanges \ {e} :
           /\ caller'[x] = caller[x] /\ handler'[x] = handler[x]
           /\ toHandler'[x] = toHandler[x] /\ toCaller'[x] = toCaller[x]
           /\ handlerRead'[x] = handlerRead[x] /\ callerRead'[x] = callerRead[x]
           /\ processed'[x] = processed[x] /\ hurt'[x] = hurt[x]
  PROVE  StreamInv'
<1> SUFFICES ASSUME NEW x \in Exchanges \ {e} PROVE Exchange(x)'
  BY DEF StreamInv
<1>1. Exchange(x)
  BY DEF StreamInv
<1>2. QED
  BY <1>1 DEF Exchange, Unbroken

LEMMA DialStep ==
  ASSUME StreamInv, NEW e \in Exchanges, DialFails(e) \/ Dial(e) \/ DialTooLarge(e)
  PROVE  StreamInv'
<1>1. PeerStreamTypeOK /\ Exchange(e)
  BY DEF StreamInv
<1>2. Frame("request") \in Seq(Flight) /\ Rest("request", <<>>, Frame("request"))
  BY FrameIsRest DEF Frames
<1>3. CASE DialFails(e)
  <2>1. PeerStreamTypeOK'
    BY <1>1, <1>3 DEF DialFails, PeerStreamTypeOK, Hurts
  <2>2. Exchange(e)'
    BY <1>1, <1>3 DEF DialFails, PeerStreamTypeOK, Exchange, Unbroken
  <2>3. QED
    BY <1>1, <1>3, <2>1, <2>2, StreamInvFromOne DEF DialFails, PeerStreamTypeOK
<1>4. CASE Dial(e)
  <2>1. PeerStreamTypeOK'
    BY <1>1, <1>2, <1>4 DEF Dial, PeerStreamTypeOK
  <2>2. Exchange(e)'
    BY <1>1, <1>2, <1>4 DEF Dial, PeerStreamTypeOK, Exchange, Unbroken
  <2>3. QED
    BY <1>1, <1>4, <2>1, <2>2, StreamInvFromOne DEF Dial, PeerStreamTypeOK
<1>5. CASE DialTooLarge(e)
  <2>1. PeerStreamTypeOK'
    BY <1>1, <1>5 DEF DialTooLarge, PeerStreamTypeOK, Hurts
  <2>2. Exchange(e)'
    BY <1>1, <1>5 DEF DialTooLarge, PeerStreamTypeOK, Exchange, Unbroken
  <2>3. QED
    BY <1>1, <1>5, <2>1, <2>2, StreamInvFromOne DEF DialTooLarge, PeerStreamTypeOK
<1>6. QED
  BY <1>3, <1>4, <1>5

LEMMA ReadStep ==
  ASSUME StreamInv, NEW e \in Exchanges, CallerReads(e) \/ HandlerReads(e)
  PROVE  StreamInv'
<1>1. PeerStreamTypeOK /\ Exchange(e)
  BY DEF StreamInv
<1>2. CASE CallerReads(e)
  <2> DEFINE longer == Append(callerRead[e], Head(toCaller[e]))
             shorter == Tail(toCaller[e])
  <2>1. /\ callerRead' = [callerRead EXCEPT ![e] = longer]
        /\ toCaller' = [toCaller EXCEPT ![e] = shorter]
        /\ UNCHANGED <<caller, handler, toHandler, handlerRead, processed, hurt>>
    BY <1>2 DEF CallerReads
  <2>2. hurt[e] # "reset" /\ handler[e] = "done" /\ caller[e] = "reading" /\ ~EndsHere(toCaller[e])
    BY <1>1, <1>2 DEF CallerReads, Exchange, Unbroken, PeerStreamTypeOK
  <2>3. longer \in Seq(Frames) /\ shorter \in Seq(Flight)
    BY <1>1, <1>2, <2>2, RestGoesOn DEF CallerReads, Exchange, Unbroken, PeerStreamTypeOK, Frames
  <2>4. \A kind \in {"ok", "error"} :
          Rest(kind, callerRead[e], toCaller[e]) => Rest(kind, longer, shorter)
    BY <1>1, <1>2, <2>2, RestGoesOn DEF CallerReads, PeerStreamTypeOK, Frames
  <2> HIDE DEF longer, shorter
  <2>5. PeerStreamTypeOK'
    BY <1>1, <2>1, <2>3 DEF PeerStreamTypeOK
  <2>6. Exchange(e)'
    BY <1>1, <2>1, <2>2, <2>4 DEF PeerStreamTypeOK, Exchange, Unbroken
  <2>7. QED
    BY <1>1, <2>1, <2>5, <2>6, StreamInvFromOne DEF PeerStreamTypeOK
<1>3. CASE HandlerReads(e)
  <2> DEFINE longer == Append(handlerRead[e], Head(toHandler[e]))
             shorter == Tail(toHandler[e])
  <2>1. /\ handlerRead' = [handlerRead EXCEPT ![e] = longer]
        /\ toHandler' = [toHandler EXCEPT ![e] = shorter]
        /\ UNCHANGED <<caller, handler, toCaller, callerRead, processed, hurt>>
    BY <1>3 DEF HandlerReads
  <2>2. /\ hurt[e] # "reset" /\ handler[e] = "reading"
        /\ Rest("request", handlerRead[e], toHandler[e]) /\ ~EndsHere(toHandler[e])
    BY <1>1, <1>3 DEF HandlerReads, Exchange, Unbroken, PeerStreamTypeOK
  <2>3. longer \in Seq(Frames) /\ shorter \in Seq(Flight) /\ Rest("request", longer, shorter)
    BY <1>1, <2>2, RestGoesOn DEF PeerStreamTypeOK, Frames
  <2> HIDE DEF longer, shorter
  <2>4. PeerStreamTypeOK'
    BY <1>1, <2>1, <2>3 DEF PeerStreamTypeOK
  <2>5. Exchange(e)'
    BY <1>1, <2>1, <2>2, <2>3 DEF PeerStreamTypeOK, Exchange, Unbroken
  <2>6. QED
    BY <1>1, <2>1, <2>4, <2>5, StreamInvFromOne DEF PeerStreamTypeOK
<1>4. QED
  BY <1>2, <1>3

LEMMA EndStep ==
  ASSUME StreamInv, NEW e \in Exchanges,
         CallerEnds(e) \/ CallerFails(e) \/ HandlerFails(e) \/ Reset(e)
  PROVE  StreamInv'
<1>1. PeerStreamTypeOK /\ Exchange(e)
  BY DEF StreamInv
<1>2. CASE CallerEnds(e)
  <2>1. hurt[e] # "reset" /\ handler[e] = "done" /\ caller[e] = "reading" /\ EndsHere(toCaller[e])
    BY <1>1, <1>2 DEF CallerEnds, Exchange, Unbroken, PeerStreamTypeOK
  <2>2. \A kind \in {"ok", "error"} : Rest(kind, callerRead[e], toCaller[e]) =>
          Whole(callerRead[e]) /\ Head(callerRead[e]) = kind
    BY <1>1, <2>1, RestEnds DEF PeerStreamTypeOK, Frames
  <2>3. \/ caller' = [caller EXCEPT ![e] = "answered"] /\ processed[e] = 1 /\ hurt[e] = "nothing"
        \/ caller' = [caller EXCEPT ![e] = "null"] /\ hurt[e] # "nothing"
    BY <1>1, <1>2, <2>1, <2>2 DEF CallerEnds, Exchange, Unbroken
  <2>4. /\ toCaller' = [toCaller EXCEPT ![e] = Tail(@)] /\ Tail(toCaller[e]) \in Seq(Flight)
        /\ UNCHANGED <<handler, toHandler, handlerRead, callerRead, processed, hurt>>
    BY <1>1, <1>2 DEF CallerEnds, PeerStreamTypeOK
  <2>5. PeerStreamTypeOK'
    BY <1>1, <2>3, <2>4 DEF PeerStreamTypeOK
  <2>6. Exchange(e)'
    BY <1>1, <2>1, <2>3, <2>4 DEF PeerStreamTypeOK, Exchange, Unbroken
  <2>7. QED
    BY <1>1, <2>3, <2>4, <2>5, <2>6, StreamInvFromOne DEF PeerStreamTypeOK
<1>3. CASE CallerFails(e)
  <2>1. PeerStreamTypeOK' /\ Exchange(e)'
    BY <1>1, <1>3 DEF CallerFails, PeerStreamTypeOK, Exchange, Unbroken
  <2>2. QED
    BY <1>1, <1>3, <2>1, StreamInvFromOne DEF CallerFails, PeerStreamTypeOK
<1>4. CASE HandlerFails(e)
  <2>1. PeerStreamTypeOK' /\ Exchange(e)'
    BY <1>1, <1>4 DEF HandlerFails, PeerStreamTypeOK, Exchange, Unbroken
  <2>2. QED
    BY <1>1, <1>4, <2>1, StreamInvFromOne DEF HandlerFails, PeerStreamTypeOK
<1>5. CASE Reset(e)
  <2>1. PeerStreamTypeOK'
    <3>1. <<>> \in Seq(Flight) /\ "reset" \in Hurts
      BY DEF Hurts
    <3>2. QED
      BY <1>1, <1>5, <3>1 DEF Reset, PeerStreamTypeOK
  <2>2. Exchange(e)'
    BY <1>1, <1>5 DEF Reset, PeerStreamTypeOK, Exchange, Unbroken
  <2>3. QED
    BY <1>1, <1>5, <2>1, <2>2, StreamInvFromOne DEF Reset, PeerStreamTypeOK
<1>6. QED
  BY <1>2, <1>3, <1>4, <1>5

\* The handler serves a whole request of a caller that waits for its answer.
LEMMA ServeStep ==
  ASSUME StreamInv, NEW e \in Exchanges, Handle(e) \/ HandleThrows(e) \/ HandleTooLarge(e)
  PROVE  StreamInv'
<1>1. PeerStreamTypeOK /\ Exchange(e)
  BY DEF StreamInv
<1>2. /\ handler[e] = "reading" /\ hurt[e] = "nothing" /\ caller[e] = "reading"
      /\ processed[e] = 0 /\ callerRead[e] = <<>> /\ EndsHere(toHandler[e]) /\ toHandler[e] # <<>>
      /\ Rest("request", handlerRead[e], toHandler[e])
  BY <1>1, Zenon DEF Handle, HandleThrows, HandleTooLarge, Serves, Exchange, Unbroken
<1>3. Whole(handlerRead[e])
  BY <1>1, <1>2, RestEnds DEF PeerStreamTypeOK, Frames
<1>4. PICK answer \in {"ok", "error"}, harm \in Hurts, times \in {0, 1} :
        /\ Serves(e, answer, harm, times)
        /\ harm # "reset"
        /\ answer = "ok" => times = 1 /\ harm = "nothing"
        /\ answer = "error" => harm # "nothing"
  <2>1. CASE Handle(e)
    BY <1>2, <1>3, <2>1 DEF Handle, Hurts
  <2>2. CASE HandleThrows(e)
    BY <2>2 DEF HandleThrows, Hurts
  <2>3. CASE HandleTooLarge(e)
    BY <2>3 DEF HandleTooLarge, Hurts
  <2>4. QED
    BY <2>1, <2>2, <2>3
<1>5. Frame(answer) \in Seq(Flight) /\ Rest(answer, <<>>, Frame(answer))
  BY FrameIsRest DEF Frames
<1>6. Tail(toHandler[e]) \in Seq(Flight)
  BY <1>1, <1>2 DEF PeerStreamTypeOK
<1>7. /\ handler' = [handler EXCEPT ![e] = "done"]
      /\ toHandler' = [toHandler EXCEPT ![e] = Tail(@)]
      /\ toCaller' = [toCaller EXCEPT ![e] = Frame(answer)]
      /\ processed' = [processed EXCEPT ![e] = @ + times]
      /\ hurt' = [hurt EXCEPT ![e] = harm]
      /\ UNCHANGED <<caller, handlerRead, callerRead>>
  BY <1>4 DEF Serves
<1>8. PeerStreamTypeOK'
  BY <1>1, <1>2, <1>4, <1>5, <1>6, <1>7 DEF PeerStreamTypeOK
<1>9. Exchange(e)'
  BY <1>1, <1>2, <1>4, <1>5, <1>7 DEF PeerStreamTypeOK, Exchange, Unbroken
<1>10. QED
  BY <1>1, <1>7, <1>8, <1>9, StreamInvFromOne DEF PeerStreamTypeOK

LEMMA StreamInvStep == StreamInv /\ [PeerStreamNext]_streamVars => StreamInv'
<1> SUFFICES ASSUME StreamInv, [PeerStreamNext]_streamVars PROVE StreamInv'
  OBVIOUS
<1>1. CASE UNCHANGED streamVars
  BY <1>1 DEF streamVars, StreamInv, PeerStreamTypeOK, Exchange, Unbroken
<1>2. ASSUME NEW e \in Exchanges,
             \/ DialFails(e) \/ Dial(e) \/ DialTooLarge(e)
             \/ CallerReads(e) \/ CallerEnds(e) \/ CallerFails(e)
             \/ HandlerReads(e) \/ Handle(e) \/ HandleThrows(e) \/ HandleTooLarge(e) \/ HandlerFails(e)
             \/ Reset(e)
      PROVE  StreamInv'
  BY <1>2, DialStep, ReadStep, EndStep, ServeStep
<1>3. QED
  BY <1>1, <1>2, Zenon DEF PeerStreamNext

LEMMA StreamInvImplies == StreamInv => ResultsAreTruthful /\ NobodyWaitsInVain
<1> SUFFICES ASSUME StreamInv, NEW e \in Exchanges
             PROVE  /\ caller[e] = "answered" => processed[e] = 1 /\ hurt[e] = "nothing"
                    /\ caller[e] = "null" => hurt[e] # "nothing"
                    /\ hurt[e] # "reset" =>
                         /\ handler[e] = "reading" => toHandler[e] # <<>>
                         /\ caller[e] = "reading" => handler[e] = "reading" \/ toCaller[e] # <<>>
  BY DEF ResultsAreTruthful, NobodyWaitsInVain
<1>1. Exchange(e) /\ PeerStreamTypeOK
  BY DEF StreamInv
<1>2. ASSUME NEW kind \in Frames, NEW read \in Seq(Frames), NEW flight \in Seq(Flight),
             Rest(kind, read, flight)
      PROVE  flight # <<>>
  BY <1>2, PeerStreamAssumption DEF Rest, PeerStreamAssumption
<1>3. QED
  BY <1>1, <1>2 DEF Exchange, Unbroken, PeerStreamTypeOK, Frames

(***************************************************************************)
(* The relay mailbox.  A message is in the store or was handed over, never *)
(* both: a retrieval deletes what it hands over.                           *)
(***************************************************************************)
RelayInv ==
  /\ RelayTypeOK
  /\ \A m \in mailbox : ~Received(m.id)
  /\ AtMostOnce
  /\ KeptUntilExpiry

LEMMA RelayInvInit == RelayInit => RelayInv
<1> SUFFICES ASSUME RelayInit PROVE RelayInv
  OBVIOUS
<1>1. ~Received(0) /\ \A i : ~Received(i)
  BY DEF RelayInit, Received
<1>2. RelayTypeOK
  BY <1>1, RelayAssumption DEF RelayAssumption, RelayInit, RelayTypeOK, Stored
<1>3. QED
  BY <1>1, <1>2 DEF RelayInit, RelayInv, AtMostOnce, KeptUntilExpiry

LEMMA StoreStep ==
  ASSUME RelayInv, NEW d \in Recipients, Store(d)
  PROVE  RelayInv'
<1> DEFINE m == [id |-> nextId, to |-> d]
<1>1. /\ RelayTypeOK /\ nextId \in Nat /\ nextId \in Ids
      /\ mailbox' = mailbox \cup {m}
      /\ expiresAt' = [expiresAt EXCEPT ![nextId] = relayNow + TTL]
      /\ nextId' = nextId + 1
      /\ UNCHANGED <<received, relayNow, retrieveFailures>>
  BY RelayAssumption DEF RelayAssumption, Store, RelayInv, RelayTypeOK, Ids
<1>2. m \in Entry /\ m.id = nextId
  BY <1>1 DEF Entry
<1> HIDE DEF m
<1>3. \A i \in Ids : /\ Received(i)' <=> Received(i)
                     /\ Stored(i)' <=> Stored(i) \/ i = nextId
  BY <1>1, <1>2 DEF Received, Stored
<1>4. \A n \in mailbox : n \in Entry /\ n.id \in Ids /\ n.id < nextId
  BY <1>1 DEF RelayTypeOK, Entry, Stored
<1>5. RelayTypeOK'
  <2>1. \A x, y \in mailbox' : x.id = y.id => x = y
    BY <1>1, <1>2, <1>4 DEF RelayTypeOK
  <2>2. \A i \in Ids : Stored(i)' \/ Received(i)' => i < nextId'
    BY <1>1, <1>3 DEF RelayTypeOK, Ids
  <2>3. nextId' \in 1..(MaxStores + 1) /\ expiresAt' \in [Ids -> Nat]
    BY <1>1, RelayAssumption DEF RelayAssumption, RelayTypeOK, Ids
  <2>4. QED
    BY <1>1, <1>2, <2>1, <2>2, <2>3 DEF RelayTypeOK
<1>6. \A n \in mailbox' : ~Received(n.id)'
  <2>1. ~Received(nextId)
    BY <1>1 DEF RelayTypeOK
  <2>2. \A n \in mailbox' : n.id \in Ids /\ ~Received(n.id)
    BY <1>1, <1>2, <1>4, <2>1 DEF RelayInv
  <2>3. QED
    BY <1>3, <2>2
<1>7. AtMostOnce'
  BY <1>1 DEF RelayInv, AtMostOnce
<1>8. KeptUntilExpiry'
  <2> SUFFICES ASSUME retrieveFailures = 0, NEW i \in 1..nextId
               PROVE  Stored(i)' \/ Received(i)' \/ expiresAt'[i] < relayNow
    BY <1>1 DEF KeptUntilExpiry
  <2>1. i \in Ids
    BY <1>1, RelayAssumption DEF RelayAssumption, Ids
  <2>2. CASE i = nextId
    BY <1>3, <2>1, <2>2
  <2>3. CASE i # nextId
    <3>1. i \in 1..(nextId - 1) /\ expiresAt'[i] = expiresAt[i]
      BY <1>1, <2>1, <2>3 DEF RelayTypeOK
    <3>2. QED
      BY <1>3, <2>1, <3>1 DEF RelayInv, KeptUntilExpiry
  <2>4. QED
    BY <2>2, <2>3
<1>9. QED
  BY <1>5, <1>6, <1>7, <1>8 DEF RelayInv

\* Removals, by whatever happens to a retrieval, hand over nothing.
LEMMA RemovalStep ==
  ASSUME RelayInv, mailbox' \subseteq mailbox, retrieveFailures' \in 0..MaxFailures,
         retrieveFailures' # 0 \/ (retrieveFailures' = retrieveFailures /\ mailbox \ mailbox' \subseteq Expired),
         UNCHANGED <<nextId, expiresAt, received, relayNow>>
  PROVE  RelayInv'
<1>1. \A i \in Ids : (Received(i)' <=> Received(i)) /\ (Stored(i)' => Stored(i))
  BY DEF Received, Stored
<1>2. \A m \in mailbox : m.id \in Ids
  BY DEF RelayInv, RelayTypeOK, Entry
<1>3. RelayTypeOK'
  BY <1>1 DEF RelayInv, RelayTypeOK
<1>4. \A m \in mailbox' : ~Received(m.id)'
  BY <1>1, <1>2 DEF RelayInv
<1>5. AtMostOnce'
  BY DEF RelayInv, AtMostOnce
<1>6. KeptUntilExpiry'
  <2> SUFFICES ASSUME retrieveFailures' = 0, NEW i \in 1..(nextId - 1)
               PROVE  Stored(i)' \/ Received(i)' \/ expiresAt[i] < relayNow
    BY DEF KeptUntilExpiry
  <2>1. i \in Ids
    BY RelayAssumption DEF RelayAssumption, RelayInv, RelayTypeOK, Ids
  <2>2. Stored(i) \/ Received(i) \/ expiresAt[i] < relayNow
    BY DEF RelayInv, KeptUntilExpiry
  <2>3. \A m \in mailbox : m \in mailbox' \/ expiresAt[m.id] < relayNow
    BY DEF Expired
  <2>4. QED
    BY <1>1, <2>1, <2>2, <2>3 DEF Stored
<1>7. QED
  BY <1>3, <1>4, <1>5, <1>6 DEF RelayInv

LEMMA RetrieveStep ==
  ASSUME RelayInv, NEW d \in Recipients, Retrieve(d)
  PROVE  RelayInv'
<1> DEFINE taken == {m.id : m \in Live(d)}
<1>1. /\ RelayTypeOK /\ received[d] \in Seq(SUBSET Ids)
      /\ mailbox' = mailbox \ (Expired \cup Live(d))
      /\ received' = [received EXCEPT ![d] = Append(@, taken)]
      /\ UNCHANGED <<nextId, expiresAt, relayNow, retrieveFailures>>
  BY DEF Retrieve, Without, RelayInv, RelayTypeOK
<1>2. \A m \in mailbox : m.id \in Ids
  BY <1>1 DEF RelayTypeOK, Entry
<1>3. \A i \in taken : i \in Ids /\ Stored(i) /\ ~Received(i)
  BY <1>2 DEF Live, For, Stored, RelayInv
<1>4. \A m \in mailbox' : m.id \notin taken
  BY <1>1 DEF RelayTypeOK, Live, For
<1>5. \A m \in mailbox : m \in mailbox' \/ m.id \in taken \/ expiresAt[m.id] < relayNow
  BY <1>1 DEF Expired
<1> HIDE DEF taken
<1>6. /\ received' \in [Recipients -> Seq(SUBSET Ids)]
      /\ \A e \in Recipients \ {d} : received'[e] = received[e]
      /\ DOMAIN received'[d] = 1..(Len(received[d]) + 1)
      /\ received'[d][Len(received[d]) + 1] = taken
      /\ \A j \in DOMAIN received[d] : received'[d][j] = received[d][j]
      /\ DOMAIN received[d] = 1..Len(received[d]) /\ Len(received[d]) \in Nat
  <2>1. taken \in SUBSET Ids
    BY <1>3
  <2>2. Append(received[d], taken) \in Seq(SUBSET Ids)
    BY <1>1, <2>1
  <2>3. QED
    BY <1>1, <2>1, <2>2 DEF RelayTypeOK
<1>7. \A e \in Recipients, j \in Nat :
        j \in DOMAIN received'[e] => \/ j \in DOMAIN received[e] /\ received'[e][j] = received[e][j]
                                     \/ e = d /\ j = Len(received[d]) + 1 /\ received'[e][j] = taken
  BY <1>6
<1>8. \A i \in Ids : Received(i)' <=> Received(i) \/ i \in taken
  <2> SUFFICES ASSUME NEW i \in Ids PROVE Received(i)' <=> Received(i) \/ i \in taken
    OBVIOUS
  <2>1. ASSUME Received(i)' PROVE Received(i) \/ i \in taken
    <3>0. PICK e \in Recipients : \E j \in DOMAIN received'[e] : i \in received'[e][j]
      BY <2>1 DEF Received
    <3>1. PICK j \in DOMAIN received'[e] : i \in received'[e][j]
      BY <3>0
    <3>2. j \in Nat
      BY <1>6, <3>1
    <3>3. QED
      BY <1>7, <3>1, <3>2 DEF Received
  <2>2. ASSUME Received(i) PROVE Received(i)'
    <3>0. PICK e \in Recipients : \E j \in DOMAIN received[e] : i \in received[e][j]
      BY <2>2 DEF Received
    <3>1. PICK j \in DOMAIN received[e] : i \in received[e][j]
      BY <3>0
    <3>2. j \in DOMAIN received'[e] /\ received'[e][j] = received[e][j]
      BY <1>6, <3>1
    <3>3. QED
      BY <3>1, <3>2 DEF Received
  <2>3. ASSUME i \in taken PROVE Received(i)'
    BY <1>6, <2>3 DEF Received
  <2>4. QED
    BY <2>1, <2>2, <2>3
<1>9. RelayTypeOK'
  <2>1. \A i \in Ids : Stored(i)' => Stored(i)
    BY <1>1 DEF Stored
  <2>2. \A i \in Ids : Stored(i)' \/ Received(i)' => i < nextId'
    BY <1>1, <1>3, <1>8, <2>1 DEF RelayTypeOK
  <2>3. QED
    BY <1>1, <1>6, <2>2 DEF RelayTypeOK
<1>10. \A m \in mailbox' : ~Received(m.id)'
  BY <1>1, <1>2, <1>4, <1>8 DEF RelayInv
<1>11. AtMostOnce'
  <2> SUFFICES ASSUME NEW e \in Recipients, NEW f \in Recipients,
                      NEW j \in DOMAIN received'[e], NEW k \in DOMAIN received'[f],
                      NEW i, i \in received'[e][j] /\ i \in received'[f][k]
               PROVE  e = f /\ j = k
    BY DEF AtMostOnce
  <2>1. j \in Nat /\ k \in Nat
    BY <1>6
  <2>2. CASE j \in DOMAIN received[e] /\ received'[e][j] = received[e][j] /\ k \in DOMAIN received[f] /\ received'[f][k] = received[f][k]
    BY <2>2 DEF RelayInv, AtMostOnce
  <2>3. CASE i \in taken
    <3>1. ~Received(i)
      BY <1>3, <2>3
    <3>2. QED
      BY <1>7, <2>1, <3>1 DEF Received
  <2>4. QED
    BY <1>7, <2>1, <2>2, <2>3
<1>12. KeptUntilExpiry'
  <2> SUFFICES ASSUME retrieveFailures = 0, NEW i \in 1..(nextId - 1)
               PROVE  Stored(i)' \/ Received(i)' \/ expiresAt[i] < relayNow
    BY <1>1 DEF KeptUntilExpiry
  <2>1. i \in Ids
    BY <1>1, RelayAssumption DEF RelayAssumption, RelayTypeOK, Ids
  <2>2. Stored(i) \/ Received(i) \/ expiresAt[i] < relayNow
    BY DEF RelayInv, KeptUntilExpiry
  <2>3. QED
    BY <1>5, <1>8, <2>1, <2>2 DEF Stored
<1>13. QED
  BY <1>9, <1>10, <1>11, <1>12 DEF RelayInv

LEMMA RelayInvStep == RelayInv /\ [RelayNext]_relayVars => RelayInv'
<1> SUFFICES ASSUME RelayInv, [RelayNext]_relayVars PROVE RelayInv'
  OBVIOUS
<1>1. retrieveFailures \in 0..MaxFailures /\ MaxFailures \in Nat
  BY RelayAssumption DEF RelayAssumption, RelayInv, RelayTypeOK
<1>2. ASSUME NEW d \in Recipients, RetrieveNothing(d) PROVE RelayInv'
  <2>1. mailbox' = mailbox \ Expired /\ UNCHANGED <<nextId, expiresAt, received, relayNow, retrieveFailures>>
    BY <1>2 DEF RetrieveNothing, Without
  <2>2. QED
    BY <1>1, <2>1, RemovalStep
<1>3. ASSUME NEW d \in Recipients, RetrieveLost(d) \/ RetrieveCrash(d) PROVE RelayInv'
  <2>1. mailbox' \subseteq mailbox /\ UNCHANGED <<nextId, expiresAt, received, relayNow>>
    BY <1>3 DEF RetrieveLost, RetrieveCrash, Without
  <2>2. retrieveFailures' \in 0..MaxFailures /\ retrieveFailures' # 0
    BY <1>1, <1>3 DEF RetrieveLost, RetrieveCrash
  <2>3. QED
    BY <2>1, <2>2, RemovalStep
<1>4. ASSUME RelayTick PROVE RelayInv'
  <2>1. \A i : (Received(i)' <=> Received(i)) /\ (Stored(i)' <=> Stored(i))
    BY <1>4 DEF RelayTick, Received, Stored
  <2>2. /\ relayNow' = relayNow + 1 /\ relayNow \in Nat /\ relayNow' \in 0..MaxTime
        /\ UNCHANGED <<mailbox, nextId, expiresAt, received, retrieveFailures>>
    BY <1>4, RelayAssumption DEF RelayAssumption, RelayTick, RelayInv, RelayTypeOK
  <2>3. RelayTypeOK' /\ AtMostOnce' /\ \A m \in mailbox' : ~Received(m.id)'
    BY <2>1, <2>2 DEF RelayInv, RelayTypeOK, AtMostOnce
  <2>4. KeptUntilExpiry'
    <3> SUFFICES ASSUME retrieveFailures = 0, NEW i \in 1..(nextId - 1)
                 PROVE  Stored(i) \/ Received(i) \/ expiresAt[i] < relayNow + 1
      BY <2>1, <2>2 DEF KeptUntilExpiry
    <3>1. i \in Ids /\ expiresAt[i] \in Nat
      BY RelayAssumption DEF RelayAssumption, RelayInv, RelayTypeOK, Ids
    <3>2. QED
      BY <2>2, <3>1 DEF RelayInv, KeptUntilExpiry
  <2>5. QED
    BY <2>3, <2>4 DEF RelayInv
<1>5. CASE UNCHANGED relayVars
  BY <1>5 DEF relayVars, RelayInv, RelayTypeOK, AtMostOnce, KeptUntilExpiry, Stored, Received
<1>6. QED
  BY <1>2, <1>3, <1>4, <1>5, StoreStep, RetrieveStep DEF RelayNext

(***************************************************************************)
(* Gossip.  A report, kept or listed, was seen by nodes that keep it or    *)
(* have forgotten it, and by none twice unless it forgot.                  *)
(***************************************************************************)
Traced(r) ==
  /\ r.id \in created
  /\ \A i \in DOMAIN r.seenBy : Holds(r.seenBy[i], r.id) \/ <<r.seenBy[i], r.id>> \in forgotten
  /\ \A i, j \in DOMAIN r.seenBy :
       i < j /\ r.seenBy[i] = r.seenBy[j] => <<r.seenBy[i], r.id>> \in forgotten

GossipInv ==
  /\ sharedReports \in [GossipNodes -> Seq(SharedReport)]
  /\ copies \subseteq SharedReport /\ created \subseteq Reports
  /\ \A n \in GossipNodes : \A i, j \in DOMAIN sharedReports[n] :
       sharedReports[n][i].id = sharedReports[n][j].id => i = j
  /\ \A n \in GossipNodes : \A i \in DOMAIN sharedReports[n] : Traced(sharedReports[n][i])
  /\ \A r \in copies : Traced(r)

LEMMA GossipInvInit == GossipInit => GossipInv
BY DEF GossipInit, GossipInv

\* Reports already traced stay so, whatever a node forgets.
LEMMA KeepsTraces ==
  ASSUME GossipInv, NEW n \in GossipNodes, NEW reports \in Seq(SharedReport), Keeps(n, reports),
         created \subseteq created', NEW r \in SharedReport, Traced(r)
  PROVE  Traced(r)'
<1>1. /\ sharedReports' = [sharedReports EXCEPT ![n] = reports]
      /\ forgotten' = forgotten \cup
           {<<n, id>> : id \in {q.id : q \in ToSet(sharedReports[n])} \ {q.id : q \in ToSet(reports)}}
  BY DEF Keeps
<1>2. ASSUME NEW m \in GossipNodes, NEW id, Holds(m, id)
      PROVE  Holds(m, id)' \/ <<m, id>> \in forgotten'
  <2>1. CASE m # n
    BY <1>1, <1>2, <2>1 DEF Holds, GossipInv
  <2>2. CASE m = n
    <3>1. id \in {q.id : q \in ToSet(sharedReports[n])}
      BY <1>2, <2>2 DEF Holds, ToSet
    <3>2. id \in {q.id : q \in ToSet(reports)} => Holds(m, id)'
      BY <1>1, <2>2 DEF Holds, ToSet, GossipInv
    <3>3. QED
      BY <1>1, <2>2, <3>1, <3>2
  <2>3. QED
    BY <2>1, <2>2
<1>3. \A i \in DOMAIN r.seenBy : r.seenBy[i] \in GossipNodes
  BY DEF SharedReport
<1>4. \A i \in DOMAIN r.seenBy : Holds(r.seenBy[i], r.id)' \/ <<r.seenBy[i], r.id>> \in forgotten'
  BY <1>1, <1>2, <1>3 DEF Traced
<1>5. QED
  BY <1>1, <1>4 DEF Traced

\* A node that takes a report it does not hold keeps the invariant, if it keeps
\* the report at the end of a list of its own.
LEMMA TakesReport ==
  ASSUME GossipInv, NEW n \in GossipNodes, NEW reports \in Seq(SharedReport), Keeps(n, reports),
         created \subseteq created', created' \subseteq Reports,
         NEW r \in SharedReport, Traced(r)',
         \A i \in DOMAIN reports : reports[i] = r \/ \E j \in DOMAIN sharedReports[n] : reports[i] = sharedReports[n][j],
         \A i, j \in DOMAIN reports : reports[i].id = reports[j].id => i = j
  PROVE  GossipInv'
<1>1. /\ sharedReports' = [sharedReports EXCEPT ![n] = reports]
      /\ copies' = copies \cup {q \in ToSet(reports) : q.hops < MaxHops}
  BY DEF Keeps, Pending
<1>2. \A i \in DOMAIN reports : reports[i] \in SharedReport /\ Traced(reports[i])'
  <2> SUFFICES ASSUME NEW i \in DOMAIN reports, reports[i] # r PROVE Traced(reports[i])'
    OBVIOUS
  <2>1. reports[i] \in SharedReport /\ Traced(reports[i])
    BY DEF GossipInv
  <2>2. QED
    BY <2>1, KeepsTraces
<1>3. \A m \in GossipNodes : \A i \in DOMAIN sharedReports'[m] : Traced(sharedReports[m][i])'
  <2> SUFFICES ASSUME NEW m \in GossipNodes, NEW i \in DOMAIN sharedReports'[m]
               PROVE  Traced(sharedReports[m][i])'
    OBVIOUS
  <2>1. CASE m = n
    BY <1>1, <1>2, <2>1 DEF GossipInv
  <2>2. CASE m # n
    <3>1. sharedReports'[m] = sharedReports[m] /\ sharedReports[m] \in Seq(SharedReport)
      BY <1>1, <2>2 DEF GossipInv
    <3>2. PICK q \in SharedReport : q = sharedReports[m][i] /\ Traced(q)
      BY <3>1 DEF GossipInv
    <3>3. Traced(q)'
      BY <3>2, KeepsTraces
    <3>4. QED
      BY <3>1, <3>2, <3>3
  <2>3. QED
    BY <2>1, <2>2
<1>4. \A q \in copies' : q \in SharedReport /\ Traced(q)'
  <2>1. \A q \in copies : q \in SharedReport /\ Traced(q)'
    BY KeepsTraces DEF GossipInv
  <2>2. QED
    BY <1>1, <1>2, <2>1 DEF ToSet
<1>5. sharedReports' \in [GossipNodes -> Seq(SharedReport)]
  BY <1>1 DEF GossipInv
<1>6. \A m \in GossipNodes : \A i, j \in DOMAIN sharedReports'[m] :
        sharedReports'[m][i].id = sharedReports'[m][j].id => i = j
  BY <1>1 DEF GossipInv
<1>7. QED
  BY <1>3, <1>4, <1>5, <1>6 DEF GossipInv

LEMMA CreateStep ==
  ASSUME GossipInv, NEW n \in GossipNodes, NEW subject \in GossipNodes, NEW id \in Reports,
         Create(n, id, subject)
  PROVE  GossipInv'
<1> DEFINE r == [id |-> id, subject |-> subject, hops |-> 0, seenBy |-> <<n>>]
           reports == Append(sharedReports[n], r)
<1>1. /\ id \notin created /\ created' = created \cup {id}
      /\ Keeps(n, reports)
      /\ sharedReports[n] \in Seq(SharedReport)
  BY DEF Create, GossipInv
<1>2. r \in SharedReport
  BY AnomalyGossipAssumption DEF AnomalyGossipAssumption, SharedReport
<1>3. r.id = id /\ r.seenBy = <<n>>
  OBVIOUS
<1> HIDE DEF r
<1>4. /\ reports \in Seq(SharedReport)
      /\ DOMAIN reports = 1..(Len(sharedReports[n]) + 1)
      /\ reports[Len(sharedReports[n]) + 1] = r
      /\ \A i \in DOMAIN sharedReports[n] : reports[i] = sharedReports[n][i]
      /\ DOMAIN sharedReports[n] = 1..Len(sharedReports[n]) /\ Len(sharedReports[n]) \in Nat
  BY <1>1, <1>2
<1> HIDE DEF reports
<1>5. \A i \in DOMAIN sharedReports[n] : sharedReports[n][i].id # id
  BY <1>1 DEF GossipInv, Traced
<1>6. \A i, j \in DOMAIN reports : reports[i].id = reports[j].id => i = j
  <2>1. \A i \in DOMAIN reports : i = Len(sharedReports[n]) + 1 \/ i \in DOMAIN sharedReports[n]
    BY <1>4
  <2>2. ASSUME NEW i \in DOMAIN sharedReports[n], NEW j \in DOMAIN sharedReports[n],
               reports[i].id = reports[j].id
        PROVE  i = j
    BY <1>4, <2>2 DEF GossipInv
  <2>3. \A i \in DOMAIN sharedReports[n] : reports[i].id # r.id
    BY <1>3, <1>4, <1>5
  <2>4. QED
    BY <1>4, <2>1, <2>2, <2>3
<1>7. \A i \in DOMAIN reports : reports[i] = r \/ \E j \in DOMAIN sharedReports[n] : reports[i] = sharedReports[n][j]
  BY <1>4
<1>8. Traced(r)'
  <2>1. r.id \in created'
    BY <1>1, <1>3
  <2>2. sharedReports'[n] = reports
    BY <1>1 DEF Keeps, GossipInv
  <2>3. Holds(n, r.id)'
    BY <1>4, <2>2 DEF Holds
  <2>4. DOMAIN r.seenBy = {1} /\ r.seenBy[1] = n
    BY <1>3
  <2>5. QED
    BY <2>1, <2>3, <2>4 DEF Traced
<1>9. created \subseteq created' /\ created' \subseteq Reports
  BY <1>1 DEF GossipInv
<1>10. QED
  BY <1>1, <1>2, <1>4, <1>6, <1>7, <1>8, <1>9, TakesReport

\* The end of a list is the list, or all of it but what came first.
LEMMA BoundedIsTheEnd ==
  ASSUME NEW S, NEW list \in Seq(S), list # <<>>
  PROVE  /\ Bounded(list) \in Seq(S)
         /\ \E k \in Nat : /\ k < Len(list)
                           /\ DOMAIN Bounded(list) = 1..(Len(list) - k)
                           /\ \A i \in DOMAIN Bounded(list) : i + k \in DOMAIN list /\ Bounded(list)[i] = list[i + k]
<1>1. Len(list) \in Nat \ {0} /\ DOMAIN list = 1..Len(list)
  OBVIOUS
<1>2. CASE Len(list) > ReportsKept
  <2> DEFINE k == Len(list) - ReportsKept
  <2>1. k \in Nat /\ k < Len(list) /\ ReportsKept \in Nat
    BY <1>1, <1>2, AnomalyGossipAssumption DEF AnomalyGossipAssumption
  <2>2. Bounded(list) = SubSeq(list, k + 1, Len(list))
    BY <1>2 DEF Bounded
  <2> HIDE DEF k
  <2>3. /\ SubSeq(list, k + 1, Len(list)) \in Seq(S)
        /\ DOMAIN SubSeq(list, k + 1, Len(list)) = 1..(Len(list) - k)
        /\ \A i \in 1..(Len(list) - k) : SubSeq(list, k + 1, Len(list))[i] = list[i + k]
    <3>1. k + 1 \in Nat \ {0} /\ k + 1 <= Len(list)
      BY <1>1, <2>1
    <3>2. SubSeq(list, k + 1, Len(list)) = [i \in 1..(Len(list) - k) |-> list[i + k]]
      BY <1>1, <2>1, <3>1
    <3>3. \A i \in 1..(Len(list) - k) : i + k \in DOMAIN list
      BY <1>1, <2>1
    <3>4. QED
      BY <1>1, <2>1, <3>2, <3>3
  <2>4. \A i \in 1..(Len(list) - k) : i + k \in DOMAIN list
    BY <1>1, <2>1
  <2>5. \E l \in Nat : /\ l < Len(list)
                      /\ DOMAIN Bounded(list) = 1..(Len(list) - l)
                      /\ \A i \in DOMAIN Bounded(list) : i + l \in DOMAIN list /\ Bounded(list)[i] = list[i + l]
    <3>1. DOMAIN Bounded(list) = 1..(Len(list) - k)
      BY <2>2, <2>3
    <3>2. \A i \in DOMAIN Bounded(list) : i + k \in DOMAIN list /\ Bounded(list)[i] = list[i + k]
      BY <2>2, <2>3, <2>4, <3>1
    <3>3. QED
      BY <2>1, <3>1, <3>2
  <2>6. QED
    BY <2>2, <2>3, <2>5
<1>3. CASE ~(Len(list) > ReportsKept)
  <2>1. Bounded(list) = list
    BY <1>3 DEF Bounded
  <2>2. /\ 0 < Len(list)
        /\ DOMAIN list = 1..(Len(list) - 0)
        /\ \A i \in DOMAIN list : i + 0 \in DOMAIN list /\ list[i] = list[i + 0]
    BY <1>1
  <2>3. QED
    BY <2>1, <2>2
<1>4. QED
  BY <1>2, <1>3

LEMMA ReceiveReportStep ==
  ASSUME GossipInv, NEW n \in GossipNodes, NEW r \in copies, ReceiveReport(n, r)
  PROVE  GossipInv'
<1> DEFINE a == Arrived(n, r)
           longer == Append(sharedReports[n], a)
           reports == Bounded(longer)
<1>1. /\ ~Holds(n, r.id) /\ r.hops < MaxHops
      /\ Keeps(n, reports) /\ created' = created
      /\ sharedReports[n] \in Seq(SharedReport)
      /\ r \in SharedReport /\ Traced(r)
  BY DEF ReceiveReport, Accepts, GossipInv
<1>2. /\ a \in SharedReport /\ a.id = r.id
      /\ a.seenBy = Append(r.seenBy, n)
  <2>1. PICK id \in Reports, subject \in GossipNodes, hops \in 0..MaxHops, by \in Seq(GossipNodes) :
          r = [id |-> id, subject |-> subject, hops |-> hops, seenBy |-> by]
    BY <1>1 DEF SharedReport
  <2>2. a = [id |-> id, subject |-> subject, hops |-> hops + 1, seenBy |-> Append(by, n)]
    BY <2>1 DEF Arrived
  <2>3. hops + 1 \in 0..MaxHops /\ Append(by, n) \in Seq(GossipNodes)
    BY <1>1, <2>1, AnomalyGossipAssumption DEF AnomalyGossipAssumption
  <2>4. QED
    BY <2>1, <2>2, <2>3 DEF SharedReport
<1> HIDE DEF a
<1>3. /\ longer \in Seq(SharedReport) /\ longer # <<>>
      /\ Len(longer) = Len(sharedReports[n]) + 1
      /\ DOMAIN longer = 1..(Len(sharedReports[n]) + 1)
      /\ longer[Len(sharedReports[n]) + 1] = a
      /\ \A i \in DOMAIN sharedReports[n] : longer[i] = sharedReports[n][i]
      /\ DOMAIN sharedReports[n] = 1..Len(sharedReports[n]) /\ Len(sharedReports[n]) \in Nat
  BY <1>1, <1>2
<1> HIDE DEF longer
<1>4. reports \in Seq(SharedReport)
  BY <1>3, BoundedIsTheEnd
<1>5. PICK k \in Nat : /\ k < Len(longer)
                       /\ DOMAIN reports = 1..(Len(longer) - k)
                       /\ \A i \in DOMAIN reports : i + k \in DOMAIN longer /\ reports[i] = longer[i + k]
  BY <1>3, BoundedIsTheEnd
<1> HIDE DEF reports
<1>6. \A i \in DOMAIN longer : i = Len(longer) \/ (i \in DOMAIN sharedReports[n] /\ sharedReports[n][i].id # a.id)
  BY <1>1, <1>2, <1>3 DEF Holds
<1>7. \A i, j \in DOMAIN longer : longer[i].id = longer[j].id => i = j
  BY <1>3, <1>6 DEF GossipInv
<1>8. \A i, j \in DOMAIN reports : reports[i].id = reports[j].id => i = j
  BY <1>5, <1>7
<1>9. \A i \in DOMAIN reports : reports[i] = a \/ \E j \in DOMAIN sharedReports[n] : reports[i] = sharedReports[n][j]
  BY <1>3, <1>5, <1>6
<1>10. Traced(a)'
  <2>1. Traced(r)'
    BY <1>1, <1>4, KeepsTraces
  <2>2. sharedReports'[n] = reports
    BY <1>1 DEF Keeps, GossipInv
  <2>3. Holds(n, a.id)'
    <3>1. Len(longer) - k \in DOMAIN reports /\ reports[Len(longer) - k] = a
      BY <1>3, <1>5
    <3>2. QED
      BY <2>2, <3>1 DEF Holds
  <2>4. /\ r.seenBy \in Seq(GossipNodes)
        /\ DOMAIN a.seenBy = 1..(Len(r.seenBy) + 1)
        /\ a.seenBy[Len(r.seenBy) + 1] = n
        /\ \A i \in DOMAIN r.seenBy : a.seenBy[i] = r.seenBy[i]
        /\ DOMAIN r.seenBy = 1..Len(r.seenBy) /\ Len(r.seenBy) \in Nat
    <3>1. r.seenBy \in Seq(GossipNodes)
      BY <1>1 DEF SharedReport
    <3>2. QED
      BY <1>2, <3>1
  <2>5. \A i \in DOMAIN r.seenBy : r.seenBy[i] = n => <<n, r.id>> \in forgotten'
    <3>1. \A i \in DOMAIN r.seenBy : r.seenBy[i] = n => <<n, r.id>> \in forgotten
      BY <1>1 DEF Traced
    <3>2. QED
      BY <1>1, <3>1 DEF Keeps
  <2>6. \A i \in DOMAIN a.seenBy : i = Len(r.seenBy) + 1 \/ i \in DOMAIN r.seenBy
    BY <2>4
  <2>7. \A i \in DOMAIN a.seenBy : Holds(a.seenBy[i], a.id)' \/ <<a.seenBy[i], a.id>> \in forgotten'
    BY <1>2, <2>1, <2>3, <2>4, <2>6 DEF Traced
  <2>8. ASSUME NEW i \in DOMAIN a.seenBy, NEW j \in DOMAIN a.seenBy, i < j, a.seenBy[i] = a.seenBy[j]
        PROVE  <<a.seenBy[i], a.id>> \in forgotten'
    <3>1. i \in DOMAIN r.seenBy
      BY <2>4, <2>8
    <3>2. CASE j = Len(r.seenBy) + 1
      BY <1>2, <2>4, <2>5, <2>8, <3>1, <3>2
    <3>3. CASE j \in DOMAIN r.seenBy
      BY <1>2, <2>1, <2>4, <2>8, <3>1, <3>3 DEF Traced
    <3>4. QED
      BY <2>6, <3>2, <3>3
  <2>9. a.id \in created'
    BY <1>1, <1>2 DEF Traced
  <2>10. QED
    BY <2>7, <2>8, <2>9 DEF Traced
<1>11. created \subseteq created' /\ created' \subseteq Reports
  BY <1>1 DEF GossipInv
<1>12. QED
  BY <1>1, <1>2, <1>4, <1>8, <1>9, <1>10, <1>11, TakesReport

LEMMA GossipInvStep == GossipInv /\ [GossipNext]_gossipVars => GossipInv'
<1> SUFFICES ASSUME GossipInv, [GossipNext]_gossipVars PROVE GossipInv'
  OBVIOUS
<1>1. CASE UNCHANGED gossipVars
  BY <1>1 DEF gossipVars, GossipInv, Traced, Holds
<1>2. QED
  BY <1>1, CreateStep, ReceiveReportStep DEF GossipNext

LEMMA GossipInvImplies == GossipInv => GossipTypeOK /\ LoopsNeedForgetting
<1> SUFFICES ASSUME GossipInv PROVE GossipTypeOK /\ LoopsNeedForgetting
  OBVIOUS
<1>1. GossipTypeOK
  BY DEF GossipInv, GossipTypeOK, IsInjective
<1>2. LoopsNeedForgetting
  BY DEF GossipInv, LoopsNeedForgetting, Traced
<1>3. QED
  BY <1>1, <1>2

(***************************************************************************)
(* Proposals.  Their type, with at most one open proposal about a DID, is  *)
(* inductive.                                                              *)
(***************************************************************************)
LEMMA ConsensusInit0 == ConsensusInit => ConsensusTypeOK
BY ConsensusAssumption DEF ConsensusAssumption, ConsensusInit, ConsensusTypeOK

LEMMA ProposeStep ==
  ASSUME ConsensusTypeOK, NEW suspect \in Suspects, NEW registries_ \in Registries,
         Propose(suspect, registries_)
  PROVE  ConsensusTypeOK'
<1> DEFINE p == [suspect |-> suspect, isolateVotes |-> 1,
                 totalVoters |-> IF registries_ = 0 THEN 1 ELSE registries_,
                 status |-> "voting", expires |-> votingTime + VotingDays]
<1>1. proposals \in Seq(Proposal) /\ votingTime \in 0..MaxVotingTime
  BY DEF ConsensusTypeOK
<1>2. proposals' = Append(proposals, p) /\ votingTime' = votingTime /\ Voting(suspect) = {}
  BY DEF Propose
<1>3. p \in Proposal
  BY <1>1, ConsensusAssumption DEF ConsensusAssumption, Proposal
<1>4. p.suspect = suspect
  OBVIOUS
<1> HIDE DEF p
<1>5. /\ proposals' \in Seq(Proposal)
      /\ DOMAIN proposals' = 1..(Len(proposals) + 1)
      /\ proposals'[Len(proposals) + 1] = p
      /\ \A i \in DOMAIN proposals : proposals'[i] = proposals[i]
      /\ DOMAIN proposals = 1..Len(proposals) /\ Len(proposals) \in Nat
  BY <1>1, <1>2, <1>3
<1>6. \A i \in DOMAIN proposals' : i \in DOMAIN proposals \/ i = Len(proposals) + 1
  BY <1>5
<1>7. \A i \in DOMAIN proposals : ~(proposals[i].status = "voting" /\ proposals[i].suspect = suspect)
  BY <1>2 DEF Voting
<1>8. ASSUME NEW i \in DOMAIN proposals', NEW j \in DOMAIN proposals',
             proposals'[i].status = "voting", proposals'[j].status = "voting",
             proposals'[i].suspect = proposals'[j].suspect
      PROVE  i = j
  <2>1. CASE i \in DOMAIN proposals /\ j \in DOMAIN proposals
    BY <1>5, <1>8, <2>1 DEF ConsensusTypeOK
  <2>2. CASE i = Len(proposals) + 1
    BY <1>4, <1>5, <1>6, <1>7, <1>8, <2>2
  <2>3. CASE j = Len(proposals) + 1
    BY <1>4, <1>5, <1>6, <1>7, <1>8, <2>3
  <2>4. QED
    BY <1>6, <2>1, <2>2, <2>3
<1>9. QED
  BY <1>1, <1>2, <1>5, <1>8 DEF ConsensusTypeOK

LEMMA ConsensusStep == ConsensusTypeOK /\ [ConsensusNext]_consensusVars => ConsensusTypeOK'
<1> SUFFICES ASSUME ConsensusTypeOK, [ConsensusNext]_consensusVars PROVE ConsensusTypeOK'
  OBVIOUS
<1>1. proposals \in Seq(Proposal) /\ votingTime \in 0..MaxVotingTime
  BY DEF ConsensusTypeOK
<1>2. ASSUME NEW i \in 1..MaxProposals, VoteLate(i) PROVE ConsensusTypeOK'
  <2>1. i \in DOMAIN proposals /\ proposals' = [proposals EXCEPT ![i].status = "expired"] /\ votingTime' = votingTime
    BY <1>2 DEF VoteLate
  <2>2. PICK p \in Proposal : p = proposals[i]
    BY <1>1, <2>1
  <2>3. PICK late \in Proposal :
          late = [p EXCEPT !.status = "expired"] /\ late.status = "expired"
    <3>1. PICK s \in Suspects, votes \in Nat, total \in Nat \ {0},
               status \in {"voting", "approved", "rejected", "expired"}, expires \in Nat :
            p = [suspect |-> s, isolateVotes |-> votes, totalVoters |-> total,
                 status |-> status, expires |-> expires]
      BY <2>2 DEF Proposal
    <3>2. [p EXCEPT !.status = "expired"] =
            [suspect |-> s, isolateVotes |-> votes, totalVoters |-> total,
             status |-> "expired", expires |-> expires]
      BY <3>1
    <3>3. QED
      BY <3>2 DEF Proposal
  <2>4. proposals' = [proposals EXCEPT ![i] = late]
    BY <2>1, <2>2, <2>3
  <2>5. proposals' \in Seq(Proposal) /\ DOMAIN proposals' = DOMAIN proposals
    BY <1>1, <2>1, <2>4
  <2>6. \A j \in DOMAIN proposals : proposals'[j].status = "voting" => proposals'[j] = proposals[j]
    BY <1>1, <2>3, <2>4
  <2>7. \A j, k \in DOMAIN proposals' :
          proposals'[j].status = "voting" /\ proposals'[k].status = "voting"
            /\ proposals'[j].suspect = proposals'[k].suspect => j = k
    BY <2>5, <2>6 DEF ConsensusTypeOK
  <2>8. QED
    BY <1>1, <2>1, <2>5, <2>7 DEF ConsensusTypeOK
<1>3. ASSUME VotingDay PROVE ConsensusTypeOK'
  BY <1>1, <1>3, ConsensusAssumption DEF ConsensusAssumption, ConsensusTypeOK, VotingDay
<1>4. CASE UNCHANGED consensusVars
  BY <1>4 DEF consensusVars, ConsensusTypeOK
<1>5. QED
  BY <1>2, <1>3, <1>4, ProposeStep DEF ConsensusNext

(***************************************************************************)
(* The WebSocket connection.  Every request has an id of its own, below    *)
(* the counter; the map holds a request under that id exactly while its    *)
(* promise waits; an id that travels back is that of a request the server  *)
(* processed.                                                              *)
(***************************************************************************)
SocketTypes ==
  /\ SocketTypeOK
  /\ \A s \in Sockets : readyState[s] = "none" => uplink[s] = <<>>

IdsAreNew ==
  /\ \A r \in Requests : ids[r] <= requestCounter
  /\ \A r \in Requests : promise[r] = "none" => requestCounter < r /\ ids[r] = 0
  /\ \A q, r \in Requests : ids[q] = ids[r] /\ ids[q] # 0 => q = r

MapIsExact ==
  /\ \A r \in timers : ids[r] # 0
  /\ \A i \in Requests : pending[i] # 0 => ids[pending[i]] = i /\ promise[pending[i]] = "waiting"
  /\ WaitingIsPending

FramesAreTrue ==
  /\ \A s \in Sockets : \A k \in DOMAIN uplink[s] : ids[uplink[s][k]] # 0
  /\ \A s \in Sockets : \A k \in DOMAIN downlink[s] :
       downlink[s][k].id # 0 => \E r \in handled : ids[r] = downlink[s][k].id
  /\ AnswersAreOwn

SocketInv == SocketTypes /\ IdsAreNew /\ MapIsExact /\ FramesAreTrue

LEMMA SocketInvInit == SocketInit => SocketInv
BY WebSocketAssumption DEF WebSocketAssumption, SocketInit, SocketInv, SocketTypes, SocketTypeOK, IdsAreNew, MapIsExact,
       FramesAreTrue, WaitingIsPending, AnswersAreOwn, Requests, Sockets, States, Fates, Response

\* A step that leaves requests and frames alone.
LEMMA ConnectionStep ==
  ASSUME SocketInv, readyState' \in [Sockets -> States], current' \in Sockets \cup {0},
         \A s \in Sockets : readyState'[s] \in {"none", "closed"} => readyState'[s] = readyState[s],
         UNCHANGED <<uplink, downlink, requestCounter, ids, pending, timers, promise, handled>>
  PROVE  SocketInv'
BY DEF SocketInv, SocketTypes, SocketTypeOK, IdsAreNew, MapIsExact, FramesAreTrue,
       WaitingIsPending, AnswersAreOwn

LEMMA ConnectionSteps ==
  ASSUME SocketInv, NEW s \in Sockets, Connect(s) \/ Opened(s) \/ PeerCloses(s) \/ Disconnect
  PROVE  SocketInv'
<1>1. readyState \in [Sockets -> States] /\ current \in Sockets \cup {0}
  BY DEF SocketInv, SocketTypes, SocketTypeOK
<1>2. readyState' \in [Sockets -> States] /\ current' \in Sockets \cup {0}
  BY <1>1 DEF Connect, Opened, PeerCloses, Disconnect, States
<1>3. \A t \in Sockets : readyState'[t] \in {"none", "closed"} => readyState'[t] = readyState[t]
  BY <1>1 DEF Connect, Opened, PeerCloses, Disconnect
<1>4. QED
  BY <1>2, <1>3, ConnectionStep DEF Connect, Opened, PeerCloses, Disconnect

LEMMA RefusedStep ==
  ASSUME SocketInv, NEW r \in Requests, RequestRefused(r)
  PROVE  SocketInv'
BY DEF SocketInv, SocketTypes, SocketTypeOK, IdsAreNew, MapIsExact, FramesAreTrue,
       WaitingIsPending, AnswersAreOwn, RequestRefused, IsNext, Fates

\* The next request takes the next id, which nothing carries yet.
LEMMA RequestStep ==
  ASSUME SocketInv, NEW r \in Requests, Request(r)
  PROVE  SocketInv'
<1> DEFINE id == requestCounter + 1
<1>1. SocketTypes /\ SocketTypeOK /\ IdsAreNew /\ MapIsExact /\ FramesAreTrue
  BY DEF SocketInv, SocketTypes
<1>2. /\ promise[r] = "none" /\ ids[r] = 0
      /\ \A q \in Requests : q < r => promise[q] # "none"
      /\ current \in Sockets /\ readyState[current] = "open"
      /\ requestCounter' = id
      /\ ids' = [ids EXCEPT ![r] = id]
      /\ pending' = [pending EXCEPT ![id] = r]
      /\ uplink' = [uplink EXCEPT ![current] = Append(@, r)]
      /\ timers' = timers \cup {r}
      /\ promise' = [promise EXCEPT ![r] = "waiting"]
      /\ UNCHANGED <<readyState, current, downlink, handled>>
  BY <1>1 DEF Request, IsNext, Connected, SocketTypeOK, IdsAreNew
<1>3. id \in Requests /\ id <= r /\ id # 0
  BY <1>1, <1>2, WebSocketAssumption DEF WebSocketAssumption, IdsAreNew, Requests, SocketTypeOK
<1> HIDE DEF id
<1>4. SocketTypeOK'
  <2>1. uplink' \in [Sockets -> Seq(Requests)]
    BY <1>1, <1>2 DEF SocketTypeOK
  <2>2. QED
    BY <1>1, <1>2, <1>3, <2>1 DEF SocketTypeOK, Fates, Requests
<1>5. SocketTypes'
  <2>1. \A s \in Sockets : readyState'[s] = "none" => uplink'[s] = <<>>
    BY <1>1, <1>2 DEF SocketTypes, SocketTypeOK
  <2>2. QED
    BY <1>4, <2>1 DEF SocketTypes
<1>6. \A q \in Requests : ids[q] < id /\ id \in Nat
  BY <1>1 DEF IdsAreNew, SocketTypeOK, id
<1>7. IdsAreNew'
  <2>1. \A q \in Requests : ids'[q] <= requestCounter'
    BY <1>1, <1>2, <1>3, <1>6 DEF SocketTypeOK
  <2>2. \A q \in Requests : promise'[q] = "none" => requestCounter' < q /\ ids'[q] = 0
    BY <1>1, <1>2, <1>3 DEF IdsAreNew, SocketTypeOK, Requests
  <2>3. \A p, q \in Requests : ids'[q] = ids'[p] /\ ids'[q] # 0 => q = p
    BY <1>1, <1>2, <1>6 DEF IdsAreNew, SocketTypeOK
  <2>4. QED
    BY <2>1, <2>2, <2>3 DEF IdsAreNew
<1>8. MapIsExact'
  <2>1. \A i \in Requests : pending[i] # 0 => pending[i] # r /\ i # id /\ pending[i] \in Requests
    <3> SUFFICES ASSUME NEW i \in Requests, pending[i] # 0
                 PROVE  pending[i] # r /\ i # id /\ pending[i] \in Requests
      OBVIOUS
    <3>1. pending[i] \in Requests
      BY <1>1, WebSocketAssumption DEF WebSocketAssumption, SocketTypeOK, Requests
    <3>2. ids[pending[i]] = i /\ promise[pending[i]] = "waiting"
      BY <1>1 DEF MapIsExact
    <3>3. QED
      BY <1>2, <1>6, <3>1, <3>2
  <2>2. \A q \in timers' : ids'[q] # 0
    BY <1>1, <1>2, <1>3 DEF MapIsExact, SocketTypeOK
  <2>3. \A i \in Requests : pending'[i] # 0 => ids'[pending'[i]] = i /\ promise'[pending'[i]] = "waiting"
    BY <1>1, <1>2, <1>3, <2>1 DEF MapIsExact, SocketTypeOK
  <2>4. WaitingIsPending'
    <3> SUFFICES ASSUME NEW q \in Requests
                 PROVE  promise'[q] = "waiting" <=> ids'[q] # 0 /\ pending'[ids'[q]] = q /\ q \in timers'
      BY DEF WaitingIsPending
    <3>1. promise[q] = "waiting" <=> ids[q] # 0 /\ pending[ids[q]] = q /\ q \in timers
      BY <1>1 DEF MapIsExact, WaitingIsPending
    <3>2. CASE q = r
      BY <1>1, <1>2, <1>3, <3>2 DEF SocketTypeOK
    <3>3. CASE q # r
      <4>1. /\ promise'[q] = promise[q] /\ ids'[q] = ids[q] /\ (q \in timers' <=> q \in timers)
            /\ ids[q] # id /\ ids[q] \in Nat
        BY <1>1, <1>2, <1>6, <3>3 DEF SocketTypeOK
      <4>2. ids[q] # 0 => ids[q] \in Requests /\ pending'[ids[q]] = pending[ids[q]]
        BY <1>1, <1>2, <4>1, WebSocketAssumption DEF WebSocketAssumption, SocketTypeOK, Requests
      <4>3. QED
        BY <3>1, <4>1, <4>2
    <3>4. QED
      BY <3>2, <3>3
  <2>5. QED
    BY <2>2, <2>3, <2>4 DEF MapIsExact
<1>9. FramesAreTrue'
  <2>1. \A s \in Sockets : \A k \in DOMAIN uplink'[s] : ids'[uplink'[s][k]] # 0
    <3> SUFFICES ASSUME NEW s \in Sockets, NEW k \in DOMAIN uplink'[s] PROVE ids'[uplink'[s][k]] # 0
      OBVIOUS
    <3>1. CASE s = current /\ k = Len(uplink[s]) + 1
      BY <1>1, <1>2, <1>3, <3>1 DEF SocketTypeOK
    <3>2. CASE s # current \/ k # Len(uplink[s]) + 1
      <4>1. k \in DOMAIN uplink[s] /\ uplink'[s][k] = uplink[s][k] /\ uplink[s][k] \in Requests
        BY <1>1, <1>2, <3>2 DEF SocketTypeOK
      <4>2. QED
        BY <1>1, <1>2, <1>3, <4>1 DEF SocketTypeOK, FramesAreTrue
    <3>3. QED
      BY <3>1, <3>2
  <2>2. \A s \in Sockets : \A k \in DOMAIN downlink'[s] :
          downlink'[s][k].id # 0 => \E q \in handled' : ids'[q] = downlink'[s][k].id
    BY <1>1, <1>2 DEF SocketTypeOK, FramesAreTrue
  <2>3. AnswersAreOwn'
    BY <1>1, <1>2 DEF SocketTypeOK, FramesAreTrue, AnswersAreOwn
  <2>4. QED
    BY <2>1, <2>2, <2>3 DEF FramesAreTrue
<1>10. QED
  BY <1>5, <1>7, <1>8, <1>9 DEF SocketInv


\* Requests leave the map with their promises: those in rs, and no others that wait.
LEMMA SettleStep ==
  ASSUME SocketInv, NEW rs \in SUBSET Requests, NEW fate \in Fates \ {"none", "waiting"},
         \A r \in rs : fate = "answered" => r \in handled,
         promise' = Settled(rs, fate),
         pending' = [i \in Requests |-> IF pending[i] \in rs THEN 0 ELSE pending[i]],
         timers' \subseteq timers, \A r \in timers \ timers' : promise'[r] # "waiting",
         UNCHANGED <<requestCounter, ids, handled>>,
         SocketTypes',
         \A s \in Sockets : \A k \in DOMAIN uplink'[s] : ids[uplink'[s][k]] # 0,
         \A s \in Sockets : \A k \in DOMAIN downlink'[s] :
           downlink'[s][k].id # 0 => \E r \in handled : ids[r] = downlink'[s][k].id
  PROVE  SocketInv'
<1>1. SocketTypeOK /\ IdsAreNew /\ MapIsExact /\ FramesAreTrue
  BY DEF SocketInv, SocketTypes
<1>2. \A r \in Requests : promise'[r] = IF r \in rs /\ promise[r] = "waiting" THEN fate ELSE promise[r]
  BY DEF Settled
<1>3. \A i \in Requests : pending[i] \in 0..MaxRequests /\ (pending[i] # 0 => pending[i] \in Requests)
  BY <1>1, WebSocketAssumption DEF WebSocketAssumption, SocketTypeOK, Requests
<1>4. \A r \in Requests : ids[r] # 0 => ids[r] \in Requests
  BY <1>1, WebSocketAssumption DEF WebSocketAssumption, SocketTypeOK, Requests
<1>5. IdsAreNew'
  BY <1>1, <1>2 DEF IdsAreNew, Fates
<1>6. MapIsExact'
  <2>1. \A r \in timers' : ids'[r] # 0
    BY <1>1 DEF MapIsExact
  <2>2. \A i \in Requests : pending'[i] # 0 => ids'[pending'[i]] = i /\ promise'[pending'[i]] = "waiting"
    BY <1>1, <1>2, <1>3 DEF MapIsExact
  <2>3. ASSUME NEW r \in Requests
        PROVE  promise'[r] = "waiting" <=> ids'[r] # 0 /\ pending'[ids'[r]] = r /\ r \in timers'
    <3>1. promise[r] = "waiting" <=> ids[r] # 0 /\ pending[ids[r]] = r /\ r \in timers
      BY <1>1 DEF MapIsExact, WaitingIsPending
    <3>2. CASE r \in rs
      <4>1. promise'[r] # "waiting"
        BY <1>2, <3>2
      <4>2. ids[r] # 0 => pending'[ids[r]] # r
        BY <1>4, <3>2 DEF Requests
      <4>3. QED
        BY <4>1, <4>2
    <3>3. CASE r \notin rs
      <4>1. promise'[r] = promise[r]
        BY <1>2, <3>3
      <4>2. ids[r] # 0 => (pending'[ids[r]] = r <=> pending[ids[r]] = r)
        BY <1>4, <3>3 DEF Requests
      <4>3. QED
        BY <3>1, <4>1, <4>2
    <3>4. QED
      BY <3>2, <3>3
  <2>4. QED
    BY <2>1, <2>2, <2>3 DEF MapIsExact, WaitingIsPending
<1>7. AnswersAreOwn'
  BY <1>1, <1>2 DEF FramesAreTrue, AnswersAreOwn
<1>8. QED
  BY <1>5, <1>6, <1>7 DEF SocketInv, FramesAreTrue


\* The types hold again when a frame left, or several did.
LEMMA SettledTypes ==
  ASSUME SocketInv, NEW rs \in SUBSET Requests, NEW fate \in Fates,
         promise' = Settled(rs, fate),
         pending' = [i \in Requests |-> IF pending[i] \in rs THEN 0 ELSE pending[i]],
         timers' \subseteq timers, UNCHANGED <<current, requestCounter, ids, handled>>,
         readyState' \in [Sockets -> States],
         \A s \in Sockets : readyState'[s] = "none" => readyState[s] = "none",
         uplink' \in [Sockets -> Seq(Requests)], downlink' \in [Sockets -> Seq(Response)],
         \A s \in Sockets : uplink[s] = <<>> => uplink'[s] = <<>>,
         \A s \in Sockets : readyState'[s] \in {"none", "closed"} => downlink'[s] = <<>>
  PROVE  SocketTypes'
<1>1. promise' \in [Requests -> Fates] /\ pending' \in [Requests -> 0..MaxRequests]
  BY WebSocketAssumption DEF WebSocketAssumption, SocketInv, SocketTypes, SocketTypeOK, Settled
<1>2. QED
  BY <1>1 DEF SocketInv, SocketTypes, SocketTypeOK

LEMMA ReceiveStep ==
  ASSUME SocketInv, NEW s \in Sockets, Receive(s)
  PROVE  SocketInv'
<1> DEFINE id == Head(downlink[s]).id
           rs == IF id # 0 THEN {pending[id]} \ {0} ELSE {}
<1>1. SocketTypeOK /\ IdsAreNew /\ MapIsExact /\ FramesAreTrue
  BY DEF SocketInv, SocketTypes
<1>2. /\ readyState[s] \in {"open", "closing"} /\ downlink[s] # <<>>
      /\ downlink[s] \in Seq(Response)
      /\ downlink' = [downlink EXCEPT ![s] = Tail(@)]
      /\ UNCHANGED <<readyState, current, uplink, requestCounter, ids, timers, handled>>
  BY <1>1 DEF Receive, SocketTypeOK
<1>3. /\ id \in 0..MaxRequests
      /\ id # 0 => \E r \in handled : ids[r] = id
  <2>1. 1 \in DOMAIN downlink[s] /\ downlink[s][1] = Head(downlink[s]) /\ downlink[s][1] \in Response
    BY <1>2
  <2>2. QED
    BY <1>1, <2>1 DEF FramesAreTrue, Response
<1>4. IF id # 0 /\ pending[id] # 0
      THEN promise' = Settled({pending[id]}, "answered") /\ pending' = [pending EXCEPT ![id] = 0]
      ELSE UNCHANGED <<promise, pending>>
  BY DEF Receive
<1> HIDE DEF id
<1>5. \A i \in Requests : pending[i] \in Requests \cup {0}
  BY <1>1, WebSocketAssumption DEF WebSocketAssumption, SocketTypeOK, Requests
<1>6. rs \in SUBSET Requests /\ \A r \in rs : r \in handled /\ ids[r] = id /\ id \in Requests
  <2>1. CASE id # 0 /\ pending[id] # 0
    <3>1. id \in Requests /\ pending[id] \in Requests /\ ids[pending[id]] = id
      BY <1>1, <1>3, <1>5, <2>1 DEF MapIsExact, Requests
    <3>2. PICK r \in handled : ids[r] = id
      BY <1>3, <2>1
    <3>3. r = pending[id]
      BY <1>1, <2>1, <3>1, <3>2 DEF IdsAreNew, SocketTypeOK
    <3>4. QED
      BY <2>1, <3>1, <3>2, <3>3
  <2>2. CASE ~(id # 0 /\ pending[id] # 0)
    BY <2>2
  <2>3. QED
    BY <2>1, <2>2
<1>7. promise' = Settled(rs, "answered")
  <2>1. CASE id # 0 /\ pending[id] # 0
    BY <1>4, <2>1
  <2>2. CASE ~(id # 0 /\ pending[id] # 0)
    BY <1>1, <1>4, <2>2 DEF Settled, SocketTypeOK
  <2>3. QED
    BY <2>1, <2>2
<1>8. pending' = [i \in Requests |-> IF pending[i] \in rs THEN 0 ELSE pending[i]]
  <2>1. CASE id # 0 /\ pending[id] # 0
    <3>1. \A i \in Requests : pending[i] \in rs <=> i = id
      BY <1>1, <1>5, <1>6, <2>1 DEF MapIsExact
    <3>2. QED
      BY <1>1, <1>4, <2>1, <3>1 DEF SocketTypeOK
  <2>2. CASE ~(id # 0 /\ pending[id] # 0)
    BY <1>1, <1>4, <2>2 DEF SocketTypeOK
  <2>3. QED
    BY <2>1, <2>2
<1> HIDE DEF rs
<1>9. /\ downlink' \in [Sockets -> Seq(Response)]
      /\ \A t \in Sockets : downlink[t] = <<>> => downlink'[t] = <<>>
      /\ \A t \in Sockets : \A k \in DOMAIN downlink'[t] : \E j \in DOMAIN downlink[t] : downlink'[t][k] = downlink[t][j]
  <2>1. Tail(downlink[s]) \in Seq(Response) /\ \A k \in DOMAIN Tail(downlink[s]) : k + 1 \in DOMAIN downlink[s] /\ Tail(downlink[s])[k] = downlink[s][k + 1]
    BY <1>2
  <2>2. QED
    BY <1>1, <1>2, <2>1 DEF SocketTypeOK
<1>10. SocketTypes'
  BY <1>1, <1>2, <1>6, <1>7, <1>8, <1>9, SettledTypes DEF SocketTypeOK, Fates
<1>11. /\ \A t \in Sockets : \A k \in DOMAIN uplink'[t] : ids[uplink'[t][k]] # 0
       /\ \A t \in Sockets : \A k \in DOMAIN downlink'[t] :
            downlink'[t][k].id # 0 => \E r \in handled : ids[r] = downlink'[t][k].id
  BY <1>1, <1>2, <1>9 DEF FramesAreTrue
<1>12. "answered" \in Fates \ {"none", "waiting"}
  BY DEF Fates
<1>13. QED
  BY <1>2, <1>6, <1>7, <1>8, <1>10, <1>11, <1>12, SettleStep

LEMMA TimesOutStep ==
  ASSUME SocketInv, NEW q \in Requests, TimesOut(q)
  PROVE  SocketInv'
<1> DEFINE rs == IF pending[ids[q]] # 0 THEN {q} ELSE {}
<1>1. SocketTypeOK /\ IdsAreNew /\ MapIsExact /\ FramesAreTrue
  BY DEF SocketInv, SocketTypes
<1>2. /\ q \in timers /\ ids[q] # 0 /\ ids[q] \in Requests
      /\ timers' = timers \ {q}
      /\ IF pending[ids[q]] # 0
         THEN promise' = Settled({q}, "timedout") /\ pending' = [pending EXCEPT ![ids[q]] = 0]
         ELSE UNCHANGED <<promise, pending>>
      /\ UNCHANGED <<readyState, current, uplink, downlink, requestCounter, ids, handled>>
  BY <1>1, WebSocketAssumption DEF WebSocketAssumption, TimesOut, MapIsExact, SocketTypeOK, Requests
<1>3. \A i \in Requests : pending[i] \in Requests \cup {0}
  BY <1>1, WebSocketAssumption DEF WebSocketAssumption, SocketTypeOK, Requests
<1>4. pending[ids[q]] # 0 => \A i \in Requests : pending[i] = q <=> i = ids[q]
  <2> SUFFICES ASSUME pending[ids[q]] # 0, NEW i \in Requests PROVE pending[i] = q <=> i = ids[q]
    OBVIOUS
  <2>1. ids[pending[ids[q]]] = ids[q] /\ pending[ids[q]] \in Requests
    BY <1>1, <1>2, <1>3 DEF MapIsExact
  <2>2. pending[ids[q]] = q
    BY <1>1, <1>2, <2>1 DEF IdsAreNew
  <2>3. pending[i] = q => ids[q] = i
    BY <1>1, <1>3 DEF MapIsExact, Requests
  <2>4. QED
    BY <2>2, <2>3
<1>5. promise' = Settled(rs, "timedout")
  BY <1>1, <1>2 DEF Settled, SocketTypeOK
<1>6. pending' = [i \in Requests |-> IF pending[i] \in rs THEN 0 ELSE pending[i]]
  <2>1. CASE pending[ids[q]] # 0
    BY <1>1, <1>2, <1>4, <2>1 DEF SocketTypeOK
  <2>2. CASE pending[ids[q]] = 0
    BY <1>1, <1>2, <2>2 DEF SocketTypeOK
  <2>3. QED
    BY <2>1, <2>2
<1>7. SocketTypes'
  BY <1>1, <1>2, <1>5, <1>6, SettledTypes DEF SocketTypeOK, Fates
<1>8. promise'[q] # "waiting"
  <2>1. CASE pending[ids[q]] # 0
    BY <1>2, <2>1 DEF Settled
  <2>2. CASE pending[ids[q]] = 0
    BY <1>1, <1>2, <2>2 DEF MapIsExact, WaitingIsPending, Requests
  <2>3. QED
    BY <2>1, <2>2
<1> HIDE DEF rs
<1>9. rs \in SUBSET Requests
  BY DEF rs
<1>10. QED
  BY <1>1, <1>2, <1>5, <1>6, <1>7, <1>8, <1>9, SettleStep DEF FramesAreTrue, Fates

\* What is waiting is pending: the close of a socket settles it all.
LEMMA CloseStep ==
  ASSUME SocketInv, NEW s \in Sockets, Close(s)
  PROVE  SocketInv'
<1>1. SocketTypeOK /\ IdsAreNew /\ MapIsExact /\ FramesAreTrue
  BY DEF SocketInv, SocketTypes
<1>2. \A i \in Requests : pending[i] \in Requests \cup {0}
  BY <1>1, WebSocketAssumption DEF WebSocketAssumption, SocketTypeOK, Requests
<1>3. PendingRequests \in SUBSET Requests
  BY <1>2 DEF PendingRequests
<1>4. pending' = [i \in Requests |-> IF pending[i] \in PendingRequests THEN 0 ELSE pending[i]]
  BY <1>2 DEF Close, PendingRequests
<1>5. PICK n \in 0..Len(uplink[s]) : uplink' = [uplink EXCEPT ![s] = SubSeq(@, 1, n)]
  BY DEF Close
<1>6. /\ SubSeq(uplink[s], 1, n) \in Seq(Requests)
      /\ uplink[s] = <<>> => SubSeq(uplink[s], 1, n) = <<>>
      /\ \A k \in DOMAIN SubSeq(uplink[s], 1, n) : k \in DOMAIN uplink[s] /\ SubSeq(uplink[s], 1, n)[k] = uplink[s][k]
  BY <1>1, <1>5 DEF SocketTypeOK
<1>7. /\ uplink' \in [Sockets -> Seq(Requests)]
      /\ \A t \in Sockets : uplink[t] = <<>> => uplink'[t] = <<>>
      /\ \A t \in Sockets : \A k \in DOMAIN uplink'[t] : k \in DOMAIN uplink[t] /\ uplink'[t][k] = uplink[t][k]
  BY <1>1, <1>5, <1>6 DEF SocketTypeOK
<1>8. /\ readyState' = [readyState EXCEPT ![s] = "closed"]
      /\ downlink' = [downlink EXCEPT ![s] = <<>>]
      /\ promise' = Settled(PendingRequests, "closed")
      /\ UNCHANGED <<current, requestCounter, ids, timers, handled>>
  BY DEF Close
<1>9. /\ readyState' \in [Sockets -> States] /\ downlink' \in [Sockets -> Seq(Response)]
      /\ \A t \in Sockets : readyState'[t] = "none" => readyState[t] = "none"
      /\ \A t \in Sockets : readyState'[t] \in {"none", "closed"} => downlink'[t] = <<>>
      /\ \A t \in Sockets : \A k \in DOMAIN downlink'[t] : k \in DOMAIN downlink[t] /\ downlink'[t][k] = downlink[t][k]
  BY <1>1, <1>8 DEF SocketTypeOK, States
<1>10. SocketTypes'
  BY <1>3, <1>4, <1>7, <1>8, <1>9, SettledTypes DEF Fates
<1>11. /\ \A t \in Sockets : \A k \in DOMAIN uplink'[t] : ids[uplink'[t][k]] # 0
       /\ \A t \in Sockets : \A k \in DOMAIN downlink'[t] :
            downlink'[t][k].id # 0 => \E r \in handled : ids[r] = downlink'[t][k].id
  <2>1. ASSUME NEW t \in Sockets, NEW k \in DOMAIN uplink'[t] PROVE ids[uplink'[t][k]] # 0
    BY <1>1, <1>7 DEF FramesAreTrue
  <2>2. ASSUME NEW t \in Sockets, NEW k \in DOMAIN downlink'[t], downlink'[t][k].id # 0
        PROVE  \E r \in handled : ids[r] = downlink'[t][k].id
    BY <1>1, <1>9, <2>2 DEF FramesAreTrue
  <2>3. QED
    BY <2>1, <2>2
<1>12. "closed" \in Fates \ {"none", "waiting"}
  BY DEF Fates
<1>13. /\ \A r \in PendingRequests : "closed" = "answered" => r \in handled
       /\ timers' \subseteq timers /\ \A r \in timers \ timers' : promise'[r] # "waiting"
  BY <1>8
<1>14. QED
  BY <1>3, <1>4, <1>8, <1>10, <1>11, <1>12, <1>13, SettleStep

\* The server answers under the id of what it processed.
LEMMA ServerStep ==
  ASSUME SocketInv, NEW s \in Sockets, NEW processing \in BOOLEAN, Serve(s, processing)
  PROVE  SocketInv'
<1> DEFINE r == Head(uplink[s])
           answer == [id |-> IF processing THEN ids[r] ELSE 0]
<1>1. SocketTypes /\ SocketTypeOK /\ IdsAreNew /\ MapIsExact /\ FramesAreTrue
  BY DEF SocketInv, SocketTypes
<1>2. /\ uplink[s] # <<>> /\ uplink[s] \in Seq(Requests) /\ downlink[s] \in Seq(Response)
      /\ r \in Requests /\ ids[r] \in 0..MaxRequests /\ readyState[s] # "none"
  <2>1. uplink[s] # <<>> /\ uplink[s] \in Seq(Requests)
    BY <1>1 DEF Serve, SocketTypeOK
  <2>2. QED
    BY <1>1, <2>1 DEF SocketTypeOK, SocketTypes
<1>3. answer \in Response
  BY <1>2, WebSocketAssumption DEF WebSocketAssumption, Response
<1>4. /\ uplink' = [uplink EXCEPT ![s] = Tail(@)]
      /\ handled' = IF processing THEN handled \cup {r} ELSE handled
      /\ downlink' = IF readyState[s] = "closed" THEN downlink
                     ELSE [downlink EXCEPT ![s] = Append(@, answer)]
      /\ UNCHANGED <<readyState, current, requestCounter, ids, pending, timers, promise>>
  BY DEF Serve
<1>5. answer.id # 0 => answer.id = ids[r] /\ r \in handled'
  BY <1>4
<1> HIDE DEF r, answer
<1>6. /\ Tail(uplink[s]) \in Seq(Requests)
      /\ \A k \in DOMAIN Tail(uplink[s]) : k + 1 \in DOMAIN uplink[s] /\ Tail(uplink[s])[k] = uplink[s][k + 1]
  BY <1>2
<1>7. /\ Append(downlink[s], answer) \in Seq(Response)
      /\ \A k \in DOMAIN Append(downlink[s], answer) :
           \/ k \in DOMAIN downlink[s] /\ Append(downlink[s], answer)[k] = downlink[s][k]
           \/ Append(downlink[s], answer)[k] = answer
  BY <1>2, <1>3
<1>8. /\ uplink' \in [Sockets -> Seq(Requests)]
      /\ \A t \in Sockets : t # s => uplink'[t] = uplink[t]
      /\ uplink'[s] = Tail(uplink[s])
  BY <1>1, <1>4, <1>6 DEF SocketTypeOK
<1>9. /\ downlink' \in [Sockets -> Seq(Response)]
      /\ \A t \in Sockets : t # s \/ readyState[s] = "closed" => downlink'[t] = downlink[t]
      /\ readyState[s] # "closed" => downlink'[s] = Append(downlink[s], answer)
  BY <1>1, <1>4, <1>7 DEF SocketTypeOK
<1>10. handled' \subseteq Requests /\ handled \subseteq handled'
  BY <1>1, <1>2, <1>4 DEF SocketTypeOK
<1>11. SocketTypes'
  <2>1. \A t \in Sockets : readyState[t] \in {"none", "closed"} => downlink'[t] = <<>>
    BY <1>1, <1>2, <1>9 DEF SocketTypeOK
  <2>2. \A t \in Sockets : readyState[t] = "none" => uplink'[t] = <<>>
    BY <1>1, <1>2, <1>8 DEF SocketTypes
  <2>3. QED
    BY <1>1, <1>4, <1>8, <1>9, <1>10, <2>1, <2>2 DEF SocketTypes, SocketTypeOK
<1>12. IdsAreNew' /\ MapIsExact'
  BY <1>1, <1>4 DEF IdsAreNew, MapIsExact, WaitingIsPending
<1>13. FramesAreTrue'
  <2>1. \A t \in Sockets : \A k \in DOMAIN uplink'[t] : ids'[uplink'[t][k]] # 0
    BY <1>1, <1>4, <1>6, <1>8 DEF FramesAreTrue
  <2>2. ASSUME NEW t \in Sockets, NEW k \in DOMAIN downlink'[t], downlink'[t][k].id # 0
        PROVE  \E q \in handled' : ids'[q] = downlink'[t][k].id
    <3>1. CASE k \in DOMAIN downlink[t] /\ downlink'[t][k] = downlink[t][k]
      BY <1>1, <1>4, <1>10, <2>2, <3>1 DEF FramesAreTrue
    <3>2. CASE downlink'[t][k] = answer
      BY <1>4, <1>5, <2>2, <3>2
    <3>3. QED
      BY <1>7, <1>9, <2>2, <3>1, <3>2
  <2>3. AnswersAreOwn'
    BY <1>1, <1>4, <1>10 DEF FramesAreTrue, AnswersAreOwn
  <2>4. QED
    BY <2>1, <2>2, <2>3 DEF FramesAreTrue
<1>14. QED
  BY <1>11, <1>12, <1>13 DEF SocketInv

LEMMA SocketInvStep == SocketInv /\ [SocketNext]_socketVars => SocketInv'
<1> SUFFICES ASSUME SocketInv, [SocketNext]_socketVars PROVE SocketInv'
  OBVIOUS
<1>1. ASSUME NEW s \in Sockets, Connect(s) \/ Opened(s) \/ PeerCloses(s) \/ Close(s) \/ Receive(s)
      PROVE  SocketInv'
  BY <1>1, ConnectionSteps, CloseStep, ReceiveStep
<1>2. ASSUME Disconnect PROVE SocketInv'
  <2>1. current \in Sockets
    BY <1>2 DEF Disconnect, SocketInv, SocketTypes, SocketTypeOK
  <2>2. QED
    BY <1>2, <2>1, ConnectionSteps
<1>3. ASSUME NEW r \in Requests, Request(r) \/ RequestRefused(r) \/ TimesOut(r) PROVE SocketInv'
  BY <1>3, RequestStep, RefusedStep, TimesOutStep
<1>4. ASSUME NEW s \in Sockets, NEW processing \in BOOLEAN, Serve(s, processing) PROVE SocketInv'
  BY <1>4, ServerStep
<1>5. CASE UNCHANGED socketVars
  BY <1>5 DEF socketVars, SocketInv, SocketTypes, SocketTypeOK, IdsAreNew, MapIsExact, FramesAreTrue,
       WaitingIsPending, AnswersAreOwn
<1>6. QED
  BY <1>1, <1>2, <1>3, <1>4, <1>5 DEF SocketNext

(***************************************************************************)
(* Attention tokens.  A spending takes the tokens in their order; what it  *)
(* takes from those before any point is their worth, up to the amount      *)
(* asked for.                                                              *)
(***************************************************************************)
Amounts == [i \in DOMAIN tokens |-> tokens[i].amount]
AmountsAfter(h, n, k) == [i \in DOMAIN tokens |-> Paid(h, n, k)[i].amount]

LEMMA TokenTyped ==
  ASSUME TokensTypeOK, NEW i \in DOMAIN tokens
  PROVE  /\ i \in Nat /\ i \in 1..Len(tokens) /\ tokens[i] \in Token
         /\ tokens[i].amount \in Int /\ tokens[i].expiresAt \in Nat
<1>1. tokens \in Seq(Token)
  BY DEF TokensTypeOK
<1>2. i \in Nat /\ i \in 1..Len(tokens) /\ tokens[i] \in Token
  BY <1>1
<1> QED BY <1>2 DEF Token

LEMMA TokenIndices ==
  ASSUME TokensTypeOK, NEW S \in SUBSET (DOMAIN tokens)
  PROVE  /\ IsFiniteSet(S) /\ Cardinality(S) \in Nat
         /\ SumFunctionOnSet(Amounts, S) \in Int /\ Worth(S) = SumFunctionOnSet(Amounts, S)
<1>1. DOMAIN tokens = 1..Len(tokens) /\ Len(tokens) \in Nat
  BY DEF TokensTypeOK
<1>2. IsFiniteSet(DOMAIN tokens)
  BY <1>1, FS_Interval
<1>3. IsFiniteSet(S) /\ Cardinality(S) \in Nat
  BY <1>2, FS_Subset, FS_CardinalityType
<1>4. \A i \in S : Amounts[i] \in Int
  BY TokenTyped DEF Amounts
<1>5. SumFunctionOnSet(Amounts, S) \in Int
  BY <1>3, <1>4, SumInt
<1>6. Worth(S) = SumFunctionOnSet(Amounts, S)
  BY DEF Worth, Amounts
<1> QED BY <1>3, <1>5, <1>6

\* The order in which tokens are spent has a last one in every set.
LEMMA SpentLast ==
  ASSUME TokensTypeOK, NEW h, NEW S \in SUBSET Spendable(h), S # {}
  PROVE  \E x \in S : \A y \in S : y = x \/ y \in Earlier(h, x)
<1> DEFINE G == {s \in SUBSET S : s # {} => \E x \in s : \A y \in s : y = x \/ y \in Earlier(h, x)}
<1>s. S \subseteq DOMAIN tokens /\ IsFiniteSet(S)
  BY TokenIndices DEF Spendable
<1>n. \A x \in S : x \in Nat /\ tokens[x].expiresAt \in Nat
  BY <1>s, TokenTyped
<1>1. {} \in G
  OBVIOUS
<1>2. ASSUME NEW s \in SUBSET S, s # {}, \A x \in s : s \ {x} \in G PROVE s \in G
  <2>1. PICK x \in s : TRUE
    BY <1>2
  <2>2. CASE s \ {x} = {}
    BY <2>1, <2>2
  <2>3. CASE s \ {x} # {}
    <3>1. PICK y \in s \ {x} : \A z \in s \ {x} : z = y \/ z \in Earlier(h, y)
      BY <1>2, <2>1, <2>3
    <3>2. CASE x \in Earlier(h, y)
      BY <3>1, <3>2
    <3>3. CASE x \notin Earlier(h, y)
      <4>1. x \in Spendable(h) /\ y \in Spendable(h)
        BY <2>1, <3>1
      <4>2. \/ tokens[y].expiresAt < tokens[x].expiresAt
            \/ tokens[y].expiresAt = tokens[x].expiresAt /\ y < x
        BY <1>n, <2>1, <3>1, <3>3, <4>1 DEF Earlier
      <4>3. y \in Earlier(h, x)
        BY <4>1, <4>2 DEF Earlier
      <4>4. ASSUME NEW z \in s, z \in Earlier(h, y) PROVE z \in Earlier(h, x)
        BY <1>n, <2>1, <3>1, <4>2, <4>4 DEF Earlier
      <4> QED BY <2>1, <3>1, <4>3, <4>4
    <3> QED BY <3>2, <3>3
  <2> QED BY <2>2, <2>3
<1> HIDE DEF G
<1>3. SUBSET S \subseteq G
  BY <1>1, <1>2, <1>s, SubsetsBySteps
<1>4. S \in G
  BY <1>3
<1> QED BY <1>4 DEF G

LEMMA PaysInt ==
  ASSUME TokensTypeOK, NEW h, NEW n \in Int, NEW i \in DOMAIN tokens
  PROVE  Pays(h, i, n) \in Int
<1>1. PICK a : a = tokens[i].amount
  OBVIOUS
<1>2. Earlier(h, i) \in SUBSET (DOMAIN tokens)
  BY DEF Earlier, Spendable
<1>3. PICK b : b = Worth(Earlier(h, i))
  OBVIOUS
<1>4. a \in Int /\ b \in Int
  BY <1>1, <1>2, <1>3, TokenIndices, TokenTyped
<1>5. Pays(h, i, n) \in {0, a, n - b}
  BY <1>1, <1>3 DEF Pays
<1> QED BY <1>4, <1>5

LEMMA PaidTypes ==
  ASSUME TokensTypeOK, NEW h, NEW n \in Int, NEW k
  PROVE  /\ Paid(h, n, k) \in Seq(Token) /\ DOMAIN Paid(h, n, k) = DOMAIN tokens
         /\ \A i \in DOMAIN tokens : /\ Paid(h, n, k)[i].holder = tokens[i].holder
                                     /\ Paid(h, n, k)[i].amount \in Int
                                     /\ Paid(h, n, k)[i].amount =
                                          IF i \in Spendable(h) /\ Cardinality(Earlier(h, i)) < k
                                          THEN tokens[i].amount - Pays(h, i, n) ELSE tokens[i].amount
<1>1. PICK p : p = Paid(h, n, k)
  OBVIOUS
<1>2. tokens \in Seq(Token) /\ DOMAIN tokens = 1..Len(tokens) /\ Len(tokens) \in Nat
  BY DEF TokensTypeOK
<1>3. ASSUME NEW i \in DOMAIN tokens
      PROVE  /\ p[i] \in Token /\ p[i].holder = tokens[i].holder
             /\ p[i].amount \in Int
             /\ p[i].amount = IF i \in Spendable(h) /\ Cardinality(Earlier(h, i)) < k
                              THEN tokens[i].amount - Pays(h, i, n) ELSE tokens[i].amount
  <2>1. tokens[i] \in Token
    BY <1>2
  <2>2. CASE i \in Spendable(h) /\ Cardinality(Earlier(h, i)) < k
    <3>1. PICK q : q = tokens[i].amount - Pays(h, i, n)
      OBVIOUS
    <3>2. q \in Int
      <4>1. Pays(h, i, n) \in Int /\ tokens[i].amount \in Int
        BY <2>1, PaysInt DEF Token
      <4> QED BY <3>1, <4>1
    <3>3. p[i] = [tokens[i] EXCEPT !.amount = q]
      BY <1>1, <2>2, <3>1 DEF Paid
    <3> QED BY <2>1, <2>2, <3>1, <3>2, <3>3 DEF Token
  <2>3. CASE ~(i \in Spendable(h) /\ Cardinality(Earlier(h, i)) < k)
    <3>1. p[i] = tokens[i]
      BY <1>1, <2>3 DEF Paid
    <3> QED BY <2>1, <2>3, <3>1 DEF Token
  <2> QED BY <2>2, <2>3
<1>4. DOMAIN p = DOMAIN tokens /\ p = [i \in 1..Len(tokens) |-> p[i]]
  BY <1>1, <1>2 DEF Paid
<1>5. \A i \in 1..Len(tokens) : p[i] \in Token
  BY <1>2, <1>3
<1>6. p \in Seq(Token)
  BY <1>2, <1>4, <1>5
<1> QED BY <1>1, <1>3, <1>4, <1>6

\* What is worth what afterwards.
LEMMA WorthAfter ==
  ASSUME TokensTypeOK, NEW h, NEW n \in Int, NEW k, tokens' = Paid(h, n, k)
  PROVE  /\ \A g : Own(g)' = Own(g)
         /\ \A g : Worth(Own(g))' = SumFunctionOnSet(AmountsAfter(h, n, k), Own(g))
         /\ \A i \in DOMAIN tokens : AmountsAfter(h, n, k)[i] \in Int
<1>1. PICK p : p = Paid(h, n, k)
  OBVIOUS
<1>2. /\ DOMAIN p = DOMAIN tokens
      /\ \A i \in DOMAIN tokens : p[i].holder = tokens[i].holder /\ p[i].amount \in Int
  BY <1>1, PaidTypes
<1>3. tokens' = p
  BY <1>1
<1>4. ASSUME NEW g PROVE Own(g)' = Own(g)
  BY <1>2, <1>3 DEF Own
<1>5. AmountsAfter(h, n, k) = [i \in DOMAIN tokens' |-> tokens'[i].amount]
  BY <1>1, <1>2, <1>3 DEF AmountsAfter
<1>6. ASSUME NEW g PROVE Worth(Own(g))' = SumFunctionOnSet(AmountsAfter(h, n, k), Own(g))
  BY <1>4, <1>5 DEF Worth
<1>7. \A i \in DOMAIN tokens : AmountsAfter(h, n, k)[i] \in Int
  BY <1>1, <1>2 DEF AmountsAfter
<1> QED BY <1>4, <1>6, <1>7

\* What a spending takes of the tokens of t that come first: their worth, or n
\* once the tokens up to one of them are enough.
Enough(h, t, n) == \E i \in t : Through(h, i) >= n
Taken(h, t, n) ==
  IF n <= 0 THEN 0 ELSE IF Enough(h, t, n) THEN n ELSE SumFunctionOnSet(Amounts, t)
FromStart(h, s) == \A x \in s \cap Spendable(h) : Earlier(h, x) \subseteq s

\* Both sums, taken apart.
LEMMA AmountsAdd ==
  ASSUME TokensTypeOK, NEW s \in SUBSET (DOMAIN tokens), NEW x \in s
  PROVE  SumFunctionOnSet(Amounts, s) = tokens[x].amount + SumFunctionOnSet(Amounts, s \ {x})
<1>1. IsFiniteSet(s)
  BY TokenIndices
<1>2. PICK A : A = Amounts
  OBVIOUS
<1>3. \A y \in s : A[y] \in Int /\ A[y] = tokens[y].amount
  BY <1>2, TokenTyped DEF Amounts
<1>4. SumFunctionOnSet(A, s) = A[x] + SumFunctionOnSet(A, s \ {x})
  BY <1>1, <1>3, SumTake
<1> QED BY <1>2, <1>3, <1>4

LEMMA AmountsAfterTyped ==
  ASSUME TokensTypeOK, NEW h, NEW n \in Int, NEW k,
         NEW s \in SUBSET (DOMAIN tokens), NEW B, B = AmountsAfter(h, n, k)
  PROVE  /\ SumFunctionOnSet(B, s) \in Int
         /\ \A y \in s : B[y] \in Int /\ B[y] = Paid(h, n, k)[y].amount
<1>1. IsFiniteSet(s)
  BY TokenIndices
<1>2. ASSUME NEW y \in s PROVE B[y] \in Int /\ B[y] = Paid(h, n, k)[y].amount
  <2>1. y \in DOMAIN tokens /\ tokens[y].amount \in Int
    BY TokenTyped
  <2>2. Paid(h, n, k)[y].amount \in Int
    BY <2>1, PaidTypes
  <2>3. B[y] = Paid(h, n, k)[y].amount
    BY <2>1 DEF AmountsAfter
  <2> QED BY <2>1, <2>2, <2>3
<1>3. \A y \in s : B[y] \in Int
  BY <1>2
<1>4. SumFunctionOnSet(B, s) \in Int
  BY <1>1, <1>3, SumInt
<1> QED BY <1>2, <1>4

LEMMA AmountsAfterAdd ==
  ASSUME TokensTypeOK, NEW h, NEW n \in Int, NEW k, NEW s \in SUBSET (DOMAIN tokens),
         NEW B, B = AmountsAfter(h, n, k), NEW x \in s
  PROVE  SumFunctionOnSet(B, s) = Paid(h, n, k)[x].amount + SumFunctionOnSet(B, s \ {x})
<1>1. IsFiniteSet(s)
  BY TokenIndices
<1>2. \A y \in s : B[y] \in Int /\ B[y] = Paid(h, n, k)[y].amount
  <2> TAKE y \in s
  <2>1. y \in DOMAIN tokens
    OBVIOUS
  <2>2. B[y] = Paid(h, n, k)[y].amount
    BY <2>1 DEF AmountsAfter
  <2>3. Paid(h, n, k)[y].amount \in Int
    BY <2>1, PaidTypes
  <2> QED BY <2>2, <2>3
<1>3. SumFunctionOnSet(B, s) = B[x] + SumFunctionOnSet(B, s \ {x})
  BY <1>1, <1>2, SumTake
<1> QED BY <1>2, <1>3

\* The last of the tokens from the start pays what is left.
LEMMA LastPays ==
  ASSUME TokensTypeOK, NEW h, NEW n \in Int, NEW s \in SUBSET Spendable(h), s # {}, FromStart(h, s)
  PROVE  \E x \in s : /\ FromStart(h, s \ {x}) /\ Earlier(h, x) = s \ {x}
                       /\ Cardinality(Earlier(h, x)) < Cardinality(Spendable(h))
<1>1. PICK x \in s : \A y \in s : y = x \/ y \in Earlier(h, x)
  BY SpentLast
<1>2. \A y \in Spendable(h) : y \in Nat /\ tokens[y].expiresAt \in Nat
  BY TokenTyped DEF Spendable
<1>3. x \notin Earlier(h, x) /\ x \in Spendable(h)
  BY <1>2 DEF Earlier
<1>4. Earlier(h, x) = s \ {x}
  BY <1>1, <1>3 DEF FromStart
<1>5. \A y \in s \ {x} : x \notin Earlier(h, y)
  BY <1>1, <1>2 DEF Earlier
<1>6. FromStart(h, s \ {x})
  BY <1>5 DEF FromStart
<1>7. Spendable(h) \in SUBSET (DOMAIN tokens)
  BY DEF Spendable
<1>8. IsFiniteSet(Spendable(h)) /\ Cardinality(Spendable(h)) \in Nat
  BY <1>7, TokenIndices
<1>9. PICK e : e = Earlier(h, x)
  OBVIOUS
<1>10. e \subseteq Spendable(h) /\ e # Spendable(h)
  BY <1>3, <1>9 DEF Earlier
<1>11. IsFiniteSet(e) /\ Cardinality(e) \in Nat /\ Cardinality(e) < Cardinality(Spendable(h))
  BY <1>8, <1>10, FS_Subset, FS_CardinalityType
<1> QED BY <1>4, <1>6, <1>9, <1>11

\* A token pays no more than it has, and takes nothing back, when no token of the
\* holder is below zero.
LEMMA PaysWithin ==
  ASSUME TokensTypeOK, NEW h, NEW n \in Int, NEW i \in Spendable(h),
         \A j \in Own(h) : tokens[j].amount >= 0
  PROVE  Pays(h, i, n) >= 0 /\ Pays(h, i, n) <= tokens[i].amount
<1>1. i \in DOMAIN tokens /\ i \in Own(h)
  BY DEF Spendable, Own
<1>2. PICK e : e = Earlier(h, i)
  OBVIOUS
<1>3. e \in SUBSET Spendable(h) /\ e \in SUBSET (DOMAIN tokens)
  BY <1>2 DEF Earlier, Spendable
<1>4. \A x \in Spendable(h) : x \in Nat /\ tokens[x].expiresAt \in Nat
  BY TokenTyped DEF Spendable
<1>5. PICK a : a = tokens[i].amount
  OBVIOUS
<1>6. PICK b : b = Worth(e)
  OBVIOUS
<1>7. a \in Int /\ a >= 0 /\ b \in Int
  BY <1>1, <1>3, <1>5, <1>6, TokenIndices, TokenTyped
<1>8. Reached(h, i, n) => b < n
  <2>1. CASE e = {}
    <3>1. b = 0
      BY <1>6, <2>1, SumOfNone DEF Worth
    <3> QED BY <3>1 DEF Reached
  <2>2. CASE e # {}
    <3>1. FromStart(h, e)
      BY <1>2, <1>3, <1>4 DEF FromStart, Earlier
    <3>2. PICK x \in e : Earlier(h, x) = e \ {x}
      BY <1>3, <2>2, <3>1, LastPays
    <3>3. Earlier(h, x) \cup {x} = e
      BY <3>2
    <3>4. Through(h, x) = b
      BY <1>6, <3>3 DEF Through
    <3> QED BY <1>2, <3>4 DEF Reached
  <2> QED BY <2>1, <2>2
<1>9. PICK p : p = Pays(h, i, n)
  OBVIOUS
<1>10. CASE ~Reached(h, i, n)
  <2>1. p = 0
    BY <1>9, <1>10 DEF Pays
  <2> QED BY <1>5, <1>7, <1>9, <2>1
<1>11. CASE Reached(h, i, n)
  <2>1. p = IF a <= n - b THEN a ELSE n - b
    BY <1>2, <1>5, <1>6, <1>9, <1>11 DEF Pays
  <2>2. p >= 0 /\ p <= a
    BY <1>7, <1>8, <1>11, <2>1
  <2> QED BY <1>5, <1>9, <2>2
<1> QED BY <1>10, <1>11

LEMMA SpendingTakes ==
  ASSUME TokensTypeOK, NEW h, NEW n \in Int
  PROVE  /\ Worth(Own(h)) \in Int /\ Spent(h, n) \in Int
         /\ SumFunctionOnSet(AmountsAfter(h, n, Cardinality(Spendable(h))), Own(h))
              = Worth(Own(h)) - Spent(h, n)
<1>1. PICK k : k = Cardinality(Spendable(h))
  OBVIOUS
<1>2. PICK A : A = Amounts
  OBVIOUS
<1>3. PICK B : B = AmountsAfter(h, n, k)
  OBVIOUS
<1> DEFINE G == {s \in SUBSET Own(h) : FromStart(h, s) =>
                   SumFunctionOnSet(B, s)
                     = SumFunctionOnSet(A, s) - Taken(h, s \cap Spendable(h), n)}
<1>4. Own(h) \in SUBSET (DOMAIN tokens) /\ Spendable(h) \subseteq Own(h) /\ IsFiniteSet(Own(h))
  <2>1. Own(h) \in SUBSET (DOMAIN tokens) /\ Spendable(h) \subseteq Own(h)
    BY DEF Own, Spendable
  <2> QED BY <2>1, TokenIndices
<1>5. ASSUME NEW s \in SUBSET Own(h)
      PROVE  /\ SumFunctionOnSet(A, s) \in Int /\ SumFunctionOnSet(B, s) \in Int
             /\ \A x \in s :
                  /\ SumFunctionOnSet(A, s) = tokens[x].amount + SumFunctionOnSet(A, s \ {x})
                  /\ SumFunctionOnSet(B, s) = Paid(h, n, k)[x].amount + SumFunctionOnSet(B, s \ {x})
  <2>1. s \in SUBSET (DOMAIN tokens)
    BY <1>4
  <2>2. SumFunctionOnSet(A, s) \in Int
    BY <1>2, <2>1, TokenIndices
  <2>3. SumFunctionOnSet(B, s) \in Int
    BY <1>3, <2>1, AmountsAfterTyped
  <2>4. ASSUME NEW x \in s
        PROVE  SumFunctionOnSet(A, s) = tokens[x].amount + SumFunctionOnSet(A, s \ {x})
    BY <1>2, <2>1, AmountsAdd
  <2>5. ASSUME NEW x \in s
        PROVE  SumFunctionOnSet(B, s) = Paid(h, n, k)[x].amount + SumFunctionOnSet(B, s \ {x})
    BY <1>3, <2>1, AmountsAfterAdd
  <2> QED BY <2>2, <2>3, <2>4, <2>5
<1>6. {} \in G
  <2>1. SumFunctionOnSet(A, {}) = 0 /\ SumFunctionOnSet(B, {}) = 0
    BY SumOfNone
  <2>2. {} \cap Spendable(h) = {}
    OBVIOUS
  <2>3. SumFunctionOnSet(Amounts, {}) = 0
    BY SumOfNone
  <2>4. Taken(h, {}, n) = 0
    BY <2>3 DEF Taken, Enough
  <2> QED BY <2>1, <2>2, <2>4
<1>7. ASSUME NEW s \in SUBSET Own(h), s # {}, \A x \in s : s \ {x} \in G PROVE s \in G
  <2> SUFFICES ASSUME FromStart(h, s)
               PROVE  SumFunctionOnSet(B, s)
                        = SumFunctionOnSet(A, s) - Taken(h, s \cap Spendable(h), n)
    OBVIOUS
  <2>1. ASSUME NEW x \in s, x \notin Spendable(h)
        PROVE  SumFunctionOnSet(B, s)
                 = SumFunctionOnSet(A, s) - Taken(h, s \cap Spendable(h), n)
    <3>1. FromStart(h, s \ {x})
      BY <2>1 DEF FromStart, Earlier
    <3>2. (s \ {x}) \cap Spendable(h) = s \cap Spendable(h)
      BY <2>1
    <3>3. s \ {x} \in G
      BY <1>7
    <3>4. SumFunctionOnSet(B, s \ {x})
            = SumFunctionOnSet(A, s \ {x}) - Taken(h, s \cap Spendable(h), n)
      BY <3>1, <3>2, <3>3
    <3>5. Paid(h, n, k)[x].amount = tokens[x].amount /\ tokens[x].amount \in Int
      BY <1>4, <2>1, PaidTypes, TokenTyped
    <3>6. PICK c : c = Taken(h, s \cap Spendable(h), n)
      OBVIOUS
    <3>7. c \in Int
      <4>1. SumFunctionOnSet(A, s \cap Spendable(h)) \in Int
        BY <1>5
      <4>2. c \in {0, n, SumFunctionOnSet(A, s \cap Spendable(h))}
        BY <1>2, <3>6 DEF Taken
      <4> QED BY <4>1, <4>2
    <3>8. PICK u : u = SumFunctionOnSet(A, s \ {x})
      OBVIOUS
    <3>9. u \in Int
      BY <1>5, <3>8
    <3>10. SumFunctionOnSet(A, s) = tokens[x].amount + u
           /\ SumFunctionOnSet(B, s) = tokens[x].amount + (u - c)
      BY <1>5, <3>4, <3>5, <3>6, <3>8
    <3> QED BY <3>5, <3>6, <3>7, <3>9, <3>10
  <2>2. CASE s \subseteq Spendable(h)
    <3>1. PICK x \in s : /\ FromStart(h, s \ {x}) /\ Earlier(h, x) = s \ {x}
                         /\ Cardinality(Earlier(h, x)) < k
      BY <1>1, <1>7, <2>2, LastPays
    <3>2. s \cap Spendable(h) = s /\ (s \ {x}) \cap Spendable(h) = s \ {x}
      BY <2>2
    <3>3. s \ {x} \in G
      BY <1>7
    <3>4. PICK u : u = SumFunctionOnSet(A, s \ {x})
      OBVIOUS
    <3>5. PICK c : c = Taken(h, s \ {x}, n)
      OBVIOUS
    <3>6. SumFunctionOnSet(B, s \ {x}) = u - c
      BY <3>1, <3>2, <3>3, <3>4, <3>5
    <3>7. PICK a : a = tokens[x].amount
      OBVIOUS
    <3>8. u \in Int /\ a \in Int
      BY <1>4, <1>5, <3>4, <3>7, TokenTyped
    <3>9. PICK p : p = Pays(h, x, n)
      OBVIOUS
    <3>10. Paid(h, n, k)[x].amount = a - p
      BY <1>4, <2>2, <3>1, <3>7, <3>9, PaidTypes
    <3>11. SumFunctionOnSet(A, s) = a + u /\ SumFunctionOnSet(B, s) = (a - p) + (u - c)
      BY <1>5, <3>4, <3>6, <3>7, <3>10
    <3>12. Worth(Earlier(h, x)) = u
      BY <1>2, <3>1, <3>4 DEF Worth, Amounts
    <3>13. Through(h, x) = a + u
      <4>1. Earlier(h, x) \cup {x} = s
        BY <3>1
      <4> QED BY <1>2, <3>11, <4>1 DEF Through, Worth, Amounts
    <3>14. Reached(h, x, n) <=> n > 0 /\ ~Enough(h, s \ {x}, n)
      <4>1. \A y \in s \ {x} : Through(h, y) \in Int
        <5>1. ASSUME NEW y \in s \ {x} PROVE Earlier(h, y) \cup {y} \in SUBSET (DOMAIN tokens)
          BY <1>4 DEF Earlier, Spendable
        <5> QED BY <5>1, TokenIndices DEF Through
      <4> QED BY <3>1, <4>1 DEF Reached, Enough
    <3>15. Enough(h, s, n) <=> Enough(h, s \ {x}, n) \/ a + u >= n
      BY <3>13 DEF Enough
    <3>16. Taken(h, s, n) = IF n <= 0 THEN 0 ELSE IF Enough(h, s, n) THEN n ELSE a + u
      BY <1>2, <3>11 DEF Taken
    <3>17. c = IF n <= 0 THEN 0 ELSE IF Enough(h, s \ {x}, n) THEN n ELSE u
      BY <1>2, <3>4, <3>5 DEF Taken
    <3>18. p = IF ~Reached(h, x, n) THEN 0 ELSE IF a <= n - u THEN a ELSE n - u
      BY <3>7, <3>9, <3>12 DEF Pays
    <3>19. (a - p) + (u - c) = (a + u) - Taken(h, s, n)
      <4>1. CASE n <= 0
        BY <3>8, <3>14, <3>16, <3>17, <3>18, <4>1
      <4>2. CASE n > 0 /\ Enough(h, s \ {x}, n)
        BY <3>8, <3>14, <3>15, <3>16, <3>17, <3>18, <4>2
      <4>3. CASE n > 0 /\ ~Enough(h, s \ {x}, n)
        BY <3>8, <3>14, <3>15, <3>16, <3>17, <3>18, <4>3
      <4> QED BY <4>1, <4>2, <4>3
    <3> QED BY <3>2, <3>11, <3>19
  <2> QED BY <2>1, <2>2
<1> HIDE DEF G
<1>8. SUBSET Own(h) \subseteq G
  <2>1. \A s \in SUBSET Own(h) : (s # {} /\ \A x \in s : s \ {x} \in G) => s \in G
    BY <1>7
  <2>2. IsFiniteSet(Own(h))
    BY <1>4
  <2> QED BY <1>6, <2>1, <2>2, SubsetsBySteps
<1>9. Own(h) \in G
  BY <1>8
<1>10. FromStart(h, Own(h)) /\ Own(h) \cap Spendable(h) = Spendable(h)
  BY <1>4 DEF FromStart, Earlier
<1>11. Worth(Own(h)) = SumFunctionOnSet(A, Own(h)) /\ Worth(Spendable(h)) = SumFunctionOnSet(A, Spendable(h))
  BY <1>2 DEF Worth, Amounts
<1>12. Spent(h, n) = Taken(h, Spendable(h), n)
  BY <1>2, <1>11 DEF Spent, Taken, Enough
<1>13. SumFunctionOnSet(B, Own(h)) = Worth(Own(h)) - Spent(h, n)
  BY <1>9, <1>10, <1>11, <1>12 DEF G
<1>14. SumFunctionOnSet(A, Own(h)) \in Int /\ SumFunctionOnSet(A, Spendable(h)) \in Int
  BY <1>4, <1>5
<1>15. Spent(h, n) \in Int
  <2>1. Spent(h, n) \in {0, n, SumFunctionOnSet(A, Spendable(h))}
    BY <1>2, <1>12 DEF Taken
  <2> QED BY <1>14, <2>1
<1> QED BY <1>1, <1>3, <1>11, <1>13, <1>14, <1>15

\* Whoever was issued nothing below zero has no token below zero.
NoneBelow == \A i \in DOMAIN tokens : tokens[i].holder \notin issuedBelow => tokens[i].amount >= 0

TokenInv == TokensTypeOK /\ NoneBelow /\ TokensAccounted

LEMMA TokenInvInit == TokensInit => TokenInv
<1> SUFFICES ASSUME TokensInit PROVE TokenInv
  OBVIOUS
<1>1. TokensTypeOK
  BY TokensAssumption DEF TokensInit, TokensTypeOK
<1>2. \A h \in Holders : Own(h) = {}
  BY DEF TokensInit, Own
<1>3. Worth({}) = 0
  BY SumOfNone DEF Worth
<1>4. ASSUME NEW h \in Holders PROVE Worth(Own(h)) = 0 /\ spentTokens[h] = 0 /\ issued[h] = 0
  BY <1>2, <1>3, <1>4 DEF TokensInit
<1>5. TokensAccounted
  BY <1>4 DEF TokensAccounted
<1>6. NoneBelow
  BY DEF TokensInit, NoneBelow
<1> QED BY <1>1, <1>5, <1>6 DEF TokenInv

LEMMA IssueKeepsTokens ==
  ASSUME TokenInv, NEW h \in Holders, NEW n \in TokenAmounts, NEW lifetime \in Lifetimes,
         Issue(h, n, lifetime)
  PROVE  TokenInv'
<1>0. n \in Int /\ lifetime \in Nat
  BY TokensAssumption
<1>1. PICK t : t = [holder |-> h, amount |-> n, expiresAt |-> tokenNow + lifetime]
  OBVIOUS
<1>2. t \in Token /\ t.holder = h /\ t.amount = n
  BY <1>0, <1>1 DEF TokenInv, TokensTypeOK, Token
<1>3. tokens \in Seq(Token) /\ Len(tokens) \in Nat /\ DOMAIN tokens = 1..Len(tokens)
  BY DEF TokenInv, TokensTypeOK
<1>4. PICK z : z = Len(tokens) + 1
  OBVIOUS
<1>5. tokens' = Append(tokens, t)
  BY <1>1 DEF Issue
<1>6. /\ tokens' \in Seq(Token) /\ DOMAIN tokens' = DOMAIN tokens \cup {z} /\ z \notin DOMAIN tokens
      /\ tokens'[z] = t /\ \A i \in DOMAIN tokens : tokens'[i] = tokens[i]
  BY <1>2, <1>3, <1>4, <1>5
<1>7. /\ issued' = [issued EXCEPT ![h] = @ + n]
      /\ issuedBelow' = IF n < 0 THEN issuedBelow \cup {h} ELSE issuedBelow
      /\ UNCHANGED <<spentTokens, spends, tokenCrashes, tokenNow>>
      /\ issues < MaxIssues /\ issues' = issues + 1
  BY DEF Issue
<1>8. TokensTypeOK'
  BY <1>0, <1>6, <1>7, TokensAssumption DEF TokenInv, TokensTypeOK
<1>9. PICK A : A = Amounts
  OBVIOUS
<1>10. PICK B : B = [i \in DOMAIN tokens' |-> tokens'[i].amount]
  OBVIOUS
<1>11. \A i \in DOMAIN tokens : A[i] \in Int /\ B[i] = A[i] /\ B[i] \in Int
  <2>1. \A i \in DOMAIN tokens : A[i] = tokens[i].amount /\ tokens[i].amount \in Int
    BY <1>9, TokenTyped DEF Amounts, TokenInv
  <2> QED BY <1>6, <1>10, <2>1
<1>12. B[z] = n /\ B[z] \in Int
  BY <1>0, <1>2, <1>6, <1>10
<1>13. ASSUME NEW g \in Holders
       PROVE  /\ Worth(Own(g)) \in Int
              /\ Worth(Own(g))' = Worth(Own(g)) + (IF g = h THEN n ELSE 0)
  <2>1. PICK o : o = Own(g)
    OBVIOUS
  <2>2. o \in SUBSET (DOMAIN tokens)
    BY <2>1 DEF Own
  <2>3. IsFiniteSet(o) /\ SumFunctionOnSet(A, o) \in Int /\ Worth(o) = SumFunctionOnSet(A, o)
    BY <1>9, <2>2, TokenIndices DEF TokenInv
  <2>4. SumFunctionOnSet(B, o) = SumFunctionOnSet(A, o)
    <3>1. \A i \in o : B[i] = A[i]
      BY <1>11, <2>2
    <3> QED BY <2>3, <3>1, SumSame
  <2>5. CASE g = h
    <3>1. Own(g)' = o \cup {z}
      BY <1>2, <1>6, <2>1, <2>5 DEF Own
    <3>2. Worth(Own(g))' = SumFunctionOnSet(B, o \cup {z})
      BY <1>10, <3>1 DEF Worth
    <3>3. SumFunctionOnSet(B, o \cup {z}) = B[z] + SumFunctionOnSet(B, o)
      <4>1. z \notin o /\ \A i \in o \cup {z} : B[i] \in Int
        BY <1>6, <1>11, <1>12, <2>2
      <4> QED BY <2>3, <4>1, SumAdd
    <3> QED BY <1>0, <1>12, <2>1, <2>3, <2>4, <2>5, <3>2, <3>3
  <2>6. CASE g # h
    <3>1. Own(g)' = o
      BY <1>2, <1>6, <2>1, <2>6 DEF Own
    <3>2. Worth(Own(g))' = SumFunctionOnSet(B, o)
      BY <1>10, <3>1 DEF Worth
    <3> QED BY <2>1, <2>3, <2>4, <2>6, <3>2
  <2> QED BY <2>5, <2>6
<1>14. ASSUME NEW g \in Holders
       PROVE  /\ issued[g] \in Int /\ spentTokens[g] \in Int /\ spentTokens'[g] = spentTokens[g]
              /\ issued'[g] = issued[g] + (IF g = h THEN n ELSE 0)
  BY <1>0, <1>7 DEF TokenInv, TokensTypeOK
<1>15. ASSUME NEW g \in Holders
       PROVE  /\ g \notin issuedBelow' => Worth(Own(g))' + spentTokens'[g] <= issued'[g]
              /\ tokenCrashes' = 0 => Worth(Own(g))' + spentTokens'[g] = issued'[g]
  <2>1. PICK w : w = Worth(Own(g))
    OBVIOUS
  <2>2. w \in Int /\ Worth(Own(g))' = w + (IF g = h THEN n ELSE 0)
    BY <1>13, <2>1
  <2>3. /\ g \notin issuedBelow => w + spentTokens[g] <= issued[g]
        /\ tokenCrashes = 0 => w + spentTokens[g] = issued[g]
    BY <2>1 DEF TokenInv, TokensAccounted
  <2> QED BY <1>0, <1>7, <1>14, <2>2, <2>3
<1>16. TokensAccounted'
  BY <1>15 DEF TokensAccounted
<1>17. NoneBelow'
  BY <1>0, <1>2, <1>6, <1>7 DEF TokenInv, NoneBelow
<1> QED BY <1>8, <1>16, <1>17 DEF TokenInv

\* However far a spending comes, it leaves every token of a holder that was
\* issued nothing below zero between zero and what it was.
LEMMA PaidKeepsSign ==
  ASSUME TokensTypeOK, NoneBelow, NEW h \in Holders, NEW n \in Int, NEW k
  PROVE  /\ \A i \in DOMAIN tokens : tokens[i].holder \notin issuedBelow =>
                Paid(h, n, k)[i].amount >= 0 /\ Paid(h, n, k)[i].amount <= tokens[i].amount
         /\ tokens' = Paid(h, n, k) /\ issuedBelow' = issuedBelow => NoneBelow'
<1>1. ASSUME NEW i \in DOMAIN tokens, tokens[i].holder \notin issuedBelow
      PROVE  Paid(h, n, k)[i].amount >= 0 /\ Paid(h, n, k)[i].amount <= tokens[i].amount
  <2>1. PICK a : a = tokens[i].amount
    OBVIOUS
  <2>2. a \in Int /\ a >= 0
    BY <1>1, <2>1, TokenTyped DEF NoneBelow
  <2>3. CASE i \in Spendable(h) /\ Cardinality(Earlier(h, i)) < k
    <3>1. \A j \in Own(h) : tokens[j].amount >= 0
      BY <1>1, <2>3 DEF Own, Spendable, NoneBelow
    <3>2. PICK q : q = Pays(h, i, n)
      OBVIOUS
    <3>3. q \in Int /\ q >= 0 /\ q <= a
      BY <2>1, <2>3, <3>1, <3>2, PaysWithin, PaysInt
    <3>4. Paid(h, n, k)[i].amount = a - q
      BY <2>1, <2>3, <3>2, PaidTypes
    <3>5. a - q >= 0 /\ a - q <= a
      BY <2>2, <3>3
    <3> QED BY <2>1, <3>4, <3>5
  <2>4. CASE ~(i \in Spendable(h) /\ Cardinality(Earlier(h, i)) < k)
    <3>1. Paid(h, n, k)[i].amount = a
      BY <2>1, <2>4, PaidTypes
    <3> QED BY <2>1, <2>2, <3>1
  <2> QED BY <2>3, <2>4
<1>2. ASSUME tokens' = Paid(h, n, k), issuedBelow' = issuedBelow PROVE NoneBelow'
  <2>1. DOMAIN tokens' = DOMAIN tokens
    BY <1>2, PaidTypes
  <2>2. \A i \in DOMAIN tokens : tokens'[i].holder = tokens[i].holder
    BY <1>2, PaidTypes
  <2> QED BY <1>1, <1>2, <2>1, <2>2 DEF NoneBelow
<1> QED BY <1>1, <1>2

LEMMA SpendKeepsTokens ==
  ASSUME TokenInv, NEW h \in Holders, NEW n \in TokenAmounts, SpendTokens(h, n)
  PROVE  TokenInv'
<1>0. n \in Int /\ TokensTypeOK
  BY TokensAssumption DEF TokenInv
<1>1. PICK k : k = Cardinality(Spendable(h))
  OBVIOUS
<1>2. /\ tokens' = Paid(h, n, k)
      /\ spends < MaxSpends /\ spends' = spends + 1
      /\ spentTokens' = [spentTokens EXCEPT ![h] = @ + Spent(h, n)]
      /\ UNCHANGED <<issued, issuedBelow, issues, tokenCrashes, tokenNow>>
  BY <1>1 DEF SpendTokens
<1>3. PICK s : s = Spent(h, n)
  OBVIOUS
<1>4. PICK B : B = AmountsAfter(h, n, k)
  OBVIOUS
<1>5. /\ Worth(Own(h)) \in Int /\ s \in Int
      /\ SumFunctionOnSet(B, Own(h)) = Worth(Own(h)) - s
  BY <1>0, <1>1, <1>3, <1>4, SpendingTakes
<1>7. TokensTypeOK'
  <2>1. Paid(h, n, k) \in Seq(Token)
    BY <1>0, PaidTypes
  <2>2. spentTokens' \in [Holders -> Int]
    BY <1>2, <1>3, <1>5 DEF TokenInv, TokensTypeOK
  <2> QED BY <1>2, <2>1, <2>2, TokensAssumption DEF TokenInv, TokensTypeOK
<1>8. ASSUME NEW g \in Holders
      PROVE  Worth(Own(g)) \in Int /\ Worth(Own(g))' = Worth(Own(g)) - (IF g = h THEN s ELSE 0)
  <2>1. PICK o : o = Own(g)
    OBVIOUS
  <2>2. o \in SUBSET (DOMAIN tokens)
    BY <2>1 DEF Own
  <2>3. IsFiniteSet(o) /\ Worth(o) \in Int /\ Worth(o) = SumFunctionOnSet(Amounts, o)
    BY <1>0, <2>2, TokenIndices
  <2>4. Worth(Own(g))' = SumFunctionOnSet(B, o)
    BY <1>0, <1>2, <1>4, <2>1, WorthAfter
  <2>5. CASE g = h
    BY <1>5, <2>1, <2>4, <2>5
  <2>6. CASE g # h
    <3>1. ASSUME NEW i \in o PROVE B[i] = Amounts[i]
      <4>1. i \in DOMAIN tokens /\ i \notin Spendable(h)
        BY <2>1, <2>2, <2>6 DEF Own, Spendable
      <4>2. Paid(h, n, k)[i].amount = tokens[i].amount
        BY <1>0, <4>1, PaidTypes
      <4> QED BY <1>4, <4>1, <4>2 DEF AmountsAfter, Amounts
    <3>2. SumFunctionOnSet(B, o) = SumFunctionOnSet(Amounts, o)
      BY <2>3, <3>1, SumSame
    <3> QED BY <2>1, <2>3, <2>4, <2>6, <3>2
  <2> QED BY <2>5, <2>6
<1>9. ASSUME NEW g \in Holders
      PROVE  /\ issued[g] \in Int /\ spentTokens[g] \in Int /\ issued'[g] = issued[g]
             /\ spentTokens'[g] = spentTokens[g] + (IF g = h THEN s ELSE 0)
  BY <1>2, <1>3 DEF TokenInv, TokensTypeOK
<1>10. ASSUME NEW g \in Holders
       PROVE  /\ g \notin issuedBelow' => Worth(Own(g))' + spentTokens'[g] <= issued'[g]
              /\ tokenCrashes' = 0 => Worth(Own(g))' + spentTokens'[g] = issued'[g]
  <2>1. PICK w : w = Worth(Own(g))
    OBVIOUS
  <2>2. w \in Int /\ Worth(Own(g))' = w - (IF g = h THEN s ELSE 0)
    BY <1>8, <2>1
  <2>3. /\ g \notin issuedBelow => w + spentTokens[g] <= issued[g]
        /\ tokenCrashes = 0 => w + spentTokens[g] = issued[g]
    BY <2>1 DEF TokenInv, TokensAccounted
  <2> QED BY <1>2, <1>5, <1>9, <2>2, <2>3
<1>11. TokensAccounted'
  BY <1>10 DEF TokensAccounted
<1>12. NoneBelow'
  BY <1>0, <1>2, PaidKeepsSign DEF TokenInv
<1> QED BY <1>7, <1>11, <1>12 DEF TokenInv

\* A crash in the middle takes tokens and gives none.
LEMMA SpendCrashKeepsTokens ==
  ASSUME TokenInv, NEW h \in Holders, NEW n \in TokenAmounts, NEW k, SpendTokensCrash(h, n, k)
  PROVE  TokenInv'
<1>0. n \in Int /\ TokensTypeOK
  BY TokensAssumption DEF TokenInv
<1>1. /\ tokens' = Paid(h, n, k)
      /\ spends < MaxSpends /\ spends' = spends + 1
      /\ tokenCrashes < MaxTokenCrashes /\ tokenCrashes' = tokenCrashes + 1
      /\ UNCHANGED <<issued, spentTokens, issuedBelow, issues, tokenNow>>
  BY DEF SpendTokensCrash
<1>2. TokensTypeOK'
  <2>1. Paid(h, n, k) \in Seq(Token)
    BY <1>0, PaidTypes
  <2> QED BY <1>1, <2>1, TokensAssumption DEF TokenInv, TokensTypeOK
<1>3. PICK B : B = AmountsAfter(h, n, k)
  OBVIOUS
<1>4. PICK A : A = Amounts
  OBVIOUS
<1>5. ASSUME NEW i \in DOMAIN tokens
      PROVE  /\ A[i] \in Int /\ B[i] \in Int
             /\ tokens[i].holder \notin issuedBelow => B[i] <= A[i]
  <2>1. B[i] = Paid(h, n, k)[i].amount /\ A[i] = tokens[i].amount
    BY <1>3, <1>4 DEF AmountsAfter, Amounts
  <2>2. A[i] \in Int /\ B[i] \in Int
    BY <1>0, <2>1, PaidTypes, TokenTyped
  <2>3. NoneBelow
    BY DEF TokenInv
  <2>4. tokens[i].holder \notin issuedBelow => Paid(h, n, k)[i].amount <= tokens[i].amount
    BY <1>0, <2>3, PaidKeepsSign
  <2> QED BY <2>1, <2>2, <2>4
<1>6. ASSUME NEW g \in Holders, g \notin issuedBelow
      PROVE  Worth(Own(g))' + spentTokens'[g] <= issued'[g]
  <2>1. PICK o : o = Own(g)
    OBVIOUS
  <2>2. o \in SUBSET (DOMAIN tokens) /\ \A i \in o : tokens[i].holder = g
    BY <2>1 DEF Own
  <2>3. IsFiniteSet(o) /\ Worth(o) \in Int /\ Worth(o) = SumFunctionOnSet(A, o)
    BY <1>0, <1>4, <2>2, TokenIndices
  <2>4. PICK w : w = Worth(Own(g))'
    OBVIOUS
  <2>5. w = SumFunctionOnSet(B, o)
    BY <1>0, <1>1, <1>3, <2>1, <2>4, WorthAfter
  <2>6. \A i \in o : A[i] \in Int /\ B[i] \in Int /\ B[i] <= A[i]
    BY <1>5, <1>6, <2>2
  <2>7. w \in Int /\ w <= Worth(o)
    BY <2>3, <2>5, <2>6, SumAtMost, SumInt
  <2>8. Worth(o) + spentTokens[g] <= issued[g]
    BY <1>6, <2>1 DEF TokenInv, TokensAccounted
  <2>9. spentTokens[g] \in Int /\ issued[g] \in Int
    BY DEF TokenInv, TokensTypeOK
  <2> QED BY <1>1, <2>3, <2>4, <2>7, <2>8, <2>9
<1>7. tokenCrashes' # 0
  BY <1>1 DEF TokenInv, TokensTypeOK
<1>8. TokensAccounted'
  BY <1>1, <1>6, <1>7 DEF TokensAccounted
<1>9. NoneBelow'
  BY <1>0, <1>1, PaidKeepsSign DEF TokenInv
<1> QED BY <1>2, <1>8, <1>9 DEF TokenInv

LEMMA TokenInvStep == TokenInv /\ [TokensNext]_tokenVars => TokenInv'
<1> SUFFICES ASSUME TokenInv, [TokensNext]_tokenVars PROVE TokenInv'
  OBVIOUS
<1>1. CASE TokenTick \/ UNCHANGED tokenVars
  <2>1. /\ UNCHANGED <<tokens, issued, spentTokens, issuedBelow, issues, spends, tokenCrashes>>
        /\ tokenNow' \in 0..MaxTokenTime
    BY <1>1, TokensAssumption DEF TokenTick, tokenVars, TokenInv, TokensTypeOK
  <2>2. \A h : Own(h)' = Own(h) /\ Worth(Own(h))' = Worth(Own(h))
    BY <2>1 DEF Own, Worth
  <2>3. TokensAccounted'
    BY <2>1, <2>2 DEF TokenInv, TokensAccounted
  <2> QED BY <2>1, <2>3 DEF TokenInv, TokensTypeOK, NoneBelow
<1> QED
  BY <1>1, IssueKeepsTokens, SpendKeepsTokens, SpendCrashKeepsTokens DEF TokensNext

(***************************************************************************)
(* Federation.  A resolution asks registries of its node, and one that     *)
(* found the DID names a node that knew it.                                *)
(***************************************************************************)

\* The k-th of a finite set of numbers.
LEMMA KthMember ==
  ASSUME NEW at \in SUBSET Nat, IsFiniteSet(at), NEW k \in 1..Cardinality(at)
  PROVE  \E i \in at : Cardinality({j \in at : j <= i}) = k
<1> DEFINE upTo(i) == {j \in at : j <= i}
           T == 1..Cardinality(at)
<1>0. Cardinality(at) \in Nat
  BY FS_CardinalityType
<1>1. ASSUME NEW i \in at
      PROVE  IsFiniteSet(upTo(i)) /\ Cardinality(upTo(i)) \in T
  <2>1. upTo(i) \subseteq at /\ i \in upTo(i)
    BY <1>1
  <2>2. IsFiniteSet(upTo(i)) /\ Cardinality(upTo(i)) \in Nat /\ Cardinality(upTo(i)) <= Cardinality(at)
    BY <2>1, FS_Subset, FS_CardinalityType
  <2>3. Cardinality(upTo(i)) # 0
    BY <2>1, <2>2, FS_EmptySet
  <2> QED BY <1>0, <2>2, <2>3
<1>2. ASSUME NEW i \in at, NEW j \in at, i < j
      PROVE  Cardinality(upTo(i)) # Cardinality(upTo(j))
  <2>1. upTo(i) \subseteq upTo(j) /\ upTo(i) # upTo(j)
    <3>1. i \in Nat /\ j \in Nat
      OBVIOUS
    <3>2. j \in upTo(j) /\ j \notin upTo(i)
      BY <1>2, <3>1
    <3>3. ASSUME NEW x \in upTo(i) PROVE x \in upTo(j)
      <4>1. x \in at /\ x <= i
        OBVIOUS
      <4>2. x \in Nat /\ x <= j
        BY <1>2, <3>1, <4>1
      <4> QED BY <4>1, <4>2
    <3> QED BY <3>2, <3>3
  <2>2. IsFiniteSet(upTo(j))
    BY <1>1
  <2> HIDE DEF upTo
  <2>4. Cardinality(upTo(i)) # Cardinality(upTo(j))
    <3>1. PICK s : s = upTo(i)
      OBVIOUS
    <3>2. PICK t : t = upTo(j)
      OBVIOUS
    <3>3. s \in SUBSET t /\ s # t /\ IsFiniteSet(t)
      BY <2>1, <2>2, <3>1, <3>2
    <3>4. Cardinality(s) # Cardinality(t)
      BY <3>3, FS_Subset
    <3> QED BY <3>1, <3>2, <3>4
  <2> QED BY <2>4
<1> DEFINE f == [i \in at |-> Cardinality(upTo(i))]
<1>3. f \in [at -> T]
  BY <1>1
<1>4. f \in Injection(at, T)
  <2>1. ASSUME NEW i \in at, NEW j \in at, f[i] = f[j] PROVE i = j
    <3>1. i \in Nat /\ j \in Nat
      OBVIOUS
    <3>2. ~(i < j) /\ ~(j < i)
      BY <1>2, <2>1
    <3> QED BY <3>1, <3>2
  <2> QED BY <1>3, <2>1 DEF Injection, IsInjective
<1>5. IsFiniteSet(T) /\ Cardinality(T) = Cardinality(at)
  BY <1>0, FS_Interval
<1>6. f \in Surjection(at, T)
  BY <1>4, <1>5, FS_Injection
<1>7. PICK i \in at : f[i] = k
  BY <1>6 DEF Surjection
<1> QED BY <1>7

LEMMA AsksTyped ==
  ASSUME FederationTypeOK, NEW n \in Registrars, NEW h \in Nat
  PROVE  Asks(n, h) \in Seq(Registrars)
<1>1. PICK at : at = ReachableAt(n)
  OBVIOUS
<1>2. registries[n] \in Seq(RegistryEntry)
  BY DEF FederationTypeOK
<1>3. DOMAIN registries[n] = 1..Len(registries[n]) /\ Len(registries[n]) \in Nat
  BY <1>2
<1>4. at \in SUBSET Nat /\ IsFiniteSet(at) /\ at \subseteq DOMAIN registries[n]
  <2>1. IsFiniteSet(1..Len(registries[n]))
    BY <1>3, FS_Interval
  <2>2. at \in SUBSET (1..Len(registries[n]))
    BY <1>1, <1>3 DEF ReachableAt
  <2>3. IsFiniteSet(at)
    BY <2>1, <2>2, FS_Subset
  <2>4. 1..Len(registries[n]) \subseteq Nat
    BY <1>3
  <2> QED BY <1>3, <2>2, <2>3, <2>4
<1>5. PICK c \in Nat : c = Cardinality(at)
  BY <1>4, FS_CardinalityType
<1>6. ASSUME NEW k \in 1..c PROVE KthOf(at, k) \in at
  <2>1. \E i \in at : Cardinality({j \in at : j <= i}) = k
    BY <1>4, <1>5, KthMember
  <2> QED BY <2>1 DEF KthOf
<1>7. PICK r : r = Reachable(n)
  OBVIOUS
<1>8. r = [k \in 1..c |-> registries[n][KthOf(at, k)].did]
  BY <1>1, <1>5, <1>7 DEF Reachable
<1>9. ASSUME NEW k \in 1..c PROVE registries[n][KthOf(at, k)].did \in Registrars
  <2>1. KthOf(at, k) \in 1..Len(registries[n])
    BY <1>3, <1>4, <1>6
  <2>2. registries[n][KthOf(at, k)] \in RegistryEntry
    BY <1>2, <2>1
  <2> QED BY <2>2 DEF RegistryEntry
<1>10. r \in Seq(Registrars) /\ Len(r) = c
  BY <1>5, <1>8, <1>9
<1>11. PICK m : m = IF h < Len(r) THEN h ELSE Len(r)
  OBVIOUS
<1>12. m \in Nat /\ m <= Len(r)
  BY <1>10, <1>11
<1>13. SubSeq(r, 1, m) \in Seq(Registrars)
  BY <1>10, <1>12
<1> QED BY <1>7, <1>11, <1>13 DEF Asks

LEMMA FederationTypesInit == FederationInit => FederationTypeOK
BY FederationAssumption DEF FederationInit, FederationTypeOK, FederationAssumption, IsInjective

\* A node's registries after an update of one node's list.
LEMMA RegistriesTyped ==
  ASSUME FederationTypeOK, NEW n \in Registrars, NEW known \in Seq(RegistryEntry),
         \A i, j \in DOMAIN known : known[i].did = known[j].did => i = j,
         registries' = [registries EXCEPT ![n] = known]
  PROVE  /\ registries' \in [Registrars -> Seq(RegistryEntry)]
         /\ \A m \in Registrars : IsInjective([i \in DOMAIN registries'[m] |-> registries'[m][i].did])
<1>1. registries' \in [Registrars -> Seq(RegistryEntry)]
  BY DEF FederationTypeOK
<1>2. ASSUME NEW m \in Registrars
      PROVE  IsInjective([i \in DOMAIN registries'[m] |-> registries'[m][i].did])
  <2>1. CASE m = n
    <3>1. registries'[m] = known
      BY <2>1 DEF FederationTypeOK
    <3> QED BY <3>1 DEF IsInjective
  <2>2. CASE m # n
    <3>1. registries'[m] = registries[m]
      BY <2>2 DEF FederationTypeOK
    <3> QED BY <3>1 DEF FederationTypeOK
  <2> QED BY <2>1, <2>2
<1> QED BY <1>1, <1>2

LEMMA RegistryIndices ==
  ASSUME FederationTypeOK, NEW n \in Registrars
  PROVE  /\ registries[n] \in Seq(RegistryEntry) /\ Len(registries[n]) \in Nat
         /\ DOMAIN registries[n] = 1..Len(registries[n])
         /\ \A i \in DOMAIN registries[n] : registries[n][i] \in RegistryEntry
         /\ \A i, j \in DOMAIN registries[n] : registries[n][i].did = registries[n][j].did => i = j
<1>1. registries[n] \in Seq(RegistryEntry)
  BY DEF FederationTypeOK
<1>2. Len(registries[n]) \in Nat /\ DOMAIN registries[n] = 1..Len(registries[n])
  BY <1>1
<1>3. \A i \in DOMAIN registries[n] : registries[n][i] \in RegistryEntry
  BY <1>1, <1>2
<1>4. IsInjective([i \in DOMAIN registries[n] |-> registries[n][i].did])
  BY DEF FederationTypeOK
<1>5. \A i, j \in DOMAIN registries[n] : registries[n][i].did = registries[n][j].did => i = j
  BY <1>4 DEF IsInjective
<1> QED BY <1>1, <1>2, <1>3, <1>5

LEMMA RegisterKeepsTypes ==
  ASSUME FederationTypeOK, NEW n \in Registrars, NEW m \in Registrars, Register(n, m)
  PROVE  FederationTypeOK'
<1>1. PICK s : s = registries[n]
  OBVIOUS
<1>2. /\ s \in Seq(RegistryEntry) /\ Len(s) \in Nat /\ DOMAIN s = 1..Len(s)
      /\ \A i \in DOMAIN s : s[i] \in RegistryEntry
      /\ \A i, j \in DOMAIN s : s[i].did = s[j].did => i = j
  BY <1>1, RegistryIndices
<1>3. PICK known : known = Registered(n, m)
  OBVIOUS
<1>4. known \in Seq(RegistryEntry) /\ \A i, j \in DOMAIN known : known[i].did = known[j].did => i = j
  <2>1. CASE IndexOf(n, m) = {}
    <3>1. PICK e : e = [did |-> m, trust |-> FirstTrust, reachable |-> TRUE]
      OBVIOUS
    <3>2. e \in RegistryEntry /\ e.did = m
      BY <3>1, FederationAssumption DEF RegistryEntry, FederationAssumption
    <3>3. known = Append(s, e)
      BY <1>1, <1>3, <2>1, <3>1 DEF Registered
    <3>4. \A i \in DOMAIN s : s[i].did # m
      BY <1>1, <2>1 DEF IndexOf
    <3>5. /\ known \in Seq(RegistryEntry) /\ DOMAIN known = 1..(Len(s) + 1)
          /\ known[Len(s) + 1] = e /\ \A i \in 1..Len(s) : known[i] = s[i]
      BY <1>2, <3>2, <3>3
    <3> QED BY <1>2, <3>2, <3>4, <3>5
  <2>2. CASE IndexOf(n, m) # {}
    <3>1. known = [i \in DOMAIN s |-> IF i \in IndexOf(n, m) THEN [s[i] EXCEPT !.reachable = TRUE] ELSE s[i]]
      BY <1>1, <1>3, <2>2 DEF Registered
    <3>2. ASSUME NEW i \in DOMAIN s PROVE known[i] \in RegistryEntry /\ known[i].did = s[i].did
      <4>1. s[i] \in RegistryEntry
        BY <1>2
      <4>2. [s[i] EXCEPT !.reachable = TRUE] \in RegistryEntry /\ [s[i] EXCEPT !.reachable = TRUE].did = s[i].did
        BY <4>1 DEF RegistryEntry
      <4>3. known[i] \in {[s[i] EXCEPT !.reachable = TRUE], s[i]}
        BY <3>1
      <4> QED BY <4>1, <4>2, <4>3
    <3>3. DOMAIN known = 1..Len(s) /\ known \in [1..Len(s) -> RegistryEntry]
      BY <1>2, <3>1, <3>2
    <3>4. known \in Seq(RegistryEntry)
      BY <1>2, <3>3
    <3>5. \A i \in 1..Len(s) : known[i].did = s[i].did
      BY <1>2, <3>2
    <3> QED BY <1>2, <3>3, <3>4, <3>5
  <2> QED BY <2>1, <2>2
<1>5. registries' = [registries EXCEPT ![n] = known] /\ UNCHANGED <<resolutions, trustUpdates>>
  BY <1>3 DEF Register
<1>6. /\ registries' \in [Registrars -> Seq(RegistryEntry)]
      /\ \A k \in Registrars : IsInjective([i \in DOMAIN registries'[k] |-> registries'[k][i].did])
  BY <1>4, <1>5, RegistriesTyped
<1> QED BY <1>5, <1>6 DEF FederationTypeOK

LEMMA TrustKeepsTypes ==
  ASSUME FederationTypeOK, NEW n \in Registrars, NEW m, NEW positive \in BOOLEAN,
         NEW known \in TrustUpdated(n, m, positive),
         registries' = [registries EXCEPT ![n] = known]
  PROVE  /\ registries' \in [Registrars -> Seq(RegistryEntry)]
         /\ \A k \in Registrars : IsInjective([i \in DOMAIN registries'[k] |-> registries'[k][i].did])
<1>1. PICK s : s = registries[n]
  OBVIOUS
<1>2. /\ s \in Seq(RegistryEntry) /\ Len(s) \in Nat /\ DOMAIN s = 1..Len(s)
      /\ \A i \in DOMAIN s : s[i] \in RegistryEntry
      /\ \A i, j \in DOMAIN s : s[i].did = s[j].did => i = j
  BY <1>1, RegistryIndices
<1>3. ASSUME NEW t \in 0..FullTrust PROVE TrustAfter(t, positive) \in 0..FullTrust
  BY FederationAssumption DEF FederationAssumption, TrustAfter
<1>4. PICK below \in BOOLEAN : known =
        [i \in DOMAIN registries[n] |->
          LET e == registries[n][i]
              t == TrustAfter(e.trust, positive)
          IN  IF e.did # m THEN e
              ELSE [did |-> m, trust |-> t,
                    reachable |-> e.reachable /\ IF t = LeastTrust THEN ~below ELSE t > LeastTrust]]
  BY DEF TrustUpdated
<1>5. DOMAIN known = 1..Len(s)
  BY <1>1, <1>2, <1>4
<1>6. ASSUME NEW i \in 1..Len(s) PROVE known[i] \in RegistryEntry /\ known[i].did = s[i].did
  <2>1. s[i] \in RegistryEntry
    BY <1>2
  <2>2. PICK t : t = TrustAfter(s[i].trust, positive)
    OBVIOUS
  <2>3. t \in 0..FullTrust
    BY <1>3, <2>1, <2>2 DEF RegistryEntry
  <2>4. PICK up \in BOOLEAN : up = (s[i].reachable /\ IF t = LeastTrust THEN ~below ELSE t > LeastTrust)
    <3>1. (s[i].reachable /\ IF t = LeastTrust THEN ~below ELSE t > LeastTrust) \in BOOLEAN
      OBVIOUS
    <3> QED BY <3>1
  <2>5. known[i] = IF s[i].did # m THEN s[i] ELSE [did |-> m, trust |-> t, reachable |-> up]
    BY <1>1, <1>2, <1>4, <2>2, <2>4, Zenon
  <2>6. CASE s[i].did # m
    BY <2>1, <2>5, <2>6
  <2>7. CASE s[i].did = m
    <3>1. known[i] = [did |-> m, trust |-> t, reachable |-> up]
      BY <2>5, <2>7
    <3>2. m \in Registrars
      BY <2>1, <2>7 DEF RegistryEntry
    <3> QED BY <2>3, <2>4, <2>7, <3>1, <3>2 DEF RegistryEntry
  <2> QED BY <2>6, <2>7
<1>7. known \in [1..Len(s) -> RegistryEntry]
  <2>1. known = [i \in 1..Len(s) |-> known[i]]
    BY <1>1, <1>2, <1>4, Zenon
  <2> QED BY <1>6, <2>1
<1>8. known \in Seq(RegistryEntry)
  BY <1>2, <1>7
<1>9. \A i, j \in DOMAIN known : known[i].did = known[j].did => i = j
  BY <1>2, <1>5, <1>6
<1> QED BY <1>8, <1>9, RegistriesTyped

LEMMA StartKeepsTypes ==
  ASSUME FederationTypeOK, NEW n \in Registrars, NEW parent \in 0..MaxResolutions, NEW h \in Nat,
         Start(n, parent, h)
  PROVE  FederationTypeOK'
<1>1. PICK r : r = Started(n, parent, h)
  OBVIOUS
<1>2. PICK asks \in Seq(Registrars) : asks = Asks(n, h)
  BY AsksTyped
<1>3. r = [at |-> n, for |-> parent, step |-> 1, asks |-> asks,
           state |-> IF n \in Known THEN "found" ELSE IF asks = <<>> THEN "not_found" ELSE "asking",
           resolvedBy |-> IF n \in Known THEN n ELSE "nobody", failed |-> FALSE]
  BY <1>1, <1>2 DEF Started
<1>4. r \in Resolution
  BY <1>3 DEF Resolution
<1>5. (r.state = "found") <=> (r.resolvedBy # "nobody")
  BY <1>3, FederationAssumption DEF FederationAssumption
<1>6. PICK s : s = resolutions
  OBVIOUS
<1>7. s \in Seq(Resolution) /\ Len(s) \in Nat /\ DOMAIN s = 1..Len(s)
  BY <1>6 DEF FederationTypeOK
<1>8. resolutions' = Append(s, r) /\ UNCHANGED <<registries, trustUpdates>>
  BY <1>1, <1>6 DEF Start
<1>9. /\ resolutions' \in Seq(Resolution) /\ DOMAIN resolutions' = 1..(Len(s) + 1)
      /\ resolutions'[Len(s) + 1] = r /\ \A i \in 1..Len(s) : resolutions'[i] = s[i]
  BY <1>4, <1>7, <1>8
<1>10. \A i \in DOMAIN s : (s[i].state = "found") <=> (s[i].resolvedBy # "nobody")
  BY <1>6 DEF FederationTypeOK
<1>11. \A i \in DOMAIN resolutions' :
         (resolutions'[i].state = "found") <=> (resolutions'[i].resolvedBy # "nobody")
  BY <1>5, <1>7, <1>9, <1>10
<1> QED BY <1>8, <1>9, <1>11 DEF FederationTypeOK

\* One resolution goes on, and its node may learn of a registry.
LEMMA ResolutionGoesOn ==
  ASSUME FederationTypeOK, NEW i \in DOMAIN resolutions, NEW r \in Resolution,
         (r.state = "found") <=> (r.resolvedBy # "nobody"),
         resolutions' = [resolutions EXCEPT ![i] = r]
  PROVE  /\ resolutions' \in Seq(Resolution)
         /\ \A j \in DOMAIN resolutions' :
              (resolutions'[j].state = "found") <=> (resolutions'[j].resolvedBy # "nobody")
<1>1. PICK s : s = resolutions
  OBVIOUS
<1>2. /\ s \in Seq(Resolution) /\ Len(s) \in Nat /\ DOMAIN s = 1..Len(s) /\ s \in [1..Len(s) -> Resolution]
      /\ \A j \in DOMAIN s : (s[j].state = "found") <=> (s[j].resolvedBy # "nobody")
  BY <1>1 DEF FederationTypeOK
<1>3. /\ resolutions' \in [1..Len(s) -> Resolution] /\ resolutions'[i] = r
      /\ \A j \in 1..Len(s) : j # i => resolutions'[j] = s[j]
  BY <1>1, <1>2
<1>4. resolutions' \in Seq(Resolution) /\ DOMAIN resolutions' = 1..Len(s)
  <2>1. PICK t \in [1..Len(s) -> Resolution] : t = resolutions'
    BY <1>3
  <2>2. t \in Seq(Resolution) /\ DOMAIN t = 1..Len(s)
    BY <1>2
  <2> QED BY <2>1, <2>2
<1> QED BY <1>2, <1>3, <1>4

LEMMA ResolutionTyped ==
  ASSUME FederationTypeOK, NEW i \in DOMAIN resolutions
  PROVE  /\ resolutions[i] \in Resolution /\ resolutions[i].at \in Registrars
         /\ resolutions[i].asks \in Seq(Registrars) /\ resolutions[i].step \in Nat
         /\ resolutions[i].resolvedBy \in Registrars \cup {"nobody"}
         /\ (resolutions[i].state = "found") <=> (resolutions[i].resolvedBy # "nobody")
<1>1. resolutions \in Seq(Resolution)
  BY DEF FederationTypeOK
<1>2. resolutions[i] \in Resolution
  BY <1>1
<1> QED BY <1>2 DEF Resolution, FederationTypeOK

LEMMA AnsweredTyped ==
  ASSUME FederationTypeOK, NEW i \in DOMAIN resolutions, NEW j \in DOMAIN resolutions,
         resolutions[i].state = "asking"
  PROVE  /\ Answered(i, j) \in Resolution
         /\ (Answered(i, j).state = "found") <=> (Answered(i, j).resolvedBy # "nobody")
<1>1. PICK r \in Resolution : r = resolutions[i]
  BY ResolutionTyped
<1>2. r.state = "asking" /\ r.resolvedBy = "nobody"
  BY <1>1, ResolutionTyped
<1>3. PICK by : by = resolutions[j].resolvedBy
  OBVIOUS
<1>4. by \in Registrars \cup {"nobody"} /\ (resolutions[j].state = "found") <=> (by # "nobody")
  BY <1>3, ResolutionTyped
<1>5. CASE resolutions[j].state = "found"
  <2>1. Answered(i, j) = [r EXCEPT !.state = "found", !.resolvedBy = by]
    BY <1>1, <1>3, <1>5 DEF Answered
  <2>2. PICK x : x = [r EXCEPT !.state = "found", !.resolvedBy = by]
    OBVIOUS
  <2>3. x \in Resolution /\ x.state = "found" /\ x.resolvedBy = by
    BY <1>4, <2>2 DEF Resolution
  <2> QED BY <1>4, <1>5, <2>1, <2>2, <2>3
<1>6. CASE resolutions[j].state # "found"
  <2>1. PICK st : st = IF r.step = Len(r.asks) THEN "not_found" ELSE "asking"
    OBVIOUS
  <2>0. PICK k : k = r.step + 1
    OBVIOUS
  <2>2. Answered(i, j) = [r EXCEPT !.step = k, !.state = st]
    BY <1>1, <1>6, <2>0, <2>1 DEF Answered
  <2>3. PICK x : x = [r EXCEPT !.step = k, !.state = st]
    OBVIOUS
  <2>4. x \in Resolution /\ x.state = st /\ x.resolvedBy = r.resolvedBy
    <3>1. k \in Nat /\ st \in {"asking", "found", "not_found"}
      BY <2>0, <2>1 DEF Resolution
    <3> QED BY <2>3, <3>1 DEF Resolution
  <2> QED BY <1>2, <2>1, <2>2, <2>3, <2>4
<1> QED BY <1>5, <1>6

LEMMA FailedTyped ==
  ASSUME FederationTypeOK, NEW i \in DOMAIN resolutions, resolutions[i].state = "asking"
  PROVE  /\ Failed(i) \in Resolution
         /\ (Failed(i).state = "found") <=> (Failed(i).resolvedBy # "nobody")
<1>1. PICK r \in Resolution : r = resolutions[i]
  BY ResolutionTyped
<1>2. r.state = "asking" /\ r.resolvedBy = "nobody"
  BY <1>1, ResolutionTyped
<1>3. PICK st : st = IF r.step = Len(r.asks) THEN "not_found" ELSE "asking"
  OBVIOUS
<1>0. PICK k : k = r.step + 1
  OBVIOUS
<1>4. Failed(i) = [r EXCEPT !.step = k, !.failed = TRUE, !.state = st]
  BY <1>0, <1>1, <1>3 DEF Failed
<1>5. PICK x : x = [r EXCEPT !.step = k, !.failed = TRUE, !.state = st]
  OBVIOUS
<1>6. x \in Resolution /\ x.state = st /\ x.resolvedBy = r.resolvedBy
  <2>1. k \in Nat /\ st \in {"asking", "found", "not_found"}
    BY <1>0, <1>3 DEF Resolution
  <2> QED BY <1>5, <2>1 DEF Resolution
<1> QED BY <1>2, <1>3, <1>4, <1>5, <1>6

LEMMA FederationTypesStep == FederationTypeOK /\ [FederationNext]_federationVars => FederationTypeOK'
<1> SUFFICES ASSUME FederationTypeOK, [FederationNext]_federationVars PROVE FederationTypeOK'
  OBVIOUS
<1>a. /\ ClientHops \subseteq Nat /\ AskedHops \in Nat /\ MaxResolutions \in Nat /\ MaxTrustUpdates \in Nat
      /\ Links \subseteq Registrars \X Registrars
  BY FederationAssumption DEF FederationAssumption
<1>1. ASSUME NEW l \in Links, Register(l[1], l[2]) PROVE FederationTypeOK'
  <2>1. l[1] \in Registrars /\ l[2] \in Registrars
    BY <1>a
  <2> QED BY <1>1, <2>1, RegisterKeepsTypes
<1>2. ASSUME NEW l \in Links, NEW positive \in BOOLEAN, UpdateTrust(l[1], l[2], positive)
      PROVE  FederationTypeOK'
  <2>1. l[1] \in Registrars
    BY <1>a
  <2>2. PICK known \in TrustUpdated(l[1], l[2], positive) : registries' = [registries EXCEPT ![l[1]] = known]
    BY <1>2 DEF UpdateTrust
  <2>3. /\ registries' \in [Registrars -> Seq(RegistryEntry)]
        /\ \A k \in Registrars : IsInjective([i \in DOMAIN registries'[k] |-> registries'[k][i].did])
    BY <2>1, <2>2, TrustKeepsTypes
  <2>4. trustUpdates' \in 0..MaxTrustUpdates /\ UNCHANGED resolutions
    BY <1>2, <1>a DEF UpdateTrust, FederationTypeOK
  <2> QED BY <2>3, <2>4 DEF FederationTypeOK
<1>3. ASSUME NEW n \in Registrars, NEW h \in ClientHops, Resolve(n, h) PROVE FederationTypeOK'
  <2>1. h \in Nat /\ 0 \in 0..MaxResolutions
    BY <1>a
  <2>2. Start(n, 0, h)
    BY <1>3 DEF Resolve
  <2> QED BY <2>1, <2>2, StartKeepsTypes
<1>4. ASSUME NEW i \in 1..MaxResolutions, NEW k \in 1..MaxResolutions, Arrive(i, k) PROVE FederationTypeOK'
  <2>1. i \in DOMAIN resolutions /\ k \in DOMAIN resolutions[i].asks
    BY <1>4 DEF Arrive
  <2>2. resolutions[i].asks \in Seq(Registrars)
    BY <2>1, ResolutionTyped
  <2>3. resolutions[i].asks[k] \in Registrars
    BY <2>1, <2>2
  <2>4. Start(resolutions[i].asks[k], i, AskedHops) /\ i \in 0..MaxResolutions
    BY <1>4, <1>a DEF Arrive
  <2> QED BY <1>a, <2>3, <2>4, StartKeepsTypes
<1>5. ASSUME NEW i \in 1..MaxResolutions, Answer(i) PROVE FederationTypeOK'
  <2>1. i \in DOMAIN resolutions /\ resolutions[i].state = "asking" /\ UNCHANGED trustUpdates
    BY <1>5 DEF Answer
  <2>2. PICK j \in Served(i, resolutions[i].step) :
          /\ resolutions' = [resolutions EXCEPT ![i] = Answered(i, j)]
          /\ IF resolutions[j].state = "found"
             THEN \E known \in TrustUpdated(resolutions[i].at, Asked(i), TRUE) :
                    registries' = [registries EXCEPT ![resolutions[i].at] = known]
             ELSE UNCHANGED registries
    BY <1>5 DEF Answer
  <2>3. j \in DOMAIN resolutions
    BY <2>2 DEF Served
  <2>4. /\ resolutions' \in Seq(Resolution)
        /\ \A k \in DOMAIN resolutions' :
             (resolutions'[k].state = "found") <=> (resolutions'[k].resolvedBy # "nobody")
    <3>1. PICK x : x = Answered(i, j)
      OBVIOUS
    <3>2. x \in Resolution /\ ((x.state = "found") <=> (x.resolvedBy # "nobody"))
      BY <2>1, <2>3, <3>1, AnsweredTyped
    <3> QED BY <2>1, <2>2, <3>1, <3>2, ResolutionGoesOn
  <2>5. /\ registries' \in [Registrars -> Seq(RegistryEntry)]
        /\ \A k \in Registrars : IsInjective([m \in DOMAIN registries'[k] |-> registries'[k][m].did])
    <3>1. CASE resolutions[j].state = "found"
      <4>1. PICK known \in TrustUpdated(resolutions[i].at, Asked(i), TRUE) :
              registries' = [registries EXCEPT ![resolutions[i].at] = known]
        BY <2>2, <3>1
      <4>2. resolutions[i].at \in Registrars
        BY <2>1, ResolutionTyped
      <4> QED BY <4>1, <4>2, TrustKeepsTypes
    <3>2. CASE resolutions[j].state # "found"
      <4>1. UNCHANGED registries
        BY <2>2, <3>2
      <4> QED BY <4>1 DEF FederationTypeOK
    <3> QED BY <3>1, <3>2
  <2> QED BY <2>1, <2>4, <2>5 DEF FederationTypeOK
<1>6. ASSUME NEW i \in 1..MaxResolutions, Fail(i) PROVE FederationTypeOK'
  <2>1. i \in DOMAIN resolutions /\ resolutions[i].state = "asking" /\ UNCHANGED trustUpdates
    BY <1>6 DEF Fail
  <2>2. resolutions' = [resolutions EXCEPT ![i] = Failed(i)]
    BY <1>6 DEF Fail
  <2>3. PICK known \in TrustUpdated(resolutions[i].at, Asked(i), FALSE) :
          registries' = [registries EXCEPT ![resolutions[i].at] = known]
    BY <1>6 DEF Fail
  <2>4. /\ resolutions' \in Seq(Resolution)
        /\ \A k \in DOMAIN resolutions' :
             (resolutions'[k].state = "found") <=> (resolutions'[k].resolvedBy # "nobody")
    <3>1. PICK x : x = Failed(i)
      OBVIOUS
    <3>2. x \in Resolution /\ ((x.state = "found") <=> (x.resolvedBy # "nobody"))
      BY <2>1, <3>1, FailedTyped
    <3> QED BY <2>1, <2>2, <3>1, <3>2, ResolutionGoesOn
  <2>5. resolutions[i].at \in Registrars
    BY <2>1, ResolutionTyped
  <2>6. /\ registries' \in [Registrars -> Seq(RegistryEntry)]
        /\ \A k \in Registrars : IsInjective([m \in DOMAIN registries'[k] |-> registries'[k][m].did])
    BY <2>3, <2>5, TrustKeepsTypes
  <2> QED BY <2>1, <2>4, <2>6 DEF FederationTypeOK
<1>7. CASE UNCHANGED federationVars
  BY <1>7 DEF federationVars, FederationTypeOK
<1> QED BY <1>1, <1>2, <1>3, <1>4, <1>5, <1>6, <1>7 DEF FederationNext

\* What ends a resolution, apart from fairness: it is at one of the registries it
\* asks, and every step of it answers it or takes it to the next.
AskingWithinAsks ==
  \A i \in DOMAIN resolutions :
    resolutions[i].state = "asking" => resolutions[i].step \in 1..Len(resolutions[i].asks)

Advances(i) ==
  resolutions[i].state = "asking" =>
    \/ resolutions'[i] = resolutions[i]
    \/ resolutions'[i].state # "asking"
    \/ resolutions'[i].step = resolutions[i].step + 1

\* A resolution after an answer or a failure.
LEMMA AnsweredAdvances ==
  ASSUME FederationTypeOK, NEW i \in DOMAIN resolutions, NEW r, resolutions[i].state = "asking",
         resolutions[i].step \in 1..Len(resolutions[i].asks),
         r = Failed(i) \/ \E j : r = Answered(i, j)
  PROVE  /\ r.state # "asking" \/ r.step = resolutions[i].step + 1
         /\ r.state = "asking" => r.step \in 1..Len(r.asks)
<1>1. PICK o \in Resolution : o = resolutions[i]
  BY ResolutionTyped
<1>2. PICK st : st = IF o.step = Len(o.asks) THEN "not_found" ELSE "asking"
  OBVIOUS
<1>3. PICK k : k = o.step + 1
  OBVIOUS
<1>4. o.asks \in Seq(Registrars) /\ o.step \in 1..Len(o.asks) /\ Len(o.asks) \in Nat
  BY <1>1, ResolutionTyped
<1>5. \/ r = [o EXCEPT !.step = k, !.failed = TRUE, !.state = st]
      \/ r = [o EXCEPT !.step = k, !.state = st]
      \/ \E by : r = [o EXCEPT !.state = "found", !.resolvedBy = by]
  <2>1. CASE r = Failed(i)
    BY <1>1, <1>2, <1>3, <2>1 DEF Failed
  <2>2. CASE \E j : r = Answered(i, j)
    <3>1. PICK j : r = Answered(i, j)
      BY <2>2
    <3>2. CASE resolutions[j].state = "found"
      BY <1>1, <3>1, <3>2 DEF Answered
    <3>3. CASE resolutions[j].state # "found"
      BY <1>1, <1>2, <1>3, <3>1, <3>3 DEF Answered
    <3> QED BY <3>2, <3>3
  <2> QED BY <2>1, <2>2
<1>6. r.state = "found" \/ (r.state = st /\ r.step = k /\ r.asks = o.asks)
  BY <1>5 DEF Resolution
<1>7. st = "asking" => k \in 1..Len(o.asks)
  BY <1>2, <1>3, <1>4
<1> QED BY <1>1, <1>2, <1>3, <1>6, <1>7

LEMMA StartAdvances ==
  ASSUME FederationTypeOK, AskingWithinAsks, NEW n \in Registrars, NEW parent, NEW h \in Nat,
         Start(n, parent, h)
  PROVE  AskingWithinAsks' /\ \A i \in DOMAIN resolutions : Advances(i)
<1>1. PICK r : r = Started(n, parent, h)
  OBVIOUS
<1>2. PICK asks \in Seq(Registrars) : asks = Asks(n, h)
  BY AsksTyped
<1>3. r.step = 1 /\ r.asks = asks /\ (r.state = "asking" => asks # <<>>)
  BY <1>1, <1>2 DEF Started
<1>4. r.state = "asking" => r.step \in 1..Len(r.asks)
  BY <1>2, <1>3
<1>5. PICK s \in Seq(Resolution) : s = resolutions
  BY DEF FederationTypeOK
<1>6. resolutions' = Append(s, r)
  BY <1>1, <1>5 DEF Start
<1>7. /\ DOMAIN resolutions' = 1..(Len(s) + 1) /\ resolutions'[Len(s) + 1] = r
      /\ \A i \in 1..Len(s) : resolutions'[i] = s[i]
      /\ DOMAIN s = 1..Len(s) /\ Len(s) \in Nat
  BY <1>6
<1>8. \A i \in DOMAIN s : s[i].state = "asking" => s[i].step \in 1..Len(s[i].asks)
  BY <1>5 DEF AskingWithinAsks
<1>9. AskingWithinAsks'
  <2> SUFFICES ASSUME NEW i \in 1..(Len(s) + 1), resolutions'[i].state = "asking"
               PROVE  resolutions'[i].step \in 1..Len(resolutions'[i].asks)
    BY <1>7 DEF AskingWithinAsks
  <2>1. i = Len(s) + 1 \/ i \in 1..Len(s)
    BY <1>7
  <2> QED BY <1>4, <1>7, <1>8, <2>1
<1>10. \A i \in DOMAIN resolutions : Advances(i)
  BY <1>5, <1>7 DEF Advances
<1> QED BY <1>9, <1>10

LEMMA FederationAdvances ==
  FederationTypeOK /\ AskingWithinAsks /\ [FederationNext]_federationVars =>
    AskingWithinAsks' /\ \A i \in DOMAIN resolutions : Advances(i)
<1> SUFFICES ASSUME FederationTypeOK, AskingWithinAsks, [FederationNext]_federationVars
             PROVE  AskingWithinAsks' /\ \A i \in DOMAIN resolutions : Advances(i)
  OBVIOUS
<1>1. CASE UNCHANGED resolutions
  BY <1>1 DEF AskingWithinAsks, Advances
<1>2. ASSUME NEW n \in Registrars, NEW h \in ClientHops, Resolve(n, h)
      PROVE  AskingWithinAsks' /\ \A i \in DOMAIN resolutions : Advances(i)
  <2>1. h \in Nat /\ Start(n, 0, h)
    BY <1>2, FederationAssumption DEF Resolve, FederationAssumption
  <2> QED BY <2>1, StartAdvances
<1>3. ASSUME NEW i \in 1..MaxResolutions, NEW k \in 1..MaxResolutions, Arrive(i, k)
      PROVE  AskingWithinAsks' /\ \A j \in DOMAIN resolutions : Advances(j)
  <2>1. i \in DOMAIN resolutions /\ k \in DOMAIN resolutions[i].asks
    BY <1>3 DEF Arrive
  <2>2. resolutions[i].asks \in Seq(Registrars)
    BY <2>1, ResolutionTyped
  <2>3. resolutions[i].asks[k] \in Registrars
    BY <2>1, <2>2
  <2>4. Start(resolutions[i].asks[k], i, AskedHops) /\ AskedHops \in Nat
    BY <1>3, FederationAssumption DEF Arrive, FederationAssumption
  <2> QED BY <2>3, <2>4, StartAdvances
<1>4. ASSUME NEW i \in 1..MaxResolutions, Answer(i) \/ Fail(i)
      PROVE  AskingWithinAsks' /\ \A j \in DOMAIN resolutions : Advances(j)
  <2>1. i \in DOMAIN resolutions /\ resolutions[i].state = "asking"
    BY <1>4 DEF Answer, Fail
  <2>2. PICK r : resolutions' = [resolutions EXCEPT ![i] = r] /\ (r = Failed(i) \/ \E j : r = Answered(i, j))
    <3>1. CASE Answer(i)
      BY <3>1 DEF Answer
    <3>2. CASE Fail(i)
      BY <3>2 DEF Fail
    <3> QED BY <1>4, <3>1, <3>2
  <2>3. /\ r.state # "asking" \/ r.step = resolutions[i].step + 1
        /\ r.state = "asking" => r.step \in 1..Len(r.asks)
    <3>1. resolutions[i].step \in 1..Len(resolutions[i].asks)
      BY <2>1 DEF AskingWithinAsks
    <3> QED BY <2>1, <2>2, <3>1, AnsweredAdvances
  <2>4. /\ DOMAIN resolutions' = DOMAIN resolutions /\ resolutions'[i] = r
        /\ \A j \in DOMAIN resolutions : j # i => resolutions'[j] = resolutions[j]
    BY <2>1, <2>2 DEF FederationTypeOK
  <2>5. AskingWithinAsks'
    BY <2>3, <2>4, Zenon DEF AskingWithinAsks
  <2>6. \A j \in DOMAIN resolutions : Advances(j)
    BY <2>3, <2>4, Zenon DEF Advances
  <2> QED BY <2>5, <2>6
<1> QED BY <1>1, <1>2, <1>3, <1>4 DEF FederationNext, Register, UpdateTrust, federationVars

(***************************************************************************)
(* In the composite: a step of another service leaves each alone.          *)
(***************************************************************************)
ServicesInv ==
  /\ RelayInv /\ FederationTypeOK /\ GossipInv /\ ConsensusTypeOK /\ TokenInv
  /\ BackupInv /\ BackupsTypeOK /\ SocketInv /\ StreamInv

LEMMA ServicesInvariant == Spec => []ServicesInv
<1>1. ServicesInit => ServicesInv
  BY RelayInvInit, GossipInvInit, ConsensusInit0, TokenInvInit, SocketInvInit, BackupInvInit, StreamInvInit,
     FederationTypesInit, BackupsTypesInit
     DEF ServicesInit, ServicesInv
<1>2. ServicesInv /\ [ServicesNext]_servicesVars => ServicesInv'
  <2>1. [ServicesNext]_servicesVars =>
          /\ [RelayNext]_relayVars /\ [GossipNext]_gossipVars /\ [ConsensusNext]_consensusVars
          /\ [TokensNext]_tokenVars /\ [FederationNext]_federationVars
          /\ [SocketNext]_socketVars /\ [BackupsNext]_backupVars /\ [PeerStreamNext]_streamVars
    BY Zenon DEF ServicesNext, servicesVars, InRelay, InFederation, InGossip, InConsensus, InTokens,
           InBackups, InSocket, InStream
  <2>2. QED
    BY <2>1, RelayInvStep, GossipInvStep, ConsensusStep, TokenInvStep, SocketInvStep, BackupInvStep, StreamInvStep,
       FederationTypesStep, BackupsTypesStep
       DEF ServicesInv
<1>3. QED
  BY <1>1, <1>2, PTL DEF Spec

\* For any number of nodes, clients, links, clocks and bounds: every store of the
\* services keeps its type, and with it the sequences that federation, gossip and
\* the streams are made of; a resolution that found the DID names who knew it, a
\* node knows a registry once, and what is backed up was sent (resolveDID,
\* registerFederatedRegistry, upsertWill).
THEOREM TypeCorrect == Spec => []TypeOK
<1>1. ServicesInv => TypeOK
  BY GossipInvImplies DEF ServicesInv, RelayInv, TokenInv, SocketInv, SocketTypes, StreamInv, TypeOK
<1>2. QED
  BY ServicesInvariant, <1>1, PTL

\* A resolution asks at most the registries it chose when it started: while it
\* asks it is at one of them, and each of its steps answers it or goes to the next
\* (the loop of resolveDID).  What EveryResolutionEnds adds is that the steps are
\* taken.
THEOREM ResolutionsRunOut ==
  Spec => []AskingWithinAsks /\ [][\A i \in DOMAIN resolutions : Advances(i)]_servicesVars
<1>1. ServicesInit => AskingWithinAsks
  BY DEF ServicesInit, FederationInit, AskingWithinAsks
<1>2. [ServicesNext]_servicesVars => [FederationNext]_federationVars
  BY Zenon DEF ServicesNext, servicesVars, InRelay, InFederation, InGossip, InConsensus, InTokens,
         InBackups, InSocket, InStream
<1>3. ServicesInv /\ AskingWithinAsks /\ [ServicesNext]_servicesVars =>
        AskingWithinAsks' /\ [\A i \in DOMAIN resolutions : Advances(i)]_servicesVars
  BY <1>2, FederationAdvances DEF ServicesInv
<1>4. QED
  BY <1>1, <1>3, ServicesInvariant, PTL DEF Spec

\* A retrieval hands over what it deletes, so a message is handed over once at
\* most, whatever responses are lost and wherever the relay stops
\* (processRelayRetrieve).
THEOREM HandedOverOnce == Spec => []AtMostOnce
BY ServicesInvariant, PTL DEF ServicesInv, RelayInv

\* Without a failure a stored message is in the store or with its recipient until
\* it expires: a purge, by whoever retrieves, takes nothing else
\* (purgeExpiredRelay).
THEOREM NothingLostEarly == Spec => []KeptUntilExpiry
BY ServicesInvariant, PTL DEF ServicesInv, RelayInv

\* For any number of nodes, hops and copies: only a node that forgot a report
\* takes it again (receiveAnomalyReport).
THEOREM ReportsDoNotLoop == Spec => []LoopsNeedForgetting
BY ServicesInvariant, GossipInvImplies, PTL DEF ServicesInv

\* For any number of tokens, holders and spendings of any amounts, negative ones
\* included: what a holder spent and what its tokens are still worth is what was
\* issued to it; after the process stopped within a spending it is no more, for a
\* holder that was issued nothing below zero (spendAttentionTokens).
THEOREM TokensNeverMade == Spec => []TokensAccounted
BY ServicesInvariant, PTL DEF ServicesInv, TokenInv

\* For any number of requests and connections: an answered request was processed
\* by the server, its answer is not that of another (the requestId).
THEOREM AnswersMatch == Spec => []AnswersAreOwn
BY ServicesInvariant, PTL DEF ServicesInv, SocketInv, FramesAreTrue

\* The map of pending requests holds exactly those that wait, with their timers
\* (request, handleMessage and the close handler of ws-client.ts).
THEOREM NoRequestLeaks == Spec => []WaitingIsPending
BY ServicesInvariant, PTL DEF ServicesInv, SocketInv, MapIsExact

\* What a node holds is the newest version that arrived, in whatever order the
\* versions arrived (upsertWill, receiveBackupShard).
THEOREM HeldIsNewest == Spec => []NewestIsHeld
BY ServicesInvariant, PTL DEF ServicesInv, BackupInv

\* For any number of streams and any cut into chunks: a caller with an answer was
\* served, and one with null was refused, cut off or met the size limit
\* (dialAndExchange).
THEOREM StreamResults == Spec => []ResultsAreTruthful
BY ServicesInvariant, StreamInvImplies, PTL DEF ServicesInv

\* The two ends of a stream never wait for each other (writeLengthPrefixed closes
\* the side it wrote, readLengthPrefixed reads until the other is closed).
THEOREM NoMutualWait == Spec => []NobodyWaitsInVain
BY ServicesInvariant, StreamInvImplies, PTL DEF ServicesInv

=============================================================================
