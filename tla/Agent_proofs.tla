---------------------------- MODULE Agent_proofs -----------------------------
(***************************************************************************)
(* Proofs about the agent beside its node, for every value of the          *)
(* constants: the bridge, the scheduler, the content pipeline, the persona *)
(* it shares, the guardian's authority over it, and its values.            *)
(***************************************************************************)
EXTENDS Agent, TLAPS, FiniteSetTheorems, SequenceTheorems, WellFoundedInduction

\* A set of natural numbers has a least one.
LEMMA LeastNat ==
  ASSUME NEW T \in SUBSET Nat, T # {}
  PROVE \E x \in T : \A y \in T : x <= y
<1> DEFINE R == {p \in Nat \X Nat : p[1] < p[2]}
<1>1. OpToRel(<, Nat) = R
  BY DEF OpToRel
<1>2. IsWellFoundedOn(R, Nat)
  BY <1>1, NatLessThanWellFounded
<1>3. PICK x \in T : \A y \in T : ~(<<y, x>> \in R)
  <2> HIDE DEF R
  <2> QED BY <1>2, WFMin
<1>4. \A y \in T : ~(y < x)
  <2> SUFFICES ASSUME NEW y \in T, y < x PROVE FALSE
    OBVIOUS
  <2>1. <<y,x>> \in Nat \X Nat /\ <<y,x>>[1] < <<y,x>>[2]
     OBVIOUS
  <2>2. <<y,x>> \in R
     BY <2>1
  <2> QED BY <2>2, <1>3
<1>5. QED
  BY <1>4

\* A list of peers from the first unknown one on is a list of peers.
LEMMA UnknownTyped ==
  ASSUME NEW todo \in Seq(Peers), NEW known
  PROVE Unknown(todo, known) \in Seq(Peers)
<1> DEFINE unknown == {i \in DOMAIN todo : todo[i] \notin known}
<1>1. CASE unknown = {}
  BY <1>1 DEF Unknown
<1>2. CASE unknown # {}
  <2>1. unknown \in SUBSET Nat /\ \A i \in unknown : 1 <= i /\ i <= Len(todo)
    OBVIOUS
  <2>2. \E i \in unknown : \A j \in unknown : i <= j
    BY <1>2, <2>1, LeastNat
  <2>3. PICK first : first = CHOOSE i \in unknown : \A j \in unknown : i <= j
    OBVIOUS
  <2>4. first \in unknown
    BY <2>2, <2>3
  <2>5. SubSeq(todo, first, Len(todo)) \in Seq(Peers)
    BY <2>1, <2>4
  <2> HIDE DEF unknown
  <2>6. Unknown(todo, known) = SubSeq(todo, first, Len(todo))
    BY <1>2, <2>3 DEF Unknown, unknown
  <2> QED BY <2>5, <2>6
<1> QED BY <1>1, <1>2

LEMMA ContinueTyped ==
  ASSUME NEW todo \in Seq(Peers), NEW known, NEW used, NEW greeted \in 0..MaxGreetings
  PROVE  /\ Continue(todo, greeted, known, used) \in Cycle
         /\ Continue(todo, greeted, known, used).state \in {"idle", "greeting"}
         /\ Continue(todo, greeted, known, used).state = "greeting" =>
              /\ Continue(todo, greeted, known, used).todo # <<>>
              /\ Continue(todo, greeted, known, used).greeted < MaxGreetings
              /\ Unknown(todo, known) # <<>> /\ ~ greeted >= MaxGreetings /\ ~ used >= Cap
<1>1. PICK left : left = Unknown(todo, known)
  OBVIOUS
<1>2. left \in Seq(Peers)
  BY <1>1, UnknownTyped
<1>3. CASE left = <<>> \/ greeted >= MaxGreetings \/ used >= Cap
  <2>1. Continue(todo, greeted, known, used) = NoCycle
    BY <1>1, <1>3 DEF Continue
  <2>2. NoCycle \in Cycle
    BY BridgeAssumption DEF NoCycle, Cycle
  <2> QED BY <2>1, <2>2 DEF NoCycle
<1>4. CASE ~(left = <<>> \/ greeted >= MaxGreetings \/ used >= Cap)
  <2>1. Continue(todo, greeted, known, used) = [state |-> "greeting", todo |-> left, greeted |-> greeted]
    BY <1>1, <1>4 DEF Continue
  <2> QED BY <1>1, <1>2, <1>4, <2>1, BridgeAssumption DEF Cycle
<1> QED BY <1>3, <1>4

\* The numbers the cap is about.
WaitingIn(st, pa) == {m \in Messages : st[m] = "awaiting" /\ pa[m] # Guardian}
AwaitingIn(st) == {m \in Messages : st[m] = "awaiting"}
GreetingIn(cs) == {k \in Cycles : cs[k].state = "greeting"}

LEMMA MessagesFinite ==
  ASSUME NEW S \in SUBSET Messages
  PROVE IsFiniteSet(S) /\ Cardinality(S) \in Nat
<1>1. IsFiniteSet(Messages)
  BY FS_Interval, BridgeAssumption DEF Messages
<1> QED BY <1>1, FS_Subset, FS_CardinalityType

LEMMA CyclesFinite ==
  ASSUME NEW S \in SUBSET Cycles
  PROVE IsFiniteSet(S) /\ Cardinality(S) \in Nat /\ Cardinality(Cycles) \in Nat /\ Cardinality(S) <= Cardinality(Cycles)
<1> QED BY BridgeAssumption, FS_Subset, FS_CardinalityType

LEMMA InFlightBounds ==
  ASSUME NEW st, NEW pa, NEW cs, Cardinality(AwaitingIn(st)) <= MaxAwaiting
  PROVE  /\ Cardinality(WaitingIn(st, pa)) \in 0..MaxAwaiting
         /\ Cardinality(GreetingIn(cs)) \in 0..Cardinality(Cycles)
         /\ Cardinality(Cycles) \in Nat
<1>1. WaitingIn(st, pa) \in SUBSET Messages /\ AwaitingIn(st) \in SUBSET Messages
  BY DEF WaitingIn, AwaitingIn
<1>2. IsFiniteSet(AwaitingIn(st)) /\ Cardinality(AwaitingIn(st)) \in Nat /\ Cardinality(WaitingIn(st, pa)) \in Nat
  BY <1>1, MessagesFinite
<1>3. WaitingIn(st, pa) \subseteq AwaitingIn(st)
  BY DEF WaitingIn, AwaitingIn
<1>4. Cardinality(WaitingIn(st, pa)) <= Cardinality(AwaitingIn(st))
  BY <1>2, <1>3, FS_Subset
<1>5. GreetingIn(cs) \in SUBSET Cycles
  BY DEF GreetingIn
<1>6. Cardinality(GreetingIn(cs)) \in Nat /\ Cardinality(Cycles) \in Nat /\ Cardinality(GreetingIn(cs)) <= Cardinality(Cycles)
  BY <1>5, CyclesFinite
<1> QED BY <1>2, <1>4, <1>6, BridgeAssumption

\* One less waits after an answer; nobody new waits.
LEMMA WaitingLess ==
  ASSUME NEW st, NEW st2, NEW pa, NEW m \in Messages, st[m] = "awaiting",
         st2[m] # "awaiting", \A n \in Messages \ {m} : st2[n] = st[n]
  PROVE  /\ pa[m] # Guardian => Cardinality(WaitingIn(st2, pa)) + 1 = Cardinality(WaitingIn(st, pa))
         /\ pa[m] = Guardian => WaitingIn(st2, pa) = WaitingIn(st, pa)
         /\ Cardinality(AwaitingIn(st2)) + 1 = Cardinality(AwaitingIn(st))
         /\ Cardinality(WaitingIn(st2, pa)) \in Nat /\ Cardinality(AwaitingIn(st2)) \in Nat
<1>1. WaitingIn(st, pa) \in SUBSET Messages /\ WaitingIn(st2, pa) \in SUBSET Messages
      /\ AwaitingIn(st) \in SUBSET Messages /\ AwaitingIn(st2) \in SUBSET Messages
  BY DEF WaitingIn, AwaitingIn
<1>2. Cardinality(WaitingIn(st2, pa)) \in Nat /\ Cardinality(AwaitingIn(st2)) \in Nat
      /\ IsFiniteSet(WaitingIn(st2, pa)) /\ IsFiniteSet(AwaitingIn(st2))
  BY <1>1, MessagesFinite
<1>3. AwaitingIn(st) = AwaitingIn(st2) \cup {m} /\ m \notin AwaitingIn(st2)
  BY DEF AwaitingIn
<1>4. PICK rest : rest = AwaitingIn(st2)
  OBVIOUS
<1>5. Cardinality(rest \cup {m}) = Cardinality(rest) + 1
  BY <1>2, <1>3, <1>4, FS_AddElement
<1>6. Cardinality(AwaitingIn(st2)) + 1 = Cardinality(AwaitingIn(st))
  BY <1>3, <1>4, <1>5
<1>7. ASSUME pa[m] # Guardian PROVE Cardinality(WaitingIn(st2, pa)) + 1 = Cardinality(WaitingIn(st, pa))
  <2>1. WaitingIn(st, pa) = WaitingIn(st2, pa) \cup {m} /\ m \notin WaitingIn(st2, pa)
    BY <1>7 DEF WaitingIn
  <2>2. PICK less : less = WaitingIn(st2, pa)
    OBVIOUS
  <2>3. Cardinality(less \cup {m}) = Cardinality(less) + 1
    BY <1>2, <2>1, <2>2, FS_AddElement
  <2> QED BY <2>1, <2>2, <2>3
<1>8. ASSUME pa[m] = Guardian PROVE WaitingIn(st2, pa) = WaitingIn(st, pa)
  BY <1>8 DEF WaitingIn
<1> QED BY <1>2, <1>6, <1>7, <1>8

LEMMA GreetingLess ==
  ASSUME NEW cs, NEW cs2, NEW k \in Cycles, cs[k].state = "greeting",
         cs2[k].state # "greeting", \A j \in Cycles \ {k} : cs2[j] = cs[j]
  PROVE  Cardinality(GreetingIn(cs2)) \in Nat /\ Cardinality(GreetingIn(cs2)) + 1 = Cardinality(GreetingIn(cs))
<1>1. GreetingIn(cs2) \in SUBSET Cycles
  BY DEF GreetingIn
<1>2. Cardinality(GreetingIn(cs2)) \in Nat /\ IsFiniteSet(GreetingIn(cs2))
  BY <1>1, CyclesFinite
<1>3. GreetingIn(cs) = GreetingIn(cs2) \cup {k} /\ k \notin GreetingIn(cs2)
  BY DEF GreetingIn
<1>4. PICK rest : rest = GreetingIn(cs2)
  OBVIOUS
<1>5. Cardinality(rest \cup {k}) = Cardinality(rest) + 1
  BY <1>2, <1>3, <1>4, FS_AddElement
<1> QED BY <1>2, <1>3, <1>4, <1>5


(***************************************************************************)
(* The bridge.                                                             *)
(***************************************************************************)
BridgeInv ==
  /\ BridgeTypeOK
  /\ AccountedOnce
  /\ Cardinality(Awaiting) <= MaxAwaiting
  /\ OvershootBounded

LEMMA CheckedTyped ==
  ASSUME interactions \in [count : Nat, day : 0..today], today \in Nat
  PROVE  /\ Checked \in [count : Nat, day : 0..today] /\ Incremented \in [count : Nat, day : 0..today]
         /\ Checked.day = today /\ Incremented.day = today
         /\ Checked.count = (IF interactions.day = today THEN interactions.count ELSE 0)
         /\ Incremented.count = Checked.count + 1
<1>1. [count |-> 0, day |-> today] \in [count : Nat, day : 0..today]
  OBVIOUS
<1>2. Checked \in [count : Nat, day : 0..today] /\ Checked.day = today
      /\ Checked.count = (IF interactions.day = today THEN interactions.count ELSE 0)
  BY <1>1 DEF Checked
<1>3. Checked.count + 1 \in Nat
  BY <1>2
<1> QED BY <1>2, <1>3 DEF Incremented

LEMMA OutcomeTyped ==
  ASSUME knownPeers \subseteq Peers, peerEndpoints \subseteq Peers, related \subseteq Peers,
         NEW p \in Peers, NEW outcome
  PROVE  RelatedAfter(p, outcome) \subseteq Peers /\ EndpointsAfter(p, outcome) \subseteq Peers
         /\ KnownAfter(p, outcome) \subseteq Peers
<1> QED BY DEF RelatedAfter, EndpointsAfter, KnownAfter

Report == [messages : SUBSET Messages, state : {"sending", "delivered", "undelivered"}]

LEMMA ReportTyped ==
  ASSUME NEW r \in Report, NEW s \in {"sending", "delivered", "undelivered"}
  PROVE  [r EXCEPT !.state = s] \in Report /\ [r EXCEPT !.state = s].messages = r.messages
<1> QED BY DEF Report

LEMMA CycleDiscovering ==
  ASSUME NEW c \in Cycle
  PROVE  [c EXCEPT !.state = "discovering"] \in Cycle /\ [c EXCEPT !.state = "discovering"].state = "discovering"
<1> QED BY DEF Cycle

LEMMA BridgeTypeInit ==
  ASSUME BridgeInit
  PROVE  BridgeTypeOK
<1>1. NoCycle \in Cycle /\ NoCycle.state = "idle"
  BY BridgeAssumption DEF NoCycle, Cycle
<1>2. [k \in Cycles |-> NoCycle] \in [Cycles -> Cycle]
  BY <1>1
<1>3. cycles \in [Cycles -> Cycle] /\ \A k \in Cycles : cycles[k].state # "greeting"
  BY <1>1, <1>2, Zenon DEF BridgeInit
<1>4. today \in Days /\ restarts \in 0..MaxRestarts
  BY BridgeAssumption DEF BridgeInit, Days
<1>5. party \in [Messages -> Parties]
      /\ status \in [Messages -> {"none", "awaiting", "failed", "exchanged", "forgotten"}]
  BY DEF BridgeInit, Parties
<1>6. interactions \in [count : Nat, day : 0..today]
  BY DEF BridgeInit
<1>7. reports \in Seq([messages : SUBSET Messages, state : {"sending", "delivered", "undelivered"}])
  BY DEF BridgeInit
<1> QED BY <1>1, <1>3, <1>4, <1>5, <1>6, <1>7 DEF BridgeTypeOK, BridgeInit

LEMMA TrackTyped ==
  ASSUME period \subseteq Messages, guardianMessages \subseteq Messages,
         NEW m \in Messages, NEW p, Track(m, p)
  PROVE  period' \subseteq Messages /\ guardianMessages' \subseteq Messages
<1> QED BY DEF Track

LEMMA BridgeTypeStep ==
  ASSUME BridgeTypeOK, [BridgeNext]_bridgeVars
  PROVE  BridgeTypeOK'
<1> USE DEF messageVars, peerVars
<1>t. today \in Nat /\ interactions \in [count : Nat, day : 0..today]
  BY BridgeAssumption DEF BridgeTypeOK, Days
<1>c. Checked \in [count : Nat, day : 0..today] /\ Incremented \in [count : Nat, day : 0..today]
  BY <1>t, CheckedTyped
<1>1. ASSUME NEW m \in Messages, NEW p \in Peers \cup {Guardian}, MessagePeer(m, p)
      PROVE BridgeTypeOK'
  <2>1. interactions' \in [count : Nat, day : 0..today']
    BY <1>1, <1>t, <1>c DEF MessagePeer
  <2>2. party' \in [Messages -> Parties]
        /\ status' \in [Messages -> {"none", "awaiting", "failed", "exchanged", "forgotten"}]
    BY <1>1 DEF MessagePeer, BridgeTypeOK, Parties
  <2> QED BY <1>1, <2>1, <2>2 DEF MessagePeer, BridgeTypeOK
<1>2. ASSUME NEW m \in Messages, NEW p \in Peers \cup {Guardian}, Incoming(m, p)
      PROVE BridgeTypeOK'
  <2>1. period' \subseteq Messages /\ guardianMessages' \subseteq Messages
    BY <1>2, TrackTyped DEF Incoming, BridgeTypeOK
  <2>2. party' \in [Messages -> Parties]
        /\ status' \in [Messages -> {"none", "awaiting", "failed", "exchanged", "forgotten"}]
    BY <1>2 DEF Incoming, BridgeTypeOK, Parties
  <2> QED BY <1>2, <2>1, <2>2 DEF Incoming, BridgeTypeOK
<1>3. ASSUME NEW m \in Messages, MessageAcked(m)
      PROVE BridgeTypeOK'
  <2>1. period' \subseteq Messages /\ guardianMessages' \subseteq Messages
    BY <1>3, TrackTyped DEF MessageAcked, BridgeTypeOK
  <2>2. status' \in [Messages -> {"none", "awaiting", "failed", "exchanged", "forgotten"}]
    BY <1>3 DEF MessageAcked, BridgeTypeOK
  <2>3. interactions' \in [count : Nat, day : 0..today']
    BY <1>3, <1>t, <1>c DEF MessageAcked
  <2> QED BY <1>3, <2>1, <2>2, <2>3 DEF MessageAcked, BridgeTypeOK
<1>4. ASSUME NEW m \in Messages, MessageFailed(m)
      PROVE BridgeTypeOK'
  <2>2. status' \in [Messages -> {"none", "awaiting", "failed", "exchanged", "forgotten"}]
    BY <1>4 DEF MessageFailed, BridgeTypeOK
  <2> QED BY <1>4, <2>2 DEF MessageFailed, BridgeTypeOK
<1>5. ASSUME ChannelStart \/ ChannelStop
      PROVE BridgeTypeOK'
  BY <1>5 DEF ChannelStart, ChannelStop, BridgeTypeOK
<1>6. ASSUME GenerateReport
      PROVE BridgeTypeOK'
  <2>1. [messages |-> period, state |-> "sending"] \in Report /\ reports \in Seq(Report)
    BY DEF BridgeTypeOK, Report
  <2>2. reports' \in Seq(Report)
    BY <1>6, <2>1 DEF GenerateReport
  <2> QED BY <1>6, <2>2 DEF GenerateReport, BridgeTypeOK, Report
<1>7. ASSUME NEW i \in 1..MaxReports, NEW acked \in BOOLEAN, DeliverReport(i, acked)
      PROVE BridgeTypeOK'
  <2>0. reports \in Seq(Report) /\ i \in DOMAIN reports
    BY <1>7 DEF BridgeTypeOK, Report, DeliverReport
  <2>1. reports \in Seq(Report) /\ i \in DOMAIN reports /\ reports[i] \in Report
    BY <2>0
  <2>2. PICK r : r = [reports[i] EXCEPT !.state = IF acked THEN "delivered" ELSE "undelivered"]
    OBVIOUS
  <2>3. r \in Report
    BY <2>1, <2>2, ReportTyped
  <2>4. reports' = [reports EXCEPT ![i] = r]
    BY <1>7, <2>2, Zenon DEF DeliverReport
  <2>5. reports' \in Seq(Report)
    BY <2>1, <2>3, <2>4
  <2> QED BY <1>7, <2>5 DEF DeliverReport, BridgeTypeOK, Report
<1>8. ASSUME NEW k \in Cycles, StartCycle(k)
      PROVE BridgeTypeOK'
  <2>1. PICK c : c = [cycles[k] EXCEPT !.state = "discovering"]
    OBVIOUS
  <2>2. c \in Cycle /\ c.state = "discovering"
    BY <2>1, CycleDiscovering DEF BridgeTypeOK
  <2>3. cycles' = [cycles EXCEPT ![k] = c]
    BY <1>8, <2>1, Zenon DEF StartCycle
  <2>4. cycles' \in [Cycles -> Cycle] /\ \A j \in Cycles : cycles'[j].state = "greeting" =>
            cycles'[j].todo # <<>> /\ cycles'[j].greeted < MaxGreetings
    BY <2>2, <2>3 DEF BridgeTypeOK
  <2>5. interactions' \in [count : Nat, day : 0..today']
    BY <1>8, <1>t, <1>c DEF StartCycle
  <2> QED BY <1>8, <2>4, <2>5 DEF StartCycle, BridgeTypeOK
<1>9. ASSUME NEW k \in Cycles, NEW peers \in Discoveries, Discovered(k, peers)
      PROVE BridgeTypeOK'
  <2>1. PICK c : c = Continue(peers, 0, knownPeers, Checked.count)
    OBVIOUS
  <2>2. peers \in Seq(Peers) /\ 0 \in 0..MaxGreetings
    BY BridgeAssumption
  <2>3. c \in Cycle /\ (c.state = "greeting" => c.todo # <<>> /\ c.greeted < MaxGreetings)
    BY <2>1, <2>2, ContinueTyped
  <2>4. cycles' = [cycles EXCEPT ![k] = c]
    BY <1>9, <2>1, Zenon DEF Discovered
  <2>5. cycles' \in [Cycles -> Cycle] /\ \A j \in Cycles : cycles'[j].state = "greeting" =>
            cycles'[j].todo # <<>> /\ cycles'[j].greeted < MaxGreetings
    BY <2>3, <2>4 DEF BridgeTypeOK
  <2>6. interactions' \in [count : Nat, day : 0..today']
    BY <1>9, <1>t, <1>c DEF Discovered
  <2> QED BY <1>9, <2>5, <2>6 DEF Discovered, BridgeTypeOK
<1>10. ASSUME NEW k \in Cycles, NEW outcome \in {"accepted", "lost", "null"}, Greeted(k, outcome)
      PROVE BridgeTypeOK'
  <2>1. PICK p, rest, greeted, used :
          /\ p = Head(cycles[k].todo) /\ rest = Tail(cycles[k].todo)
          /\ greeted = cycles[k].greeted + (IF outcome = "accepted" THEN 1 ELSE 0)
          /\ used = (IF outcome = "accepted" THEN Incremented ELSE Checked).count
    OBVIOUS
  <2>2. cycles[k] \in Cycle /\ cycles[k].state = "greeting" /\ cycles[k].todo # <<>>
        /\ cycles[k].greeted < MaxGreetings
    BY <1>10 DEF Greeted, BridgeTypeOK
  <2>3. p \in Peers /\ rest \in Seq(Peers)
    BY <2>1, <2>2 DEF Cycle
  <2>4. related' \subseteq Peers /\ peerEndpoints' \subseteq Peers /\ knownPeers' \subseteq Peers
    BY <1>10, <2>1, <2>3, OutcomeTyped DEF Greeted, BridgeTypeOK
  <2>5. greeted \in 0..MaxGreetings
    BY <2>1, <2>2, BridgeAssumption DEF Cycle
  <2>6. PICK c : c = Continue(rest, greeted, knownPeers', used)
    OBVIOUS
  <2>7. c \in Cycle /\ (c.state = "greeting" => c.todo # <<>> /\ c.greeted < MaxGreetings)
    BY <2>3, <2>5, <2>6, ContinueTyped
  <2>8. cycles' = [cycles EXCEPT ![k] = c]
    BY <1>10, <2>1, <2>6, Zenon DEF Greeted
  <2>9. cycles' \in [Cycles -> Cycle] /\ \A j \in Cycles : cycles'[j].state = "greeting" =>
            cycles'[j].todo # <<>> /\ cycles'[j].greeted < MaxGreetings
    BY <2>7, <2>8 DEF BridgeTypeOK
  <2>10. interactions' \in [count : Nat, day : 0..today']
    BY <1>10, <1>t, <1>c DEF Greeted
  <2> QED BY <1>10, <2>4, <2>9, <2>10 DEF Greeted, BridgeTypeOK
<1>11. ASSUME NEW p \in Peers, NEW outcome \in {"accepted", "lost", "null"}, Connect(p, outcome)
      PROVE BridgeTypeOK'
  <2>1. related' \subseteq Peers /\ peerEndpoints' \subseteq Peers
    BY <1>11, OutcomeTyped DEF Connect, BridgeTypeOK
  <2> QED BY <1>11, <2>1 DEF Connect, BridgeTypeOK
<1>12. ASSUME NextDay
      PROVE BridgeTypeOK'
  <2>1. today' \in Days /\ interactions' \in [count : Nat, day : 0..today']
    BY <1>12, <1>t, BridgeAssumption DEF NextDay, Days
  <2> QED BY <1>12, <2>1 DEF NextDay, BridgeTypeOK
<1>13. ASSUME Restart
      PROVE BridgeTypeOK'
  <2>1. restarts' \in 0..MaxRestarts
    BY <1>13, BridgeAssumption DEF Restart, BridgeTypeOK
  <2>2. NoCycle \in Cycle /\ NoCycle.state = "idle"
    BY BridgeAssumption DEF NoCycle, Cycle
  <2>3. cycles' \in [Cycles -> Cycle] /\ \A k \in Cycles : cycles'[k].state # "greeting"
    BY <1>13, <2>2, Zenon DEF Restart
  <2>4. status' \in [Messages -> {"none", "awaiting", "failed", "exchanged", "forgotten"}]
    BY <1>13 DEF Restart, BridgeTypeOK
  <2>5. reports \in Seq(Report)
    BY DEF BridgeTypeOK, Report
  <2>6. \A i \in DOMAIN reports :
          (IF reports[i].state = "sending" THEN [reports[i] EXCEPT !.state = "undelivered"] ELSE reports[i]) \in Report
    <3> TAKE i \in DOMAIN reports
    <3>1. reports[i] \in Report
      BY <2>5
    <3>2. [reports[i] EXCEPT !.state = "undelivered"] \in Report
      BY <3>1, ReportTyped
    <3> QED BY <3>1, <3>2
  <2>7. DOMAIN reports = 1..Len(reports) /\ Len(reports) \in Nat
    BY <2>5
  <2>8. reports' \in Seq(Report)
    BY <1>13, <2>6, <2>7 DEF Restart
  <2>9. interactions' \in [count : Nat, day : 0..today']
    BY <1>13, <1>t DEF Restart
  <2> QED BY <1>13, <2>1, <2>3, <2>4, <2>8, <2>9 DEF Restart, BridgeTypeOK, Report
<1>14. ASSUME UNCHANGED bridgeVars
      PROVE BridgeTypeOK'
  BY <1>14 DEF bridgeVars, BridgeTypeOK
<1> QED
  BY <1>1, <1>2, <1>3, <1>4, <1>5, <1>6, <1>7, <1>8, <1>9, <1>10, <1>11, <1>12, <1>13, <1>14
     DEF BridgeNext


CapHeld ==
  /\ Cardinality(Awaiting) <= MaxAwaiting
  /\ OvershootBounded

\* The bound with its numbers named.
Bounded(used, day, st, pa, cs) ==
  used.day = day =>
    used.count + (Cardinality(WaitingIn(st, pa)) + Cardinality(GreetingIn(cs)))
      < Cap + MaxAwaiting + Cardinality(Cycles)

LEMMA CapHeldNumbers ==
  /\ CapHeld <=> /\ Cardinality(AwaitingIn(status)) <= MaxAwaiting
                 /\ Bounded(interactions, today, status, party, cycles)
  /\ CapHeld' <=> /\ Cardinality(AwaitingIn(status')) <= MaxAwaiting
                  /\ Bounded(interactions', today', status', party', cycles')
<1>1. /\ {m \in Awaiting : party[m] # Guardian} = WaitingIn(status, party)
      /\ Awaiting = AwaitingIn(status)
      /\ {k \in Cycles : cycles[k].state = "greeting"} = GreetingIn(cycles)
  BY DEF Awaiting, WaitingIn, AwaitingIn, GreetingIn
<1>2. /\ {m \in Awaiting : party[m] # Guardian}' = WaitingIn(status', party')
      /\ Awaiting' = AwaitingIn(status')
      /\ {k \in Cycles : cycles[k].state = "greeting"}' = GreetingIn(cycles')
  BY DEF Awaiting, WaitingIn, AwaitingIn, GreetingIn
<1> QED BY <1>1, <1>2, Zenon DEF CapHeld, OvershootBounded, InFlight, Bounded

LEMMA CapHeldInit ==
  ASSUME BridgeInit
  PROVE  CapHeld
<1>1. AwaitingIn(status) = {} /\ WaitingIn(status, party) = {}
  BY DEF BridgeInit, AwaitingIn, WaitingIn
<1>2. GreetingIn(cycles) = {}
  <2>1. \A k \in Cycles : cycles[k] = NoCycle
    BY DEF BridgeInit
  <2> QED BY <2>1 DEF GreetingIn, NoCycle
<1>3. Cardinality({}) = 0 /\ Cardinality(Cycles) \in Nat
  BY FS_EmptySet, FS_CardinalityType, BridgeAssumption
<1>4. interactions.count = 0
  BY DEF BridgeInit
<1>5. Bounded(interactions, today, status, party, cycles)
  BY <1>1, <1>2, <1>3, <1>4, BridgeAssumption DEF Bounded
<1> QED BY <1>1, <1>3, <1>5, CapHeldNumbers, BridgeAssumption

LEMMA CapHeldStep ==
  ASSUME BridgeTypeOK, CapHeld, [BridgeNext]_bridgeVars
  PROVE  CapHeld'
<1> USE DEF messageVars, peerVars
<1>t. today \in Nat /\ interactions \in [count : Nat, day : 0..today]
      /\ Cap \in Nat /\ Cap > 0 /\ MaxAwaiting \in Nat
  BY BridgeAssumption DEF BridgeTypeOK, Days
<1>n. interactions.count \in Nat /\ interactions.day <= today
  BY <1>t
<1>c. /\ Checked.day = today /\ Incremented.day = today /\ Checked.count \in Nat
      /\ Checked.count = (IF interactions.day = today THEN interactions.count ELSE 0)
      /\ Incremented.count = Checked.count + 1
  BY <1>t, <1>n, CheckedTyped
<1>a. Cardinality(AwaitingIn(status)) <= MaxAwaiting
      /\ Bounded(interactions, today, status, party, cycles)
  BY CapHeldNumbers
<1>b. /\ Cardinality(WaitingIn(status, party)) \in 0..MaxAwaiting
      /\ Cardinality(GreetingIn(cycles)) \in 0..Cardinality(Cycles)
      /\ Cardinality(Cycles) \in Nat
  BY <1>a, InFlightBounds
<1> SUFFICES /\ Cardinality(AwaitingIn(status')) <= MaxAwaiting
             /\ Bounded(interactions', today', status', party', cycles')
  BY CapHeldNumbers
\* A count below the cap is bounded whatever is in flight.
<1>s. ASSUME Cardinality(AwaitingIn(status')) <= MaxAwaiting,
             interactions'.count \in Nat, interactions'.count < Cap
      PROVE  Bounded(interactions', today', status', party', cycles')
  <2>1. /\ Cardinality(WaitingIn(status', party')) \in 0..MaxAwaiting
        /\ Cardinality(GreetingIn(cycles')) \in 0..Cardinality(Cycles)
    BY <1>s, InFlightBounds
  <2> QED BY <2>1, <1>b, <1>s, <1>t DEF Bounded
<1>1. ASSUME NEW m \in Messages, NEW p \in Peers \cup {Guardian}, MessagePeer(m, p)
      PROVE /\ Cardinality(AwaitingIn(status')) <= MaxAwaiting
            /\ Bounded(interactions', today', status', party', cycles')
  <2>1. /\ status[m] = "none" /\ status'[m] = "awaiting" /\ party'[m] = p
        /\ \A n \in Messages \ {m} : status'[n] = status[n] /\ party'[n] = party[n]
        /\ Cardinality(Awaiting) < MaxAwaiting /\ cycles' = cycles /\ today' = today
    BY <1>1 DEF MessagePeer, Unused, BridgeTypeOK
  <2>2. Cardinality(AwaitingIn(status')) <= MaxAwaiting
    <3>1. AwaitingIn(status') = AwaitingIn(status) \cup {m} /\ m \notin AwaitingIn(status)
          /\ AwaitingIn(status) = Awaiting /\ AwaitingIn(status) \in SUBSET Messages
      BY <2>1 DEF AwaitingIn, Awaiting
    <3>2. PICK before : before = AwaitingIn(status)
      OBVIOUS
    <3>3. Cardinality(before) \in Nat /\ Cardinality(before \cup {m}) = Cardinality(before) + 1
      BY <3>1, <3>2, MessagesFinite, FS_AddElement
    <3> QED BY <2>1, <3>1, <3>2, <3>3, <1>t
  <2>3. CASE p = Guardian
    <3>1. WaitingIn(status', party') = WaitingIn(status, party)
      BY <2>1, <2>3 DEF WaitingIn
    <3>2. interactions' = interactions
      BY <1>1, <2>3 DEF MessagePeer
    <3>3. Bounded(interactions', today', status', party', cycles')
      BY <1>a, <2>1, <3>1, <3>2 DEF Bounded
    <3> QED BY <2>2, <3>3
  <2>4. CASE p # Guardian
    <3>1. interactions' = Checked /\ Checked.count < Cap
      BY <1>1, <2>4 DEF MessagePeer, WithinLimits
    <3> QED BY <1>c, <1>s, <2>2, <3>1
  <2> QED BY <2>3, <2>4
<1>2. ASSUME NEW m \in Messages, NEW p \in Peers \cup {Guardian}, Incoming(m, p)
      PROVE /\ Cardinality(AwaitingIn(status')) <= MaxAwaiting
            /\ Bounded(interactions', today', status', party', cycles')
  <2>1. /\ status[m] = "none" /\ status'[m] = "exchanged"
        /\ \A n \in Messages \ {m} : status'[n] = status[n] /\ party'[n] = party[n]
        /\ cycles' = cycles /\ today' = today /\ interactions' = interactions
    BY <1>2 DEF Incoming, Unused, BridgeTypeOK
  <2>2. AwaitingIn(status') = AwaitingIn(status) /\ WaitingIn(status', party') = WaitingIn(status, party)
    BY <2>1 DEF AwaitingIn, WaitingIn
  <2> QED BY <1>a, <2>1, <2>2 DEF Bounded
<1>3. ASSUME NEW m \in Messages, MessageAcked(m)
      PROVE /\ Cardinality(AwaitingIn(status')) <= MaxAwaiting
            /\ Bounded(interactions', today', status', party', cycles')
  <2>1. /\ status[m] = "awaiting" /\ status'[m] # "awaiting" /\ party' = party
        /\ \A n \in Messages \ {m} : status'[n] = status[n]
        /\ cycles' = cycles /\ today' = today
    BY <1>3 DEF MessageAcked, BridgeTypeOK
  <2>2. /\ party[m] # Guardian => Cardinality(WaitingIn(status', party)) + 1 = Cardinality(WaitingIn(status, party))
        /\ party[m] = Guardian => WaitingIn(status', party) = WaitingIn(status, party)
        /\ Cardinality(AwaitingIn(status')) + 1 = Cardinality(AwaitingIn(status))
        /\ Cardinality(WaitingIn(status', party)) \in Nat /\ Cardinality(AwaitingIn(status')) \in Nat
    BY <2>1, WaitingLess
  <2>3. Cardinality(AwaitingIn(status')) <= MaxAwaiting
    BY <1>a, <1>t, <2>2
  <2>4. CASE party[m] = Guardian
    <3>1. interactions' = interactions
      BY <1>3, <2>4 DEF MessageAcked, IsGuardianMessage
    <3> QED BY <1>a, <2>1, <2>2, <2>3, <2>4, <3>1 DEF Bounded
  <2>5. CASE party[m] # Guardian
    <3>1. interactions' = Incremented
      BY <1>3, <2>5 DEF MessageAcked, IsGuardianMessage
    <3>2. Bounded(interactions', today', status', party', cycles')
      BY <1>a, <1>b, <1>c, <1>n, <1>t, <2>1, <2>2, <2>5, <3>1 DEF Bounded
    <3> QED BY <2>3, <3>2
  <2> QED BY <2>4, <2>5
<1>4. ASSUME NEW m \in Messages, MessageFailed(m)
      PROVE /\ Cardinality(AwaitingIn(status')) <= MaxAwaiting
            /\ Bounded(interactions', today', status', party', cycles')
  <2>1. /\ status[m] = "awaiting" /\ status'[m] # "awaiting" /\ party' = party
        /\ \A n \in Messages \ {m} : status'[n] = status[n]
        /\ cycles' = cycles /\ today' = today /\ interactions' = interactions
    BY <1>4 DEF MessageFailed, BridgeTypeOK
  <2>2. /\ party[m] # Guardian => Cardinality(WaitingIn(status', party)) + 1 = Cardinality(WaitingIn(status, party))
        /\ party[m] = Guardian => WaitingIn(status', party) = WaitingIn(status, party)
        /\ Cardinality(AwaitingIn(status')) + 1 = Cardinality(AwaitingIn(status))
        /\ Cardinality(WaitingIn(status', party)) \in Nat /\ Cardinality(AwaitingIn(status')) \in Nat
    BY <2>1, WaitingLess
  <2>3. Cardinality(AwaitingIn(status')) <= MaxAwaiting
    BY <1>a, <1>t, <2>2
  <2>4. Bounded(interactions', today', status', party', cycles')
    BY <1>a, <1>b, <1>n, <1>t, <2>1, <2>2 DEF Bounded
  <2> QED BY <2>3, <2>4
<1>5. ASSUME status' = status, party' = party, cycles' = cycles, interactions' = interactions,
             today' = today
      PROVE /\ Cardinality(AwaitingIn(status')) <= MaxAwaiting
            /\ Bounded(interactions', today', status', party', cycles')
  BY <1>5, <1>a
<1>6. ASSUME NEW k \in Cycles, StartCycle(k)
      PROVE /\ Cardinality(AwaitingIn(status')) <= MaxAwaiting
            /\ Bounded(interactions', today', status', party', cycles')
  BY <1>6, <1>a, <1>c, <1>s DEF StartCycle, WithinLimits
<1>7. ASSUME NEW k \in Cycles, NEW peers \in Discoveries, Discovered(k, peers)
      PROVE /\ Cardinality(AwaitingIn(status')) <= MaxAwaiting
            /\ Bounded(interactions', today', status', party', cycles')
  <2>1. PICK c : c = Continue(peers, 0, knownPeers, Checked.count)
    OBVIOUS
  <2>2. peers \in Seq(Peers) /\ 0 \in 0..MaxGreetings
    BY BridgeAssumption
  <2>3. c.state \in {"idle", "greeting"}
        /\ (c.state = "greeting" => /\ Unknown(peers, knownPeers) # <<>> /\ ~ 0 >= MaxGreetings
                                    /\ ~ Checked.count >= Cap)
    BY <2>1, <2>2, ContinueTyped
  <2>4. cycles' = [cycles EXCEPT ![k] = c] /\ cycles[k].state = "discovering"
    BY <1>7, <2>1, Zenon DEF Discovered
  <2>5. status' = status /\ party' = party /\ today' = today
    BY <1>7 DEF Discovered
  <2>6. CASE c.state = "greeting"
    <3>1. interactions' = Checked /\ Checked.count < Cap
      BY <1>7, <1>c, <1>t, <2>3, <2>6 DEF Discovered
    <3> QED BY <1>a, <1>c, <1>s, <2>5, <3>1
  <2>7. CASE c.state # "greeting"
    <3>1. GreetingIn(cycles') = GreetingIn(cycles)
      BY <2>4, <2>7 DEF GreetingIn, BridgeTypeOK
    <3>2. interactions' = interactions \/ interactions' = Checked
      BY <1>7 DEF Discovered
    <3>3. Bounded(interactions', today', status', party', cycles')
      BY <1>a, <1>b, <1>c, <1>n, <1>t, <2>5, <3>1, <3>2 DEF Bounded
    <3> QED BY <1>a, <2>5, <3>3
  <2> QED BY <2>6, <2>7
<1>8. ASSUME NEW k \in Cycles, NEW outcome \in {"accepted", "lost", "null"}, Greeted(k, outcome)
      PROVE /\ Cardinality(AwaitingIn(status')) <= MaxAwaiting
            /\ Bounded(interactions', today', status', party', cycles')
  <2>1. PICK rest, greeted, after :
          /\ rest = Tail(cycles[k].todo)
          /\ greeted = cycles[k].greeted + (IF outcome = "accepted" THEN 1 ELSE 0)
          /\ after = IF outcome = "accepted" THEN Incremented ELSE Checked
    OBVIOUS
  <2>2. cycles[k] \in Cycle /\ cycles[k].state = "greeting" /\ cycles[k].todo # <<>>
        /\ cycles[k].greeted < MaxGreetings
    BY <1>8 DEF Greeted, BridgeTypeOK
  <2>3. rest \in Seq(Peers) /\ greeted \in 0..MaxGreetings
    BY <2>1, <2>2, BridgeAssumption DEF Cycle
  <2>4. PICK c, known : known = knownPeers' /\ c = Continue(rest, greeted, known, after.count)
    OBVIOUS
  <2>5. c.state \in {"idle", "greeting"}
        /\ (c.state = "greeting" => /\ Unknown(rest, known) # <<>> /\ ~ greeted >= MaxGreetings
                                    /\ ~ after.count >= Cap)
    BY <2>3, <2>4, ContinueTyped
  <2>6. cycles' = [cycles EXCEPT ![k] = c]
    BY <1>8, <2>1, <2>4, Zenon DEF Greeted
  <2>7. status' = status /\ party' = party /\ today' = today
    BY <1>8 DEF Greeted
  <2>8. after.day = today /\ after.count \in Nat
        /\ after.count <= (IF interactions.day = today THEN interactions.count + 1 ELSE 1)
    BY <1>c, <1>n, <2>1
  <2>9. CASE c.state = "greeting"
    <3>1. outcome # "accepted" => known = knownPeers
      BY <1>8, <2>4 DEF Greeted, KnownAfter
    <3>2. greeted < MaxGreetings
      BY <2>3, <2>5, <2>9, BridgeAssumption
    <3>3. outcome = "accepted" \/ (Unknown(rest, knownPeers) # <<>> /\ greeted < MaxGreetings)
      BY <2>5, <2>9, <3>1, <3>2
    <3>4. interactions' = IF outcome = "accepted" \/ (Unknown(rest, knownPeers) # <<>> /\ greeted < MaxGreetings)
                          THEN after ELSE interactions
      BY <1>8, <2>1, Zenon DEF Greeted
    <3>5. interactions' = after /\ after.count < Cap
      BY <3>3, <3>4, <2>5, <2>8, <2>9, <1>t
    <3> QED BY <1>a, <1>s, <2>7, <2>8, <3>5
  <2>10. CASE c.state # "greeting"
    <3>1. cycles'[k].state # "greeting" /\ \A j \in Cycles \ {k} : cycles'[j] = cycles[j]
      BY <2>6, <2>10 DEF BridgeTypeOK
    <3>2. Cardinality(GreetingIn(cycles')) \in Nat
          /\ Cardinality(GreetingIn(cycles')) + 1 = Cardinality(GreetingIn(cycles))
      BY <2>2, <3>1, GreetingLess
    <3>3. interactions' = interactions \/ interactions' = after
      BY <1>8, <2>1, Zenon DEF Greeted
    <3>4. Bounded(interactions', today', status', party', cycles')
      BY <1>a, <1>b, <1>n, <1>t, <2>7, <2>8, <3>2, <3>3 DEF Bounded
    <3> QED BY <1>a, <2>7, <3>4
  <2> QED BY <2>9, <2>10
<1>9. ASSUME NextDay
      PROVE /\ Cardinality(AwaitingIn(status')) <= MaxAwaiting
            /\ Bounded(interactions', today', status', party', cycles')
  <2>1. status' = status /\ interactions' = interactions /\ today' = today + 1
    BY <1>9 DEF NextDay
  <2>2. interactions'.day # today'
    BY <1>n, <1>t, <2>1
  <2> QED BY <1>a, <2>1, <2>2 DEF Bounded
<1>10. ASSUME Restart
      PROVE /\ Cardinality(AwaitingIn(status')) <= MaxAwaiting
            /\ Bounded(interactions', today', status', party', cycles')
  <2>1. interactions'.count = 0
    BY <1>10 DEF Restart
  <2>2. \A m \in Messages : status'[m] # "awaiting"
    BY <1>10 DEF Restart
  <2>3. AwaitingIn(status') = {}
    BY <2>2 DEF AwaitingIn
  <2>4. Cardinality(AwaitingIn(status')) <= MaxAwaiting
    BY <2>3, FS_EmptySet, <1>t
  <2> QED BY <1>s, <1>t, <2>1, <2>4
<1>11. ASSUME \/ ChannelStart \/ ChannelStop \/ GenerateReport
              \/ \E i \in 1..MaxReports, acked \in BOOLEAN : DeliverReport(i, acked)
              \/ \E p \in Peers, outcome \in {"accepted", "lost", "null"} : Connect(p, outcome)
              \/ UNCHANGED bridgeVars
      PROVE /\ status' = status /\ party' = party /\ cycles' = cycles
            /\ interactions' = interactions /\ today' = today
  BY <1>11 DEF ChannelStart, ChannelStop, GenerateReport, DeliverReport, Connect, bridgeVars
<1> QED
  BY <1>1, <1>2, <1>3, <1>4, <1>5, <1>6, <1>7, <1>8, <1>9, <1>10, <1>11
     DEF BridgeNext


\* Whether a message is in a set, as a number; the reports it is in.
In(m, S) == IF m \in S THEN 1 ELSE 0
ReportedIn(rs, m) == {i \in DOMAIN rs : m \in rs[i].messages}
Places(rs, p, g, m) == Cardinality(ReportedIn(rs, m)) + In(m, p) + In(m, g)

LEMMA AtMostOne ==
  ASSUME NEW m, NEW S
  PROVE  Cardinality({m} \cap S) = In(m, S)
<1>1. CASE m \in S
  <2>1. {m} \cap S = {m}
    BY <1>1
  <2> QED BY <1>1, <2>1, FS_Singleton DEF In
<1>2. CASE m \notin S
  <2>1. {m} \cap S = {}
    BY <1>2
  <2> QED BY <1>2, <2>1, FS_EmptySet DEF In
<1> QED BY <1>1, <1>2

LEMMA AccountedNumbers ==
  /\ AccountedOnce <=> \A m \in Messages :
       Places(reports, period, guardianMessages, m) = IF status[m] = "exchanged" THEN 1 ELSE 0
  /\ AccountedOnce' <=> \A m \in Messages :
       Places(reports', period', guardianMessages', m) = IF status'[m] = "exchanged" THEN 1 ELSE 0
<1>1. \A m : /\ Cardinality({m} \cap period) = In(m, period)
             /\ Cardinality({m} \cap guardianMessages) = In(m, guardianMessages)
             /\ Cardinality({m} \cap period') = In(m, period')
             /\ Cardinality({m} \cap guardianMessages') = In(m, guardianMessages')
  BY AtMostOne
<1>2. AccountedOnce <=> \A m \in Messages :
        Cardinality(ReportedIn(reports, m)) + Cardinality({m} \cap period)
          + Cardinality({m} \cap guardianMessages) = IF status[m] = "exchanged" THEN 1 ELSE 0
  BY Zenon DEF AccountedOnce, ReportedIn
<1>3. AccountedOnce' <=> \A m \in Messages :
        Cardinality(ReportedIn(reports', m)) + Cardinality({m} \cap period')
          + Cardinality({m} \cap guardianMessages') = IF status'[m] = "exchanged" THEN 1 ELSE 0
  BY Zenon DEF AccountedOnce, ReportedIn
<1> QED BY <1>1, <1>2, <1>3, Zenon DEF Places

LEMMA ReportedFinite ==
  ASSUME NEW rs \in Seq(Report), NEW m
  PROVE  IsFiniteSet(ReportedIn(rs, m)) /\ Cardinality(ReportedIn(rs, m)) \in Nat
<1>1. DOMAIN rs = 1..Len(rs) /\ Len(rs) \in Nat
  OBVIOUS
<1>2. IsFiniteSet(DOMAIN rs)
  BY <1>1, FS_Interval
<1>3. ReportedIn(rs, m) \subseteq DOMAIN rs
  BY DEF ReportedIn
<1> QED BY <1>2, <1>3, FS_Subset, FS_CardinalityType

LEMMA AccountedInit ==
  ASSUME BridgeInit
  PROVE  AccountedOnce
<1>1. ASSUME NEW m \in Messages
      PROVE Places(reports, period, guardianMessages, m) = IF status[m] = "exchanged" THEN 1 ELSE 0
  <2>1. ReportedIn(reports, m) = {}
    BY DEF BridgeInit, ReportedIn
  <2>2. status[m] = "none" /\ period = {} /\ guardianMessages = {}
    BY DEF BridgeInit
  <2> QED BY <2>1, <2>2, FS_EmptySet DEF Places, In
<1> QED BY <1>1, AccountedNumbers

\* A message enters one of the two sets as it becomes exchanged.
LEMMA TrackAccounts ==
  ASSUME BridgeTypeOK, NEW m \in Messages, NEW p, Track(m, p), reports' = reports,
         Places(reports, period, guardianMessages, m) = 0
  PROVE  /\ Places(reports', period', guardianMessages', m) = 1
         /\ \A n \in Messages \ {m} :
              Places(reports', period', guardianMessages', n) = Places(reports, period, guardianMessages, n)
<1>1. reports \in Seq(Report)
  BY DEF BridgeTypeOK, Report
<1>2. Cardinality(ReportedIn(reports, m)) \in Nat
  BY <1>1, ReportedFinite
<1>3. m \notin period /\ m \notin guardianMessages /\ Cardinality(ReportedIn(reports, m)) = 0
  BY <1>2 DEF Places, In
<1>4. In(m, period') + In(m, guardianMessages') = 1
  BY <1>3 DEF Track, In
<1>5. \A n \in Messages \ {m} : In(n, period') = In(n, period) /\ In(n, guardianMessages') = In(n, guardianMessages)
  BY DEF Track, In
<1>6. In(m, period') \in Nat /\ In(m, guardianMessages') \in Nat
  BY DEF In
<1>7. Places(reports', period', guardianMessages', m) = 1
  BY <1>3, <1>4, <1>6 DEF Places
<1> QED BY <1>5, <1>7 DEF Places

LEMMA AccountedStep ==
  ASSUME BridgeTypeOK, AccountedOnce, [BridgeNext]_bridgeVars
  PROVE  AccountedOnce'
<1> USE DEF messageVars, peerVars
<1>a. \A m \in Messages :
        Places(reports, period, guardianMessages, m) = IF status[m] = "exchanged" THEN 1 ELSE 0
  BY AccountedNumbers
<1>r. reports \in Seq(Report) /\ DOMAIN reports = 1..Len(reports) /\ Len(reports) \in Nat
  BY DEF BridgeTypeOK, Report
<1> SUFFICES \A m \in Messages :
      Places(reports', period', guardianMessages', m) = IF status'[m] = "exchanged" THEN 1 ELSE 0
  BY AccountedNumbers
\* A message that is tracked as it becomes exchanged.
<1>t. ASSUME NEW m \in Messages, NEW p, Track(m, p), reports' = reports, status[m] # "exchanged",
             status'[m] = "exchanged", \A n \in Messages \ {m} : status'[n] = status[n]
      PROVE  \A n \in Messages :
               Places(reports', period', guardianMessages', n) = IF status'[n] = "exchanged" THEN 1 ELSE 0
  <2>1. Places(reports, period, guardianMessages, m) = 0
    BY <1>a, <1>t
  <2>2. /\ Places(reports', period', guardianMessages', m) = 1
        /\ \A n \in Messages \ {m} :
             Places(reports', period', guardianMessages', n) = Places(reports, period, guardianMessages, n)
    BY <1>t, <2>1, TrackAccounts
  <2> QED BY <1>a, <1>t, <2>2
\* A message that was and is not exchanged, and is not tracked.
<1>u. ASSUME reports' = reports, period' = period, guardianMessages' = guardianMessages,
             \A n \in Messages : status'[n] = "exchanged" <=> status[n] = "exchanged"
      PROVE  \A n \in Messages :
               Places(reports', period', guardianMessages', n) = IF status'[n] = "exchanged" THEN 1 ELSE 0
  BY <1>a, <1>u, Zenon
<1>1. ASSUME NEW m \in Messages, NEW p \in Peers \cup {Guardian}, MessagePeer(m, p)
      PROVE  \A n \in Messages :
               Places(reports', period', guardianMessages', n) = IF status'[n] = "exchanged" THEN 1 ELSE 0
  <2>1. \A n \in Messages : status'[n] = "exchanged" <=> status[n] = "exchanged"
    BY <1>1 DEF MessagePeer, Unused, BridgeTypeOK
  <2> QED BY <1>1, <1>u, <2>1 DEF MessagePeer
<1>2. ASSUME NEW m \in Messages, NEW p \in Peers \cup {Guardian}, Incoming(m, p)
      PROVE  \A n \in Messages :
               Places(reports', period', guardianMessages', n) = IF status'[n] = "exchanged" THEN 1 ELSE 0
  <2>1. status[m] # "exchanged" /\ status'[m] = "exchanged" /\ \A n \in Messages \ {m} : status'[n] = status[n]
    BY <1>2 DEF Incoming, Unused, BridgeTypeOK
  <2>2. Track(m, p) /\ reports' = reports
    BY <1>2 DEF Incoming
  <2> QED BY <1>t, <2>1, <2>2
<1>3. ASSUME NEW m \in Messages, MessageAcked(m)
      PROVE  \A n \in Messages :
               Places(reports', period', guardianMessages', n) = IF status'[n] = "exchanged" THEN 1 ELSE 0
  <2>1. status[m] # "exchanged" /\ status'[m] = "exchanged" /\ \A n \in Messages \ {m} : status'[n] = status[n]
    BY <1>3 DEF MessageAcked, BridgeTypeOK
  <2>2. Track(m, party[m]) /\ reports' = reports
    BY <1>3 DEF MessageAcked
  <2> QED BY <1>t, <2>1, <2>2
<1>4. ASSUME NEW m \in Messages, MessageFailed(m)
      PROVE  \A n \in Messages :
               Places(reports', period', guardianMessages', n) = IF status'[n] = "exchanged" THEN 1 ELSE 0
  <2>1. \A n \in Messages : status'[n] = "exchanged" <=> status[n] = "exchanged"
    BY <1>4 DEF MessageFailed, BridgeTypeOK
  <2> QED BY <1>4, <1>u, <2>1 DEF MessageFailed
<1>5. ASSUME GenerateReport
      PROVE  \A n \in Messages :
               Places(reports', period', guardianMessages', n) = IF status'[n] = "exchanged" THEN 1 ELSE 0
  <2> TAKE n \in Messages
  <2>1. PICK r : r = [messages |-> period, state |-> "sending"]
    OBVIOUS
  <2>2. r \in Report /\ r.messages = period
    BY <2>1 DEF Report, BridgeTypeOK
  <2>3. reports' = Append(reports, r) /\ period' = {} /\ guardianMessages' = guardianMessages /\ status' = status
    BY <1>5, <2>1 DEF GenerateReport
  <2>4. /\ DOMAIN reports' = 1..(Len(reports) + 1)
        /\ \A i \in 1..Len(reports) : reports'[i] = reports[i]
        /\ reports'[Len(reports) + 1] = r
    BY <1>r, <2>2, <2>3
  <2>5. ReportedIn(reports', n) =
          IF n \in period THEN ReportedIn(reports, n) \cup {Len(reports) + 1} ELSE ReportedIn(reports, n)
    BY <1>r, <2>2, <2>4 DEF ReportedIn
  <2>6. Len(reports) + 1 \notin ReportedIn(reports, n)
    BY <1>r DEF ReportedIn
  <2>7. PICK before : before = ReportedIn(reports, n)
    OBVIOUS
  <2>8. IsFiniteSet(before) /\ Cardinality(before) \in Nat
    BY <1>r, <2>7, ReportedFinite
  <2>9. Cardinality(before \cup {Len(reports) + 1}) = Cardinality(before) + 1
    BY <2>6, <2>7, <2>8, FS_AddElement
  <2>10. Places(reports', period', guardianMessages', n) = Places(reports, period, guardianMessages, n)
    BY <2>3, <2>5, <2>7, <2>8, <2>9 DEF Places, In
  <2> QED BY <1>a, <2>3, <2>10
<1>6. ASSUME NEW i \in 1..MaxReports, NEW acked \in BOOLEAN, DeliverReport(i, acked)
      PROVE  \A n \in Messages :
               Places(reports', period', guardianMessages', n) = IF status'[n] = "exchanged" THEN 1 ELSE 0
  <2>1. i \in DOMAIN reports /\ period' = period /\ guardianMessages' = guardianMessages /\ status' = status
    BY <1>6 DEF DeliverReport
  <2>2. reports[i] \in Report
    BY <1>r, <2>1
  <2>3. PICK r : r = [reports[i] EXCEPT !.state = IF acked THEN "delivered" ELSE "undelivered"]
    OBVIOUS
  <2>4. r.messages = reports[i].messages
    BY <2>2, <2>3, ReportTyped
  <2>5. reports' = [reports EXCEPT ![i] = r]
    BY <1>6, <2>3, Zenon DEF DeliverReport
  <2>6. DOMAIN reports' = DOMAIN reports /\ \A j \in DOMAIN reports : reports'[j].messages = reports[j].messages
    BY <1>r, <2>1, <2>4, <2>5
  <2>7. \A n \in Messages : ReportedIn(reports', n) = ReportedIn(reports, n)
    BY <2>6 DEF ReportedIn
  <2> QED BY <1>a, <2>1, <2>7, Zenon DEF Places
<1>7. ASSUME Restart
      PROVE  \A n \in Messages :
               Places(reports', period', guardianMessages', n) = IF status'[n] = "exchanged" THEN 1 ELSE 0
  <2> TAKE n \in Messages
  <2>1. DOMAIN reports' = DOMAIN reports /\ \A j \in DOMAIN reports : reports'[j].messages = reports[j].messages
    <3>1. reports' = [i \in DOMAIN reports |->
            IF reports[i].state = "sending" THEN [reports[i] EXCEPT !.state = "undelivered"] ELSE reports[i]]
      BY <1>7, Zenon DEF Restart
    <3>2. ASSUME NEW j \in DOMAIN reports PROVE reports'[j].messages = reports[j].messages
      <4>1. reports[j] \in Report
        BY <1>r
      <4>2. [reports[j] EXCEPT !.state = "undelivered"].messages = reports[j].messages
        BY <4>1, ReportTyped
      <4> QED BY <3>1, <4>2
    <3> QED BY <3>1, <3>2
  <2>2. ReportedIn(reports', n) = ReportedIn(reports, n)
    BY <2>1 DEF ReportedIn
  <2>3. Cardinality(ReportedIn(reports, n)) \in Nat
    BY <1>r, ReportedFinite
  <2>4. period' = {} /\ guardianMessages' = {}
        /\ status'[n] = IF status[n] = "awaiting" \/ n \in period \cup guardianMessages THEN "forgotten" ELSE status[n]
    BY <1>7 DEF Restart
  <2>5. Places(reports', period', guardianMessages', n) = Cardinality(ReportedIn(reports, n))
    BY <2>2, <2>3, <2>4 DEF Places, In
  <2>6. Places(reports, period, guardianMessages, n) = IF status[n] = "exchanged" THEN 1 ELSE 0
    BY <1>a
  <2> QED BY <2>3, <2>4, <2>5, <2>6 DEF Places, In
<1>8. ASSUME \/ ChannelStart \/ ChannelStop \/ NextDay
             \/ \E k \in Cycles : StartCycle(k)
             \/ \E k \in Cycles, peers \in Discoveries : Discovered(k, peers)
             \/ \E k \in Cycles, outcome \in {"accepted", "lost", "null"} : Greeted(k, outcome)
             \/ \E p \in Peers, outcome \in {"accepted", "lost", "null"} : Connect(p, outcome)
             \/ UNCHANGED bridgeVars
      PROVE  reports' = reports /\ period' = period /\ guardianMessages' = guardianMessages /\ status' = status
  BY <1>8 DEF ChannelStart, ChannelStop, NextDay, StartCycle, Discovered, Greeted, Connect, bridgeVars
<1> QED
  BY <1>1, <1>2, <1>3, <1>4, <1>5, <1>6, <1>7, <1>8, <1>u DEF BridgeNext

LEMMA BridgeInvInit ==
  ASSUME BridgeInit
  PROVE  BridgeInv
<1> QED BY BridgeTypeInit, AccountedInit, CapHeldInit DEF BridgeInv, CapHeld

LEMMA BridgeInvStep ==
  ASSUME BridgeInv, [BridgeNext]_bridgeVars
  PROVE  BridgeInv'
<1>1. BridgeTypeOK /\ AccountedOnce /\ CapHeld
  BY DEF BridgeInv, CapHeld
<1>2. BridgeTypeOK' /\ AccountedOnce' /\ CapHeld'
  BY <1>1, BridgeTypeStep, AccountedStep, CapHeldStep
<1> QED BY <1>2 DEF BridgeInv, CapHeld

-----------------------------------------------------------------------------
(***************************************************************************)
(* The scheduler and its reflections.  A run is told from every other by   *)
(* its number, and from the runs of another start by its start; while no   *)
(* reflection overlapped another there is at most one, and its subjects    *)
(* are not thought about yet.                                              *)
(***************************************************************************)
TaskStatus == [since : Nat, running : BOOLEAN, runCount : Nat, lastError : BOOLEAN]
TaskRun == [id : Nat, task : {"reflection", "gather"}, since : Nat, about : SUBSET Subjects]

\* The shape of the state, counters unbounded.
SchedulerShape ==
  /\ timers \subseteq Tasks
  /\ taskStatus \in [Names -> TaskStatus]
  /\ \A t \in Names : taskStatus[t].since <= starts
  /\ \A t \in Names : taskStatus[t].since = 0 => taskStatus[t].runCount = 0
  /\ taskStatus["unknown"].runCount = 0
  /\ \A t \in Tasks : t \in timers <=> taskStatus[t].running
  /\ \A t \in timers : taskStatus[t].since > 0
  /\ handlers \subseteq TaskRun /\ IsFiniteSet(handlers)
  /\ \A h \in handlers : 1 <= h.id /\ h.id <= firings /\ h.since <= starts
  /\ evidence \in [Subjects -> 0..2] /\ thoughts \in [Subjects -> Nat]
  /\ firings \in Nat /\ starts \in Nat /\ overlapped \in BOOLEAN
  /\ fired \in [Tasks -> [runs : Nat, failed : Nat]]
  /\ \A t \in Tasks : fired[t].runs <= firings

\* Only a reflection that awaits its synthesizer is under way, and alone unless
\* they overlapped.
OneReflection ==
  /\ Reflecting # {} => Awaits
  /\ ~overlapped =>
       /\ \A g, h \in Reflecting : g = h
       /\ \A s \in Subjects : thoughts[s] <= 1
       /\ \A h \in Reflecting : \A s \in h.about : thoughts[s] = 0

SchedulerInv == SchedulerShape /\ CountsOwnRuns /\ OneReflection

\* The runs under way of one start of a task.
OwnRuns(runs, t, since) == {h \in runs : h.task = t /\ h.since = since}

LEMMA OwnRunsWith ==
  ASSUME NEW runs, IsFiniteSet(runs), NEW run, run \notin runs, NEW t, NEW since
  PROVE  /\ Cardinality(OwnRuns(runs, t, since)) \in Nat
         /\ Cardinality(OwnRuns(runs \cup {run}, t, since)) =
              IF run.task = t /\ run.since = since
              THEN Cardinality(OwnRuns(runs, t, since)) + 1 ELSE Cardinality(OwnRuns(runs, t, since))
<1>1. IsFiniteSet(OwnRuns(runs, t, since)) /\ run \notin OwnRuns(runs, t, since)
  BY FS_Subset DEF OwnRuns
<1>2. Cardinality(OwnRuns(runs, t, since)) \in Nat
  BY <1>1, FS_CardinalityType
<1>3. CASE run.task = t /\ run.since = since
  <2>1. OwnRuns(runs \cup {run}, t, since) = OwnRuns(runs, t, since) \cup {run}
    BY <1>3 DEF OwnRuns
  <2>2. PICK own : own = OwnRuns(runs, t, since)
    OBVIOUS
  <2>3. Cardinality(own \cup {run}) = Cardinality(own) + 1
    BY <1>1, <2>2, FS_AddElement
  <2>4. QED
    BY <1>2, <1>3, <2>1, <2>2, <2>3
<1>4. CASE ~(run.task = t /\ run.since = since)
  <2>1. OwnRuns(runs \cup {run}, t, since) = OwnRuns(runs, t, since)
    BY <1>4 DEF OwnRuns
  <2>2. QED
    BY <1>2, <1>4, <2>1
<1>5. QED
  BY <1>3, <1>4

\* The same read backwards: a run ends.
LEMMA OwnRunsWithout ==
  ASSUME NEW runs, IsFiniteSet(runs), NEW run \in runs, NEW t, NEW since
  PROVE  /\ Cardinality(OwnRuns(runs, t, since)) \in Nat
         /\ Cardinality(OwnRuns(runs \ {run}, t, since)) \in Nat
         /\ Cardinality(OwnRuns(runs, t, since)) =
              IF run.task = t /\ run.since = since
              THEN Cardinality(OwnRuns(runs \ {run}, t, since)) + 1
              ELSE Cardinality(OwnRuns(runs \ {run}, t, since))
<1>1. PICK rest : rest = runs \ {run}
  OBVIOUS
<1>2. IsFiniteSet(rest) /\ run \notin rest /\ runs = rest \cup {run}
  BY <1>1, FS_Subset
<1>3. /\ Cardinality(OwnRuns(rest, t, since)) \in Nat
      /\ Cardinality(OwnRuns(rest \cup {run}, t, since)) =
           IF run.task = t /\ run.since = since
           THEN Cardinality(OwnRuns(rest, t, since)) + 1 ELSE Cardinality(OwnRuns(rest, t, since))
  BY <1>2, OwnRunsWith
<1>4. Cardinality(OwnRuns(runs, t, since)) \in Nat
  BY <1>2, <1>3
<1>5. QED
  BY <1>1, <1>2, <1>3, <1>4

LEMMA CountsOwnRunsIs ==
  CountsOwnRuns <=> \A t \in Tasks : taskStatus[t].since > 0 =>
    taskStatus[t].runCount + fired[t].failed
      + Cardinality(OwnRuns(handlers, t, taskStatus[t].since)) = fired[t].runs
BY DEF CountsOwnRuns, OwnRuns

\* What the runs ask for.
LEMMA SchedulerTypes == SchedulerInv => SchedulerTypeOK /\ RepeatsNeedOverlap
<1> SUFFICES ASSUME SchedulerInv PROVE SchedulerTypeOK /\ RepeatsNeedOverlap
  OBVIOUS
<1>1. SchedulerShape
  BY DEF SchedulerInv
<1>2. ASSUME NEW t \in Names PROVE taskStatus[t].runCount <= firings
  <2>1. taskStatus[t].runCount \in Nat /\ firings \in Nat
    BY <1>1 DEF SchedulerShape, TaskStatus
  <2>2. CASE taskStatus[t].since = 0 \/ t = "unknown"
    BY <1>1, <2>1, <2>2 DEF SchedulerShape
  <2>3. CASE taskStatus[t].since # 0 /\ t \in Tasks
    <3>1. taskStatus[t].since > 0
      BY <1>1, <2>3 DEF SchedulerShape, TaskStatus
    <3>2. Cardinality(OwnRuns(handlers, t, taskStatus[t].since)) \in Nat
      <4>1. IsFiniteSet(OwnRuns(handlers, t, taskStatus[t].since))
        BY <1>1, FS_Subset DEF SchedulerShape, OwnRuns
      <4>2. QED
        BY <4>1, FS_CardinalityType
    <3>3. fired[t].failed \in Nat /\ fired[t].runs \in Nat /\ fired[t].runs <= firings
      BY <1>1, <2>3 DEF SchedulerShape
    <3>4. taskStatus[t].runCount + fired[t].failed
            + Cardinality(OwnRuns(handlers, t, taskStatus[t].since)) = fired[t].runs
      BY <2>3, <3>1, CountsOwnRunsIs DEF SchedulerInv
    <3>5. QED
      BY <2>1, <3>2, <3>3, <3>4
  <2>4. QED
    BY <2>2, <2>3 DEF Names
<1>3. taskStatus \in [Names -> [since : 0..starts, running : BOOLEAN, runCount : 0..firings, lastError : BOOLEAN]]
  <2>1. ASSUME NEW t \in Names
        PROVE  taskStatus[t] \in [since : 0..starts, running : BOOLEAN, runCount : 0..firings, lastError : BOOLEAN]
    <3>1. PICK s : s = taskStatus[t]
      OBVIOUS
    <3>2. s \in TaskStatus /\ s.since <= starts /\ s.runCount <= firings /\ starts \in Nat /\ firings \in Nat
      BY <1>1, <1>2, <3>1 DEF SchedulerShape
    <3>3. s \in [since : 0..starts, running : BOOLEAN, runCount : 0..firings, lastError : BOOLEAN]
      BY <3>2 DEF TaskStatus
    <3>4. QED
      BY <3>1, <3>3
  <2>2. QED
    BY <1>1, <2>1 DEF SchedulerShape
<1>4. handlers \subseteq [id : 1..firings, task : {"reflection", "gather"}, since : 0..starts,
                         about : SUBSET Subjects]
  <2>1. ASSUME NEW h \in handlers
        PROVE  h \in [id : 1..firings, task : {"reflection", "gather"}, since : 0..starts, about : SUBSET Subjects]
    <3>1. h \in TaskRun /\ 1 <= h.id /\ h.id <= firings /\ h.since <= starts /\ starts \in Nat /\ firings \in Nat
      BY <1>1 DEF SchedulerShape
    <3>2. QED
      BY <3>1 DEF TaskRun
  <2>2. QED
    BY <2>1
<1>5. SchedulerTypeOK
  BY <1>1, <1>3, <1>4 DEF SchedulerShape, SchedulerTypeOK
<1>6. RepeatsNeedOverlap
  BY <1>1 DEF SchedulerInv, SchedulerShape, OneReflection, RepeatsNeedOverlap
<1>7. QED
  BY <1>5, <1>6

LEMMA SchedulerInvInit == SchedulerInit => SchedulerInv
<1> SUFFICES ASSUME SchedulerInit PROVE SchedulerInv
  OBVIOUS
<1>1. NoStatus \in TaskStatus /\ NoStatus.since = 0 /\ NoStatus.running = FALSE /\ NoStatus.runCount = 0
  BY DEF NoStatus, TaskStatus
<1>2. SchedulerShape
  <2>1. \A t \in Names : taskStatus[t] = NoStatus
    BY DEF SchedulerInit
  <2>2. taskStatus \in [Names -> TaskStatus]
    BY <1>1, <2>1 DEF SchedulerInit
  <2>3. fired \in [Tasks -> [runs : Nat, failed : Nat]] /\ \A t \in Tasks : fired[t].runs = 0
    BY DEF SchedulerInit
  <2>4. "unknown" \in Names /\ Tasks \subseteq Names
    BY DEF Names
  <2>5. /\ \A t \in Names : taskStatus[t].since = 0 /\ taskStatus[t].runCount = 0
        /\ \A t \in Tasks : ~taskStatus[t].running
    BY <1>1, <2>1, <2>4
  <2>6. /\ timers = {} /\ handlers = {} /\ firings = 0 /\ starts = 0 /\ overlapped = FALSE
        /\ evidence \in [Subjects -> 0..2] /\ thoughts \in [Subjects -> Nat]
    BY DEF SchedulerInit
  <2>7. handlers \subseteq TaskRun /\ IsFiniteSet(handlers)
    BY <2>6, FS_EmptySet
  <2>8. /\ \A t \in Names : taskStatus[t].since <= starts
        /\ \A t \in Tasks : fired[t].runs <= firings
    BY <2>3, <2>5, <2>6
  <2>9. \A t \in Tasks : t \in timers <=> taskStatus[t].running
    BY <2>5, <2>6
  <2>10. QED
    BY <2>2, <2>3, <2>4, <2>5, <2>6, <2>7, <2>8, <2>9 DEF SchedulerShape
<1>3. CountsOwnRuns
  BY <1>1 DEF SchedulerInit, CountsOwnRuns, Names
<1>4. OneReflection
  BY DEF SchedulerInit, OneReflection, Reflecting
<1>5. QED
  BY <1>2, <1>3, <1>4 DEF SchedulerInv

\* The updates of a status and of the history of a start, as records.
LEMMA StatusUpdates ==
  ASSUME NEW s
  PROVE  s \in TaskStatus =>
           /\ \A x, y : [s EXCEPT !.runCount = x, !.lastError = y]
                          = [since |-> s.since, running |-> s.running, runCount |-> x, lastError |-> y]
           /\ \A x, y : [s EXCEPT !.since = x, !.running = y]
                          = [since |-> x, running |-> y, runCount |-> s.runCount, lastError |-> s.lastError]
           /\ \A x : [s EXCEPT !.running = x]
                       = [since |-> s.since, running |-> x, runCount |-> s.runCount, lastError |-> s.lastError]
<1>1. SUFFICES ASSUME s \in TaskStatus
               PROVE  /\ \A x, y : [s EXCEPT !.runCount = x, !.lastError = y]
                                     = [since |-> s.since, running |-> s.running, runCount |-> x, lastError |-> y]
                      /\ \A x, y : [s EXCEPT !.since = x, !.running = y]
                                     = [since |-> x, running |-> y, runCount |-> s.runCount, lastError |-> s.lastError]
                      /\ \A x : [s EXCEPT !.running = x]
                                  = [since |-> s.since, running |-> x, runCount |-> s.runCount, lastError |-> s.lastError]
  OBVIOUS
<1>2. PICK a, b, c, d : s = [since |-> a, running |-> b, runCount |-> c, lastError |-> d]
  BY <1>1 DEF TaskStatus
<1>3. s.since = a /\ s.running = b /\ s.runCount = c /\ s.lastError = d
  BY <1>2
<1>4. ASSUME NEW x, NEW y
      PROVE  [s EXCEPT !.runCount = x, !.lastError = y] = [since |-> a, running |-> b, runCount |-> x, lastError |-> y]
  <2>1. PICK e : e = [since |-> a, running |-> b, runCount |-> x, lastError |-> d]
    OBVIOUS
  <2>2. [s EXCEPT !.runCount = x] = e
    BY <1>2, <2>1
  <2>3. [e EXCEPT !.lastError = y] = [since |-> a, running |-> b, runCount |-> x, lastError |-> y]
    BY <2>1
  <2>4. [s EXCEPT !.runCount = x, !.lastError = y] = [[s EXCEPT !.runCount = x] EXCEPT !.lastError = y]
    OBVIOUS
  <2>5. QED
    BY <2>2, <2>3, <2>4, Zenon
<1>5. ASSUME NEW x, NEW y
      PROVE  [s EXCEPT !.since = x, !.running = y] = [since |-> x, running |-> y, runCount |-> c, lastError |-> d]
  <2>1. PICK e : e = [since |-> x, running |-> b, runCount |-> c, lastError |-> d]
    OBVIOUS
  <2>2. [s EXCEPT !.since = x] = e
    BY <1>2, <2>1
  <2>3. [e EXCEPT !.running = y] = [since |-> x, running |-> y, runCount |-> c, lastError |-> d]
    BY <2>1
  <2>4. [s EXCEPT !.since = x, !.running = y] = [[s EXCEPT !.since = x] EXCEPT !.running = y]
    OBVIOUS
  <2>5. QED
    BY <2>2, <2>3, <2>4, Zenon
<1>6. ASSUME NEW x
      PROVE  [s EXCEPT !.running = x] = [since |-> a, running |-> x, runCount |-> c, lastError |-> d]
  BY <1>2
<1>7. QED
  BY <1>3, <1>4, <1>5, <1>6, Zenon

LEMMA FinishedIs ==
  ASSUME SchedulerShape, NEW run, run.task \in Tasks, NEW ok \in BOOLEAN, taskStatus' = Finished(run, ok)
  PROVE  /\ taskStatus' \in [Names -> TaskStatus]
         /\ \A t \in Names :
              /\ taskStatus'[t].since = taskStatus[t].since
              /\ taskStatus'[t].running = taskStatus[t].running
              /\ taskStatus'[t].runCount =
                   IF ok /\ t = run.task /\ run.since # 0 /\ run.since = taskStatus[t].since
                   THEN taskStatus[t].runCount + 1 ELSE taskStatus[t].runCount
<1>1. taskStatus \in [Names -> TaskStatus] /\ run.task \in Names
  BY DEF SchedulerShape, Names
<1>2. CASE run.since = 0 \/ run.since # taskStatus[run.task].since
  BY <1>1, <1>2 DEF Finished
<1>3. CASE ~(run.since = 0 \/ run.since # taskStatus[run.task].since)
  <2>1. PICK s : s = taskStatus[run.task]
    OBVIOUS
  <2>2. PICK n, e : n = (IF ok THEN s.runCount + 1 ELSE s.runCount) /\ e = ~ok
    OBVIOUS
  <2>3. s \in TaskStatus /\ n \in Nat /\ e \in BOOLEAN
    BY <1>1, <2>1, <2>2 DEF TaskStatus
  <2>4. taskStatus' = [taskStatus EXCEPT ![run.task] = Ran(s, ok)]
    BY <1>3, <2>1 DEF Finished
  <2>5. Ran(s, ok) = [since |-> s.since, running |-> s.running, runCount |-> n, lastError |-> e]
    <3>1. Ran(s, ok) = [s EXCEPT !.runCount = n, !.lastError = e]
      BY <2>2, Zenon DEF Ran
    <3>2. QED
      BY <2>3, <3>1, StatusUpdates, Zenon
  <2>6. PICK new : new = [since |-> s.since, running |-> s.running, runCount |-> n, lastError |-> e]
    OBVIOUS
  <2>7. taskStatus' = [taskStatus EXCEPT ![run.task] = new]
    BY <2>4, <2>5, <2>6, Zenon
  <2>8. new \in TaskStatus /\ new.since = s.since /\ new.running = s.running /\ new.runCount = n
    BY <2>3, <2>6 DEF TaskStatus
  <2>9. QED
    BY <1>1, <1>3, <2>1, <2>2, <2>7, <2>8
<1>4. QED
  BY <1>2, <1>3

LEMMA CountedIs ==
  ASSUME SchedulerShape, NEW t \in Tasks, NEW since, Counted(t, since)
  PROVE  /\ firings' = firings + 1 /\ timers' = timers /\ starts' = starts
         /\ fired' \in [Tasks -> [runs : Nat, failed : Nat]]
         /\ \A u \in Tasks :
              /\ fired'[u].failed = fired[u].failed
              /\ fired'[u].runs = IF u = t /\ since # 0 THEN fired[u].runs + 1 ELSE fired[u].runs
              /\ fired'[u].runs <= firings'
<1>1. fired \in [Tasks -> [runs : Nat, failed : Nat]] /\ firings \in Nat /\ \A u \in Tasks : fired[u].runs <= firings
  BY DEF SchedulerShape
<1>2. firings' = firings + 1 /\ timers' = timers /\ starts' = starts
  BY DEF Counted
<1>3. CASE since = 0
  BY <1>1, <1>2, <1>3 DEF Counted
<1>4. CASE since # 0
  <2>1. fired' = [fired EXCEPT ![t].runs = @ + 1]
    BY <1>4 DEF Counted
  <2>2. QED
    BY <1>1, <1>2, <1>4, <2>1
<1>5. QED
  BY <1>3, <1>4

LEMMA SincesAre ==
  ASSUME SchedulerShape, NEW t \in Tasks, NEW since \in Sinces(t)
  PROVE  /\ since \in Nat /\ since <= starts
         /\ since # 0 => since = taskStatus[t].since
<1>1. taskStatus[t] \in TaskStatus /\ taskStatus[t].since <= starts /\ starts \in Nat
  BY DEF SchedulerShape, Names
<1>2. since = 0 \/ since = taskStatus[t].since
  BY DEF Sinces
<1>3. QED
  BY <1>1, <1>2 DEF TaskStatus

\* A run of a task begins and is under way.
LEMMA BeginKeeps ==
  ASSUME SchedulerInv, NEW t \in {"reflection", "gather"}, NEW since \in Sinces(t), NEW about \in SUBSET Subjects,
         Counted(t, since), Begin(Run(t, since, about)), overlapped' \in BOOLEAN
  PROVE  SchedulerShape' /\ CountsOwnRuns'
<1>1. SchedulerShape /\ t \in Tasks
  BY DEF SchedulerInv, Tasks
<1>2. PICK run : run = Run(t, since, about)
  OBVIOUS
<1>3. run.id = firings + 1 /\ run.task = t /\ run.since = since
  BY <1>2 DEF Run
<1>4. since \in Nat /\ since <= starts /\ (since # 0 => since = taskStatus[t].since)
  BY <1>1, SincesAre
<1>5. firings \in Nat /\ starts \in Nat /\ IsFiniteSet(handlers) /\ handlers \subseteq TaskRun
      /\ \A h \in handlers : 1 <= h.id /\ h.id <= firings /\ h.since <= starts
  BY <1>1 DEF SchedulerShape
<1>6. run \in TaskRun
  BY <1>2, <1>4, <1>5 DEF Run, TaskRun
<1>7. run \notin handlers
  BY <1>3, <1>5
<1>8. handlers' = handlers \cup {run} /\ UNCHANGED <<taskStatus, evidence, thoughts>>
  BY <1>2 DEF Begin
<1>9. /\ firings' = firings + 1 /\ timers' = timers /\ starts' = starts
      /\ fired' \in [Tasks -> [runs : Nat, failed : Nat]]
      /\ \A u \in Tasks :
           /\ fired'[u].failed = fired[u].failed
           /\ fired'[u].runs = IF u = t /\ since # 0 THEN fired[u].runs + 1 ELSE fired[u].runs
           /\ fired'[u].runs <= firings'
  BY <1>1, CountedIs
<1>10. SchedulerShape'
  <2>1. handlers' \subseteq TaskRun /\ IsFiniteSet(handlers')
    BY <1>5, <1>6, <1>8, FS_AddElement
  <2>2. \A h \in handlers' : 1 <= h.id /\ h.id <= firings' /\ h.since <= starts'
    BY <1>3, <1>4, <1>5, <1>6, <1>8, <1>9 DEF TaskRun
  <2>3. firings' \in Nat /\ starts' \in Nat
    BY <1>5, <1>9
  <2>4. QED
    BY <1>1, <1>8, <1>9, <2>1, <2>2, <2>3 DEF SchedulerShape
<1>11. CountsOwnRuns'
  <2>1. ASSUME NEW u \in Tasks, taskStatus[u].since > 0
        PROVE  taskStatus[u].runCount + fired'[u].failed
                 + Cardinality(OwnRuns(handlers', u, taskStatus[u].since)) = fired'[u].runs
    <3>1. PICK a : a = taskStatus[u].since
      OBVIOUS
    <3>2. taskStatus[u].runCount + fired[u].failed + Cardinality(OwnRuns(handlers, u, a)) = fired[u].runs
      BY <2>1, <3>1, CountsOwnRunsIs DEF SchedulerInv
    <3>3. /\ Cardinality(OwnRuns(handlers, u, a)) \in Nat
          /\ Cardinality(OwnRuns(handlers', u, a)) =
               IF t = u /\ since = a THEN Cardinality(OwnRuns(handlers, u, a)) + 1
               ELSE Cardinality(OwnRuns(handlers, u, a))
      BY <1>3, <1>5, <1>7, <1>8, OwnRunsWith
    <3>4. (u = t /\ since # 0) <=> (t = u /\ since = a)
      BY <1>4, <2>1, <3>1
    <3>5. taskStatus[u].runCount \in Nat /\ fired[u].failed \in Nat /\ fired[u].runs \in Nat
      BY <1>1 DEF SchedulerShape, TaskStatus, Names
    <3>6. QED
      BY <1>9, <3>1, <3>2, <3>3, <3>4, <3>5
  <2>2. QED
    BY <1>8, <2>1, CountsOwnRunsIs DEF CountsOwnRuns, OwnRuns
<1>12. QED
  BY <1>10, <1>11

\* A run of a task begins and ends in one step.
LEMMA AtOnceKeeps ==
  ASSUME SchedulerInv, NEW t \in Tasks, NEW since \in Sinces(t), Counted(t, since),
         thoughts' \in [Subjects -> Nat], UNCHANGED <<handlers, evidence, overlapped>>
  PROVE  taskStatus' = Finished(Run(t, since, {}), TRUE) => SchedulerShape' /\ CountsOwnRuns'
<1>h. SUFFICES ASSUME taskStatus' = Finished(Run(t, since, {}), TRUE)
               PROVE  SchedulerShape' /\ CountsOwnRuns'
  OBVIOUS
<1>1. SchedulerShape
  BY DEF SchedulerInv
<1>2. PICK run : run = Run(t, since, {})
  OBVIOUS
<1>3. run.task = t /\ run.since = since
  BY <1>2 DEF Run
<1>4. since \in Nat /\ since <= starts /\ (since # 0 => since = taskStatus[t].since)
  BY <1>1, SincesAre
<1>5. /\ taskStatus' \in [Names -> TaskStatus]
      /\ \A u \in Names :
           /\ taskStatus'[u].since = taskStatus[u].since
           /\ taskStatus'[u].running = taskStatus[u].running
           /\ taskStatus'[u].runCount =
                IF u = t /\ since # 0 /\ since = taskStatus[u].since
                THEN taskStatus[u].runCount + 1 ELSE taskStatus[u].runCount
  <2>1. run.task \in Tasks
    BY <1>3
  <2>2. ASSUME NEW ok \in BOOLEAN, ok = TRUE
        PROVE  /\ taskStatus' \in [Names -> TaskStatus]
               /\ \A u \in Names :
                    /\ taskStatus'[u].since = taskStatus[u].since
                    /\ taskStatus'[u].running = taskStatus[u].running
                    /\ taskStatus'[u].runCount =
                         IF ok /\ u = run.task /\ run.since # 0 /\ run.since = taskStatus[u].since
                         THEN taskStatus[u].runCount + 1 ELSE taskStatus[u].runCount
    <3>1. taskStatus' = Finished(run, ok)
      BY <1>h, <1>2, <2>2
    <3>2. QED
      BY <1>1, <2>1, <3>1, FinishedIs
  <2>3. QED
    BY <1>3, <2>2
<1>6. /\ firings' = firings + 1 /\ timers' = timers /\ starts' = starts
      /\ fired' \in [Tasks -> [runs : Nat, failed : Nat]]
      /\ \A u \in Tasks :
           /\ fired'[u].failed = fired[u].failed
           /\ fired'[u].runs = IF u = t /\ since # 0 THEN fired[u].runs + 1 ELSE fired[u].runs
           /\ fired'[u].runs <= firings'
  BY <1>1, CountedIs
<1>7. Tasks \subseteq Names /\ "unknown" \in Names /\ "unknown" \notin Tasks
  BY DEF Names, Tasks
<1>8. SchedulerShape'
  <2>1. /\ \A u \in Names : taskStatus'[u].since <= starts'
        /\ \A u \in Names : taskStatus'[u].since = 0 => taskStatus'[u].runCount = 0
        /\ taskStatus'["unknown"].runCount = 0
    BY <1>1, <1>5, <1>6, <1>7 DEF SchedulerShape
  <2>2. /\ \A u \in Tasks : u \in timers' <=> taskStatus'[u].running
        /\ \A u \in timers' : taskStatus'[u].since > 0
    BY <1>1, <1>5, <1>6, <1>7 DEF SchedulerShape
  <2>3. /\ firings \in Nat /\ firings' \in Nat /\ starts' \in Nat
        /\ \A h \in handlers : h.id \in Nat /\ h.id <= firings
    BY <1>1, <1>6 DEF SchedulerShape, TaskRun
  <2>4. \A h \in handlers' : 1 <= h.id /\ h.id <= firings' /\ h.since <= starts'
    BY <1>1, <1>6, <2>3 DEF SchedulerShape
  <2>5. QED
    BY <1>1, <1>5, <1>6, <2>1, <2>2, <2>3, <2>4 DEF SchedulerShape
<1>9. CountsOwnRuns'
  <2>1. ASSUME NEW u \in Tasks, taskStatus[u].since > 0
        PROVE  taskStatus'[u].runCount + fired'[u].failed
                 + Cardinality(OwnRuns(handlers, u, taskStatus[u].since)) = fired'[u].runs
    <3>1. PICK n : n = Cardinality(OwnRuns(handlers, u, taskStatus[u].since))
      OBVIOUS
    <3>2. taskStatus[u].runCount + fired[u].failed + n = fired[u].runs
      BY <2>1, <3>1, CountsOwnRunsIs DEF SchedulerInv
    <3>3. n \in Nat
      <4>1. IsFiniteSet(OwnRuns(handlers, u, taskStatus[u].since))
        BY <1>1, FS_Subset DEF SchedulerShape, OwnRuns
      <4>2. QED
        BY <3>1, <4>1, FS_CardinalityType
    <3>4. (u = t /\ since # 0) <=> (u = t /\ since # 0 /\ since = taskStatus[u].since)
      BY <1>4
    <3>5. taskStatus[u].runCount \in Nat /\ fired[u].failed \in Nat /\ fired[u].runs \in Nat
      BY <1>1 DEF SchedulerShape, TaskStatus, Names
    <3>6. /\ taskStatus'[u].runCount =
               IF u = t /\ since # 0 THEN taskStatus[u].runCount + 1 ELSE taskStatus[u].runCount
          /\ fired'[u].runs = IF u = t /\ since # 0 THEN fired[u].runs + 1 ELSE fired[u].runs
          /\ fired'[u].failed = fired[u].failed
      BY <1>5, <1>6, <1>7, <3>4
    <3>7. taskStatus'[u].runCount + fired'[u].failed + n = fired'[u].runs
      <4>1. CASE u = t /\ since # 0
        <5>1. /\ taskStatus'[u].runCount = taskStatus[u].runCount + 1
              /\ fired'[u].runs = fired[u].runs + 1 /\ fired'[u].failed = fired[u].failed
          BY <3>6, <4>1
        <5>2. QED
          BY <3>2, <3>3, <3>5, <5>1
      <4>2. CASE ~(u = t /\ since # 0)
        BY <3>2, <3>3, <3>5, <3>6, <4>2
      <4>3. QED
        BY <4>1, <4>2
    <3>8. QED
      BY <3>1, <3>7
  <2>2. \A u \in Tasks : taskStatus'[u].since = taskStatus[u].since
    BY <1>5, <1>7
  <2>3. QED
    BY <2>1, <2>2, CountsOwnRunsIs DEF CountsOwnRuns, OwnRuns
<1>10. QED
  BY <1>8, <1>9

\* A run under way ends, well or not.
LEMMA EndKeeps ==
  ASSUME SchedulerInv, NEW run \in handlers, NEW ok \in BOOLEAN, Ended(run),
         taskStatus' = Finished(run, ok), evidence' \in [Subjects -> 0..2], thoughts' \in [Subjects -> Nat],
         fired' = IF ok \/ run.since = 0 \/ run.since # taskStatus[run.task].since THEN fired
                  ELSE [fired EXCEPT ![run.task].failed = @ + 1]
  PROVE  SchedulerShape' /\ CountsOwnRuns'
<1>1. SchedulerShape
  BY DEF SchedulerInv
<1>2. run \in TaskRun /\ IsFiniteSet(handlers) /\ handlers \subseteq TaskRun /\ firings \in Nat /\ starts \in Nat
      /\ \A h \in handlers : 1 <= h.id /\ h.id <= firings /\ h.since <= starts
  BY <1>1 DEF SchedulerShape
<1>3. run.task \in Tasks /\ run.since \in Nat
  BY <1>2 DEF TaskRun, Tasks
<1>4. handlers' = handlers \ {run} /\ UNCHANGED <<timers, firings, starts, overlapped>>
  BY DEF Ended
<1>5. /\ taskStatus' \in [Names -> TaskStatus]
      /\ \A u \in Names :
           /\ taskStatus'[u].since = taskStatus[u].since
           /\ taskStatus'[u].running = taskStatus[u].running
           /\ taskStatus'[u].runCount =
                IF ok /\ u = run.task /\ run.since # 0 /\ run.since = taskStatus[u].since
                THEN taskStatus[u].runCount + 1 ELSE taskStatus[u].runCount
  BY <1>1, <1>3, FinishedIs
<1>6. /\ fired' \in [Tasks -> [runs : Nat, failed : Nat]]
      /\ \A u \in Tasks :
           /\ fired'[u].runs = fired[u].runs
           /\ fired'[u].failed =
                IF ~ok /\ u = run.task /\ run.since # 0 /\ run.since = taskStatus[u].since
                THEN fired[u].failed + 1 ELSE fired[u].failed
  <2>1. fired \in [Tasks -> [runs : Nat, failed : Nat]]
    BY <1>1 DEF SchedulerShape
  <2>2. CASE ok \/ run.since = 0 \/ run.since # taskStatus[run.task].since
    BY <2>1, <2>2
  <2>3. CASE ~(ok \/ run.since = 0 \/ run.since # taskStatus[run.task].since)
    BY <1>3, <2>1, <2>3
  <2>4. QED
    BY <2>2, <2>3
<1>7. Tasks \subseteq Names /\ "unknown" \in Names /\ "unknown" \notin Tasks
  BY DEF Names, Tasks
<1>8. SchedulerShape'
  <2>1. /\ \A u \in Names : taskStatus'[u].since <= starts'
        /\ \A u \in Names : taskStatus'[u].since = 0 => taskStatus'[u].runCount = 0
        /\ taskStatus'["unknown"].runCount = 0
    BY <1>1, <1>3, <1>4, <1>5, <1>7 DEF SchedulerShape
  <2>2. /\ \A u \in Tasks : u \in timers' <=> taskStatus'[u].running
        /\ \A u \in timers' : taskStatus'[u].since > 0
    BY <1>1, <1>4, <1>5, <1>7 DEF SchedulerShape
  <2>3. IsFiniteSet(handlers') /\ handlers' \subseteq TaskRun
    BY <1>2, <1>4, FS_Subset
  <2>4. \A h \in handlers' : 1 <= h.id /\ h.id <= firings' /\ h.since <= starts'
    BY <1>2, <1>4
  <2>5. QED
    BY <1>1, <1>2, <1>4, <1>5, <1>6, <2>1, <2>2, <2>3, <2>4 DEF SchedulerShape
<1>9. CountsOwnRuns'
  <2>1. ASSUME NEW u \in Tasks, taskStatus[u].since > 0
        PROVE  taskStatus'[u].runCount + fired'[u].failed
                 + Cardinality(OwnRuns(handlers', u, taskStatus[u].since)) = fired'[u].runs
    <3>1. PICK a : a = taskStatus[u].since
      OBVIOUS
    <3>2. taskStatus[u].runCount + fired[u].failed + Cardinality(OwnRuns(handlers, u, a)) = fired[u].runs
      BY <2>1, <3>1, CountsOwnRunsIs DEF SchedulerInv
    <3>3. /\ Cardinality(OwnRuns(handlers', u, a)) \in Nat
          /\ Cardinality(OwnRuns(handlers, u, a)) =
               IF run.task = u /\ run.since = a THEN Cardinality(OwnRuns(handlers', u, a)) + 1
               ELSE Cardinality(OwnRuns(handlers', u, a))
      BY <1>2, <1>4, OwnRunsWithout
    <3>4. taskStatus[u].runCount \in Nat /\ fired[u].failed \in Nat /\ fired[u].runs \in Nat
      BY <1>1 DEF SchedulerShape, TaskStatus, Names
    <3>5. (u = run.task /\ run.since # 0 /\ run.since = a) <=> (run.task = u /\ run.since = a)
      BY <2>1, <3>1
    <3>6. /\ taskStatus'[u].runCount =
               IF ok /\ run.task = u /\ run.since = a THEN taskStatus[u].runCount + 1 ELSE taskStatus[u].runCount
          /\ fired'[u].failed = IF ~ok /\ run.task = u /\ run.since = a THEN fired[u].failed + 1 ELSE fired[u].failed
          /\ fired'[u].runs = fired[u].runs
      BY <1>5, <1>6, <1>7, <3>1, <3>5
    <3>7. QED
      BY <3>1, <3>2, <3>3, <3>4, <3>6
  <2>2. \A u \in Tasks : taskStatus'[u].since = taskStatus[u].since
    BY <1>5, <1>7
  <2>3. QED
    BY <2>1, <2>2, CountsOwnRunsIs DEF CountsOwnRuns, OwnRuns
<1>10. QED
  BY <1>8, <1>9

LEMMA BeginReflectionStep ==
  ASSUME SchedulerInv, NEW since \in Sinces("reflection"), BeginReflection(since)
  PROVE  SchedulerInv'
<1>1. PICK run : run = Run("reflection", since, Ripe)
  OBVIOUS
<1>2. run.task = "reflection" /\ run.about = Ripe
  BY <1>1 DEF Run
<1>3. Ripe \in SUBSET Subjects /\ overlapped' \in BOOLEAN
  BY DEF BeginReflection, Ripe, SchedulerInv, SchedulerShape
<1>4. SchedulerShape' /\ CountsOwnRuns'
  BY <1>3, BeginKeeps DEF BeginReflection
<1>5. /\ handlers' = handlers \cup {run} /\ evidence' = evidence /\ thoughts' = thoughts
      /\ Awaits /\ (~overlapped' => ~overlapped /\ Reflecting = {})
  BY <1>1 DEF BeginReflection, Begin
<1>6. Reflecting' = Reflecting \cup {run}
  BY <1>2, <1>5 DEF Reflecting
<1>7. Awaits'
  BY <1>5 DEF Awaits
<1>8. OneReflection'
  BY <1>2, <1>5, <1>6, <1>7 DEF SchedulerInv, OneReflection, Ripe
<1>9. QED
  BY <1>4, <1>8 DEF SchedulerInv

\* Thinking about what is not thought about yet.
LEMMA ThoughtsWithIs ==
  ASSUME SchedulerShape, NEW about \in SUBSET Subjects, thoughts' = ThoughtsWith(about)
  PROVE  /\ thoughts' \in [Subjects -> Nat]
         /\ \A s \in Subjects : thoughts'[s] = IF s \in about THEN thoughts[s] + 1 ELSE thoughts[s]
BY DEF SchedulerShape, ThoughtsWith

LEMMA ReflectAtOnceStep ==
  ASSUME SchedulerInv, NEW since \in Sinces("reflection"), ReflectAtOnce(since)
  PROVE  SchedulerInv'
<1>1. SchedulerShape /\ Ripe \in SUBSET Subjects /\ "reflection" \in Tasks
  BY DEF SchedulerInv, Ripe, Tasks
<1>2. /\ thoughts' \in [Subjects -> Nat]
      /\ \A s \in Subjects : thoughts'[s] = IF s \in Ripe THEN thoughts[s] + 1 ELSE thoughts[s]
  BY <1>1, ThoughtsWithIs DEF ReflectAtOnce
<1>3. SchedulerShape' /\ CountsOwnRuns'
  BY <1>1, <1>2, AtOnceKeeps DEF ReflectAtOnce
<1>4. Reflecting = {} /\ Reflecting' = Reflecting /\ overlapped' = overlapped
  BY DEF ReflectAtOnce, SchedulerInv, OneReflection, Reflecting
<1>5. OneReflection'
  BY <1>2, <1>4 DEF SchedulerInv, OneReflection, Ripe
<1>6. QED
  BY <1>3, <1>5 DEF SchedulerInv

LEMMA BeginGatherStep ==
  ASSUME SchedulerInv, NEW since \in Sinces("gather"), BeginGather(since)
  PROVE  SchedulerInv'
<1>1. PICK run : run = Run("gather", since, {})
  OBVIOUS
<1>2. run.task = "gather"
  BY <1>1 DEF Run
<1>3. {} \in SUBSET Subjects /\ overlapped' \in BOOLEAN
  BY DEF BeginGather, SchedulerInv, SchedulerShape
<1>4. SchedulerShape' /\ CountsOwnRuns'
  BY <1>3, BeginKeeps DEF BeginGather
<1>5. /\ handlers' = handlers \cup {run} /\ evidence' = evidence /\ thoughts' = thoughts
      /\ overlapped' = overlapped
  BY <1>1 DEF BeginGather, Begin
<1>6. Reflecting' = Reflecting
  BY <1>2, <1>5 DEF Reflecting
<1>7. Awaits' <=> Awaits
  BY <1>5 DEF Awaits
<1>8. OneReflection'
  BY <1>5, <1>6, <1>7 DEF SchedulerInv, OneReflection
<1>9. QED
  BY <1>4, <1>8 DEF SchedulerInv

LEMMA EmitStep ==
  ASSUME SchedulerInv, NEW t \in Tasks, Emit(t)
  PROVE  SchedulerInv'
<1>1. PICK since : since = taskStatus[t].since
  OBVIOUS
<1>2. since \in Sinces(t) /\ Counted(t, since)
  BY <1>1 DEF Emit, Sinces
<1>3. thoughts' \in [Subjects -> Nat] /\ UNCHANGED <<handlers, evidence, thoughts, overlapped>>
  BY DEF Emit, SchedulerInv, SchedulerShape
<1>4. taskStatus' = Finished(Run(t, since, {}), TRUE)
  BY <1>1 DEF Emit
<1>5. SchedulerShape' /\ CountsOwnRuns'
  BY <1>2, <1>3, <1>4, AtOnceKeeps
<1>6. Reflecting' = Reflecting /\ (Awaits' <=> Awaits)
  BY <1>3 DEF Reflecting, Awaits
<1>7. OneReflection'
  BY <1>3, <1>6 DEF SchedulerInv, OneReflection
<1>8. QED
  BY <1>5, <1>7 DEF SchedulerInv

LEMMA EndReflectionStep ==
  ASSUME SchedulerInv, NEW run \in handlers, EndReflection(run)
  PROVE  SchedulerInv'
<1>1. SchedulerShape
  BY DEF SchedulerInv
<1>2. run.about \in SUBSET Subjects /\ evidence \in [Subjects -> 0..2]
  BY <1>1 DEF SchedulerShape, TaskRun
<1>3. /\ thoughts' \in [Subjects -> Nat]
      /\ \A s \in Subjects : thoughts'[s] = IF s \in run.about THEN thoughts[s] + 1 ELSE thoughts[s]
  BY <1>1, <1>2, ThoughtsWithIs DEF EndReflection
<1>4. SchedulerShape' /\ CountsOwnRuns'
  <2>1. ASSUME NEW ok \in BOOLEAN, ok = TRUE PROVE SchedulerShape' /\ CountsOwnRuns'
    <3>1. /\ Ended(run) /\ taskStatus' = Finished(run, ok) /\ evidence' \in [Subjects -> 0..2]
          /\ fired' = IF ok \/ run.since = 0 \/ run.since # taskStatus[run.task].since THEN fired
                      ELSE [fired EXCEPT ![run.task].failed = @ + 1]
      BY <1>2, <2>1 DEF EndReflection
    <3>2. QED
      BY <1>3, <3>1, EndKeeps
  <2>2. QED
    BY <2>1
<1>5. /\ handlers' = handlers \ {run} /\ evidence' = evidence /\ overlapped' = overlapped
      /\ run \in Reflecting
  BY DEF EndReflection, Ended
<1>6. Reflecting' = Reflecting \ {run} /\ (Awaits' <=> Awaits)
  BY <1>5 DEF Reflecting, Awaits
<1>7. ASSUME ~overlapped
      PROVE  /\ \A g, h \in Reflecting' : g = h
             /\ \A s \in Subjects : thoughts'[s] <= 1
             /\ \A h \in Reflecting' : \A s \in h.about : thoughts'[s] = 0
  <2>1. /\ Reflecting' = {}
        /\ \A s \in Subjects : thoughts[s] <= 1
        /\ \A s \in run.about : thoughts[s] = 0
    BY <1>5, <1>6, <1>7 DEF SchedulerInv, OneReflection
  <2>2. QED
    BY <1>2, <1>3, <2>1
<1>8. OneReflection'
  BY <1>5, <1>6, <1>7 DEF SchedulerInv, OneReflection
<1>9. QED
  BY <1>4, <1>8 DEF SchedulerInv

LEMMA FailReflectionStep ==
  ASSUME SchedulerInv, NEW run \in handlers, FailReflection(run)
  PROVE  SchedulerInv'
<1>1. evidence \in [Subjects -> 0..2] /\ thoughts \in [Subjects -> Nat]
  BY DEF SchedulerInv, SchedulerShape
<1>2. SchedulerShape' /\ CountsOwnRuns'
  <2>1. ASSUME NEW ok \in BOOLEAN, ok = FALSE PROVE SchedulerShape' /\ CountsOwnRuns'
    <3>1. /\ Ended(run) /\ taskStatus' = Finished(run, ok)
          /\ evidence' \in [Subjects -> 0..2] /\ thoughts' \in [Subjects -> Nat]
          /\ fired' = IF ok \/ run.since = 0 \/ run.since # taskStatus[run.task].since THEN fired
                      ELSE [fired EXCEPT ![run.task].failed = @ + 1]
      BY <1>1, <2>1 DEF FailReflection
    <3>2. QED
      BY <3>1, EndKeeps
  <2>2. QED
    BY <2>1
<1>3. /\ handlers' = handlers \ {run} /\ UNCHANGED <<evidence, thoughts, overlapped>>
  BY DEF FailReflection, Ended
<1>4. Reflecting' \subseteq Reflecting /\ (Awaits' <=> Awaits)
  BY <1>3 DEF Reflecting, Awaits
<1>5. OneReflection'
  BY <1>3, <1>4 DEF SchedulerInv, OneReflection
<1>6. QED
  BY <1>2, <1>5 DEF SchedulerInv

\* Evidence only grows.
LEMMA EvidenceWithIs ==
  ASSUME SchedulerShape, NEW found, evidence' = EvidenceWith(found)
  PROVE  evidence' \in [Subjects -> 0..2] /\ (Awaits => Awaits')
<1>1. evidence \in [Subjects -> 0..2]
  BY DEF SchedulerShape
<1>2. \A s \in Subjects : evidence'[s] \in 0..2 /\ evidence'[s] >= evidence[s]
  BY <1>1 DEF EvidenceWith
<1>3. evidence' \in [Subjects -> 0..2]
  BY <1>2 DEF EvidenceWith
<1>4. Awaits => Awaits'
  <2>1. SUFFICES ASSUME Synthesizer, NEW s \in Subjects, evidence[s] > 0 PROVE evidence'[s] > 0
    BY DEF Awaits
  <2>2. QED
    BY <1>1, <1>2, <2>1
<1>5. QED
  BY <1>3, <1>4

LEMMA EndGatherStep ==
  ASSUME SchedulerInv, NEW run \in handlers, NEW found \in SUBSET Subjects, EndGather(run, found)
  PROVE  SchedulerInv'
<1>1. thoughts \in [Subjects -> Nat] /\ SchedulerShape
  BY DEF SchedulerInv, SchedulerShape
<1>2. evidence' \in [Subjects -> 0..2] /\ (Awaits => Awaits')
  BY <1>1, EvidenceWithIs DEF EndGather
<1>3. SchedulerShape' /\ CountsOwnRuns'
  <2>1. ASSUME NEW ok \in BOOLEAN, ok = TRUE PROVE SchedulerShape' /\ CountsOwnRuns'
    <3>1. /\ Ended(run) /\ taskStatus' = Finished(run, ok) /\ thoughts' \in [Subjects -> Nat]
          /\ fired' = IF ok \/ run.since = 0 \/ run.since # taskStatus[run.task].since THEN fired
                      ELSE [fired EXCEPT ![run.task].failed = @ + 1]
      BY <1>1, <2>1 DEF EndGather
    <3>2. QED
      BY <1>2, <3>1, EndKeeps
  <2>2. QED
    BY <2>1
<1>4. handlers' = handlers \ {run} /\ UNCHANGED <<thoughts, overlapped>>
  BY DEF EndGather, Ended
<1>5. Reflecting' \subseteq Reflecting
  BY <1>4 DEF Reflecting
<1>6. OneReflection'
  BY <1>2, <1>4, <1>5 DEF SchedulerInv, OneReflection
<1>7. QED
  BY <1>3, <1>6 DEF SchedulerInv


LEMMA StartTaskStep ==
  ASSUME SchedulerInv, NEW t \in Names, StartTask(t)
  PROVE  SchedulerInv'
<1>1. SchedulerShape
  BY DEF SchedulerInv
<1>2. PICK new : new = [NoStatus EXCEPT !.since = starts + 1, !.running = TRUE]
  OBVIOUS
<1>3. new = [since |-> starts + 1, running |-> TRUE, runCount |-> 0, lastError |-> FALSE]
  <2>1. /\ NoStatus \in TaskStatus
        /\ NoStatus.runCount = 0 /\ NoStatus.lastError = FALSE
    BY DEF NoStatus, TaskStatus
  <2>2. new = [since |-> starts + 1, running |-> TRUE, runCount |-> NoStatus.runCount,
               lastError |-> NoStatus.lastError]
    <3>1. NoStatus \in TaskStatus
      BY <2>1
    <3>2. \A x, y : [NoStatus EXCEPT !.since = x, !.running = y]
            = [since |-> x, running |-> y, runCount |-> NoStatus.runCount, lastError |-> NoStatus.lastError]
      BY <3>1, StatusUpdates
    <3>3. QED
      BY <1>2, <3>2, Zenon
  <2>3. QED
    BY <2>1, <2>2
<1>4. starts \in Nat /\ firings \in Nat /\ taskStatus \in [Names -> TaskStatus]
  BY <1>1 DEF SchedulerShape
<1>5. new \in TaskStatus /\ new.since = starts + 1 /\ new.running = TRUE /\ new.runCount = 0
  BY <1>3, <1>4 DEF TaskStatus
<1>6. taskStatus' = [taskStatus EXCEPT ![t] = new] /\ t \notin timers
  BY <1>2 DEF StartTask
<1>7. /\ taskStatus' \in [Names -> TaskStatus]
      /\ \A u \in Names : taskStatus'[u] = IF u = t THEN new ELSE taskStatus[u]
  BY <1>4, <1>5, <1>6
<1>8. /\ timers' = timers \cup ({t} \cap Tasks) /\ starts' = starts + 1
      /\ UNCHANGED <<handlers, evidence, thoughts, firings, overlapped>>
  BY DEF StartTask
<1>9. /\ fired' \in [Tasks -> [runs : Nat, failed : Nat]]
      /\ \A u \in Tasks : u = t => fired'[u].runs = 0 /\ fired'[u].failed = 0
      /\ \A u \in Tasks : u # t => fired'[u] = fired[u]
  BY <1>1 DEF StartTask, SchedulerShape
<1>10. Tasks \subseteq Names /\ "unknown" \in Names /\ "unknown" \notin Tasks
  BY DEF Names, Tasks
<1>11. SchedulerShape'
  <2>1. /\ \A u \in Names : taskStatus'[u].since <= starts'
        /\ \A u \in Names : taskStatus'[u].since = 0 => taskStatus'[u].runCount = 0
        /\ taskStatus'["unknown"].runCount = 0
    <3>1. \A u \in Names : taskStatus[u].since \in Nat /\ taskStatus[u].since <= starts
      BY <1>1 DEF SchedulerShape, TaskStatus
    <3>2. QED
      BY <1>1, <1>4, <1>5, <1>7, <1>8, <1>10, <3>1 DEF SchedulerShape
  <2>2. \A u \in Tasks : u \in timers' <=> taskStatus'[u].running
    BY <1>1, <1>5, <1>7, <1>8, <1>10 DEF SchedulerShape
  <2>3. timers' \subseteq Tasks /\ \A u \in timers' : taskStatus'[u].since > 0
    BY <1>1, <1>4, <1>5, <1>7, <1>8, <1>10 DEF SchedulerShape
  <2>4. \A h \in handlers' : 1 <= h.id /\ h.id <= firings' /\ h.since <= starts'
    <3>1. \A h \in handlers : h.since \in Nat /\ h.since <= starts /\ 1 <= h.id /\ h.id <= firings
      BY <1>1 DEF SchedulerShape, TaskRun
    <3>2. QED
      BY <1>4, <1>8, <3>1
  <2>5. \A u \in Tasks : fired'[u].runs <= firings'
    BY <1>1, <1>4, <1>8, <1>9 DEF SchedulerShape
  <2>6. starts' \in Nat
    BY <1>4, <1>8
  <2>7. QED
    BY <1>1, <1>7, <1>8, <1>9, <2>1, <2>2, <2>3, <2>4, <2>5, <2>6 DEF SchedulerShape
<1>12. CountsOwnRuns'
  <2>1. ASSUME NEW u \in Tasks, taskStatus'[u].since > 0
        PROVE  taskStatus'[u].runCount + fired'[u].failed
                 + Cardinality(OwnRuns(handlers', u, taskStatus'[u].since)) = fired'[u].runs
    <3>1. CASE u = t
      <4>1. taskStatus'[u] = new
        BY <1>7, <1>10, <3>1
      <4>2. OwnRuns(handlers', u, taskStatus'[u].since) = {}
        <5>1. \A h \in handlers : h.since \in Nat /\ h.since <= starts
          BY <1>1 DEF SchedulerShape, TaskRun
        <5>2. QED
          BY <1>4, <1>5, <1>8, <4>1, <5>1 DEF OwnRuns
      <4>3. Cardinality(OwnRuns(handlers', u, taskStatus'[u].since)) = 0
        BY <4>2, FS_EmptySet
      <4>4. QED
        BY <1>5, <1>9, <3>1, <4>1, <4>3
    <3>2. CASE u # t
      BY <1>7, <1>8, <1>9, <1>10, <2>1, <3>2, CountsOwnRunsIs DEF SchedulerInv
    <3>3. QED
      BY <3>1, <3>2
  <2>2. QED
    BY <2>1 DEF CountsOwnRuns, OwnRuns
<1>13. OneReflection'
  <2>1. Reflecting' = Reflecting /\ (Awaits' <=> Awaits)
    BY <1>8 DEF Reflecting, Awaits
  <2>2. QED
    BY <1>8, <2>1 DEF SchedulerInv, OneReflection
<1>14. QED
  BY <1>11, <1>12, <1>13 DEF SchedulerInv

LEMMA StopStep ==
  ASSUME SchedulerInv, NEW names \in SUBSET Names, Stop(names)
  PROVE  SchedulerInv'
<1>1. SchedulerShape
  BY DEF SchedulerInv
<1>2. taskStatus \in [Names -> TaskStatus] /\ Tasks \subseteq Names /\ "unknown" \in Names
  BY <1>1 DEF SchedulerShape, Names
<1>3. /\ timers' = timers \ names
      /\ UNCHANGED <<handlers, evidence, thoughts, firings, starts, fired, overlapped>>
  BY DEF Stop
<1>4. ASSUME NEW t \in Names
      PROVE  /\ taskStatus'[t] \in TaskStatus
             /\ taskStatus'[t].since = taskStatus[t].since
             /\ taskStatus'[t].runCount = taskStatus[t].runCount
             /\ taskStatus'[t].running <=> (taskStatus[t].running /\ t \notin names)
  <2>1. PICK s : s = taskStatus[t]
    OBVIOUS
  <2>2. s \in TaskStatus
    BY <1>2, <2>1
  <2>3. CASE t \in names
    <3>1. taskStatus'[t] = [s EXCEPT !.running = FALSE]
      BY <2>1, <2>3 DEF Stop
    <3>2. taskStatus'[t] = [since |-> s.since, running |-> FALSE, runCount |-> s.runCount, lastError |-> s.lastError]
      BY <2>2, <3>1, StatusUpdates, Zenon
    <3>3. QED
      BY <2>1, <2>2, <2>3, <3>2 DEF TaskStatus
  <2>4. CASE t \notin names
    <3>1. taskStatus'[t] = s
      BY <2>1, <2>4 DEF Stop
    <3>2. QED
      BY <2>1, <2>2, <2>4, <3>1
  <2>5. QED
    BY <2>3, <2>4
<1>5. taskStatus' \in [Names -> TaskStatus]
  BY <1>4 DEF Stop
<1>6. SchedulerShape'
  <2>1. /\ \A u \in Names : taskStatus'[u].since <= starts'
        /\ \A u \in Names : taskStatus'[u].since = 0 => taskStatus'[u].runCount = 0
        /\ taskStatus'["unknown"].runCount = 0
    BY <1>1, <1>2, <1>3, <1>4 DEF SchedulerShape
  <2>2. \A u \in Tasks : u \in timers' <=> taskStatus'[u].running
    <3>1. ASSUME NEW u \in Tasks PROVE u \in timers' <=> taskStatus'[u].running
      <4>1. u \in timers <=> taskStatus[u].running
        BY <1>1 DEF SchedulerShape
      <4>2. taskStatus'[u].running <=> (taskStatus[u].running /\ u \notin names)
        BY <1>2, <1>4
      <4>3. QED
        BY <1>3, <4>1, <4>2
    <3>2. QED
      BY <3>1
  <2>3. timers' \subseteq Tasks /\ \A u \in timers' : taskStatus'[u].since > 0
    BY <1>1, <1>2, <1>3, <1>4 DEF SchedulerShape
  <2>4. QED
    BY <1>1, <1>3, <1>5, <2>1, <2>2, <2>3 DEF SchedulerShape
<1>7. CountsOwnRuns'
  <2>1. ASSUME NEW u \in Tasks, taskStatus'[u].since > 0
        PROVE  taskStatus'[u].runCount + fired'[u].failed
                 + Cardinality(OwnRuns(handlers', u, taskStatus'[u].since)) = fired'[u].runs
    BY <1>2, <1>3, <1>4, <2>1, CountsOwnRunsIs DEF SchedulerInv
  <2>2. QED
    BY <2>1 DEF CountsOwnRuns, OwnRuns
<1>8. OneReflection'
  <2>1. Reflecting' = Reflecting /\ (Awaits' <=> Awaits)
    BY <1>3 DEF Reflecting, Awaits
  <2>2. QED
    BY <1>3, <2>1 DEF SchedulerInv, OneReflection
<1>9. QED
  BY <1>6, <1>7, <1>8 DEF SchedulerInv

LEMMA RecordContentStep ==
  ASSUME SchedulerInv, NEW s \in Subjects, RecordContent(s)
  PROVE  SchedulerInv'
<1>1. SchedulerShape
  BY DEF SchedulerInv
<1>2. evidence' \in [Subjects -> 0..2] /\ (Awaits => Awaits')
  BY <1>1, EvidenceWithIs DEF RecordContent
<1>3. UNCHANGED <<timers, taskStatus, handlers, thoughts, firings, starts, fired, overlapped>>
  BY DEF RecordContent
<1>4. SchedulerShape'
  BY <1>1, <1>2, <1>3 DEF SchedulerShape
<1>5. CountsOwnRuns'
  BY <1>3 DEF SchedulerInv, CountsOwnRuns
<1>6. Reflecting' = Reflecting
  BY <1>3 DEF Reflecting
<1>7. OneReflection'
  BY <1>2, <1>3, <1>6 DEF SchedulerInv, OneReflection
<1>8. QED
  BY <1>4, <1>5, <1>7 DEF SchedulerInv

LEMMA SchedulerInvStep ==
  ASSUME SchedulerInv, [SchedulerNext]_schedulerVars
  PROVE  SchedulerInv'
<1>1. CASE UNCHANGED schedulerVars
  <2>1. UNCHANGED <<timers, taskStatus, handlers, evidence, thoughts, firings, starts, fired, overlapped>>
    BY <1>1 DEF schedulerVars
  <2>2. SchedulerShape' /\ CountsOwnRuns'
    BY <2>1 DEF SchedulerInv, SchedulerShape, CountsOwnRuns
  <2>3. Reflecting' = Reflecting /\ (Awaits' <=> Awaits)
    BY <2>1 DEF Reflecting, Awaits
  <2>4. OneReflection'
    BY <2>1, <2>3 DEF SchedulerInv, OneReflection
  <2>5. QED
    BY <2>2, <2>4 DEF SchedulerInv
<1>2. CASE \E names \in {{t} : t \in Names} \cup {timers} : Stop(names)
  <2>1. timers \in SUBSET Names
    BY DEF SchedulerInv, SchedulerShape, Names
  <2>2. QED
    BY <1>2, <2>1, StopStep
<1>3. CASE (\E t \in Names : StartTask(t)) \/ (\E t \in Tasks : Emit(t)) \/ (\E s \in Subjects : RecordContent(s))
  BY <1>3, StartTaskStep, EmitStep, RecordContentStep
<1>4. CASE \/ \E since \in Sinces("reflection") : BeginReflection(since) \/ ReflectAtOnce(since)
           \/ \E since \in Sinces("gather") : BeginGather(since)
  BY <1>4, BeginReflectionStep, ReflectAtOnceStep, BeginGatherStep
<1>5. CASE \/ \E run \in handlers : EndReflection(run) \/ FailReflection(run)
           \/ \E run \in handlers, found \in SUBSET Subjects : EndGather(run, found)
  BY <1>5, EndReflectionStep, FailReflectionStep, EndGatherStep
<1>6. QED
  BY <1>1, <1>2, <1>3, <1>4, <1>5 DEF SchedulerNext

-----------------------------------------------------------------------------
(***************************************************************************)
(* Persona serving.  The persona in the node is a copy of the memory as it *)
(* was when it was exported, and an answer shows no more of it than that   *)
(* memory, the lists, the policy and the relationship allow.               *)
(***************************************************************************)
\* The persona keeps no confidential memory among its memories, and the
\* visibility the exported memory had.
CopyOfExport ==
  /\ exported \in Memory
  /\ exported.privacy = "confidential" => persona.places \cap Sections = {}
  /\ persona # NoPersona => persona.visibility = Visibility(exported)

PersonaInv == PersonaTypeOK /\ CopyOfExport /\ ServedAsMeant

LEMMA PersonaInvInit == PersonaInit => PersonaInv
BY DEF PersonaInit, PersonaInv, PersonaTypeOK, CopyOfExport, ServedAsMeant, NoPersona, NoResponse

LEMMA ExportPersonaStep ==
  ASSUME PersonaInv, NEW policy \in Policies, ExportPersona(policy)
  PROVE  PersonaInv'
<1>1. persona' = [places |-> InMemories(memory) \cup InGrowth(memory) \cup InIdentity(memory),
                  visibility |-> Visibility(memory), policy |-> policy]
  BY DEF ExportPersona, Exported
<1>2. /\ memory \in Memory /\ exported' = memory
      /\ memory' = memory /\ response' = response /\ listed' = listed
  BY DEF ExportPersona, PersonaInv, PersonaTypeOK
<1>3. /\ InMemories(memory) \subseteq Sections
      /\ InGrowth(memory) \subseteq {"growth"}
      /\ InIdentity(memory) \subseteq {"identity"}
  BY DEF InMemories, InGrowth, InIdentity, Sections
<1>4. Visibility(memory) \in {"public", "network", "private", "confidential"}
  BY <1>2 DEF Visibility, Memory
<1>5. PersonaTypeOK'
  <2>1. InMemories(memory) \cup InGrowth(memory) \cup InIdentity(memory)
          \in SUBSET (Sections \cup {"growth", "identity"})
    BY <1>3
  <2>2. QED
    BY <1>1, <1>2, <1>4, <2>1 DEF PersonaInv, PersonaTypeOK
<1>6. CopyOfExport'
  <2>1. memory.privacy = "confidential" => InMemories(memory) = {}
    BY DEF InMemories
  <2>2. persona'.places \cap Sections \subseteq InMemories(memory)
    BY <1>1, <1>3 DEF Sections
  <2>3. persona'.visibility = Visibility(memory)
    BY <1>1
  <2>4. QED
    BY <1>2, <2>1, <2>2, <2>3 DEF CopyOfExport, Visibility
<1>7. ServedAsMeant'
  BY <1>2 DEF PersonaInv, ServedAsMeant, Visibility
<1>8. QED
  BY <1>5, <1>6, <1>7 DEF PersonaInv

LEMMA MemoryChangeStep ==
  ASSUME PersonaInv,
         \/ \E privacy \in {"public", "confidential"} : Reconsider(privacy)
         \/ \E change \in {"pending", "active", "active, may see the persona"} : Relate(change)
         \/ UNCHANGED personaVars
  PROVE  PersonaInv'
<1>1. UNCHANGED <<persona, listed, response, exported>>
  BY DEF Reconsider, Relate, personaVars
<1>2. memory' \in Memory
  BY DEF Reconsider, Relate, personaVars, PersonaInv, PersonaTypeOK, Memory
<1>3. QED
  BY <1>1, <1>2 DEF PersonaInv, PersonaTypeOK, CopyOfExport, ServedAsMeant, Visibility

LEMMA RespondStep ==
  ASSUME PersonaInv, NEW sender \in {"peer", "anonymous"},
         ServeAllowed(sender) \/ ServeFiltered(sender) \/ ServeNothing(sender)
  PROVE  PersonaInv'
<1>1. UNCHANGED <<memory, persona, listed, exported>>
  BY DEF ServeAllowed, ServeFiltered, ServeNothing, Respond
<1>2. persona.places \subseteq Sections \cup {"growth", "identity"}
  BY DEF PersonaInv, PersonaTypeOK, NoPersona
<1>3. response'.shown \subseteq persona.places
  BY DEF ServeAllowed, ServeFiltered, ServeNothing, Respond, Answered, Shown
<1>4. PersonaTypeOK'
  BY <1>1, <1>2, <1>3 DEF PersonaInv, PersonaTypeOK
<1>5. CopyOfExport'
  BY <1>1 DEF PersonaInv, CopyOfExport, Visibility
<1>6. ASSUME ServeNothing(sender) PROVE ServedAsMeant'
  BY <1>1, <1>6 DEF ServeNothing, Respond, ServedAsMeant
<1>7. ASSUME NEW shown, Respond(Answered(sender, shown)), shown \subseteq persona.places
      PROVE  /\ response'.to = sender /\ response'.shown = shown
             /\ response'.memory = exported /\ response'.relationship = relationship
             /\ response'.policy = persona.policy
             /\ shown \cap Sections # {} => exported.privacy # "confidential"
  BY <1>7 DEF Respond, Answered, PersonaInv, CopyOfExport
<1>8. ASSUME ServeAllowed(sender) PROVE ServedAsMeant'
  BY <1>1, <1>7, <1>8 DEF ServeAllowed, Allowed, ServedAsMeant
<1>9. ASSUME ServeFiltered(sender) PROVE ServedAsMeant'
  <2>1. /\ persona # NoPersona /\ ~Denied(sender) /\ Admitted(sender)
        /\ Respond(Answered(sender, Shown(sender)))
    BY <1>9 DEF ServeFiltered
  <2>2. Shown(sender) \subseteq persona.places
    BY DEF Shown
  <2>3. Shown(sender) \cap Sections # {} =>
          Open(persona.policy.memories, sender) /\ Unfiltered(sender)
    BY DEF Shown
  <2>4. "growth" \in Shown(sender) => Open(persona.policy.growth, sender)
    BY DEF Shown
  <2>5. persona.visibility = Visibility(exported)
    BY <2>1 DEF PersonaInv, CopyOfExport
  <2>6. /\ persona.policy.memories \in Audience \cup {"unset"}
        /\ persona.policy.growth \in Audience \cup {"unset"}
    BY PersonaAssumption
       DEF PersonaInv, PersonaTypeOK, NoPersona, PersonaAssumption, Policy, Audience
  <2> DEFINE connected == sender = "peer" /\ relationship \in {"active", "active, may see the persona"}
             LetsIn(audience) ==
               audience \in {"public", "unset"} \/ (audience = "connections_only" /\ connected)
  <2>7. \A audience \in Audience \cup {"unset"} : Open(audience, sender) => LetsIn(audience)
    BY DEF Open, Connected, Audience
  <2>8. Unfiltered(sender) =>
          Visibility(exported) = "public" \/ (Visibility(exported) = "network" /\ connected)
    BY <2>5 DEF Unfiltered, Connected
  <2>9. /\ ~(sender = "peer" /\ listed = "denied")
        /\ \/ persona.policy.default = "public"
           \/ /\ persona.policy.default = "connections_only"
              /\ sender = "peer" /\ relationship = "active, may see the persona"
    BY <2>1 DEF Denied, Admitted, MaySee
  <2>10. QED
    BY <1>1, <1>7, <2>1, <2>2, <2>3, <2>4, <2>6, <2>7, <2>8, <2>9 DEF ServedAsMeant, Visibility
<1>10. ServedAsMeant'
  BY <1>6, <1>8, <1>9
<1>11. QED
  BY <1>4, <1>5, <1>10 DEF PersonaInv

LEMMA PersonaInvStep ==
  ASSUME PersonaInv, [PersonaNext]_personaVars
  PROVE  PersonaInv'
BY ExportPersonaStep, MemoryChangeStep, RespondStep DEF PersonaNext

(***************************************************************************)
(* The content pipeline.  A draft that passed its review has sources, and  *)
(* no later stage takes them away.                                         *)
(***************************************************************************)
ReviewedHasSources == \A d \in DOMAIN drafts : drafts[d].score <= drafts[d].sources + 2

PipelineInv == PipelineTypeOK /\ ReviewedHasSources /\ PublishedIsSourced

LEMMA PipelineInvInit == PipelineInit => PipelineInv
<1> SUFFICES ASSUME PipelineInit PROVE PipelineInv
  OBVIOUS
<1>1. drafts = <<>> /\ syntheses = <<>> /\ published = <<>>
  BY DEF PipelineInit
<1>2. PipelineTypeOK
  BY <1>1 DEF PipelineTypeOK
<1>3. QED
  BY <1>1, <1>2 DEF PipelineInv, ReviewedHasSources, PublishedIsSourced

\* The updates of a draft and of a synthesis, as records.
LEMMA StageUpdate ==
  ASSUME NEW d \in Draft, NEW x
  PROVE  [d EXCEPT !.stage = x] = [stage |-> x, sources |-> d.sources, text |-> d.text, score |-> d.score]
<1>1. PICK st, so, te, sc : d = [stage |-> st, sources |-> so, text |-> te, score |-> sc]
  BY DEF Draft
<1>2. QED
  BY <1>1

LEMMA ReviewUpdate ==
  ASSUME NEW d \in Draft, NEW z, NEW x
  PROVE  [d EXCEPT !.score = z, !.stage = x] = [stage |-> x, sources |-> d.sources, text |-> d.text, score |-> z]
<1>1. PICK st, so, te, sc : d = [stage |-> st, sources |-> so, text |-> te, score |-> sc]
  BY DEF Draft
<1>2. PICK e : e = [stage |-> st, sources |-> so, text |-> te, score |-> z]
  OBVIOUS
<1>3. [d EXCEPT !.score = z] = e
  BY <1>1, <1>2
<1>4. [e EXCEPT !.stage = x] = [stage |-> x, sources |-> so, text |-> te, score |-> z]
  BY <1>2
<1>5. [d EXCEPT !.score = z, !.stage = x] = [[d EXCEPT !.score = z] EXCEPT !.stage = x]
  OBVIOUS
<1>6. [d EXCEPT !.score = z, !.stage = x] = [stage |-> x, sources |-> so, text |-> te, score |-> z]
  BY <1>3, <1>4, <1>5, Zenon
<1>7. d.sources = so /\ d.text = te
  BY <1>1
<1>8. QED
  BY <1>6, <1>7, Zenon

LEMMA TextUpdate ==
  ASSUME NEW d \in Draft, NEW z, NEW x
  PROVE  [d EXCEPT !.text = z, !.stage = x] = [stage |-> x, sources |-> d.sources, text |-> z, score |-> d.score]
<1>1. PICK st, so, te, sc : d = [stage |-> st, sources |-> so, text |-> te, score |-> sc]
  BY DEF Draft
<1>2. PICK e : e = [stage |-> st, sources |-> so, text |-> z, score |-> sc]
  OBVIOUS
<1>3. [d EXCEPT !.text = z] = e
  BY <1>1, <1>2
<1>4. [e EXCEPT !.stage = x] = [stage |-> x, sources |-> so, text |-> z, score |-> sc]
  BY <1>2
<1>5. [d EXCEPT !.text = z, !.stage = x] = [[d EXCEPT !.text = z] EXCEPT !.stage = x]
  OBVIOUS
<1>6. [d EXCEPT !.text = z, !.stage = x] = [stage |-> x, sources |-> so, text |-> z, score |-> sc]
  BY <1>3, <1>4, <1>5, Zenon
<1>7. d.sources = so /\ d.score = sc
  BY <1>1
<1>8. QED
  BY <1>6, <1>7, Zenon

LEMMA SynthesisUpdate ==
  ASSUME NEW D, NEW s
  PROVE  s \in [draft : D, running : BOOLEAN] =>
           [s EXCEPT !.running = FALSE] = [draft |-> s.draft, running |-> FALSE]
<1>1. SUFFICES ASSUME s \in [draft : D, running : BOOLEAN]
               PROVE  [s EXCEPT !.running = FALSE] = [draft |-> s.draft, running |-> FALSE]
  OBVIOUS
<1>2. PICK d, r : s = [draft |-> d, running |-> r]
  BY <1>1
<1>3. \A x : [s EXCEPT !.running = x] = [draft |-> d, running |-> x]
  BY <1>2
<1>4. s.draft = d
  BY <1>2
<1>5. QED
  BY <1>3, <1>4, Zenon

LEMMA SeqElement ==
  ASSUME NEW A, NEW s \in Seq(A), NEW i \in DOMAIN s
  PROVE  s[i] \in A
OBVIOUS

LEMMA SeqSubset ==
  ASSUME NEW A, NEW B, NEW s \in Seq(A), A \subseteq B
  PROVE  s \in Seq(B)
OBVIOUS

\* A draft with one more.
LEMMA GatherStep ==
  ASSUME PipelineInv, NEW sources \in 0..2, Gather(sources)
  PROVE  PipelineInv'
<1>1. PICK d : d = [stage |-> "gathering", sources |-> sources, text |-> 0, score |-> 0]
  OBVIOUS
<1>2. d \in Draft /\ d.sources = sources /\ d.score = 0
  BY <1>1 DEF Draft
<1>3. drafts \in Seq(Draft) /\ drafts' = Append(drafts, d) /\ UNCHANGED <<syntheses, published>>
  BY <1>1 DEF Gather, PipelineInv, PipelineTypeOK
<1>4. /\ drafts' \in Seq(Draft)
      /\ DOMAIN drafts \subseteq DOMAIN drafts'
      /\ \A i \in DOMAIN drafts' : (i \in DOMAIN drafts /\ drafts'[i] = drafts[i]) \/ drafts'[i] = d
      /\ \A i \in DOMAIN drafts : drafts'[i] = drafts[i]
  BY <1>2, <1>3
<1>5. syntheses \in Seq([draft : DOMAIN drafts, running : BOOLEAN]) /\ published \in Seq(DOMAIN drafts)
  BY DEF PipelineInv, PipelineTypeOK
<1>6. [draft : DOMAIN drafts, running : BOOLEAN] \subseteq [draft : DOMAIN drafts', running : BOOLEAN]
  BY <1>4
<1>7. syntheses' \in Seq([draft : DOMAIN drafts', running : BOOLEAN]) /\ published' \in Seq(DOMAIN drafts')
  <2>1. DOMAIN drafts \subseteq DOMAIN drafts' /\ syntheses' = syntheses /\ published' = published
    BY <1>3, <1>4
  <2>2. syntheses \in Seq([draft : DOMAIN drafts', running : BOOLEAN])
    BY <1>5, <1>6, SeqSubset
  <2>3. published \in Seq(DOMAIN drafts')
    BY <1>5, <2>1, SeqSubset
  <2>4. QED
    BY <2>1, <2>2, <2>3
<1>8. PipelineTypeOK'
  BY <1>4, <1>7 DEF PipelineTypeOK
<1>9. ReviewedHasSources'
  <2>1. sources + 2 >= 0
    OBVIOUS
  <2>2. QED
    BY <1>2, <1>4, <2>1 DEF PipelineInv, ReviewedHasSources
<1>10. PublishedIsSourced'
  <2>1. \A i \in DOMAIN published : published[i] \in DOMAIN drafts
    BY <1>5
  <2>2. QED
    BY <1>3, <1>4, <2>1 DEF PipelineInv, PublishedIsSourced
<1>11. QED
  BY <1>8, <1>9, <1>10 DEF PipelineInv

\* A stage of draft d: it keeps its sources, and its new score, if it has one, is
\* what its sources and its text are worth.
LEMMA StageStep ==
  ASSUME PipelineInv, NEW d \in DOMAIN drafts, NEW new \in Draft,
         drafts' = [drafts EXCEPT ![d] = new], new.sources = drafts[d].sources,
         new.score = drafts[d].score \/ new.score <= new.sources + 2,
         syntheses' \in Seq([draft : DOMAIN drafts, running : BOOLEAN]),
         \/ published' = published
         \/ published' = Append(published, d) /\ drafts[d].sources > 0
  PROVE  PipelineInv'
<1>1. drafts \in Seq(Draft) /\ published \in Seq(DOMAIN drafts)
  BY DEF PipelineInv, PipelineTypeOK
<1>2. /\ drafts' \in Seq(Draft) /\ DOMAIN drafts' = DOMAIN drafts
      /\ \A i \in DOMAIN drafts : drafts'[i] = IF i = d THEN new ELSE drafts[i]
  BY <1>1
<1>3. published' \in Seq(DOMAIN drafts)
  BY <1>1
<1>4. PipelineTypeOK'
  BY <1>2, <1>3 DEF PipelineTypeOK
<1>5. ReviewedHasSources'
  BY <1>2 DEF PipelineInv, ReviewedHasSources
<1>6. \A i \in DOMAIN drafts : drafts'[i].sources = drafts[i].sources
  BY <1>2
<1>7. \A i \in DOMAIN published' : published'[i] \in DOMAIN drafts /\ drafts[published'[i]].sources > 0
  <2>1. \A i \in DOMAIN published : published[i] \in DOMAIN drafts /\ drafts[published[i]].sources > 0
    BY <1>1 DEF PipelineInv, PublishedIsSourced
  <2>2. CASE published' = published
    BY <2>1, <2>2
  <2>3. CASE published' = Append(published, d) /\ drafts[d].sources > 0
    <3>1. \A i \in DOMAIN published' : (i \in DOMAIN published /\ published'[i] = published[i]) \/ published'[i] = d
      BY <1>1, <2>3
    <3>2. QED
      BY <2>1, <2>3, <3>1
  <2>4. QED
    BY <2>2, <2>3
<1>8. PublishedIsSourced'
  BY <1>6, <1>7 DEF PublishedIsSourced
<1>9. QED
  BY <1>4, <1>5, <1>8 DEF PipelineInv

LEMMA DraftStageStep ==
  ASSUME PipelineInv, NEW d \in DOMAIN drafts, Review(d) \/ Publish(d)
  PROVE  PipelineInv'
<1>1. drafts[d] \in Draft /\ syntheses \in Seq([draft : DOMAIN drafts, running : BOOLEAN])
  BY DEF PipelineInv, PipelineTypeOK
<1>2. drafts[d].score <= drafts[d].sources + 2
  BY DEF PipelineInv, ReviewedHasSources
<1>3. drafts[d].sources \in 0..2 /\ drafts[d].text \in 0..2 /\ drafts[d].score \in 0..4
  BY <1>1 DEF Draft
<1>4. CASE Review(d)
  <2>1. PICK score, stage : /\ score = drafts[d].sources + drafts[d].text
                            /\ stage = (IF Passes(score) THEN "reviewing" ELSE "rejected")
    OBVIOUS
  <2>2. PICK new : new = [stage |-> stage, sources |-> drafts[d].sources, text |-> drafts[d].text,
                          score |-> score]
    OBVIOUS
  <2>3. drafts' = [drafts EXCEPT ![d] = [drafts[d] EXCEPT !.score = score, !.stage = stage]]
    BY <1>4, <2>1, Zenon DEF Review
  <2>4. drafts' = [drafts EXCEPT ![d] = new]
    <3>1. [drafts[d] EXCEPT !.score = score, !.stage = stage]
            = [stage |-> stage, sources |-> drafts[d].sources, text |-> drafts[d].text, score |-> score]
      BY <1>1, ReviewUpdate, Zenon
    <3>2. QED
      BY <2>2, <2>3, <3>1, Zenon
  <2>5. score \in 0..4 /\ score <= drafts[d].sources + 2 /\ stage \in {"reviewing", "rejected"}
    BY <1>3, <2>1
  <2>6. new \in Draft /\ new.sources = drafts[d].sources /\ new.score <= new.sources + 2
    BY <1>3, <2>2, <2>5 DEF Draft
  <2>7. UNCHANGED <<syntheses, published>>
    BY <1>4 DEF Review
  <2>8. QED
    BY <1>1, <2>4, <2>6, <2>7, StageStep
<1>5. CASE Publish(d)
  <2>1. PICK new : new = [stage |-> "published", sources |-> drafts[d].sources, text |-> drafts[d].text,
                          score |-> drafts[d].score]
    OBVIOUS
  <2>2. drafts' = [drafts EXCEPT ![d] = [drafts[d] EXCEPT !.stage = "published"]]
    BY <1>5 DEF Publish
  <2>3. drafts' = [drafts EXCEPT ![d] = new]
    BY <1>1, <2>1, <2>2, StageUpdate, Zenon
  <2>4. new \in Draft /\ new.sources = drafts[d].sources /\ new.score = drafts[d].score
    BY <1>3, <2>1 DEF Draft
  <2>5. drafts[d].score * 10 >= 6 * 4
    BY <1>5 DEF Publish, MayPublish, Passes
  <2>6. drafts[d].sources > 0
    BY <1>2, <1>3, <2>5
  <2>7. syntheses' = syntheses /\ published' = Append(published, d)
    BY <1>5 DEF Publish
  <2>8. QED
    BY <1>1, <2>3, <2>4, <2>6, <2>7, StageStep
<1>6. QED
  BY <1>4, <1>5

LEMMA SynthesisStep ==
  ASSUME PipelineInv, NEW i \in DOMAIN syntheses,
         SynthesisFails(i) \/ \E text \in 0..2 : Synthesized(i, text)
  PROVE  PipelineInv'
<1>1. syntheses \in Seq([draft : DOMAIN drafts, running : BOOLEAN]) /\ drafts \in Seq(Draft)
  BY DEF PipelineInv, PipelineTypeOK
<1>2. PICK d : d = syntheses[i].draft
  OBVIOUS
<1>3. syntheses[i] \in [draft : DOMAIN drafts, running : BOOLEAN]
  BY <1>1, SeqElement, Zenon
<1>4. d \in DOMAIN drafts
  BY <1>2, <1>3
<1>5. syntheses' = [syntheses EXCEPT ![i] = [draft |-> d, running |-> FALSE]]
  <2>1. syntheses' = [syntheses EXCEPT ![i] = [syntheses[i] EXCEPT !.running = FALSE]]
    BY DEF SynthesisFails, Synthesized
  <2>2. QED
    BY <1>2, <1>3, <2>1, SynthesisUpdate, Zenon
<1>6. syntheses' \in Seq([draft : DOMAIN drafts, running : BOOLEAN])
  BY <1>1, <1>4, <1>5
<1>7. CASE SynthesisFails(i)
  BY <1>6, <1>7 DEF SynthesisFails, PipelineInv, PipelineTypeOK, ReviewedHasSources, PublishedIsSourced
<1>8. ASSUME NEW text \in 0..2, Synthesized(i, text) PROVE PipelineInv'
  <2>1. drafts[d] \in Draft
    BY <1>1, <1>4
  <2>2. PICK new : new = [stage |-> "synthesizing", sources |-> drafts[d].sources, text |-> text,
                          score |-> drafts[d].score]
    OBVIOUS
  <2>3. /\ drafts' = [drafts EXCEPT ![d] = [drafts[d] EXCEPT !.text = text, !.stage = "synthesizing"]]
        /\ published' = published
    BY <1>2, <1>8, Zenon DEF Synthesized
  <2>4. drafts' = [drafts EXCEPT ![d] = new]
    <3>1. [drafts[d] EXCEPT !.text = text, !.stage = "synthesizing"]
            = [stage |-> "synthesizing", sources |-> drafts[d].sources, text |-> text, score |-> drafts[d].score]
      BY <2>1, TextUpdate, Zenon
    <3>2. QED
      BY <2>2, <2>3, <3>1, Zenon
  <2>5. new \in Draft /\ new.sources = drafts[d].sources /\ new.score = drafts[d].score
    BY <2>1, <2>2 DEF Draft
  <2>6. QED
    BY <1>4, <1>6, <2>3, <2>4, <2>5, StageStep
<1>9. QED
  BY <1>7, <1>8

LEMMA SynthesizeStep ==
  ASSUME PipelineInv, NEW d \in DOMAIN drafts, Synthesize(d)
  PROVE  PipelineInv'
<1>1. syntheses \in Seq([draft : DOMAIN drafts, running : BOOLEAN])
  BY DEF PipelineInv, PipelineTypeOK
<1>2. syntheses' \in Seq([draft : DOMAIN drafts, running : BOOLEAN])
  BY <1>1 DEF Synthesize
<1>3. QED
  BY <1>2 DEF Synthesize, PipelineInv, PipelineTypeOK, ReviewedHasSources, PublishedIsSourced

LEMMA PipelineInvStep ==
  ASSUME PipelineInv, [PipelineNext]_pipelineVars
  PROVE  PipelineInv'
<1>1. CASE UNCHANGED pipelineVars
  BY <1>1 DEF pipelineVars, PipelineInv, PipelineTypeOK, ReviewedHasSources, PublishedIsSourced
<1>2. CASE PipelineNext
  BY <1>2, GatherStep, SynthesizeStep, DraftStageStep, SynthesisStep DEF PipelineNext
<1>3. QED
  BY <1>1, <1>2

-----------------------------------------------------------------------------
(***************************************************************************)
(* The guardian's authority.  The restrictions in force are a summary of   *)
(* the history of commands: each command changes both alike.               *)
(***************************************************************************)
GuardianshipInv == GuardianshipTypeOK /\ RestrictionsExplained

LEMMA GuardianshipInvInit == GuardianshipInit => GuardianshipInv
<1> SUFFICES ASSUME GuardianshipInit PROVE GuardianshipInv
  OBVIOUS
<1>1. restricted \in [Kinds -> SUBSET Targets]
  BY DEF GuardianshipInit, NoRestriction
<1>2. commands \in Seq(Command) /\ DOMAIN commands = {}
  BY DEF GuardianshipInit
<1>3. agentRestarts \in 0..MaxAgentRestarts
  BY GuardianshipAssumption DEF GuardianshipAssumption, GuardianshipInit
<1>4. GuardianshipTypeOK
  BY <1>1, <1>2, <1>3, GuardianshipAssumption
     DEF GuardianshipAssumption, GuardianshipInit, GuardianshipTypeOK
<1>5. Accepted = {}
  BY <1>2 DEF Accepted
<1>6. ASSUME NEW k \in Kinds, NEW t \in Targets
      PROVE  t \in restricted[k] <=> \E i \in Restricts(k, t) : LastOf(Restricts(k, t) \cup LiftsOf(t), i)
  <2>1. Restricts(k, t) = {}
    BY <1>5 DEF Restricts
  <2>2. t \notin restricted[k]
    BY DEF GuardianshipInit, NoRestriction
  <2>3. QED
    BY <2>1, <2>2
<1>7. Lockdowns = {} /\ lockdown = FALSE
  BY <1>5 DEF GuardianshipInit, Lockdowns
<1>8. RestrictionsExplained
  BY <1>6, <1>7 DEF RestrictionsExplained
<1>9. QED
  BY <1>4, <1>8 DEF GuardianshipInv

\* The last of two kinds of commands, when one more is obeyed.
LEMMA LastIsNew ==
  ASSUME NEW n \in Nat, NEW S \in SUBSET (1..n), NEW T \in SUBSET (1..n)
  PROVE  /\ \E i \in S \cup {n + 1} : LastOf((S \cup {n + 1}) \cup T, i)
         /\ ~\E i \in S : LastOf(S \cup (T \cup {n + 1}), i)
<1>1. \A j \in S \cup T : j \in Nat /\ j <= n
  OBVIOUS
<1>2. LastOf((S \cup {n + 1}) \cup T, n + 1)
  BY <1>1 DEF LastOf
<1>3. ASSUME NEW i \in S, LastOf(S \cup (T \cup {n + 1}), i) PROVE FALSE
  BY <1>1, <1>3 DEF LastOf
<1>4. QED
  BY <1>2, <1>3

\* The history with one more command.
LEMMA Appended ==
  ASSUME commands \in Seq(Command), NEW c, commands' = Append(commands, c), NEW P,
         P = Len(commands) + 1
  PROVE  /\ Len(commands) \in Nat
         /\ Accepted \in SUBSET (1..Len(commands))
         /\ \A i : i \in Accepted' <=> (i \in Accepted \/ (i = P /\ c.accepted))
         /\ \A i \in Accepted : commands'[i] = commands[i]
         /\ commands'[P] = c
         /\ P \notin Accepted
<1>1. /\ Len(commands) \in Nat /\ DOMAIN commands = 1..Len(commands)
      /\ DOMAIN commands' = 1..P
      /\ commands'[P] = c
      /\ \A i \in 1..Len(commands) : commands'[i] = commands[i]
  OBVIOUS
<1>2. \A i : i \in Accepted => i \in 1..Len(commands)
  BY <1>1 DEF Accepted
<1>3. ASSUME NEW i
      PROVE  i \in Accepted' <=> (i \in Accepted \/ (i = P /\ c.accepted))
  <2>1. i \in Accepted' <=> i \in DOMAIN commands' /\ commands'[i].accepted
    BY Zenon DEF Accepted
  <2>4. i \in Accepted <=> i \in DOMAIN commands /\ commands[i].accepted
    BY Zenon DEF Accepted
  <2>5. i \in DOMAIN commands' <=> (i \in DOMAIN commands \/ i = P)
    BY <1>1
  <2>6. P \notin DOMAIN commands
    BY <1>1
  <2>7. i \in DOMAIN commands => commands'[i] = commands[i]
    BY <1>1
  <2>8. QED
    BY <1>1, <2>1, <2>4, <2>5, <2>6, <2>7, Zenon
<1>5. P \notin Accepted
  BY <1>1, <1>2
<1>6. \A i \in Accepted : commands'[i] = commands[i]
  BY <1>1, <1>2
<1>4. QED
  BY <1>1, <1>2, <1>3, <1>5, <1>6


\* What one more command does to the last of the commands imposed (S becomes S2)
\* and lifted (T becomes T2).
LEMMA LastOfOneMore ==
  ASSUME NEW n \in Nat, NEW S \in SUBSET (1..n), NEW T \in SUBSET (1..n),
         NEW S2 \in {S, S \cup {n + 1}}, NEW T2 \in {T, T \cup {n + 1}}, S2 = S \/ T2 = T
  PROVE  (\E i \in S2 : LastOf(S2 \cup T2, i)) <=>
           (S2 # S \/ (T2 = T /\ \E i \in S : LastOf(S \cup T, i)))
BY LastIsNew

Explains(c) ==
  /\ commands' = Append(commands, c)
  /\ \A k \in Kinds, t \in Targets :
       t \in restricted'[k] <=>
         (\/ c.accepted /\ c.type = k /\ c.target = t
          \/ t \in restricted[k] /\ ~(c.accepted /\ c.type = "lift_restriction" /\ c.target = t))
  /\ lockdown' <=>
       (\/ c.accepted /\ c.type = "emergency_lockdown"
        \/ lockdown /\ ~(c.accepted /\ c.type = "lift_restriction" /\ c.lockdown))

LEMMA HistoryStep ==
  ASSUME NEW c PROVE GuardianshipInv /\ Explains(c) => RestrictionsExplained'
<1>h. SUFFICES ASSUME GuardianshipInv, Explains(c) PROVE RestrictionsExplained'
  OBVIOUS
<1>0. PICK n : n = Len(commands)
  OBVIOUS
<1>1. /\ n \in Nat
      /\ Accepted \in SUBSET (1..n)
      /\ \A i : i \in Accepted' <=> (i \in Accepted \/ (i = n + 1 /\ c.accepted))
      /\ \A i \in Accepted : commands'[i] = commands[i]
      /\ commands'[n + 1] = c
      /\ n + 1 \notin Accepted
  BY <1>h, <1>0, Appended DEF Explains, GuardianshipInv, GuardianshipTypeOK
<1>2. ASSUME NEW k \in Kinds, NEW t \in Targets
      PROVE  t \in restricted'[k] <=>
               \E i \in Restricts(k, t)' : LastOf(Restricts(k, t)' \cup LiftsOf(t)', i)
  <2>1. Restricts(k, t) \in SUBSET (1..n) /\ LiftsOf(t) \in SUBSET (1..n)
    BY <1>1 DEF Restricts, LiftsOf, Lifts
  <2>2. \A i : i \in Restricts(k, t)' <=>
          (i \in Restricts(k, t) \/ (i = n + 1 /\ c.accepted /\ c.type = k /\ c.target = t))
    BY <1>1 DEF Restricts
  <2>3. \A i : i \in LiftsOf(t)' <=>
          (i \in LiftsOf(t) \/ (i = n + 1 /\ c.accepted /\ c.type = "lift_restriction" /\ c.target = t))
    BY <1>1 DEF LiftsOf, Lifts
  <2>4. t \in restricted[k] <=> \E i \in Restricts(k, t) : LastOf(Restricts(k, t) \cup LiftsOf(t), i)
    BY <1>h DEF GuardianshipInv, RestrictionsExplained
  <2>5. k # "lift_restriction"
    BY DEF Kinds
  <2> DEFINE Imposed == c.accepted /\ c.type = k /\ c.target = t
             Lifting == c.accepted /\ c.type = "lift_restriction" /\ c.target = t
  <2>6. Imposed \in BOOLEAN /\ Lifting \in BOOLEAN /\ ~(Imposed /\ Lifting)
    BY <2>5
  <2>7. (\E i \in Restricts(k, t)' : LastOf(Restricts(k, t)' \cup LiftsOf(t)', i)) <=>
          (Imposed \/ (~Lifting /\ \E i \in Restricts(k, t) : LastOf(Restricts(k, t) \cup LiftsOf(t), i)))
    <3>1. PICK S, T, S2, T2 : S = Restricts(k, t) /\ T = LiftsOf(t) /\ S2 = Restricts(k, t)' /\ T2 = LiftsOf(t)'
      OBVIOUS
    <3>2. S \in SUBSET (1..n) /\ T \in SUBSET (1..n) /\ n + 1 \notin S /\ n + 1 \notin T
      BY <1>1, <2>1, <3>1
    <3>3. S2 = IF Imposed THEN S \cup {n + 1} ELSE S
      BY <2>2, <3>1
    <3>4. T2 = IF Lifting THEN T \cup {n + 1} ELSE T
      BY <2>3, <3>1
    <3>5. /\ S2 \in {S, S \cup {n + 1}} /\ T2 \in {T, T \cup {n + 1}} /\ (S2 = S \/ T2 = T)
          /\ (S2 # S) <=> Imposed
          /\ (T2 # T) <=> Lifting
      <4> HIDE DEF Imposed, Lifting
      <4>1. CASE Imposed
        BY <2>6, <3>2, <3>3, <3>4, <4>1
      <4>2. CASE Lifting
        BY <2>6, <3>2, <3>3, <3>4, <4>2
      <4>3. CASE ~Imposed /\ ~Lifting
        BY <3>3, <3>4, <4>3
      <4>4. QED
        BY <4>1, <4>2, <4>3
    <3>6. (\E i \in S2 : LastOf(S2 \cup T2, i)) <=>
            (S2 # S \/ (T2 = T /\ \E i \in S : LastOf(S \cup T, i)))
      <4>1. (/\ n \in Nat
             /\ S \in SUBSET (1..n) /\ T \in SUBSET (1..n)
             /\ S2 \in {S, S \cup {n + 1}} /\ T2 \in {T, T \cup {n + 1}}
             /\ S2 = S \/ T2 = T)
            => ((\E i \in S2 : LastOf(S2 \cup T2, i)) <=>
                 (S2 # S \/ (T2 = T /\ \E i \in S : LastOf(S \cup T, i))))
        BY LastOfOneMore
      <4>2. QED
        BY <1>1, <3>2, <3>5, <4>1
    <3>7. QED
      BY <3>1, <3>5, <3>6
  <2>8. QED
    BY <1>h, <2>4, <2>7 DEF Explains
<1>3. lockdown' <=> \E i \in Lockdowns' : LastOf(Lockdowns' \cup LockdownLifts', i)
  <2>1. Lockdowns \in SUBSET (1..n) /\ LockdownLifts \in SUBSET (1..n)
    BY <1>1 DEF Lockdowns, LockdownLifts, Lifts
  <2>2. \A i : i \in Lockdowns' <=>
          (i \in Lockdowns \/ (i = n + 1 /\ c.accepted /\ c.type = "emergency_lockdown"))
    BY <1>1 DEF Lockdowns
  <2>3. \A i : i \in LockdownLifts' <=>
          (i \in LockdownLifts \/ (i = n + 1 /\ c.accepted /\ c.type = "lift_restriction" /\ c.lockdown))
    <3>1. \A i : i \in LockdownLifts' <=> (i \in Accepted' /\ commands'[i].type = "lift_restriction" /\ commands'[i].lockdown)
      BY Zenon DEF LockdownLifts, Lifts
    <3>2. \A i : i \in LockdownLifts <=> (i \in Accepted /\ commands[i].type = "lift_restriction" /\ commands[i].lockdown)
      BY Zenon DEF LockdownLifts, Lifts
    <3>3. ASSUME NEW i
          PROVE  i \in LockdownLifts' <=>
                   (i \in LockdownLifts \/ (i = n + 1 /\ c.accepted /\ c.type = "lift_restriction" /\ c.lockdown))
      <4>1. CASE i = n + 1
        <5>1. i \in Accepted' <=> c.accepted
          BY <1>1, <4>1
        <5>2. i \notin LockdownLifts
          BY <1>1, <3>2, <4>1
        <5>3. commands'[i] = c
          BY <1>1, <4>1
        <5>4. QED
          BY <3>1, <4>1, <5>1, <5>2, <5>3, Zenon
      <4>2. CASE i # n + 1
        <5>1. i \in Accepted' <=> i \in Accepted
          BY <1>1, <4>2
        <5>2. i \in Accepted => commands'[i] = commands[i]
          BY <1>1
        <5>3. QED
          BY <3>1, <3>2, <4>2, <5>1, <5>2, Zenon
      <4>3. QED
        BY <4>1, <4>2
    <3>4. QED
      BY <3>3
  <2>4. lockdown <=> \E i \in Lockdowns : LastOf(Lockdowns \cup LockdownLifts, i)
    BY <1>h DEF GuardianshipInv, RestrictionsExplained
  <2> DEFINE Imposed == c.accepted /\ c.type = "emergency_lockdown"
             Lifting == c.accepted /\ c.type = "lift_restriction" /\ c.lockdown
  <2>6. Imposed \in BOOLEAN /\ Lifting \in BOOLEAN /\ ~(Imposed /\ Lifting)
    OBVIOUS
  <2>7. (\E i \in Lockdowns' : LastOf(Lockdowns' \cup LockdownLifts', i)) <=>
          (Imposed \/ (~Lifting /\ \E i \in Lockdowns : LastOf(Lockdowns \cup LockdownLifts, i)))
    <3>1. PICK S, T, S2, T2 : S = Lockdowns /\ T = LockdownLifts /\ S2 = Lockdowns' /\ T2 = LockdownLifts'
      OBVIOUS
    <3>2. S \in SUBSET (1..n) /\ T \in SUBSET (1..n) /\ n + 1 \notin S /\ n + 1 \notin T
      BY <1>1, <2>1, <3>1
    <3>3. S2 = IF Imposed THEN S \cup {n + 1} ELSE S
      BY <2>2, <3>1
    <3>4. T2 = IF Lifting THEN T \cup {n + 1} ELSE T
      BY <2>3, <3>1
    <3>5. /\ S2 \in {S, S \cup {n + 1}} /\ T2 \in {T, T \cup {n + 1}} /\ (S2 = S \/ T2 = T)
          /\ (S2 # S) <=> Imposed
          /\ (T2 # T) <=> Lifting
      <4> HIDE DEF Imposed, Lifting
      <4>1. CASE Imposed
        BY <2>6, <3>2, <3>3, <3>4, <4>1
      <4>2. CASE Lifting
        BY <2>6, <3>2, <3>3, <3>4, <4>2
      <4>3. CASE ~Imposed /\ ~Lifting
        BY <3>3, <3>4, <4>3
      <4>4. QED
        BY <4>1, <4>2, <4>3
    <3>6. (\E i \in S2 : LastOf(S2 \cup T2, i)) <=>
            (S2 # S \/ (T2 = T /\ \E i \in S : LastOf(S \cup T, i)))
      <4>1. (/\ n \in Nat
             /\ S \in SUBSET (1..n) /\ T \in SUBSET (1..n)
             /\ S2 \in {S, S \cup {n + 1}} /\ T2 \in {T, T \cup {n + 1}}
             /\ S2 = S \/ T2 = T)
            => ((\E i \in S2 : LastOf(S2 \cup T2, i)) <=>
                 (S2 # S \/ (T2 = T /\ \E i \in S : LastOf(S \cup T, i))))
        BY LastOfOneMore
      <4>2. QED
        BY <1>1, <3>2, <3>5, <4>1
    <3>7. QED
      BY <3>1, <3>5, <3>6
  <2>8. QED
    BY <1>h, <2>4, <2>7 DEF Explains
<1>4. QED
  BY <1>2, <1>3 DEF RestrictionsExplained

LEMMA Recorded ==
  ASSUME NEW c \in Command
  PROVE  /\ GuardianshipInv /\ Record(c) /\ Explains(c)
         /\ restricted' \in [Kinds -> SUBSET Targets] /\ lockdown' \in BOOLEAN
         => GuardianshipInv'
<1>h. SUFFICES ASSUME GuardianshipInv, Record(c), Explains(c),
                      restricted' \in [Kinds -> SUBSET Targets], lockdown' \in BOOLEAN
               PROVE  GuardianshipInv'
  OBVIOUS
<1>1. commands' \in Seq(Command)
  BY <1>h DEF GuardianshipInv, GuardianshipTypeOK, Record
<1>2. GuardianshipTypeOK'
  BY <1>h, <1>1 DEF GuardianshipInv, GuardianshipTypeOK, Record
<1>3. RestrictionsExplained'
  BY <1>h, HistoryStep
<1>4. QED
  BY <1>2, <1>3 DEF GuardianshipInv

LEMMA ImposeStep ==
  ASSUME GuardianshipInv, NEW k \in Kinds, NEW t \in Targets, Impose(k, t)
  PROVE  GuardianshipInv'
<1>1. PICK c : c = [type |-> k, target |-> t, lockdown |-> FALSE, accepted |-> TRUE]
  OBVIOUS
<1>2. c \in Command /\ c.type = k /\ c.target = t /\ c.accepted = TRUE
  BY <1>1 DEF Command
<1>3. k # "lift_restriction" /\ k # "emergency_lockdown"
  BY DEF Kinds
<1>4. Record(c)
  BY <1>1 DEF Impose
<1>5. restricted' \in [Kinds -> SUBSET Targets] /\ lockdown' \in BOOLEAN
  BY DEF Impose, GuardianshipInv, GuardianshipTypeOK
<1>6. ASSUME NEW q \in Kinds, NEW u \in Targets
      PROVE  u \in restricted'[q] <=>
               (\/ c.accepted /\ c.type = q /\ c.target = u
                \/ u \in restricted[q] /\ ~(c.accepted /\ c.type = "lift_restriction" /\ c.target = u))
  <2>1. restricted'[q] = IF q = k THEN restricted[q] \cup {t} ELSE restricted[q]
    BY DEF Impose, GuardianshipInv, GuardianshipTypeOK
  <2>2. QED
    BY <1>2, <1>3, <2>1
<1>7. lockdown' <=>
        (\/ c.accepted /\ c.type = "emergency_lockdown"
         \/ lockdown /\ ~(c.accepted /\ c.type = "lift_restriction" /\ c.lockdown))
  <2>1. lockdown' = lockdown
    BY DEF Impose
  <2>2. QED
    BY <1>2, <1>3, <2>1
<1>8. Explains(c)
  BY <1>4, <1>6, <1>7 DEF Explains, Record
<1>9. QED
  BY <1>2, <1>4, <1>5, <1>8, Recorded

LEMMA LiftStep ==
  ASSUME GuardianshipInv, NEW t \in Targets, NEW b \in BOOLEAN, Lift(t, b)
  PROVE  GuardianshipInv'
<1>1. PICK c : c = [type |-> "lift_restriction", target |-> t, lockdown |-> b, accepted |-> TRUE]
  OBVIOUS
<1>2. c \in Command /\ c.type = "lift_restriction" /\ c.target = t /\ c.accepted = TRUE /\ c.lockdown = b
  BY <1>1 DEF Command
<1>3. "lift_restriction" \notin Kinds
  BY DEF Kinds
<1>4. Record(c)
  BY <1>1 DEF Lift
<1>5. restricted' \in [Kinds -> SUBSET Targets] /\ lockdown' \in BOOLEAN
  BY DEF Lift, Lifted, GuardianshipInv, GuardianshipTypeOK
<1>6. ASSUME NEW q \in Kinds, NEW u \in Targets
      PROVE  u \in restricted'[q] <=>
               (\/ c.accepted /\ c.type = q /\ c.target = u
                \/ u \in restricted[q] /\ ~(c.accepted /\ c.type = "lift_restriction" /\ c.target = u))
  <2>1. restricted'[q] = restricted[q] \ {t}
    BY DEF Lift, Lifted
  <2>2. QED
    BY <1>2, <1>3, <2>1
<1>7. lockdown' <=>
        (\/ c.accepted /\ c.type = "emergency_lockdown"
         \/ lockdown /\ ~(c.accepted /\ c.type = "lift_restriction" /\ c.lockdown))
  <2>1. lockdown' = (lockdown /\ ~b)
    BY DEF Lift
  <2>2. QED
    BY <1>2, <2>1
<1>8. Explains(c)
  BY <1>4, <1>6, <1>7 DEF Explains, Record
<1>9. QED
  BY <1>2, <1>4, <1>5, <1>8, Recorded

\* A command that neither restricts nor lifts anything, or that is refused.
LEMMA IdleCommand ==
  ASSUME NEW c \in Command,
         c.accepted = FALSE \/ c.type \in {"emergency_lockdown", "reclassify_memory"},
         GuardianshipInv, Record(c), UNCHANGED restricted, lockdown' \in BOOLEAN,
         lockdown' <=> ((c.accepted /\ c.type = "emergency_lockdown") \/ lockdown)
  PROVE  GuardianshipInv'
<1>1. restricted' \in [Kinds -> SUBSET Targets]
  BY DEF GuardianshipInv, GuardianshipTypeOK
<1>2. ~(c.accepted /\ c.type = "lift_restriction") /\ \A k \in Kinds : ~(c.accepted /\ c.type = k)
  BY DEF Kinds
<1>3. ASSUME NEW q \in Kinds, NEW u \in Targets
      PROVE  u \in restricted'[q] <=>
               (\/ c.accepted /\ c.type = q /\ c.target = u
                \/ u \in restricted[q] /\ ~(c.accepted /\ c.type = "lift_restriction" /\ c.target = u))
  BY <1>2
<1>4. lockdown' <=>
        (\/ c.accepted /\ c.type = "emergency_lockdown"
         \/ lockdown /\ ~(c.accepted /\ c.type = "lift_restriction" /\ c.lockdown))
  BY <1>2
<1>5. Explains(c)
  BY <1>3, <1>4 DEF Explains, Record
<1>6. QED
  BY <1>1, <1>5, Recorded

LEMMA OtherCommandStep ==
  ASSUME GuardianshipInv,
         \/ Lockdown \/ Reclassify
         \/ \E k \in Kinds \cup {"lift_restriction"}, t \in Targets, b \in BOOLEAN : Refuse(k, t, b)
  PROVE  GuardianshipInv'
<1>0. lockdown \in BOOLEAN
  BY DEF GuardianshipInv, GuardianshipTypeOK
<1>1. CASE Lockdown
  <2>1. PICK c : c = [type |-> "emergency_lockdown", accepted |-> TRUE]
    OBVIOUS
  <2>2. c \in Command /\ c.type = "emergency_lockdown" /\ c.accepted = TRUE
    BY <2>1 DEF Command
  <2>3. Record(c) /\ UNCHANGED restricted /\ lockdown' = TRUE
    BY <1>1, <2>1 DEF Lockdown
  <2>4. QED
    BY <2>2, <2>3, IdleCommand
<1>2. CASE Reclassify
  <2>1. PICK c : c = [type |-> "reclassify_memory", accepted |-> ~Refused("reclassify_memory")]
    OBVIOUS
  <2>2. c \in Command /\ c.type = "reclassify_memory"
    BY <2>1 DEF Command
  <2>3. Record(c) /\ UNCHANGED <<restricted, lockdown>>
    BY <1>2, <2>1 DEF Reclassify
  <2>4. QED
    BY <1>0, <2>2, <2>3, IdleCommand
<1>3. ASSUME NEW k \in Kinds \cup {"lift_restriction"}, NEW t \in Targets, NEW b \in BOOLEAN, Refuse(k, t, b)
      PROVE  GuardianshipInv'
  <2>1. PICK c : c = [type |-> k, target |-> t, lockdown |-> b, accepted |-> FALSE]
    OBVIOUS
  <2>2. c \in Command /\ c.accepted = FALSE
    BY <2>1 DEF Command
  <2>3. Record(c) /\ UNCHANGED <<restricted, lockdown>>
    BY <1>3, <2>1 DEF Refuse
  <2>4. QED
    BY <1>0, <2>2, <2>3, IdleCommand
<1>4. QED
  BY <1>1, <1>2, <1>3

\* Nothing but a command or a restart changes the history or what it explains.
LEMMA LevelStep ==
  ASSUME GuardianshipInv,
         \/ \E approval \in BOOLEAN, met \in BOOLEAN : Transition(approval, met)
         \/ UpdateIdentity \/ UNCHANGED guardianshipVars
  PROVE  GuardianshipInv'
<1>1. UNCHANGED <<restricted, lockdown, commands, agentRestarts>>
  BY DEF Transition, UpdateIdentity, guardianshipVars
<1>2. GuardianshipTypeOK'
  <2>0. level \in 0..3 /\ savedLevel \in 0..3 /\ signed \in BOOLEAN
    BY DEF GuardianshipInv, GuardianshipTypeOK
  <2>1. level' \in 0..3 /\ savedLevel' \in 0..3 /\ signed' \in BOOLEAN
    <3>1. CASE \E approval \in BOOLEAN, met \in BOOLEAN : Transition(approval, met)
      <4>1. level < 3 /\ level' = level + 1 /\ signed' = FALSE /\ savedLevel' = savedLevel
        BY <3>1, Zenon DEF Transition
      <4>2. level' \in 0..3
        BY <2>0, <4>1
      <4>3. savedLevel' \in 0..3 /\ signed' \in BOOLEAN
        BY <2>0, <4>1
      <4>4. QED
        BY <4>2, <4>3
    <3>2. CASE UpdateIdentity \/ UNCHANGED guardianshipVars
      BY <2>0, <3>2 DEF UpdateIdentity, guardianshipVars
    <3>3. QED
      BY <3>1, <3>2
  <2>2. QED
    BY <1>1, <2>1 DEF GuardianshipInv, GuardianshipTypeOK
<1>3. RestrictionsExplained'
  <2>1. Accepted' = Accepted
    BY <1>1 DEF Accepted
  <2>2. Lockdowns' = Lockdowns /\ LockdownLifts' = LockdownLifts
    BY <1>1, <2>1 DEF Lockdowns, LockdownLifts, Lifts
  <2>3. ASSUME NEW k \in Kinds, NEW t \in Targets
        PROVE  t \in restricted'[k] <=>
                 \E i \in Restricts(k, t)' : LastOf(Restricts(k, t)' \cup LiftsOf(t)', i)
    <3>1. Restricts(k, t)' = Restricts(k, t) /\ LiftsOf(t)' = LiftsOf(t)
      BY <1>1, <2>1 DEF Restricts, LiftsOf, Lifts
    <3>2. QED
      BY <1>1, <3>1 DEF GuardianshipInv, RestrictionsExplained
  <2>4. QED
    BY <1>1, <2>2, <2>3 DEF GuardianshipInv, RestrictionsExplained
<1>4. QED
  BY <1>2, <1>3 DEF GuardianshipInv

LEMMA RestartAgentStep ==
  ASSUME GuardianshipInv, RestartAgent
  PROVE  GuardianshipInv'
<1>1. restricted' \in [Kinds -> SUBSET Targets]
  BY DEF RestartAgent, NoRestriction
<1>2. commands' \in Seq(Command) /\ DOMAIN commands' = {}
  BY DEF RestartAgent
<1>3. agentRestarts' \in 0..MaxAgentRestarts
  BY GuardianshipAssumption
     DEF GuardianshipAssumption, RestartAgent, GuardianshipInv, GuardianshipTypeOK
<1>4. GuardianshipTypeOK'
  BY <1>1, <1>2, <1>3 DEF RestartAgent, GuardianshipInv, GuardianshipTypeOK
<1>5. Accepted' = {}
  BY <1>2 DEF Accepted
<1>6. ASSUME NEW k \in Kinds, NEW t \in Targets
      PROVE  t \in restricted'[k] <=>
               \E i \in Restricts(k, t)' : LastOf(Restricts(k, t)' \cup LiftsOf(t)', i)
  <2>1. Restricts(k, t)' = {}
    BY <1>5 DEF Restricts
  <2>2. t \notin restricted'[k]
    BY DEF RestartAgent, NoRestriction
  <2>3. QED
    BY <2>1, <2>2
<1>7. Lockdowns' = {} /\ lockdown' = FALSE
  BY <1>5 DEF RestartAgent, Lockdowns
<1>8. RestrictionsExplained'
  BY <1>6, <1>7 DEF RestrictionsExplained
<1>9. QED
  BY <1>4, <1>8 DEF GuardianshipInv

LEMMA GuardianshipInvStep ==
  ASSUME GuardianshipInv, [GuardianshipNext]_guardianshipVars
  PROVE  GuardianshipInv'
BY ImposeStep, LiftStep, OtherCommandStep, LevelStep, RestartAgentStep DEF GuardianshipNext

\* One step of the guardian's handlers obeys the boundaries by level.
LEMMA ObeysNoOneStep ==
  ASSUME GuardianshipInv, [GuardianshipNext]_guardianshipVars,
         level = 3, restricted' # restricted \/ (lockdown /\ ~lockdown')
  PROVE  agentRestarts' # agentRestarts
<1>1. agentRestarts \in Nat
  BY GuardianshipAssumption DEF GuardianshipAssumption, GuardianshipInv, GuardianshipTypeOK
<1>2. ASSUME NEW k \in Kinds, NEW t \in Targets, Impose(k, t) PROVE FALSE
  BY <1>2 DEF Impose, Refused, Kinds
<1>3. ASSUME NEW t \in Targets, NEW b \in BOOLEAN, Lift(t, b) PROVE FALSE
  BY <1>3 DEF Lift, Refused
<1>4. CASE RestartAgent
  BY <1>1, <1>4 DEF RestartAgent
<1>5. CASE Lockdown \/ Reclassify \/ UNCHANGED guardianshipVars
  BY <1>5 DEF Lockdown, Reclassify, guardianshipVars
<1>6. ASSUME NEW k \in Kinds \cup {"lift_restriction"}, NEW t \in Targets, NEW b \in BOOLEAN, Refuse(k, t, b)
      PROVE  FALSE
  BY <1>6 DEF Refuse
<1>7. CASE UpdateIdentity \/ \E approval \in BOOLEAN, met \in BOOLEAN : Transition(approval, met)
  BY <1>7 DEF UpdateIdentity, Transition
<1>8. QED
  BY <1>2, <1>3, <1>4, <1>5, <1>6, <1>7 DEF GuardianshipNext

-----------------------------------------------------------------------------
(***************************************************************************)
(* The values.                                                             *)
(***************************************************************************)
ValueEntry == [layer : Layers, strength : 1..Full]

HeldFine(values) ==
  /\ values = [n \in AllNames |-> values[n]]
  /\ \A n \in ProtocolNames : values[n] = Protocol
  /\ \A n \in ValueNames : values[n] \in ValueEntry \cup {NotHeld}

ValuesInv ==
  /\ HeldFine(held)
  /\ savedValues # NothingSaved => HeldFine(savedValues.values)
  /\ experiences \in 0..MaxExperiences

LEMMA ValuesTypes ==
  ValuesInv => ValuesTypeOK
<1> SUFFICES ASSUME ValuesInv PROVE ValuesTypeOK
  OBVIOUS
<1>1. ASSUME NEW n \in ValueNames \cap Held
      PROVE held[n].layer \in Layers /\ held[n].strength \in 1..Full
  <2>1. held[n] \in ValueEntry
    BY <1>1, Zenon DEF ValuesInv, HeldFine, Held
  <2> QED BY <2>1 DEF ValueEntry
<1> QED BY <1>1, Zenon DEF ValuesTypeOK, ValuesInv, HeldFine

LEMMA BornFine == HeldFine(Born)
<1>1. Born = [n \in AllNames |-> Born[n]]
  BY DEF Born
<1>2. \A n \in ProtocolNames : Born[n] = Protocol
  BY Zenon DEF Born, AllNames
<1>3. \A n \in ValueNames : Born[n] = NotHeld
  BY ValuesAssumption DEF Born, AllNames
<1> QED BY <1>1, <1>2, <1>3, Zenon DEF HeldFine

LEMMA GrownBounded ==
  ASSUME NEW s \in 1..Full, NEW amount \in 0..1000
  PROVE  Grown(s, amount) \in 1..Full
<1>1. s \in Nat /\ amount \in Nat /\ Full - s \in Nat /\ s >= 1
  BY DEF Full
<1>2. amount * (Full - s) \in Nat
  BY <1>1
<1>3. PICK product : product = amount * (Full - s)
  OBVIOUS
<1>4. product \div 1000 \in Nat
  BY <1>2, <1>3
<1> QED BY <1>1, <1>3, <1>4 DEF Grown, Least, Full

LEMMA ShakenBounded ==
  ASSUME NEW v \in ValueEntry, NEW amount \in 0..1000
  PROVE  Shaken(v, amount) \in 0..Full
<1>1. v.strength \in 1..Full /\ v.layer \in Layers
  BY DEF ValueEntry
<1>2. Yielding(v.layer) \in Nat
  BY <1>1 DEF Yielding, Layers
<1>3. PICK tenths : tenths = amount * Yielding(v.layer)
  OBVIOUS
<1>4. tenths \in Nat
  BY <1>2, <1>3
<1>5. tenths \div 10 \in Nat
  BY <1>4
<1>6. PICK lost : lost = tenths \div 10
  OBVIOUS
<1>7. PICK s : s = v.strength
  OBVIOUS
<1>8. Shaken(v, amount) = IF 0 > s - lost THEN 0 ELSE s - lost
  BY <1>3, <1>6, <1>7 DEF Shaken, Most
<1>9. s \in 1..Full /\ lost \in Nat /\ Full = 1000
  BY <1>1, <1>5, <1>6, <1>7 DEF Full
<1>10. CASE 0 > s - lost
  BY <1>8, <1>9, <1>10
<1>11. CASE ~(0 > s - lost)
  <2>1. s - lost \in 0..Full
    BY <1>9, <1>11
  <2> QED BY <1>8, <1>11, <2>1
<1> QED BY <1>10, <1>11

\* What happens to one value that is not the protocol's.
LEMMA ValueReplaced ==
  ASSUME HeldFine(held), NEW n \in AllNames, n \notin ProtocolNames,
         NEW v \in ValueEntry \cup {NotHeld}, held' = [held EXCEPT ![n] = v]
  PROVE  HeldFine(held')
<1>1. held' = [m \in AllNames |-> held'[m]] /\ \A m \in AllNames : held'[m] = IF m = n THEN v ELSE held[m]
  BY DEF HeldFine
<1>2. \A m \in ProtocolNames : held'[m] = Protocol
  BY <1>1 DEF HeldFine, AllNames
<1>3. \A m \in ValueNames : held'[m] \in ValueEntry \cup {NotHeld}
  BY <1>1 DEF HeldFine, AllNames
<1> QED BY <1>1, <1>2, <1>3, Zenon DEF HeldFine

LEMMA StrengthReplaced ==
  ASSUME NEW v \in ValueEntry, NEW s \in 1..Full
  PROVE  [v EXCEPT !.strength = s] \in ValueEntry
<1> QED BY DEF ValueEntry

LEMMA NotTheProtocols ==
  ASSUME HeldFine(held), NEW n \in Held, held[n].layer # "protocol"
  PROVE  n \in AllNames /\ n \notin ProtocolNames /\ held[n] \in ValueEntry
<1>1. n \in AllNames /\ held[n] # NotHeld
  BY DEF Held
<1>2. n \notin ProtocolNames
  BY DEF HeldFine, Protocol
<1> QED BY <1>1, <1>2, Zenon DEF AllNames, HeldFine

LEMMA ValuesInvInit ==
  ASSUME ValuesInit
  PROVE  ValuesInv
<1>1. experiences \in 0..MaxExperiences
  BY ValuesAssumption DEF ValuesInit
<1> QED BY <1>1, BornFine, Zenon DEF ValuesInit, ValuesInv

LEMMA ValuesInvStep ==
  ASSUME ValuesInv, [ValuesNext]_valuesVars
  PROVE  ValuesInv'
<1>f. HeldFine(held) /\ (savedValues # NothingSaved => HeldFine(savedValues.values))
      /\ experiences \in 0..MaxExperiences
  BY DEF ValuesInv
<1>e. ASSUME Experience, HeldFine(held') PROVE ValuesInv'
  <2>1. experiences' \in 0..MaxExperiences /\ savedValues' = savedValues
    BY <1>e, <1>f, ValuesAssumption DEF Experience
  <2> QED BY <1>e, <1>f, <2>1 DEF ValuesInv
<1>1. ASSUME NEW n \in AllNames, NEW amount \in Reinforcements, Reinforce(n, amount)
      PROVE ValuesInv'
  <2>1. n \in AllNames /\ n \notin ProtocolNames /\ held[n] \in ValueEntry
    BY <1>1, <1>f, NotTheProtocols DEF Reinforce
  <2>2. held[n].strength \in 1..Full /\ amount \in 0..1000
    BY <2>1, ValuesAssumption DEF ValueEntry
  <2>3. PICK v : v = [held[n] EXCEPT !.strength = Grown(held[n].strength, amount)]
    OBVIOUS
  <2>4. v \in ValueEntry
    BY <2>1, <2>2, <2>3, GrownBounded, StrengthReplaced
  <2>5. held' = [held EXCEPT ![n].strength = Grown(held[n].strength, amount)]
    BY <1>1 DEF Reinforce
  <2>6. held' = [held EXCEPT ![n] = v]
    BY <2>3, <2>5, Zenon
  <2>7. HeldFine(held')
    BY <1>f, <2>1, <2>4, <2>6, ValueReplaced
  <2> QED BY <1>1, <1>e, <2>7 DEF Reinforce
<1>2. ASSUME NEW n \in AllNames, NEW amount \in Challenges, ChallengeValue(n, amount)
      PROVE ValuesInv'
  <2>1. n \in AllNames /\ n \notin ProtocolNames /\ held[n] \in ValueEntry
    BY <1>2, <1>f, NotTheProtocols DEF ChallengeValue
  <2>2. amount \in 0..1000
    BY ValuesAssumption
  <2>3. PICK s : s = Shaken(held[n], amount)
    OBVIOUS
  <2>4. s \in 0..Full
    BY <2>1, <2>2, <2>3, ShakenBounded
  <2>5. AfterChallenge(n, amount) = IF s = 0 THEN NotHeld ELSE [held[n] EXCEPT !.strength = s]
    BY <2>3 DEF AfterChallenge
  <2>6. s # 0 => s \in 1..Full
    BY <2>4 DEF Full
  <2>7. s # 0 => [held[n] EXCEPT !.strength = s] \in ValueEntry
    BY <2>1, <2>6, StrengthReplaced
  <2>8. AfterChallenge(n, amount) \in ValueEntry \cup {NotHeld}
    BY <2>5, <2>7
  <2>9. held' = [held EXCEPT ![n] = AfterChallenge(n, amount)]
    BY <1>2 DEF ChallengeValue
  <2>10. HeldFine(held')
    BY <1>f, <2>1, <2>8, <2>9, ValueReplaced
  <2> QED BY <1>2, <1>e, <2>10 DEF ChallengeValue
<1>3. ASSUME NEW n \in AllNames, NEW layer \in Layers, Internalize(n, layer)
      PROVE ValuesInv'
  <2>1. held[n] = NotHeld
    BY <1>3 DEF Internalize, Held
  <2>2. n \notin ProtocolNames
    BY <1>f, <2>1, NotHeldAssumption DEF HeldFine
  <2>3. [layer |-> layer, strength |-> FirstStrength(layer)] \in ValueEntry
    BY DEF ValueEntry, FirstStrength, Layers, Full
  <2>4. held' = [held EXCEPT ![n] = [layer |-> layer, strength |-> FirstStrength(layer)]]
    BY <1>3 DEF Internalize
  <2>5. HeldFine(held')
    BY <1>f, <2>2, <2>3, <2>4, ValueReplaced
  <2> QED BY <1>3, <1>e, <2>5 DEF Internalize
<1>4. ASSUME SaveValues
      PROVE ValuesInv'
  <2>1. savedValues'.values = held
    BY <1>4 DEF SaveValues
  <2>2. held' = held /\ experiences' = experiences
    BY <1>4 DEF SaveValues
  <2> QED BY <1>f, <2>1, <2>2, Zenon DEF ValuesInv
<1>5. ASSUME RestartAgentValues
      PROVE ValuesInv'
  <2>1. held' = Born /\ savedValues' = savedValues /\ experiences' = experiences
    BY <1>5 DEF RestartAgentValues
  <2> QED BY <1>f, <2>1, BornFine, Zenon DEF ValuesInv
<1>6. ASSUME RestoreValues
      PROVE ValuesInv'
  <2>1. /\ savedValues # NothingSaved /\ savedValues' = savedValues /\ experiences' = experiences
        /\ held' = [n \in AllNames |-> IF n \in ProtocolNames THEN held[n] ELSE savedValues.values[n]]
    BY <1>6, Zenon DEF RestoreValues
  <2>2. held' = [n \in AllNames |-> held'[n]]
    BY <2>1
  <2>3. \A n \in ProtocolNames : held'[n] = Protocol
    BY <1>f, <2>1 DEF HeldFine, AllNames
  <2>4. \A n \in ValueNames : held'[n] \in ValueEntry \cup {NotHeld}
    BY <1>f, <2>1, ValuesAssumption DEF HeldFine, AllNames
  <2>5. HeldFine(held')
    BY <2>2, <2>3, <2>4, Zenon DEF HeldFine
  <2> QED BY <1>f, <2>1, <2>5, Zenon DEF ValuesInv
<1>7. ASSUME UNCHANGED valuesVars
      PROVE ValuesInv'
  BY <1>7, <1>f, Zenon DEF valuesVars, ValuesInv
<1> QED
  BY <1>1, <1>2, <1>3, <1>4, <1>5, <1>6, <1>7 DEF ValuesNext

-----------------------------------------------------------------------------
(***************************************************************************)
(* The parts together.  Every step of one leaves the others alone.         *)
(***************************************************************************)
AgentInv ==
  /\ BridgeInv /\ SchedulerInv /\ PipelineInv
  /\ PersonaInv /\ GuardianshipInv /\ ValuesInv

LEMMA AgentSteps ==
  [AgentNext]_agentVars =>
    /\ [BridgeNext]_bridgeVars /\ [SchedulerNext]_schedulerVars /\ [PipelineNext]_pipelineVars
    /\ [PersonaNext]_personaVars /\ [GuardianshipNext]_guardianshipVars /\ [ValuesNext]_valuesVars
BY Zenon DEF AgentNext, agentVars, InBridge, InScheduler, InPipeline, InPersona, InGuardianship, InValues

LEMMA AgentInvariant == Spec => []AgentInv
<1>1. AgentInit => AgentInv
  BY BridgeInvInit, SchedulerInvInit, PipelineInvInit, PersonaInvInit, GuardianshipInvInit, ValuesInvInit,
     Zenon DEF AgentInit, AgentInv
<1>2. AgentInv /\ [AgentNext]_agentVars => AgentInv'
  BY AgentSteps, BridgeInvStep, SchedulerInvStep, PipelineInvStep, PersonaInvStep, GuardianshipInvStep,
     ValuesInvStep, Zenon DEF AgentInv
<1>3. QED
  BY <1>1, <1>2, PTL DEF Spec

\* The state of each part keeps its shape; the protocol's values are held in full
\* whatever reinforces, challenges, saves and restores the others (InternalizedValues).
THEOREM TypeCorrect == Spec => []TypeOK
<1>1. AgentInv => TypeOK
  BY SchedulerTypes, ValuesTypes, Zenon
     DEF AgentInv, BridgeInv, PipelineInv, PersonaInv, GuardianshipInv, TypeOK
<1>2. QED
  BY <1>1, AgentInvariant, PTL

\* What the bridge's handler exchanged is in the current period, in one report or
\* among the guardian's messages, for any number of messages, reports and
\* restarts, however late a delivery ends (generateHomecomingReport).
THEOREM AccountedForOnce == Spec => []AccountedOnce
BY AgentInvariant, PTL DEF AgentInv, BridgeInv

\* For any cap and any number of calls and cycles under way, over any change of
\* day: the cap is exceeded by no more than what was waiting beside it
\* (messagePeer, runDiscoveryCycle).
THEOREM CapOvershoot == Spec => []OvershootBounded
BY AgentInvariant, PTL DEF AgentInv, BridgeInv

\* A task's count is that of its runs since its start, for any number of runs that
\* overlap, fail and outlive stops and new starts (startTask).
THEOREM RunsCounted == Spec => []CountsOwnRuns
BY AgentInvariant, PTL DEF AgentInv, SchedulerInv

\* A thought is repeated only when reflections overlapped, for any number of
\* subjects and runs (ReflectionEngine.reflect).
THEOREM ThoughtOnce == Spec => []RepeatsNeedOverlap
<1>1. AgentInv => RepeatsNeedOverlap
  BY SchedulerTypes DEF AgentInv
<1>2. QED
  BY <1>1, AgentInvariant, PTL

\* Nothing without a source is published, for any number of drafts and however
\* their syntheses, reviews and publications interleave (review, publish).
THEOREM SourcesBeforePublication == Spec => []PublishedIsSourced
BY AgentInvariant, PTL DEF AgentInv, PipelineInv

\* For any policies, and whatever changed since the export: every place of a served
\* persona, its memory sections, growth and identity, goes only to those whom the
\* lists, the default and the section's policy let in, and a memory section only as
\* the exported memory's visibility lets it out; the allow list gets everything but
\* confidential memories (exportPersona, processPersonaRequest).
THEOREM SharedAsMeant == Spec => []ServedAsMeant
BY AgentInvariant, PTL DEF AgentInv, PersonaInv

\* The restrictions in force are what the history of commands says, for any
\* number of commands, targets and rises of the level; none expires, as the code
\* never reads a command's expiresAt (getActiveRestrictions).
THEOREM RestrictionsTraceable == Spec => []RestrictionsExplained
BY AgentInvariant, PTL DEF AgentInv, GuardianshipInv

\* At the highest level of autonomy no command of the guardian changes a
\* restriction or ends a lockdown (the boundaries by level).
THEOREM IndependenceHolds == Spec => IndependentsObeyNoOne
<1>1. AgentInv /\ [AgentNext]_agentVars =>
        [level = 3 /\ (restricted' # restricted \/ (lockdown /\ ~lockdown')) =>
           agentRestarts' # agentRestarts]_guardianshipVars
  BY AgentSteps, ObeysNoOneStep, Zenon DEF AgentInv
<1>2. QED
  BY <1>1, AgentInvariant, PTL DEF Spec, IndependentsObeyNoOne

=============================================================================
