---------------------------- MODULE AnomalyGossip ----------------------------
(***************************************************************************)
(* Nodes share anomaly reports: a node lists the reports it would forward, *)
(* and peers post copies of them to others                                 *)
(* (maip-node/src/handlers/anomaly-sharing-core.ts).                       *)
(*                                                                         *)
(* A node keeps the last ReportsKept reports, in memory, and knows what it *)
(* has seen only by that list.  Whoever carries reports between nodes is   *)
(* not in this code: a copy may be delayed and posted any number of times. *)
(*                                                                         *)
(* Abstracted: a report is its number, its reporter and its subject;       *)
(* severity and type are carried along unread (assessThreat only reads).   *)
(***************************************************************************)
EXTENDS Naturals, Sequences, SequencesExt

CONSTANTS GossipNodes,
          MaxHops,       \* maxHops, 3 by default
          ReportsKept,   \* 1000 in the code
          Reports,       \* bound: the reports ever created
          MaxPosts       \* bound: copies accepted

ASSUME AnomalyGossipAssumption ==
  MaxHops \in Nat /\ ReportsKept \in Nat \ {0} /\ MaxPosts \in Nat

VARIABLES sharedReports,   \* what each node keeps, oldest first
          created,         \* the reports created so far
          copies,          \* what was ever listed for forwarding
          forgotten,       \* reports that fell out of a node's list
          posts            \* copies accepted so far

gossipVars == <<sharedReports, created, copies, forgotten, posts>>

SharedReport == [id: Reports, subject: GossipNodes, hops: 0..MaxHops, seenBy: Seq(GossipNodes)]

GossipInit ==
  /\ sharedReports = [n \in GossipNodes |-> <<>>]
  /\ created = {} /\ copies = {}
  /\ forgotten = {}
  /\ posts = 0

Holds(n, id) == \E i \in DOMAIN sharedReports[n] : sharedReports[n][i].id = id

\* getPendingForwards: what the list offers to whoever asks, now or later.
Pending(reports) == {r \in ToSet(reports) : r.hops < MaxHops}

Bounded(reports) ==
  IF Len(reports) > ReportsKept
  THEN SubSeq(reports, Len(reports) - ReportsKept + 1, Len(reports))
  ELSE reports

Keeps(n, reports) ==
  /\ sharedReports' = [sharedReports EXCEPT ![n] = reports]
  /\ copies' = copies \cup Pending(reports)
  /\ forgotten' = forgotten \cup
       {<<n, id>> : id \in {r.id : r \in ToSet(sharedReports[n])} \ {r.id : r \in ToSet(reports)}}

\* createAnomalyReport: the list may exceed its bound until the next arrival.
Create(n, id, subject) ==
  /\ id \notin created
  /\ created' = created \cup {id}
  /\ Keeps(n, Append(sharedReports[n], [id |-> id, subject |-> subject, hops |-> 0, seenBy |-> <<n>>]))
  /\ UNCHANGED posts

\* Mutation: a report is new if its hops are.
AcceptsOther(n, r) ==
  /\ ~\E i \in DOMAIN sharedReports[n] : sharedReports[n][i] = r
  /\ r.hops < MaxHops
  /\ r.subject # n

\* receiveAnomalyReport: not seen, not spent, and about somebody else.
Accepts(n, r) ==
  /\ ~Holds(n, r.id)
  /\ r.hops < MaxHops
  /\ r.subject # n

Arrived(n, r) ==
  [id |-> r.id, subject |-> r.subject, hops |-> r.hops + 1, seenBy |-> Append(r.seenBy, n)]

ReceiveReport(n, r) ==
  /\ posts < MaxPosts
  /\ Accepts(n, r)
  /\ posts' = posts + 1
  /\ Keeps(n, Bounded(Append(sharedReports[n], Arrived(n, r))))
  /\ UNCHANGED created

GossipNext ==
  \/ \E n, subject \in GossipNodes, id \in Reports : Create(n, id, subject)
  \/ \E n \in GossipNodes, r \in copies : ReceiveReport(n, r)

-----------------------------------------------------------------------------
\* The lists are well formed, without duplicates.
GossipTypeOK ==
  /\ \A n \in GossipNodes :
       /\ sharedReports[n] \in Seq(SharedReport)
       /\ IsInjective([i \in DOMAIN sharedReports[n] |-> sharedReports[n][i].id])
  /\ copies \subseteq SharedReport
  /\ created \subseteq Reports

\* A report comes back to a node only if the node has forgotten it: the list
\* alone keeps reports out of loops.
LoopsNeedForgetting ==
  \A r \in copies : \A i, j \in DOMAIN r.seenBy :
    i < j /\ r.seenBy[i] = r.seenBy[j] => <<r.seenBy[i], r.id>> \in forgotten

=============================================================================
