--------------------------- MODULE IsolationBallot ---------------------------
(***************************************************************************)
(* What network isolation promises, one isolation record at a time.        *)
(*                                                                         *)
(* A record is unused, then "active" (its DID is shut out), and may be     *)
(* contested: while it is "appealed" the registries that did not flag it   *)
(* hold one ballot, and the ballot alone closes the appeal, as soon as a   *)
(* third registry has voted.  A majority to lift is final.                 *)
(*                                                                         *)
(* The registry node keeps this in two stores (records, appeals) that it   *)
(* writes one after the other; module Isolation shows that the pair        *)
(* behaves like the single ballot box below.                               *)
(***************************************************************************)
EXTENDS Naturals, FiniteSets

CONSTANTS Records,      \* identifiers of isolation records
          Registries,   \* registry nodes that flag and review
          Quorum        \* votes that close an appeal

VARIABLES status,       \* Records -> the life of the record
          flaggers,     \* Records -> the registries that flagged it
          ballot        \* Records -> (Registries -> vote) of the open appeal

bvars == <<status, flaggers, ballot>>

Choices == {"none", "uphold", "lift"}
NoVotes == [r \in Registries |-> "none"]
Cast(b) == {r \in Registries : b[r] # "none"}
Lifts(b) == {r \in Registries : b[r] = "lift"}

\* Half of the votes is enough to lift: ceil(n / 2).
Lifted(b) == 2 * Cardinality(Lifts(b)) >= Cardinality(Cast(b))

BallotInit ==
  /\ status = [i \in Records |-> "none"]
  /\ flaggers = [i \in Records |-> {}]
  /\ ballot = [i \in Records |-> NoVotes]

Open(i, r) ==
  /\ status[i] = "none"
  /\ status' = [status EXCEPT ![i] = "active"]
  /\ flaggers' = [flaggers EXCEPT ![i] = {r}]
  /\ UNCHANGED ballot

Join(i, r) ==
  /\ status[i] = "active"
  /\ flaggers' = [flaggers EXCEPT ![i] = @ \cup {r}]
  /\ UNCHANGED <<status, ballot>>

Contest(i) ==
  /\ status[i] = "active"
  /\ status' = [status EXCEPT ![i] = "appealed"]
  /\ UNCHANGED <<flaggers, ballot>>

CastVote(i, r, v) ==
  LET b == [ballot[i] EXCEPT ![r] = v] IN
  /\ status[i] = "appealed"
  /\ r \notin flaggers[i]
  /\ UNCHANGED flaggers
  /\ IF Cardinality(Cast(b)) < Quorum
     THEN /\ ballot' = [ballot EXCEPT ![i] = b]
          /\ UNCHANGED status
     ELSE /\ ballot' = [ballot EXCEPT ![i] = NoVotes]
          /\ status' = [status EXCEPT ![i] = IF Lifted(b) THEN "lifted" ELSE "active"]

BallotNext ==
  \E i \in Records :
    \/ Contest(i)
    \/ \E r \in Registries : Open(i, r) \/ Join(i, r)
    \/ \E r \in Registries, v \in {"uphold", "lift"} : CastVote(i, r, v)

BallotSpec == BallotInit /\ [][BallotNext]_bvars

=============================================================================
