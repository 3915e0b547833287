--------------------------- MODULE FactVerification ---------------------------
(***************************************************************************)
(* Claims a node collects and gives verdicts on                            *)
(* (maip-node/src/handlers/fact-verification-core.ts), in memory.          *)
(*                                                                         *)
(* A claim is filed under a hash of its text, which two texts may share.   *)
(* Every verdict is the node's own: no operation takes one from elsewhere. *)
(* A verdict's confidence is in halves, 1 by default; the aggregate is in  *)
(* hundredths.                                                             *)
(***************************************************************************)
EXTENDS Integers, Sequences, Folds

CONSTANTS Texts,         \* what is claimed
          Hash,          \* hashString of every text
          NoText,        \* what is filed under an unused hash
          Node,          \* the DID of this node
          Confidences,   \* what a verdict may weigh
          MinVerdicts,   \* minVerifications
          MaxVerdicts    \* bound: verdicts on a claim

ASSUME FactsAssumption ==
  NoText \notin Texts /\ Confidences \subseteq Nat /\ MinVerdicts \in Nat \ {0, 1} /\ MaxVerdicts \in Nat

VARIABLE facts   \* factClaims of this node, by hash

factVars == <<facts>>

Hashes == {Hash[t] : t \in Texts}
Verdicts == {"confirms", "disputes", "uncertain"}
Verification == [verifierDid: {Node}, verdict: Verdicts, confidence: Nat]
Settled == {"verified", "disputed", "debunked"}

NoClaim == [claim |-> NoText, verifications |-> <<>>, aggregateConfidence |-> 50, status |-> "none"]

FactsInit == facts = [h \in Hashes |-> NoClaim]

NewClaim(t) == [claim |-> t, verifications |-> <<>>, aggregateConfidence |-> 50, status |-> "pending"]

\* submitFactClaim: of two texts with one hash the first is kept, and answered.
SubmitFact(t) ==
  /\ facts[Hash[t]].status = "none"
  /\ facts' = [facts EXCEPT ![Hash[t]] = NewClaim(t)]

Summed(f) == MapThenFoldSet(+, 0, LAMBDA i : f[i], LAMBDA S : CHOOSE i \in S : TRUE, DOMAIN f)

Weights(vs) == [i \in DOMAIN vs |-> vs[i].confidence]
HalvesFor(vs) == [i \in DOMAIN vs |->
  CASE vs[i].verdict = "confirms" -> 2 * vs[i].confidence
    [] vs[i].verdict = "uncertain" -> vs[i].confidence
    [] vs[i].verdict = "disputes" -> 0]

\* updateAggregateConfidence: the weighted mean, rounded, or one half.
Aggregate(vs) ==
  LET total == Summed(Weights(vs)) IN
  IF total = 0 THEN 50 ELSE (100 * Summed(HalvesFor(vs)) + total) \div (2 * total)

\* updateAggregateConfidence: a claim settles with its second verdict.
Status(vs) ==
  IF Len(vs) < MinVerdicts THEN "pending"
  ELSE IF Aggregate(vs) >= 70 THEN "verified"
  ELSE IF Aggregate(vs) <= 30 THEN "debunked" ELSE "disputed"

\* Mutation: a verifier may change its mind.
MayVerifyAgain(h) == facts[h].status # "none"

MayVerify(h) ==
  /\ facts[h].status # "none"
  /\ \A i \in DOMAIN facts[h].verifications : facts[h].verifications[i].verifierDid # Node

\* verifyFactClaim.
VerifyFact(h, verdict, confidence) ==
  LET vs == Append(facts[h].verifications,
                   [verifierDid |-> Node, verdict |-> verdict, confidence |-> confidence])
  IN  /\ MayVerify(h)
      /\ Len(vs) <= MaxVerdicts
      /\ facts' = [facts EXCEPT ![h].verifications = vs,
                                ![h].aggregateConfidence = Aggregate(vs),
                                ![h].status = Status(vs)]

ForgetFacts == facts' = [h \in Hashes |-> NoClaim]

FactsNext ==
  \/ \E t \in Texts : SubmitFact(t)
  \/ \E h \in Hashes, verdict \in Verdicts, confidence \in Confidences : VerifyFact(h, verdict, confidence)
  \/ ForgetFacts

-----------------------------------------------------------------------------
(* Properties. *)

FactsTypeOK ==
  facts \in [Hashes -> [claim: Texts \cup {NoText}, verifications: Seq(Verification),
                        aggregateConfidence: Int, status: {"none", "pending"} \cup Settled]]

\* No node settles a claim alone.  A claim is verified, disputed or debunked by
\* two verdicts, a verifier gives one, and the node records none but its own: so
\* whatever it is asked, whichever texts share a hash and whatever it has
\* forgotten, nothing it holds is settled (minVerifications, the test for
\* verifierDid).
NobodySettlesAlone == \A h \in Hashes : facts[h].status \notin Settled

=============================================================================
