--------------------------- MODULE ContentPipeline ---------------------------
(***************************************************************************)
(* The agent's content pipeline (maip-agent/src/content-pipeline.ts):      *)
(* drafts are gathered, synthesized, reviewed and published.  A synthesis  *)
(* awaits a model, and the stages may be called in any order meanwhile.    *)
(*                                                                         *)
(* Abstracted: of the sources and of the text a draft keeps the points     *)
(* they are worth in a review (two each: enough sources and two domains;   *)
(* enough text and an analysis).  The default criteria apply.              *)
(***************************************************************************)
EXTENDS Naturals, Sequences

CONSTANTS MaxDrafts,       \* bound: drafts
          MaxSyntheses,    \* bound: syntheses
          MaxPublished     \* bound: what is published

ASSUME PipelineAssumption ==
  MaxDrafts \in Nat /\ MaxSyntheses \in Nat /\ MaxPublished \in Nat

VARIABLES drafts,
          syntheses,    \* the draft of each synthesis, and whether it is under way
          published     \* the drafts published, as often as they are

pipelineVars == <<drafts, syntheses, published>>

Draft == [stage : {"gathering", "synthesizing", "reviewing", "published", "rejected"},
          sources : 0..2, text : 0..2, score : 0..4]

PipelineInit == drafts = <<>> /\ syntheses = <<>> /\ published = <<>>

-----------------------------------------------------------------------------
\* gather: the draft appears once all adapters have answered or failed.
Gather(sources) ==
  /\ Len(drafts) < MaxDrafts
  /\ drafts' = Append(drafts, [stage |-> "gathering", sources |-> sources, text |-> 0, score |-> 0])
  /\ UNCHANGED <<syntheses, published>>

\* synthesize, up to its await ...
Synthesize(d) ==
  /\ d \in DOMAIN drafts
  /\ Len(syntheses) < MaxSyntheses
  /\ syntheses' = Append(syntheses, [draft |-> d, running |-> TRUE])
  /\ UNCHANGED <<drafts, published>>

\* ... and after it: whatever became of the draft since, it is as good as new,
\* but for its score.
Synthesized(i, text) ==
  /\ i \in DOMAIN syntheses /\ syntheses[i].running
  /\ syntheses' = [syntheses EXCEPT ![i].running = FALSE]
  /\ drafts' = [drafts EXCEPT ![syntheses[i].draft] =
                  [@ EXCEPT !.text = text, !.stage = "synthesizing"]]
  /\ UNCHANGED published

SynthesisFails(i) ==
  /\ i \in DOMAIN syntheses /\ syntheses[i].running
  /\ syntheses' = [syntheses EXCEPT ![i].running = FALSE]
  /\ UNCHANGED <<drafts, published>>

\* minQualityScore is 0.6 of four points.
Passes(score) == score * 10 >= 6 * 4

Review(d) ==
  /\ d \in DOMAIN drafts
  /\ LET score == drafts[d].sources + drafts[d].text
     IN  drafts' = [drafts EXCEPT ![d] =
           [@ EXCEPT !.score = score, !.stage = IF Passes(score) THEN "reviewing" ELSE "rejected"]]
  /\ UNCHANGED <<syntheses, published>>

\* Mutation: only the stage is looked at.
MayPublishAnyScore(d) == drafts[d].stage # "rejected"

MayPublish(d) == drafts[d].stage # "rejected" /\ Passes(drafts[d].score)

Publish(d) ==
  /\ d \in DOMAIN drafts
  /\ Len(published) < MaxPublished
  /\ MayPublish(d)
  /\ published' = Append(published, d)
  /\ drafts' = [drafts EXCEPT ![d].stage = "published"]
  /\ UNCHANGED syntheses

PipelineNext ==
  \/ \E sources \in 0..2 : Gather(sources)
  \/ \E d \in DOMAIN drafts : Synthesize(d) \/ Review(d) \/ Publish(d)
  \/ \E i \in DOMAIN syntheses : SynthesisFails(i) \/ \E text \in 0..2 : Synthesized(i, text)

-----------------------------------------------------------------------------
(* Properties. *)

PipelineTypeOK ==
  /\ drafts \in Seq(Draft)
  /\ syntheses \in Seq([draft : DOMAIN drafts, running : BOOLEAN])
  /\ published \in Seq(DOMAIN drafts)

\* Nothing is published on less than the least number of sources, not even text
\* that was synthesized after the review or while it went on (review, publish).
PublishedIsSourced == \A i \in DOMAIN published : drafts[published[i]].sources > 0

=============================================================================
