---------------------------- MODULE Comparison ----------------------------
(***************************************************************************)
(* Comparing two scored questionnaires: diff.engine.ts and                 *)
(* double-report.engine.ts, which the generator runs on both snapshots.    *)
(* a and b are what ComputeScores returned for the initiator and the       *)
(* invitee.  Lists that the engine keeps in question order are sets here.  *)
(***************************************************************************)
EXTENDS Scoring

CONSTANTS High, Mid   \* diff_threshold_high and _mid, in tenths

ASSUME ThresholdAssumption == High \in Nat /\ Mid \in Nat /\ High <= Mid

Level == {"high", "mid", "low"}
Distance(m, n) == IF m < n THEN n - m ELSE m - n

(* Mutant: one unanswered question leaves the dimension out                *)
UnevaluatedIncomplete(a, b) ==
  {d \in Dimension : \E q \in Items[d] : None \in {a.answers[q], b.answers[q]}}

(* Skipped by either side, or without a score on either side               *)
Unevaluated(a, b) ==
  a.skipped \cup b.skipped \cup {d \in Dimension : None \in {a.score[d], b.score[d]}}

(* Mutant: the threshold itself still counts as agreement                  *)
ClassifyGapLoose(gap) == IF gap <= High THEN "high" ELSE IF gap <= Mid THEN "mid" ELSE "low"

(* classifyGap: both thresholds belong to "mid" (D6)                       *)
ClassifyGap(gap) == IF gap < High THEN "high" ELSE IF gap <= Mid THEN "mid" ELSE "low"

Both(a, b, qs) == Given(a.answers, qs) \cap Given(b.answers, qs)

(* collectScaleDivergences: raw answers at least 3 apart, the two largest  *)
(* of each dimension, earlier questions first                              *)
AnswerGap(a, b, q) == Distance(a.answers[q], b.answers[q])
Divergent(a, b, d) ==
  {q \in Both(a, b, Group[d]) : AnswerGap(a, b, q) >= 3}
Before(a, b, q, r) ==
  \/ AnswerGap(a, b, q) > AnswerGap(a, b, r)
  \/ AnswerGap(a, b, q) = AnswerGap(a, b, r) /\ q < r

TopDivergences(a, b, d) ==
  LET all == Divergent(a, b, d) IN
  {q \in all : Cardinality({r \in all : Before(a, b, r, q)}) < 2}

ChoiceDivergences(a, b) == {q \in Both(a, b, Choice) : a.answers[q] # b.answers[q]}
ConsensusItems(a, b) == {q \in Both(a, b, Choice) : a.answers[q] = b.answers[q]}

(* toFlaggedItem: a listed disagreement has the labels of the two options, *)
(* and optionLabel has none to give for a question answered on the scale   *)
OptionLabel(a, q) == IF q \in Choice THEN a.answers[q] ELSE None
Flagged(a, b, q) ==
  [gap |-> AnswerGap(a, b, q), labelA |-> OptionLabel(a, q), labelB |-> OptionLabel(b, q)]

(* mergeBaseline: either side is enough                                    *)
MergeBaseline(a, b) == a.baseline \cup b.baseline

Compared(a, b, d) ==
  LET gap == Distance(a.score[d], b.score[d]) IN
  [scoreA |-> a.score[d], scoreB |-> b.score[d], gap |-> gap, level |-> ClassifyGap(gap),
   answeredA |-> Cardinality(Given(a.answers, Items[d])),
   answeredB |-> Cardinality(Given(b.answers, Items[d])),
   top |-> TopDivergences(a, b, d)]

(* buildDoubleReportData                                                   *)
DoubleReport(a, b) ==
  LET out == Unevaluated(a, b)
      rows == [d \in Dimension \ out |-> Compared(a, b, d)] IN
  [rows |-> rows,
   consensusDimensions |-> {d \in Dimension \ out : rows[d].level = "high"},
   pendingDimensions |-> {d \in Dimension \ out : rows[d].level # "high"},
   unevaluated |-> out,
   flagged |-> [q \in UNION {rows[d].top : d \in Dimension \ out} |-> Flagged(a, b, q)],
   choiceDivergences |-> ChoiceDivergences(a, b),
   consensus |-> ConsensusItems(a, b),
   baseline |-> MergeBaseline(a, b),
   low |-> a.low \/ b.low]
=============================================================================
