------------------------------ MODULE Scoring ------------------------------
(***************************************************************************)
(* Scoring one answered questionnaire: scoring.engine.ts, p16.engine.ts    *)
(* and the evaluation of dimensions in AssessmentService.computeScores.    *)
(*                                                                         *)
(* A question is its number in the questionnaire.  Scores are counted in   *)
(* tenths of a point, since the engine rounds to one decimal.              *)
(***************************************************************************)
EXTENDS Integers, FiniteSets, FiniteSetsExt

CONSTANTS Scale,      \* questions answered from 1 to 5
          Choice,     \* questions answered with an option
          Option,     \* the options of each choice question, by number
          Binary,     \* the four groups of the type test, in order; "A" or "B"
          TypeName,   \* the name of each combination of their poles
          Reverse,    \* scale questions that are scored upside down
          Style,      \* scale questions that only colour the wording
          Baseline,   \* scale questions of the bottom-line group
          Dimension,  \* scored dimensions
          DimOf,      \* the dimension of a scale question
          None

Question == Scale \cup Choice
ScaleValue == 1..5
Answers == {a \in [Question -> Nat \cup {None}] :
              /\ \A q \in Scale : a[q] \in ScaleValue \cup {None}
              /\ \A q \in Choice : a[q] \in Option[q] \cup {None}}

ASSUME ScoringAssumption ==
  /\ None \notin Nat \cup Dimension
  /\ Question \subseteq Nat /\ IsFiniteSet(Question) /\ Scale \cap Choice = {}
  /\ Reverse \cup Style \cup Baseline \subseteq Scale
  /\ DimOf \in [Scale -> Dimension \cup {None}]
  /\ \A q \in Scale \ Baseline : DimOf[q] \in Dimension
  /\ Option \in [Choice -> SUBSET Nat]
  /\ DOMAIN Binary = 1..4
  /\ DOMAIN TypeName = [1..4 -> {"A", "B"}]

(* Rule 8: six questions to a pole; P16_TYPE_NAMES has no name twice       *)
ASSUME TypeAssumption ==
  /\ \A i \in 1..4 : IsFiniteSet(Binary[i]) /\ Cardinality(Binary[i]) = 6
  /\ \A k, l \in DOMAIN TypeName : TypeName[k] = TypeName[l] => k = l

(* A sheet as computeScores gets it                                        *)
Paper == [answers : Answers, skipped : SUBSET Dimension, fast : BOOLEAN]
-----------------------------------------------------------------------------
Given(a, qs) == {q \in qs : a[q] # None}

Group == [d \in Dimension |-> {q \in Scale : DimOf[q] = d}]

(* isScoringItem                                                           *)
Items == [d \in Dimension |-> Group[d] \ (Style \cup Baseline)]

Effective(q, v) == IF q \in Reverse THEN 6 - v ELSE v

(* roundToOneDecimal of n/m points, n in tenths: halves go up              *)
Tenths(n, m) == (2 * n + m) \div (2 * m)

(* (mean - 1) * 25; a dimension without an answer has no score, not zero   *)
DimensionScore(a, d) ==
  LET given == Given(a, Items[d])
      total == MapThenSumSet(LAMBDA q : Effective(q, a[q]) - 1, given) IN
  IF given = {} THEN None ELSE Tenths(250 * total, Cardinality(given))

BaselineTriggered(a) == {q \in Given(a, Baseline) : a[q] <= 2}

(* An option counts as the same answer as the scale value of its number.   *)
AnswerKeys(a) == {a[q] : q \in Given(a, Question)}
LowQuality(p) == p.fast \/ Cardinality(AnswerKeys(p.answers)) = 1

(* computeScores: a dimension is evaluated if it was neither skipped nor   *)
(* left empty; what the snapshot keeps and toParticipant reads             *)
ComputeScores(p) ==
  [score |-> [d \in Dimension |->
                IF d \in p.skipped THEN None ELSE DimensionScore(p.answers, d)],
   skipped |-> p.skipped, answers |-> p.answers,
   baseline |-> BaselineTriggered(p.answers), low |-> LowQuality(p)]
-----------------------------------------------------------------------------
Test == UNION {Binary[i] : i \in 1..4}
Poles == [Test -> {"A", "B"}]
ACount(b, i) == Cardinality({q \in Binary[i] : b[q] = "A"})

(* Mutant: half of the answers make an A                                   *)
PoleHalf(b, i) == IF ACount(b, i) >= 3 THEN "A" ELSE "B"

(* At least 4 of the 6 make an A; a tie goes to B                          *)
Pole(b, i) == IF ACount(b, i) >= 4 THEN "A" ELSE "B"

(* scoreP16: the poles in the order of the dimensions, ties marked         *)
ScoreType(b) ==
  LET poles == [i \in 1..4 |-> Pole(b, i)] IN
  [poles |-> poles, ties |-> {i \in 1..4 : ACount(b, i) = 3}, name |-> TypeName[poles]]
=============================================================================
