--------------------------- MODULE ShippedContent ---------------------------
(***************************************************************************)
(* The content the server is shipped with, as values of the constants of   *)
(* Rendering: the questionnaire SCALE-PRE-1.0 and the type test            *)
(* SCALE-16P-1.0 (modules/scale/data), the templates of modules/report/data*)
(* and the rule and names of modules/scale and engines/scale.              *)
(***************************************************************************)
EXTENDS Rendering

(* A dimension of the questionnaire: its questions, those of them scored   *)
(* upside down, those answered with an option (the number of options), and *)
(* those of style.                                                         *)
Finance        == [items |-> 1..9,   reverse |-> {2, 5, 8},    choice |-> {<<3, 5>>}, style |-> {}]
Housing        == [items |-> 10..18, reverse |-> {10, 17},     choice |-> {}, style |-> {}]
Communication  == [items |-> 19..27, reverse |-> {21, 23, 26}, choice |-> {}, style |-> {27}]
FamilyBoundary == [items |-> 28..36, reverse |-> {29, 31, 35}, choice |-> {}, style |-> {}]
Parenting      == [items |-> 37..45, reverse |-> {39, 42},
                   choice |-> {<<37, 4>>, <<38, 4>>}, style |-> {}]
Chores         == [items |-> 46..54, reverse |-> {47, 50, 53}, choice |-> {}, style |-> {}]
Career         == [items |-> 55..63, reverse |-> {58, 61},     choice |-> {}, style |-> {}]
Intimacy       == [items |-> 64..71, reverse |-> {70},         choice |-> {}, style |-> {}]

(* The bottom-line questions, which belong to no dimension                 *)
ShippedBaseline == 72..76

(* The dimensions that are scored; only the last may be refused            *)
PreScale == [FINANCE |-> Finance, HOUSING |-> Housing, COMMUNICATION |-> Communication,
             FAMILY_BOUNDARY |-> FamilyBoundary, PARENTING |-> Parenting, CHORES |-> Chores,
             CAREER |-> Career, INTIMACY |-> Intimacy]
Sensitive == {"INTIMACY"}

OfAll(field) == UNION {PreScale[d][field] : d \in DOMAIN PreScale}
ShippedChoice == {c[1] : c \in OfAll("choice")}
ShippedScale == (OfAll("items") \cup ShippedBaseline) \ ShippedChoice
ShippedOption == [q \in ShippedChoice |-> 1..(CHOOSE c \in OfAll("choice") : c[1] = q)[2]]
ShippedDimOf == [q \in ShippedScale |->
  IF q \in ShippedBaseline THEN None
  ELSE CHOOSE d \in DOMAIN PreScale : q \in PreScale[d].items]

(* DEFAULT_SCORING_RULE: 15 and 30 points                                  *)
ShippedRule == [high |-> 150, mid |-> 300]
-----------------------------------------------------------------------------
Energy == 1..6
Info == 7..12
Decision == 13..18
Lifestyle == 19..24
ShippedBinary == <<Energy, Info, Decision, Lifestyle>>

(* P16_TYPE_NAMES                                                          *)
ShippedTypeName ==
  [k \in [1..4 -> {"A", "B"}] |->
     CASE k = <<"B", "B", "A", "A">> -> "keeper"       [] k = <<"B", "B", "B", "A">> -> "carer"
       [] k = <<"B", "B", "B", "B">> -> "heartfelt"    [] k = <<"B", "B", "A", "B">> -> "craftsman"
       [] k = <<"B", "A", "B", "A">> -> "discerner"    [] k = <<"B", "A", "B", "B">> -> "guide"
       [] k = <<"B", "A", "A", "A">> -> "strategist"   [] k = <<"B", "A", "A", "B">> -> "thinker"
       [] k = <<"A", "B", "A", "A">> -> "executive"    [] k = <<"A", "B", "B", "A">> -> "harmoniser"
       [] k = <<"A", "B", "B", "B">> -> "entertainer"  [] k = <<"A", "B", "A", "B">> -> "doer"
       [] k = <<"A", "A", "B", "A">> -> "igniter"      [] k = <<"A", "A", "A", "B">> -> "breaker"
       [] k = <<"A", "A", "A", "A">> -> "navigator"    [] k = <<"A", "A", "B", "B">> -> "companion"]
-----------------------------------------------------------------------------
Plain(key, order, uses) == [key |-> key, gap |-> None, order |-> order, uses |-> uses]

(* DIMENSION_COPY: the place of a paragraph                                *)
DimensionCopy(d, gap) ==
  (CASE d = "FINANCE" -> 100         [] d = "HOUSING" -> 130   [] d = "COMMUNICATION" -> 160
     [] d = "FAMILY_BOUNDARY" -> 190 [] d = "PARENTING" -> 220 [] d = "CHORES" -> 250
     [] d = "CAREER" -> 280          [] d = "INTIMACY" -> 310)
  + (CASE gap = "high" -> 0 [] gap = "mid" -> 10 [] gap = "low" -> 20)

(* buildDimensionBlocks                                                    *)
DimensionBlocks ==
  {[key |-> d, gap |-> gap, order |-> DimensionCopy(d, gap),
    uses |-> {"dimension", "scoreA", "names", "scoreB", "gap", "gapLabel"}] :
     d \in DOMAIN PreScale, gap \in Level}

DoublePreL1 ==
  DimensionBlocks \cup
  {Plain("INTRO", 10, {"names", "scale"}),       Plain("RADAR", 20, {}),
   Plain("PENDING", 400, {"pendingList"}),       Plain("DIVERGENCE", 410, {"divergenceList"}),
   Plain("CONSENSUS", 420, {"consensusList"}),   Plain("UNEVALUATED", 430, {"unevaluatedList"}),
   Plain("BASELINE_NOTICE", 440, {"baseline"}),  Plain("QUALITY_NOTICE", 450, {"quality"}),
   Plain("TALK_GUIDE", 460, {}),                 Plain("ENDING", 470, {"names"})}

DoublePreL2 ==
  {Plain("INTRO", 10, {"names", "scale"}),     Plain("MEMORY_CARD", 20, {"names"}),
   Plain("CONSENSUS", 30, {"consensusList"}),  Plain("TALK_ENTRY", 40, {}),
   Plain("BASELINE_NOTICE", 50, {"baseline"}), Plain("ENDING", 60, {"names"})}

DoublePreL3 ==
  {Plain("SHARE_TITLE", 10, {"names", "date"}), Plain("SHARE_CONSENSUS", 20, {"consensusList"}),
   Plain("SHARE_ENDING", 30, {})}

(* One sentence for each dimension, whatever its score                     *)
SinglePreLite ==
  {Plain("INTRO", 10, {}), Plain("LOCK_HINT", 990, {}),
   Plain("FINANCE", 20, {}),   Plain("HOUSING", 30, {}), Plain("COMMUNICATION", 40, {}),
   Plain("FAMILY_BOUNDARY", 50, {}), Plain("PARENTING", 60, {}), Plain("CHORES", 70, {}),
   Plain("CAREER", 80, {}),    Plain("INTIMACY", 90, {})}

Single16p == {Plain("INTRO", 10, {"typeName"})}

(* assertSeed: no key twice for one level, no place twice                  *)
AcceptedSeed(blocks) ==
  /\ blocks # {}
  /\ \A b, c \in blocks : b # c => b.order # c.order /\ <<b.key, b.gap>> # <<c.key, c.gap>>
  /\ \A b \in blocks : b.gap \in Level \cup {None}

ShippedTemplates ==
  {[layer |-> "L1", blocks |-> DoublePreL1],       [layer |-> "L2", blocks |-> DoublePreL2],
   [layer |-> "L3", blocks |-> DoublePreL3],       [layer |-> "single", blocks |-> SinglePreLite],
   [layer |-> "p16", blocks |-> Single16p]}

(* What the seed services refuse to import otherwise                       *)
ASSUME SeedAssumption ==
  /\ Cardinality(ShippedScale \cup ShippedChoice) = 76
  /\ \A d, e \in DOMAIN PreScale : d # e => PreScale[d].items \cap PreScale[e].items = {}
  /\ \A t \in ShippedTemplates : AcceptedSeed(t.blocks)

(* The sheets of this content are those for which levels are exact         *)
ASSUME LengthAssumption == ShortOrWhole
=============================================================================
