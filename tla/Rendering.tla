----------------------------- MODULE Rendering -----------------------------
(***************************************************************************)
(* From two answered questionnaires to what each reader sees: scoring both *)
(* sides, building the double report, and rendering it with a template for *)
(* one of the three layers (double-report-render.service.ts), and the      *)
(* reports of a single reader (assessment.service.ts, buildReport).        *)
(*                                                                         *)
(* The initiator reads L1, the invitee L2, and L3 is the picture the       *)
(* initiator shares.  A block is its key, the gap level it is written for  *)
(* (None: any), its place, and the placeholders its text uses.  On the     *)
(* same scores rests the exclusive card of a topic that either of them may *)
(* have written.                                                           *)
(***************************************************************************)
EXTENDS CardContent

CONSTANTS Sittings,  \* what the two may have submitted, and answers to a type test
          Picks,     \* what the initiator may pick for the picture
          Templates, \* templates the database may hold
          Shipped    \* those of them nobody has edited

Party == {"A", "B"}
Layer == {"L1", "L2", "L3"}
Placeholder == {"names", "scale", "dimension", "scoreA", "scoreB", "gap", "gapLabel",
                "pendingList", "divergenceList", "unevaluatedList", "consensusList",
                "baseline", "quality", "date", "typeName"}

ASSUME RenderingAssumption ==
  /\ \A s \in Sittings :
       /\ s.paper \in [Party -> {None}] \/ \A x \in Party : s.paper[x] \in Paper
       /\ s.poles \in Poles \cup {None}
  /\ Picks \subseteq SUBSET Choice
  /\ Shipped \subseteq Templates
  /\ \A t \in Templates : t.layer \in Layer \cup {"single", "p16"}
  /\ \A t \in Templates : \A b \in t.blocks : b.uses \subseteq Placeholder

VARIABLES paper,   \* the submitted questionnaire of each party
          cache,   \* its scores, once computed
          report,  \* conclusions of the double report, once generated
          view,    \* what was rendered, in the end
          poles, outcome   \* a type test and its result

vars == <<paper, cache, report, view, poles, outcome>>

Init ==
  /\ \E s \in Sittings : paper = s.paper /\ poles = s.poles
  /\ cache = [x \in Party |-> None]
  /\ report = None /\ view = None /\ outcome = None
-----------------------------------------------------------------------------
Score(x) ==
  /\ paper[x] # None /\ cache[x] = None
  /\ cache' = [cache EXCEPT ![x] = ComputeScores(paper[x])]
  /\ UNCHANGED <<paper, report, view, poles, outcome>>

ScoreP16 ==
  /\ poles # None /\ outcome = None
  /\ outcome' = ScoreType(poles)
  /\ UNCHANGED <<paper, cache, report, view, poles>>

Generate ==
  /\ report = None /\ \A x \in Party : cache[x] # None
  /\ report' = DoubleReport(cache["A"], cache["B"])
  /\ UNCHANGED <<paper, cache, view, poles, outcome>>
-----------------------------------------------------------------------------
(* selectConsensus: which agreements the picture shows; for the server a   *)
(* request that picks none asks for all                                    *)
SelectConsensus(layer, picks) ==
  IF layer = "L3" /\ picks # {} THEN report.consensus \cap picks ELSE report.consensus

(* Mutant: blocks are chosen by dimension, without their level             *)
ShouldRenderAnyLevel(block, list) == block.key \in DOMAIN report.rows \/ block.gap = None

(* shouldRender: a block for a gap level only for a dimension at that      *)
(* level, and no block about something that is not there                   *)
ShouldRender(block, list) ==
  IF block.gap # None
  THEN block.key \in DOMAIN report.rows /\ report.rows[block.key].level = block.gap
  ELSE CASE block.key = "PENDING"         -> report.pendingDimensions # {}
         [] block.key = "DIVERGENCE"      ->
              \/ report.choiceDivergences # {}
              \/ \E d \in DOMAIN report.rows : report.rows[d].top # {}
         [] block.key = "UNEVALUATED"     -> report.unevaluated # {}
         [] block.key \in {"CONSENSUS", "SHARE_CONSENSUS"} -> list # {}
         [] block.key = "BASELINE_NOTICE" -> report.baseline # {}
         [] block.key = "QUALITY_NOTICE"  -> report.low
         [] OTHER                         -> TRUE

(* buildBaseContext                                                        *)
BaseContext(layer) ==
  {"names", "consensusList"} \cup
  (CASE layer = "L1" -> {"scale", "pendingList", "divergenceList", "unevaluatedList",
                         "baseline", "quality"}
     [] layer = "L2" -> {"scale", "baseline"}
     [] layer = "L3" -> {"date"})

(* buildBlockContext: a block for a gap level gets the scores, in any layer*)
BlockContext(block, layer) ==
  BaseContext(layer) \cup
  (IF block.gap # None /\ block.key \in DOMAIN report.rows
   THEN {"dimension", "scoreA", "scoreB", "gap", "gapLabel"} ELSE {})

(* SHARE_FORBIDDEN_PLACEHOLDERS                                            *)
ShareForbidden == Placeholder \ {"names", "scale", "consensusList", "date", "typeName"}

(* Mutant: only what nothing fills is dropped                              *)
DroppedUnfilled(block, layer) == layer # "L1" /\ ~ block.uses \subseteq BlockContext(block, layer)

(* render: L3 refuses forbidden placeholders, L2 and L3 a block with a     *)
(* placeholder nothing fills; L1 leaves it in the text                     *)
Dropped(block, layer) ==
  \/ layer = "L3" /\ block.uses \cap ShareForbidden # {}
  \/ layer # "L1" /\ ~ block.uses \subseteq BlockContext(block, layer)

(* renderTemplate: what has a value is filled in, the rest left as it is   *)
Rendered(block, context) ==
  [key |-> block.key, gap |-> block.gap, order |-> block.order,
   shown |-> block.uses \cap context, left |-> block.uses \ context]

(* What the pages print.  A block has its place by key, and some places are*)
(* there only if the report has something for them: the initiator's page,  *)
ComparisonPlaces ==
  {"INTRO", "RADAR", "TALK_GUIDE", "ENDING"} \cup DOMAIN report.rows
  \cup {k \in {"UNEVALUATED"} : report.unevaluated # {}}
  \cup {k \in {"PENDING"} : report.pendingDimensions # {}}
  \cup {k \in {"CONSENSUS"} : report.consensus # {}}
  \cup {k \in {"DIVERGENCE"} : \/ report.choiceDivergences # {}
                             \/ \E d \in DOMAIN report.rows : report.rows[d].top # {}}

(* the invitee's, which is the same page without most of it,               *)
SummaryPlaces ==
  {"INTRO", "MEMORY_CARD", "TALK_ENTRY"} \cup {k \in {"CONSENSUS"} : report.consensus # {}}

(* the picture (buildParagraphs), and the report of a single reader        *)
PicturePlaces == {"SHARE_TITLE", "SHARE_CONSENSUS", "SHARE_ENDING"}
SinglePlaces == {"INTRO"} \cup Dimension

Places(layer) ==
  CASE layer = "L1" -> ComparisonPlaces
    [] layer = "L2" -> SummaryPlaces
    [] layer = "L3" -> PicturePlaces
    [] layer = "single" -> SinglePlaces
    [] layer = "p16" -> {"INTRO"}

(* The two notices come from fields of the answer and not from its blocks  *)
Notices(layer) ==
  IF layer \notin {"L1", "L2"} THEN {}
  ELSE {k \in {"BASELINE_NOTICE"} : report.baseline # {}}
       \cup {k \in {"QUALITY_NOTICE"} : layer = "L1" /\ report.low}

(* blockText: of two blocks with one key the last wins                     *)
Printed(layer, blocks) ==
  {b \in blocks : /\ b.key \in Places(layer)
                  /\ \A c \in blocks : c.key = b.key => c.order <= b.order}

(* handleGenerate of the share page: only with something picked            *)
MayAsk(layer, picks) == IF layer = "L3" THEN picks # {} ELSE picks = {}

(* render: the blocks of one layer's template                              *)
Render(t, picks) ==
  LET list == SelectConsensus(t.layer, picks)
      wanted == {b \in t.blocks : ShouldRender(b, list)}
      blocks == {Rendered(b, BlockContext(b, t.layer)) :
                   b \in {c \in wanted : ~ Dropped(c, t.layer)}} IN
  /\ t.layer \in Layer /\ report # None
  /\ MayAsk(t.layer, picks)
  /\ view' = [layer |-> t.layer, shipped |-> t \in Shipped, list |-> list, picks |-> picks,
              dropped |-> \E b \in wanted : Dropped(b, t.layer), blocks |-> blocks,
              printed |-> Printed(t.layer, blocks), notices |-> Notices(t.layer)]
  /\ UNCHANGED <<paper, cache, report, poles, outcome>>

(* buildReport: every block of the template; the hint of the double report *)
(* apart, and only the type test has something to fill in                  *)
RenderSingle(t) ==
  /\ \/ t.layer = "single" /\ \E x \in Party : cache[x] # None
     \/ t.layer = "p16" /\ outcome # None
  /\ LET blocks == {Rendered(b, IF t.layer = "p16" THEN {"typeName"} ELSE {}) :
                       b \in {c \in t.blocks : c.key # "LOCK_HINT"}} IN
     view' = [layer |-> t.layer, shipped |-> t \in Shipped, list |-> {}, picks |-> {},
              dropped |-> FALSE, blocks |-> blocks,
              printed |-> Printed(t.layer, blocks), notices |-> {}]
  /\ UNCHANGED <<paper, cache, report, poles, outcome>>

(* generate of reader x: the couple's card from their report, or the       *)
(* reader's own before there is one.  Who took the type test got one       *)
(* result; takers are those who did.                                       *)
WriteCard(x, topic, takers, answers) ==
  LET Type(y) == Persona(IF y \in takers THEN outcome ELSE None)
      input == IF report # None THEN DuoInput(topic, report, Type("A"), Type("B"))
               ELSE SoloInput(topic, x, cache[x], Type(x))
      card == ProduceCard(topic, input, answers) IN
  /\ outcome = None => takers = {}
  /\ view' = [layer |-> "card", shipped |-> FALSE, topic |-> topic, reader |-> x,
              input |-> input, status |-> card.status, body |-> card.body]
  /\ UNCHANGED <<paper, cache, report, poles, outcome>>

(* What is read changes nothing that is read later: a behaviour ends with  *)
(* the first of it.                                                        *)
Next ==
  /\ view = None
  /\ \/ \E x \in Party : Score(x)
     \/ ScoreP16
     \/ Generate
     \/ \E t \in Templates, picks \in Picks \cup {{}} : Render(t, picks)
     \/ \E t \in Templates : RenderSingle(t)
     \/ \E x \in Party, topic \in DOMAIN Topics, takers \in SUBSET Party,
           answers \in [1..MaxAttempts -> ModelAnswer] : WriteCard(x, topic, takers, answers)

Spec == Init /\ [][Next]_vars
-----------------------------------------------------------------------------
(* Every score lies between 0 and 100 points and is the mean of what was   *)
(* answered, to the nearest tenth, counted from the disagreeing end for    *)
(* reversed questions; there is a score exactly if the dimension was not   *)
(* refused and something in it was answered (D-2, ADR-013).                *)
ScoreIsMean ==
  \A x \in Party : cache[x] # None =>
    \A d \in Dimension :
      LET s == cache[x].score[d]
          a == paper[x].answers
          given == Given(a, Items[d])
          n == Cardinality(given)
          agree == MapThenSumSet(LAMBDA q : IF q \in Reverse THEN 5 - a[q] ELSE a[q] - 1, given) IN
      IF d \in paper[x].skipped \/ n = 0 THEN s = None
      ELSE /\ s \in 0..1000
           /\ Distance(n * s, 250 * agree) * 2 <= n

(* The pole of a type test is never the one fewer answers chose, a tie is  *)
(* marked (rule 8, A-7), and the name is that of no other four poles.      *)
PoleIsMajority ==
  outcome # None =>
    /\ \A i \in 1..4 :
         LET chosen == {q \in Binary[i] : poles[q] = outcome.poles[i]}
             rest == Binary[i] \ chosen IN
         /\ Cardinality(chosen) >= Cardinality(rest)
         /\ i \in outcome.ties <=> Cardinality(chosen) = Cardinality(rest)
         /\ i \in outcome.ties => outcome.poles[i] = "B"
    /\ \A k \in DOMAIN TypeName : TypeName[k] = outcome.name <=> k = outcome.poles

(* No score comes from silence: each dimension is at exactly one place of  *)
(* the report, and it is compared only if both answered something in it    *)
(* and neither refused it; the same for each choice question (ADR-005 7,   *)
(* ADR-013 4).                                                             *)
ReportFromAnswers ==
  report # None =>
    /\ \A d \in Dimension :
         \/ d \in report.consensusDimensions \ (report.pendingDimensions \cup report.unevaluated)
         \/ d \in report.pendingDimensions \ (report.consensusDimensions \cup report.unevaluated)
         \/ d \in report.unevaluated \ (report.consensusDimensions \cup report.pendingDimensions)
    /\ \A d \in Dimension :
         d \in DOMAIN report.rows <=>
           \A x \in Party : d \notin paper[x].skipped /\
              \E q \in Items[d] : paper[x].answers[q] # None
    /\ report.consensus \cap report.choiceDivergences = {}
    /\ report.consensus \cup report.choiceDivergences =
         {q \in Choice : \A x \in Party : paper[x].answers[q] # None}

(* Nor does a card's prompt: its dimension was answered by everybody it is *)
(* about, and it asks the model to draw on nothing it does not tell        *)
(* ("宁缺勿造").                                                           *)
PromptFromAnswers ==
  view # None /\ view.layer = "card" /\ view.input # None =>
    LET prompt == view.input IN
    /\ prompt.of \in {Party, {view.reader}}
    /\ \A x \in prompt.of :
         /\ prompt.dimension \notin paper[x].skipped
         /\ Given(paper[x].answers, Items[prompt.dimension]) # {}
    /\ "persona" \in prompt.draws => prompt.tells \cap {"personaA", "personaB"} # {}
    /\ "styleOfB" \in prompt.draws => "personaB" \in prompt.tells
    /\ "divergence" \in prompt.draws => "divergence" \in prompt.tells

NothingFromSilence == (view = None => ReportFromAnswers) /\ PromptFromAnswers

(* What LevelIsExact rests on: the thresholds of 15 and 30 points, and of  *)
(* no dimension with nine questions or more is anything left out, since it *)
(* is not refusable.  With eight answers on one side and nine on the other *)
(* a distance of 14.93 points would become 15.0.                           *)
ShortOrWhole ==
  /\ High = 150 /\ Mid = 300
  /\ \A d \in Dimension :
       \/ Cardinality(Items[d]) <= 8
       \/ /\ Cardinality(Items[d]) <= 50
          /\ \A s \in Sittings, x \in Party :
               s.paper[x] # None => Given(s.paper[x].answers, Items[d]) = Items[d]

(* Rounding never moves a dimension over a threshold: its level is the one *)
(* the exact means would give, a threshold itself being "mid" (D6).        *)
LevelIsExact ==
  report # None =>
    \A d \in DOMAIN report.rows :
      LET Points(x) ==    \* <<n, m>> for n/m tenths
            LET given == Given(paper[x].answers, Items[d]) IN
            <<250 * MapThenSumSet(LAMBDA q : Effective(q, paper[x].answers[q]) - 1, given),
              Cardinality(given)>>
          A == Points("A")
          B == Points("B")
          num == Distance(A[1] * B[2], B[1] * A[2])
          den == A[2] * B[2] IN
      report.rows[d].level = IF num < High * den THEN "high"
                             ELSE IF num <= Mid * den THEN "mid" ELSE "low"

(* What the report lists of a dimension are its two largest disagreements: *)
(* none that is left out is larger than one that is listed, and fewer than *)
(* two are listed only if there are no others (R2).                        *)
LargestListed ==
  report # None =>
    \A d \in DOMAIN report.rows :
      LET a == paper["A"].answers
          b == paper["B"].answers
          Apart(q) == Distance(a[q], b[q])
          apart == {q \in Given(a, Group[d]) \cap Given(b, Group[d]) : Apart(q) >= 3}
          top == report.rows[d].top IN
      /\ top \subseteq apart
      /\ Cardinality(top) = IF Cardinality(apart) < 2 THEN Cardinality(apart) ELSE 2
      /\ \A q \in top, r \in apart \ top : Apart(q) >= Apart(r)

(* Neither side is favoured: with the two sheets exchanged the report is   *)
(* the same with the two scores exchanged.                                 *)
SidesAreEqual ==
  report # None =>
    LET other == DoubleReport(cache["B"], cache["A"]) IN
    /\ [other EXCEPT !.rows = <<>>, !.flagged = <<>>] = [report EXCEPT !.rows = <<>>, !.flagged = <<>>]
    /\ \A q \in DOMAIN report.flagged :
         other.flagged[q] = [report.flagged[q] EXCEPT !.labelA = report.flagged[q].labelB,
                                                      !.labelB = report.flagged[q].labelA]
    /\ \A d \in DOMAIN report.rows :
         other.rows[d] = [report.rows[d] EXCEPT
                            !.scoreA = report.rows[d].scoreB, !.scoreB = report.rows[d].scoreA,
                            !.answeredA = report.rows[d].answeredB,
                            !.answeredB = report.rows[d].answeredA]

(* The card is about the topic's dimension in which the two are furthest   *)
(* apart, or the first the reader was scored in, the earlier of two equal  *)
(* ones; there is a prompt exactly if there is such a dimension, and the   *)
(* card is the model's only if there is one (ADR-008).                     *)
PromptIsExact ==
  view # None /\ view.layer = "card" =>
    LET mounts == Topics[view.topic].mounts
        about == IF report # None THEN Party ELSE {view.reader}
        Apart(d) == IF report # None THEN Distance(cache["A"].score[d], cache["B"].score[d]) ELSE 0
        usable == {i \in DOMAIN mounts :
                     \A x \in about : cache[x] # None /\ cache[x].score[mounts[i]] # None} IN
    /\ view.input = None <=> usable = {}
    /\ view.status = "ready" => view.input # None
    /\ view.input # None =>
         \E i \in usable :
           /\ view.input.dimension = mounts[i]
           /\ \A j \in usable : Apart(mounts[j]) <= Apart(mounts[i])
           /\ \A j \in usable : Apart(mounts[j]) = Apart(mounts[i]) => i <= j

(* What the engines compute, from the answers of one and from both, is the *)
(* reference's result, rounding and thresholds included (difference.engine *)
(* .ts:109), whichever of the two comes first.                             *)
EnginesAreExact ==
  /\ view = None =>
       ScoreIsMean /\ PoleIsMajority /\ LevelIsExact /\ LargestListed /\ SidesAreEqual
  /\ PromptIsExact

(* The shared picture shows names, date and agreement, never a score, a    *)
(* gap or a disagreement, and of the agreements only those picked, though  *)
(* the server takes an empty choice for all of them; the invitee's layer   *)
(* neither, in the blocks that are not written for a gap level.            *)
LayersHold ==
  view # None /\ view.layer \in {"L2", "L3"} =>
    /\ view.list \subseteq report.consensus
    /\ view.layer = "L3" =>
         /\ \A b \in view.blocks : b.shown \subseteq {"names", "date", "consensusList"}
         /\ view.list \subseteq view.picks
    /\ view.layer = "L2" =>
         \A b \in view.blocks :
           b.gap = None => b.shown \subseteq {"names", "scale", "baseline", "consensusList"}

(* With the templates as shipped no reader sees a raw placeholder and no   *)
(* block is lost to a misspelt one; the initiator finds exactly one        *)
(* paragraph for each dimension compared, written for its level, and       *)
(* nobody but the initiator any (ADR-005 2, 7).  The pages print whatever  *)
(* is rendered, but for the ending of the invitee's layer, for which       *)
(* double.vue has no place, and give each notice that applies.             *)
ShippedTemplatesFit ==
  view # None /\ view.shipped =>
    /\ ~ view.dropped /\ \A b \in view.blocks : b.left = {}
    /\ Cardinality({b.order : b \in view.blocks}) = Cardinality(view.blocks)
    /\ {b.key : b \in view.blocks} =
         {b.key : b \in view.printed} \cup view.notices
         \cup {k \in {"ENDING"} : view.layer = "L2"}
    /\ view.layer \in Layer =>
         LET about == {b \in view.blocks : b.key \in Dimension} IN
         IF view.layer # "L1" THEN about = {}
         ELSE /\ {b.key : b \in about} = DOMAIN report.rows
              /\ Cardinality(about) = Cardinality(DOMAIN report.rows)
              /\ \A b \in about : b.gap = report.rows[b.key].level

(* ADR-008, decision 3: where the two disagree on a question of the card's *)
(* dimension, the prompt names the one they disagree on most.              *)
DivergenceInPrompt ==
  view # None /\ view.layer = "card" /\ report # None /\ view.input # None =>
    (report.rows[view.input.dimension].top # {} => view.input.divergence # None)

(* The invitee's layer shows no score whatever the template says: "the     *)
(* placeholders of scores and gaps are not in the context at all".         *)
InviteeSeesNoScores ==
  view # None /\ view.layer = "L2" =>
    \A b \in view.blocks : b.shown \cap {"scoreA", "scoreB", "gap", "gapLabel"} = {}
=============================================================================
