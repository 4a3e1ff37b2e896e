---------------------------- MODULE CardContent ----------------------------
(***************************************************************************)
(* What an exclusive card is written from, and what it says: the dimension *)
(* and the disagreement that exclusive-card.service.ts picks for a topic,  *)
(* the prompts, at most MaxAttempts calls of the model, and the topic's    *)
(* own cards where it has none.  Module ExclusiveCard has the request that *)
(* does all this, its lock and its row.                                    *)
(*                                                                         *)
(* A prompt is the set of what it tells the model and the set of what it   *)
(* asks the model to draw on.  The wording is left out; scores are in      *)
(* tenths, where the code compares differences of floating-point numbers.  *)
(***************************************************************************)
EXTENDS Comparison, Sequences

CONSTANTS Topics,       \* of each topic its dimensions and its cards, in order
          MaxAttempts   \* EXCLUSIVE_CARD_MAX_ATTEMPTS

CardKind == {"pitfall", "script", "quiz", "cognition", "action"}

ASSUME CardContentAssumption ==
  /\ MaxAttempts \in Nat \ {0}
  /\ \A t \in DOMAIN Topics :
       /\ Topics[t].mounts \in Seq(Dimension)
       /\ \A i \in DOMAIN Topics[t].cards : Topics[t].cards[i].kind \in CardKind

-----------------------------------------------------------------------------
(* The places of a topic's dimensions that are among ds.                   *)
MountedIn(topic, ds) ==
  {i \in DOMAIN Topics[topic].mounts : Topics[topic].mounts[i] \in ds}

(* selectDuoDimension: of those both have a score in, the one they are     *)
(* furthest apart in; only a larger gap replaces an earlier one            *)
SelectDuoDimension(topic, rows) ==
  LET mounts == Topics[topic].mounts
      here == MountedIn(topic, DOMAIN rows)
      Gap(i) == rows[mounts[i]].gap
      Beats(i, j) == Gap(i) > Gap(j) \/ (Gap(i) = Gap(j) /\ i <= j) IN
  IF here = {} THEN None ELSE mounts[CHOOSE i \in here : \A j \in here : Beats(i, j)]

(* selectSoloDimension: the first the reader has a score in                *)
SelectSoloDimension(topic, score) ==
  LET here == MountedIn(topic, {d \in Dimension : score[d] # None}) IN
  IF here = {} THEN None ELSE Topics[topic].mounts[Min(here)]

(* pickDivergence: the largest disagreement of the dimension that comes    *)
(* with both options' labels                                               *)
PickDivergence(report, d) ==
  LET labelled == {q \in report.rows[d].top :
                     report.flagged[q].labelA # None /\ report.flagged[q].labelB # None}
      Gap(q) == report.flagged[q].gap
      First(q, r) == Gap(q) > Gap(r) \/ (Gap(q) = Gap(r) /\ q <= r) IN
  IF labelled = {} THEN None
  ELSE CHOOSE q \in labelled : \A r \in labelled : First(q, r)

(* toPersona: the type's name and the pole of its third dimension          *)
Persona(outcome) ==
  IF outcome = None THEN None ELSE [type |-> outcome.name, decision |-> outcome.poles[3]]

-----------------------------------------------------------------------------
WhereKnown(value, words) == IF value = None THEN {} ELSE words

(* buildDuoPrompt                                                          *)
DuoPrompt(d, row, personaA, personaB, divergence) ==
  LET personas == WhereKnown(personaA, {"personaA"}) \cup WhereKnown(personaB, {"personaB"})
      sources == (IF personas = {} THEN {} ELSE {"persona"}) \cup WhereKnown(divergence, {"divergence"})
  IN
  [of |-> {"A", "B"}, dimension |-> d, scores |-> <<row.scoreA, row.scoreB>>,
   divergence |-> divergence,
   tells |-> {"topic", "score"} \cup personas \cup WhereKnown(divergence, {"divergence"}),
   draws |-> (IF sources = {"persona", "divergence"} THEN sources ELSE sources \cup {"score"})
             \cup WhereKnown(personaB, {"styleOfB"})]

Told == {"topic", "score", "personaA", "personaB", "divergence"}
Drawn == {"score", "persona", "divergence", "styleOfB"}
Prompt ==
  [of : SUBSET {"A", "B"}, dimension : Dimension, scores : Seq(Nat),
   divergence : Choice \cup {None}, tells : SUBSET Told, draws : SUBSET Drawn]
ASSUME NoneIsNoPrompt == None \notin Prompt

PersonaOf == [A |-> "personaA", B |-> "personaB"]

(* buildSoloPrompt: nobody but the reader is in it                         *)
SoloPrompt(x, d, score, persona) ==
  [of |-> {x}, dimension |-> d, scores |-> <<score>>, divergence |-> None,
   tells |-> {"topic", "score"} \cup WhereKnown(persona, {PersonaOf[x]}),
   draws |-> {"score"} \cup WhereKnown(persona, {"persona"})]

(* buildDuoInput; None is no_input                                         *)
DuoInput(topic, report, personaA, personaB) ==
  LET d == SelectDuoDimension(topic, report.rows) IN
  IF d = None THEN None
  ELSE DuoPrompt(d, report.rows[d], personaA, personaB, PickDivergence(report, d))

(* buildSoloInput, sheet being None before one is submitted                *)
SoloInput(topic, x, sheet, persona) ==
  LET d == IF sheet = None THEN None ELSE SelectSoloDimension(topic, sheet.score) IN
  IF d = None THEN None ELSE SoloPrompt(x, d, sheet.score[d], persona)

-----------------------------------------------------------------------------
(* complete: it throws as not configured or for any other reason, or its   *)
(* text meets a forbidden word, or not                                     *)
ModelAnswer == {"unconfigured", "fails", "forbidden", "clean"}

(* degrade: the topic's cognition and action cards on the shelf            *)
Degrade(topic) ==
  LET cards == Topics[topic].cards
      body == {i \in DOMAIN cards : cards[i].on /\ cards[i].kind \in {"cognition", "action"}} IN
  [status |-> IF body = {} THEN "rejected" ELSE "degraded", body |-> body]

(* The call that is the last: whatever fails is tried again, but not for   *)
(* want of a configuration.                                                *)
LastCall(answers) ==
  LET ends == {i \in 1..MaxAttempts : answers[i] \in {"clean", "unconfigured"}} IN
  IF ends = {} THEN MaxAttempts ELSE Min(ends)

(* produce                                                                 *)
ProduceCard(topic, input, answers) ==
  IF input # None /\ answers[LastCall(answers)] = "clean"
  THEN [status |-> "ready", body |-> {}] ELSE Degrade(topic)
=============================================================================
