---------------------------- MODULE MCRendering ----------------------------
(***************************************************************************)
(* The shipped content with two families of sheets.  In Varied the answers *)
(* to the refusable dimension vary: the first m of its first n questions   *)
(* are answered u, the others v, the rest left out.  In Others everything  *)
(* else does, one sheet having the same answer throughout.                 *)
(***************************************************************************)
EXTENDS ShippedContent, ShippedTopics, TLC

Sheet(intimacy, style, plain, bottom, choice) ==
  [q \in ShippedScale \cup ShippedChoice |->
     CASE q \in Intimacy.items   -> intimacy[q - 63]
       [] q \in ShippedChoice    -> choice
       [] q \in ShippedBaseline  -> bottom
       [] q = 27                 -> style
       [] OTHER                  -> IF q = 46 THEN plain ELSE 3]

Prefix(u, v, m, n) == [i \in 1..8 |-> IF i <= m THEN u ELSE IF i <= n THEN v ELSE None]
Cuts == {<<0, 5>>, <<1, 5>>, <<3, 5>>, <<0, 8>>, <<2, 8>>, <<8, 8>>}
Intimacies ==
  {Prefix(u[1], u[2], c[1], c[2]) : u \in {<<1, 4>>, <<2, 5>>, <<4, 5>>}, c \in Cuts}

Varied == {[answers |-> Sheet(f, 3, 3, 3, 3), skipped |-> {}, fast |-> FALSE] : f \in Intimacies}
Others ==
  {[answers |-> Sheet(Prefix(3, 3, 0, IF skipped = {} THEN 8 ELSE 0),
                      style, plain, IF plain = 1 THEN 2 ELSE 3, choice),
    skipped |-> skipped, fast |-> style = 4] :
     style \in {3, 4}, plain \in {1, 3}, choice \in {3, 4}, skipped \in {{}, Sensitive}}
Refused == {p \in Others : p.skipped = Sensitive /\ p.answers[27] = 3}

MCCouples == [Party -> Varied] \cup [Party -> Others]
             \cup {[A |-> p, B |-> r] : p \in Varied, r \in Refused}

MCPicks == {{3}, {37, 38}, ShippedChoice}

(* A couple of which some have taken the type test                         *)
Typed == {[A |-> p, B |-> r] : p, r \in {p \in Others : p.answers[27] = 3 /\ p.answers[3] = 3
                                                       /\ p.answers[46] = 1}}
TypedPoles == {[q \in 1..24 |-> IF (q - 1) % 6 < n THEN "A" ELSE "B"] : n \in {1, 5}}

(* Every result a type test can have                                       *)
MCPolePapers ==
  {[q \in 1..24 |-> IF (q - 1) % 6 < n[1 + ((q - 1) \div 6)] THEN "A" ELSE "B"] :
     n \in [1..4 -> 1..5]}

MCSittings ==
  {[paper |-> c, poles |-> None] : c \in MCCouples}
  \cup {[paper |-> [x \in Party |-> None], poles |-> p] : p \in MCPolePapers}
  \cup {[paper |-> c, poles |-> p] : c \in Typed, p \in TypedPoles}

(* Topics as shipped, and one that has lost the cards without the model    *)
MCTopics ==
  ShippedTopics @@ ("bare" :> [mounts |-> <<"INTIMACY", "CHORES">>,
                               cards |-> <<[kind |-> "action", on |-> FALSE],
                                           [kind |-> "script", on |-> TRUE]>>])

(* Templates somebody has edited: a paragraph with scores in each layer    *)
Edited(layer) ==
  [layer |-> layer,
   blocks |-> {[key |-> "INTIMACY", gap |-> "low", order |-> 1, uses |-> {"scoreA", "gap"}],
               [key |-> "INTIMACY", gap |-> None, order |-> 2, uses |-> {"gap"}],
               [key |-> "CONSENSUS", gap |-> None, order |-> 3, uses |-> {"names", "consensusList"}]}]
MCTemplates == ShippedTemplates \cup {Edited("L2"), Edited("L3")}

MCDimension == DOMAIN PreScale
MCReverse == OfAll("reverse")
MCStyle == OfAll("style")
MCHigh == ShippedRule.high
MCMid == ShippedRule.mid
=============================================================================
