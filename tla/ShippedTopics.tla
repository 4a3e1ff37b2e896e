--------------------------- MODULE ShippedTopics ---------------------------
(***************************************************************************)
(* The topics the server is shipped with (modules/topic/data and TOPICS of *)
(* topic.constants.ts), as a value of CardContent's constant Topics: the   *)
(* kinds of their cards, in order, and the dimensions they are mounted at. *)
(***************************************************************************)
EXTENDS CardContent

Pitfalls == <<"pitfall", "pitfall">>
Scripts  == <<"script", "script", "script">>

BetrothalGift   == Pitfalls \o <<"cognition">> \o Scripts \o <<"quiz", "action">>
Money           == Pitfalls \o Scripts \o <<"quiz", "action">>
HouseChores     == Pitfalls \o Scripts \o <<"quiz", "action">>
SecondChild     == Pitfalls \o <<"cognition">> \o Scripts \o <<"quiz", "action">>
InLawBoundary   == Pitfalls \o <<"cognition">> \o Scripts \o <<"quiz", "action">>
ColdWar         == Pitfalls \o Scripts \o <<"quiz", "action">>
LongDistance    == Pitfalls \o Scripts \o <<"quiz", "action">>
MeetParents     == Pitfalls \o Scripts \o <<"quiz", "action">>

(* TOPICS, in the order of the list                                        *)
MountDimensions ==
  [betrothal_gift  |-> <<"FINANCE">>,         money         |-> <<"FINANCE">>,
   chores          |-> <<"CHORES">>,          second_child  |-> <<"PARENTING">>,
   in_law_boundary |-> <<"FAMILY_BOUNDARY">>, cold_war      |-> <<"COMMUNICATION">>,
   long_distance   |-> <<"CAREER", "INTIMACY">>,
   meet_parents    |-> <<"FAMILY_BOUNDARY", "COMMUNICATION">>]

TopicSeeds ==
  [betrothal_gift  |-> BetrothalGift, money        |-> Money,
   chores          |-> HouseChores,   second_child |-> SecondChild,
   in_law_boundary |-> InLawBoundary, cold_war     |-> ColdWar,
   long_distance   |-> LongDistance,  meet_parents |-> MeetParents]

(* TopicSeedService.seed of an empty database: everything is on the shelf  *)
ShippedTopics ==
  [t \in DOMAIN TopicSeeds |->
     [mounts |-> MountDimensions[t],
      cards |-> [i \in DOMAIN TopicSeeds[t] |-> [kind |-> TopicSeeds[t][i], on |-> TRUE]]]]

(* What the seed is tested for (topic-seed.data.spec.ts), and what         *)
(* topic.constants.ts:148 says of it: with no card taken down, the card    *)
(* that replaces the model's is never empty.                               *)
Count(t, kind) == Cardinality({i \in DOMAIN TopicSeeds[t] : TopicSeeds[t][i] = kind})

ASSUME TopicSeedAssumption ==
  /\ DOMAIN MountDimensions = DOMAIN TopicSeeds
  /\ \A t \in DOMAIN TopicSeeds :
       /\ Len(TopicSeeds[t]) \in 7..11
       /\ Count(t, "pitfall") >= 2 /\ Count(t, "script") >= 3 /\ Count(t, "quiz") >= 1
       /\ {i \in DOMAIN TopicSeeds[t] : TopicSeeds[t][i] \in {"cognition", "action"}} # {}
       /\ MountDimensions[t] # << >>
=============================================================================
