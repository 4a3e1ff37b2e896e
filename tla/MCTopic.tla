------------------------------- MODULE MCTopic -------------------------------
(***************************************************************************)
(* Instances of ExclusiveCard and TopicReading for TLC: three deployments, *)
(* the requests for the exclusive card, two devices of a reader, and one   *)
(* device while administrators edit the topic.                             *)
(***************************************************************************)
EXTENDS TopicReading

CONSTANT Prepared     \* acts the reader is without while administrators edit

VARIABLE part         \* which half moves

MCInit ==
  /\ Init
  /\ ReadingInit
  /\ part \in {"card", "reading", "editing"}

(* The budget of acts and of edits is what the deployment leaves of it.    *)
Allowed ==
  CASE part = "reading" -> edits' = 0
    [] part = "editing" -> /\ acts' <= MaxActs - Prepared
                           /\ \E d \in Device : \A e \in Device \ {d} : page'[e] = Closed

MCNext ==
  \/ part = "card" /\ Next /\ UNCHANGED <<reading, part>>
  \/ part # "card" /\ ReadingNext /\ Allowed /\ UNCHANGED <<vars, part>>

MCSpec == MCInit /\ [][MCNext]_<<vars, reading, part>>
=============================================================================
