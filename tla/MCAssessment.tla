---------------------------- MODULE MCAssessment ----------------------------
(***************************************************************************)
(* Instances of Assessment for TLC: two devices that send one request at a *)
(* time, or one device whose requests overlap.                             *)
(***************************************************************************)
EXTENDS Assessment, TLC

CONSTANTS d1, d2, o1, s1, v1, NoAnswer,
          Fewer   \* acts a device whose requests overlap is without

TwoDevices   == {d1, d2}
OneOrdinary  == {o1}
OneSensitive == {s1}
OneValue     == {v1}
Devices      == Permutations(TwoDevices)

VARIABLE overlapping

MCInit == Init /\ overlapping \in BOOLEAN

(* A device that never acts is one that is not there.                      *)
Idle(d) == page'[d] = Closed /\ call'[d] = [k \in Slot |-> NoCall]

MCNext ==
  /\ Next
  /\ IF overlapping
     THEN acts' <= MaxActs - Fewer /\ \E d \in Device : \A e \in Device \ {d} : Idle(e)
     ELSE \A d \in Device, k \in Slot : k > 1 => call'[d][k] = NoCall
  /\ UNCHANGED overlapping

MCSpec == MCInit /\ [][MCNext]_<<vars, overlapping>>
=============================================================================
