---------------------------- MODULE ConsentFirst ----------------------------
(***************************************************************************)
(* What the invitation promises the invitee and the initiator, with no     *)
(* handler, row or clock in sight: answers of the invitee are kept for a   *)
(* pairing only after the invitee's consent to it was recorded, and a      *)
(* pairing counts as complete only while the invitee's answers are kept.   *)
(* Recorded consent is never lost; the pairing's data can be.              *)
(***************************************************************************)
CONSTANT Pairing

VARIABLES
  agreed,   (* Pairings with recorded consent of the invitee.              *)
  kept,     (* Pairings with answers of the invitee.                       *)
  complete  (* Pairings that count as complete.                            *)

promise == <<agreed, kept, complete>>

Init == agreed = {} /\ kept = {} /\ complete = {}

Agree(i) ==
  /\ agreed' = agreed \cup {i}
  /\ UNCHANGED <<kept, complete>>

Keep(i) ==
  /\ i \in agreed
  /\ kept' = kept \cup {i}
  /\ UNCHANGED <<agreed, complete>>

Complete(i) ==
  /\ i \in kept
  /\ complete' = complete \cup {i}
  /\ UNCHANGED <<agreed, kept>>

(* Withdrawn, expired or renewed: the answers stay.                        *)
Reopen(i) ==
  /\ complete' = complete \ {i}
  /\ UNCHANGED <<agreed, kept>>

Delete(i) ==
  /\ kept' = kept \ {i}
  /\ complete' = complete \ {i}
  /\ UNCHANGED agreed

Next == \E i \in Pairing : Agree(i) \/ Keep(i) \/ Complete(i) \/ Reopen(i) \/ Delete(i)

Spec == Init /\ [][Next]_promise
=============================================================================
