------------------------------ MODULE MCInvite ------------------------------
(***************************************************************************)
(* Instances of Invite for TLC.  Each deployment fixes the operations its  *)
(* clients call, so that the handlers that can race on one row are checked *)
(* together without the ones that cannot meet them, and the invites there  *)
(* can be.                                                                 *)
(***************************************************************************)
EXTENDS Invite, TLC

CONSTANTS
  Ann, Bob, Cat, i1,
  Deployments,
  Creators      (* Users who create invites of their own in this instance. *)

VARIABLE deployment

(* One invite, answered; or several, each declined one to be replaced.     *)
Answering ==
  [ids |-> {i1}, calls |-> {"create", "cancel", "delete", "open", "consent", "openSheet",
                            "saveDraft", "submit", "reuse"}]
Replacing ==
  [ids |-> InviteId, calls |-> {"create", "replace", "cancel", "open", "decline"}]
AnsweringAndReplacing == {Answering, Replacing}

(* One link that several users open while it is renewed and deleted.       *)
Linking ==
  {[ids |-> InviteId, calls |-> {"create", "open", "consent", "decline", "renew", "remind",
                                 "delete", "cancel"}]}

MCInit == Init /\ deployment \in Deployments

MCNext ==
  /\ Next
  /\ used' \subseteq deployment.ids
  /\ \A w \in Workers : req'[w] # Idle => req'[w].op \in deployment.calls
  /\ \A w \in Workers : req'[w].op = "create" => req'[w].user \in Creators
  /\ "delete" \notin deployment.calls => \A i \in InviteId : Exists(i) => Exists(i)'
  /\ UNCHANGED deployment

MCSpec == MCInit /\ [][MCNext]_<<vars, deployment>>
MCFairSpec == MCSpec /\ WF_vars(ExpireScan)

(* Handlers are interchangeable.                                           *)
Symmetry == Permutations(Workers)
=============================================================================
