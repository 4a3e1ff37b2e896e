------------------------------ MODULE MCPairing ------------------------------
(***************************************************************************)
(* Instances of Pairing for TLC.  They start where Invite's create, open   *)
(* and consent lead to: one invite, created by Ann, consented to by Bob,   *)
(* no answer sheet yet; the runs of Invite cover how one gets there.       *)
(***************************************************************************)
EXTENDS Pairing, TLC

CONSTANTS Ann, Bob, i1, w1, w2

(* What fails where: the database, a process or a lock, with one handler;  *)
(* or the computation itself, with two handlers that finish the invite.    *)
MCDeployments ==
  {[faults |-> {"database", "crash"}, workers |-> {w1}, calls |-> {"reuse", "delete"}],
   [faults |-> {"stall"}, workers |-> {w1}, calls |-> {"reuse", "cancel", "delete"}],
   [faults |-> {"generate"}, workers |-> {w1, w2}, calls |-> {"openSheet", "submit", "reuse"}]}

(* Nothing fails, and the initiator cancels.                               *)
CancelDeployment ==
  {[faults |-> {}, workers |-> {w1, w2}, calls |-> {"reuse", "cancel"}]}

Consented ==
  [NoRow EXCEPT !.initiator = Ann, !.invitee = Bob, !.status = "consent_given"]

ConsentedInit ==
  /\ Job!JobInit
  /\ deployment \in Deployments
  /\ QueueInit
  /\ invite     = [i \in InviteId |-> Consented]
  /\ used       = InviteId
  /\ sheet      = [i \in InviteId |-> << >>]
  /\ snapshot   = [i \in InviteId |-> [NoSnapshot EXCEPT !.initiator = TRUE]]
  /\ consentLog = [i \in InviteId |-> [initiator |-> 1, agreed |-> 1, declined |-> 0]]
  /\ cooldown   = {}
  /\ delivered  = [i \in InviteId |-> 0]
  /\ req        = [w \in Workers |-> Idle]

ConsentedSpec == ConsentedInit /\ [][PairingNext]_pairingVars
FairConsentedSpec == ConsentedSpec /\ FairConsumers /\ FairHandlers

Symmetry == Permutations(Procs)
=============================================================================
