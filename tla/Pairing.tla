------------------------------- MODULE Pairing -------------------------------
(***************************************************************************)
(* The whole life of a pairing: the handlers of Invite and the consumers   *)
(* of ReportJob on the same rows, ledger and queue.  Nothing ties a        *)
(* handler to a consumer but those, so a step of one is a step that leaves *)
(* the other's private state alone.                                        *)
(***************************************************************************)
EXTENDS Invite

CONSTANTS Procs, Attempts, Deployments

VARIABLES
  proc, lock,
  deployment  (* Chosen at the start; see Deployment.                       *)

Job == INSTANCE ReportJob WITH faults <- deployment.faults

(* What goes wrong, the handlers in flight together, and what clients call.*)
Deployment == [faults : SUBSET Job!AllFaults, workers : SUBSET Workers, calls : SUBSET Handlers]

ASSUME PairingAssumption ==
  /\ None \notin Procs
  /\ Attempts \in Nat \ {0}
  /\ Deployments \subseteq Deployment

pairingVars == <<vars, proc, lock, deployment>>

PairingTypeOK == TypeOK /\ Job!JobTypeOK /\ deployment \in Deployments

PairingInit == Init /\ Job!JobInit /\ deployment \in Deployments

Handle ==
  /\ Next
  /\ \A w \in Workers :
       req'[w] # Idle => w \in deployment.workers /\ req'[w].op \in deployment.calls
  /\ "delete" \notin deployment.calls => \A i \in InviteId : Exists(i) => Exists(i)'
  /\ UNCHANGED <<proc, lock, deployment>>

handlerVars == <<used, sheet, consentLog, cooldown, delivered, req, deployment>>

Consume == Job!JobNext /\ UNCHANGED handlerVars

PairingNext == Handle \/ Consume

PairingSpec == PairingInit /\ [][PairingNext]_pairingVars

(* Consumers that are up poll the queue and go on with their run, and the  *)
(* stalled check keeps coming back; clients and their handlers owe nothing.*)
TakeNext(i) == (\E p \in Procs : Job!Take(p, i)) /\ UNCHANGED handlerVars
GoOn(p) == Job!Work(p) /\ UNCHANGED handlerVars
StalledCheck(i) == ~Job!AtWork(i) /\ Job!Stall(i) /\ UNCHANGED handlerVars

FairConsumers ==
  /\ \A p \in Procs : WF_pairingVars(GoOn(p))
  /\ \A i \in InviteId : WF_pairingVars(TakeNext(i)) /\ WF_pairingVars(StalledCheck(i))

(* A handler that does not fail runs to its end.                           *)
HandlerGoesOn(w) == Continue(w) /\ UNCHANGED <<proc, lock, deployment>>
FairHandlers == \A w \in Workers : WF_pairingVars(HandlerGoesOn(w))

-----------------------------------------------------------------------------
(* What holds.                                                             *)

(* A report that counts as ready, or whose pairing is unlocked, holds      *)
(* conclusions, whichever runs of the job overlapped (generate,            *)
(* markInviteUnlocked); and they were computed from answers the invitee    *)
(* consented to hand over.                                                 *)
ConclusionsStand ==
  \A i \in InviteId :
    /\ report[i].status = "ready" \/ invite[i].status = "report_unlocked" => report[i].basis # None
    /\ report[i].basis # None => consentLog[i].agreed > 0

(* The status machine of Invite with the worker's one edge; the worker     *)
(* never lifts a withdrawn or expired invite back (markInviteUnlocked).    *)
PairingStatusFollowsMachine ==
  [][\A i \in InviteId :
       invite'[i].status # invite[i].status =>
         \/ <<invite[i].status, invite'[i].status>> \in
              Edges \cup {<<"completed", "report_unlocked">>}
         \/ Renewing(i)]_pairingVars

Quiet(i) == queue[i].state = "absent" /\ \A p \in Procs : proc[p].inv # i

(* Processes, their locks and the database stay up.                        *)
AllUp == deployment.faults \subseteq {"generate"}

(* D1: a report that has failed for good has its work order: a ledger row  *)
(* in status failed (processor's catch block), unless a database call or   *)
(* the process failed inside the catch block itself.                       *)
FailedHasTicket ==
  \A i \in InviteId :
    AllUp /\ report[i].status = "failed" /\ Quiet(i) => \E k \in DOMAIN task[i] : task[i][k] = "failed"

(* R6, D1: every job leaves the queue, however often it fails, stalls or   *)
(* loses its process, attempts and stalls both being limited; and a report *)
(* that is being generated becomes ready or fails, as long as processes    *)
(* and the database stay up.                                               *)
PendingResolves ==
  \A i \in InviteId :
    /\ queue[i].state # "absent" ~> queue[i].state = "absent"
    /\ AllUp /\ report[i].status = "pending" /\ queue[i].state # "absent" ~> report[i].status # "pending"

-----------------------------------------------------------------------------
(* What comments and documents say, and the code does not keep.            *)

(* cancel: "已完成/已解锁不允许取消，避免把已生成的报告孤儿化".            *)
CancelKeepsReport ==
  \A i \in InviteId : invite[i].status = "cancelled" => report[i].status # "ready"
=============================================================================
