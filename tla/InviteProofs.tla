---------------------------- MODULE InviteProofs ----------------------------
(***************************************************************************)
(* What is proved of Invite, for every set of users, invites and handlers. *)
(*                                                                         *)
(* The type invariant comes first.  Its proof goes through the steps a     *)
(* handler is built from (Goto, Return, Start and the writes of one row),  *)
(* so that an action's case only says which of them it is made of.  Then   *)
(* the consent evidence, the rows of the invites, and how many of them can *)
(* be created.                                                             *)
(***************************************************************************)
EXTENDS Invite, SequenceTheorems, FiniteSetTheorems, TLAPS

-----------------------------------------------------------------------------
(* The building blocks keep their types.                                   *)

(* A handler that goes on to its next await is still a handler.            *)
LEMMA GotoType ==
  ASSUME TypeOK, NEW w \in Workers, NEW pc \in Steps, Goto(w, pc)
  PROVE  req' \in [Workers -> Request]
BY ZenonT(60) DEF TypeOK, Goto, Request

(* So is a worker whose handler has returned.                              *)
LEMMA ReturnType ==
  ASSUME TypeOK, NEW w \in Workers, Return(w)
  PROVE  req' \in [Workers -> Request]
<1>1. NoRow \in Row
  BY DEF NoRow, Row
<1>2. Idle \in Request
  BY <1>1 DEF Idle, Request, Steps
<1> QED
  BY <1>2 DEF TypeOK, Return

(* And a worker that has taken a call.                                     *)
LEMMA StartType ==
  ASSUME TypeOK,
         NEW w \in Workers, NEW pc \in Steps, NEW op \in AllHandlers,
         NEW u \in Users, NEW i \in InviteId \cup {None},
         op \in {"renew", "remind"} => i \in InviteId,
         Start(w, pc, op, u, i)
  PROVE  req' \in [Workers -> Request]
<1> DEFINE seen == IF op \in {"renew", "remind"} THEN invite[i] ELSE NoRow
           r == [Idle EXCEPT !.pc = pc, !.op = op, !.user = u, !.inv = i, !.seen = seen]
<1>1. NoRow \in Row
  BY DEF NoRow, Row
<1>2. seen \in Row
  BY <1>1 DEF TypeOK
<1>3. r \in Request
  BY <1>2 DEF Idle, Request
<1>4. req' = [req EXCEPT ![w] = r]
  BY DEF Start
<1> QED
  BY <1>3, <1>4 DEF TypeOK

(* Writing one element of a sequence, or none, leaves a sequence.          *)
LEMMA ExceptType ==
  ASSUME NEW S, NEW s \in Seq(S), NEW k, NEW e \in S
  PROVE  [s EXCEPT ![k] = e] \in Seq(S)
<1>1. CASE k \in 1 .. Len(s)
  BY <1>1, ExceptSeq
<1>2. CASE k \notin 1 .. Len(s)
  BY <1>2, [s EXCEPT ![k] = e] = s
<1> QED
  BY <1>1, <1>2

(* A status moved along leaves a table of rows.                            *)
LEMMA MoveStatusType ==
  ASSUME TypeOK, NEW i, NEW from, NEW status \in Status, MoveStatus(i, from, status)
  PROVE  invite' \in [InviteId -> Row]
<1>1. CASE SetStatus(i, status)
  BY <1>1, ZenonT(60) DEF SetStatus, TypeOK, Row
<1> QED
  BY <1>1 DEF MoveStatus, TypeOK

(* Evidence only adds to a count.                                          *)
LEMMA RecordAnswerType ==
  ASSUME TypeOK, NEW i \in InviteId, NEW answer, RecordAnswer(i, answer)
  PROVE  consentLog' \in [InviteId -> Evidence]
<1>1. consentLog \in [InviteId -> Evidence]
  BY DEF TypeOK
<1>2. [consentLog EXCEPT ![i].agreed = @ + 1] \in [InviteId -> Evidence]
  BY <1>1 DEF Evidence
<1>3. [consentLog EXCEPT ![i].declined = @ + 1] \in [InviteId -> Evidence]
  BY <1>1 DEF Evidence
<1> QED
  BY <1>2, <1>3 DEF RecordAnswer

(* An expired invite is revived with a row read before.                    *)
LEMMA ReviveFromType ==
  ASSUME NEW r \in Request, NEW row \in Row
  PROVE  ReviveFrom(r, row) \in Request
<1>1. [row EXCEPT !.status = "invite_created"] \in Row
  BY DEF Row, Status, Active, Expirable
<1>2. CASE row.invitee = None
  <2> DEFINE first == [row EXCEPT !.status = "invite_created"]
  <2>1. ReviveFrom(r, row) = [r EXCEPT !.pc = "renew", !.seen = first]
    BY <1>2 DEF ReviveFrom
  <2>2. first \in Row
    BY <1>1
  <2> HIDE DEF first
  <2> QED
    BY <2>1, <2>2 DEF Request, Steps
<1>3. CASE row.invitee # None
  <2>1. ReviveFrom(r, row) = [r EXCEPT !.pc = "revive", !.seen = row]
    BY <1>3 DEF ReviveFrom
  <2> QED
    BY <2>1 DEF Request, Steps
<1> QED
  BY <1>2, <1>3

(* A finished or an idle worker fits the table of requests.                *)
LEMMA ConstantTypes == NoRow \in Row /\ Idle \in Request /\ NoReport \in Report /\ NoJob \in BullJob
<1>1. NoRow \in Row
  BY DEF NoRow, Row
<1> QED
  BY <1>1 DEF Idle, Request, Steps, NoReport, Report, NoJob, BullJob

-----------------------------------------------------------------------------
(* The calls a client makes.                                               *)

LEMMA ReceiveType ==
  ASSUME TypeOK, NEW w \in Workers, NEW u \in Users, NEW i \in InviteId,
         Receive(w, u, i)
  PROVE  TypeOK'
<1> USE DEF Steps, AllHandlers
<1>1. CASE LoadOverdue(w, u, i)
  BY <1>1, StartType DEF LoadOverdue, TypeOK, QueueTypeOK, tables, queueVars
<1>2. CASE StartReplace(w, u, i)
  BY <1>2, StartType DEF StartReplace, TypeOK, QueueTypeOK, tables, queueVars
<1>3. CASE StartRenew(w, u, i)
  <2>1. UNCHANGED tables
    BY <1>3 DEF StartRenew
  <2>2. req' \in [Workers -> Request]
    <3>1. CASE Start(w, "renew", "renew", u, i)
      BY <3>1, StartType
    <3>2. CASE req' = [req EXCEPT ![w] =
             ReviveFrom([Idle EXCEPT !.op = "renew", !.user = u, !.inv = i], invite[i])]
      <4> DEFINE r == [Idle EXCEPT !.op = "renew", !.user = u, !.inv = i]
      <4>1. r \in Request
        BY ConstantTypes DEF Request
      <4>2. invite[i] \in Row
        BY DEF TypeOK
      <4>3. ReviveFrom(r, invite[i]) \in Request
        BY <4>1, <4>2, ReviveFromType
      <4> QED
        BY <3>2, <4>3 DEF TypeOK
    <3> QED
      BY <1>3, <3>1, <3>2 DEF StartRenew
  <2> QED
    BY <2>1, <2>2 DEF TypeOK, QueueTypeOK, tables, queueVars
<1>4. CASE StartCancel(w, u, i)
  BY <1>4, StartType DEF StartCancel, TypeOK, QueueTypeOK, tables, queueVars
<1>5. CASE StartRemind(w, u, i)
  BY <1>5, StartType DEF StartRemind, TypeOK, QueueTypeOK, tables, queueVars
<1>6. CASE StartOpen(w, u, i)
  BY <1>6, StartType DEF StartOpen, TypeOK, QueueTypeOK, tables, queueVars
<1>7. CASE StartConsent(w, u, i)
  BY <1>7, StartType DEF StartConsent, TypeOK, QueueTypeOK, tables, queueVars
<1>8. CASE StartOpenSheet(w, u, i)
  BY <1>8, StartType DEF StartOpenSheet, TypeOK, QueueTypeOK, tables, queueVars
<1>9. CASE StartSaveDraft(w, u, i)
  BY <1>9, StartType DEF StartSaveDraft, TypeOK, QueueTypeOK, tables, queueVars
<1>10. CASE StartSubmit(w, u, i)
  BY <1>10, StartType DEF StartSubmit, TypeOK, QueueTypeOK, tables, queueVars
<1>11. CASE StartReuse(w, u, i)
  BY <1>11, StartType DEF StartReuse, TypeOK, QueueTypeOK, tables, queueVars
<1> QED
  BY <1>1, <1>2, <1>3, <1>4, <1>5, <1>6, <1>7, <1>8, <1>9, <1>10, <1>11 DEF Receive

-----------------------------------------------------------------------------
(* The steps of a handler in flight.                                       *)

(* The report queue's own steps keep its types.                            *)
LEMMA QueueStepTypes ==
  ASSUME TypeOK, NEW i
  PROVE  /\ EnsurePending(i) => report' \in [InviteId -> Report]
         /\ InsertTask(i) => task' \in [InviteId -> Seq(TaskStatus)]
         /\ AddJob(i) => queue' \in [InviteId -> BullJob]
<1>1. ASSUME EnsurePending(i)
      PROVE  report' \in [InviteId -> Report]
  <2>1. [status |-> "pending", basis |-> None] \in Report
    BY DEF Report
  <2> QED
    BY <1>1, <2>1 DEF EnsurePending, TypeOK, QueueTypeOK
<1>2. ASSUME InsertTask(i)
      PROVE  task' \in [InviteId -> Seq(TaskStatus)]
  <2>1. \A j \in InviteId : Append(task[j], "pending") \in Seq(TaskStatus)
    BY DEF TypeOK, QueueTypeOK, TaskStatus
  <2> QED
    BY <1>2, <2>1 DEF InsertTask, TypeOK, QueueTypeOK
<1>3. ASSUME AddJob(i)
      PROVE  queue' \in [InviteId -> BullJob]
  <2>1. [state |-> "waiting", made |-> 0, stalls |-> 0] \in BullJob
    BY DEF BullJob
  <2> QED
    BY <1>3, <2>1 DEF AddJob, TypeOK, QueueTypeOK
<1> QED
  BY <1>1, <1>2, <1>3

(* A handler in flight is somebody's call, and every call but a creation    *)
(* names an invite.                                                        *)
Called ==
  \A w \in Workers :
    /\ req[w].pc # "idle" => req[w].user \in Users
    /\ req[w].pc \notin {"idle", "cooldown", "checkActive", "insert"} => req[w].inv \in InviteId

Typed == TypeOK /\ Called

(* The steps that only look something up.                                  *)
LEMMA LookupTypes ==
  ASSUME Typed, NEW w \in Workers
  PROVE  /\ CheckDerived(w) => TypeOK'
         /\ CheckActive(w) => TypeOK'
         /\ FindSheet(w) => TypeOK'
         /\ FindSnapshot(w) => TypeOK'
         /\ CountSnapshots(w) => TypeOK'
         /\ FindTask(w) => TypeOK'
<1> USE DEF Steps, Typed
<1>1. ASSUME CheckDerived(w) PROVE TypeOK'
  BY <1>1, GotoType, ReturnType DEF CheckDerived, tables, TypeOK, QueueTypeOK, queueVars
<1>2. ASSUME CheckActive(w) PROVE TypeOK'
  BY <1>2, GotoType, ReturnType DEF CheckActive, tables, TypeOK, QueueTypeOK, queueVars
<1>3. ASSUME FindSheet(w) PROVE TypeOK'
  BY <1>3, GotoType, ReturnType DEF FindSheet, tables, TypeOK, QueueTypeOK, queueVars
<1>4. ASSUME FindSnapshot(w) PROVE TypeOK'
  BY <1>4, GotoType, ReturnType DEF FindSnapshot, tables, TypeOK, QueueTypeOK, queueVars
<1>5. ASSUME CountSnapshots(w) PROVE TypeOK'
  BY <1>5, GotoType, ReturnType DEF CountSnapshots, tables, TypeOK, QueueTypeOK, queueVars
<1>6. ASSUME FindTask(w) PROVE TypeOK'
  BY <1>6, GotoType, ReturnType DEF FindTask, tables, TypeOK, QueueTypeOK, queueVars
<1> QED
  BY <1>1, <1>2, <1>3, <1>4, <1>5, <1>6

(* The steps that move the status of one invite.                           *)
LEMMA StatusStepTypes ==
  ASSUME Typed, NEW w \in Workers
  PROVE  /\ WriteCancel(w) => TypeOK'
         /\ MarkAnswering(w) => TypeOK'
         /\ CompleteInvite(w) => TypeOK'
         /\ PersistConsent(w) => TypeOK'
<1> USE DEF Steps, Typed
<1>1. ASSUME WriteCancel(w) PROVE TypeOK'
  <2>1. invite' \in [InviteId -> Row]
    BY <1>1, MoveStatusType DEF WriteCancel, Status, Active, Expirable
  <2>2. req' \in [Workers -> Request]
    BY <1>1, ReturnType DEF WriteCancel
  <2> QED
    BY <1>1, <2>1, <2>2 DEF WriteCancel, TypeOK, QueueTypeOK, queueVars
<1>2. ASSUME MarkAnswering(w) PROVE TypeOK'
  <2>1. invite' \in [InviteId -> Row]
    BY <1>2, MoveStatusType DEF MarkAnswering, Status, Active, Expirable
  <2>2. req' \in [Workers -> Request]
    BY <1>2, GotoType DEF MarkAnswering
  <2> QED
    BY <1>2, <2>1, <2>2 DEF MarkAnswering, TypeOK, QueueTypeOK, queueVars
<1>3. ASSUME CompleteInvite(w) PROVE TypeOK'
  <2>1. invite' \in [InviteId -> Row]
    BY <1>3, MoveStatusType DEF CompleteInvite, Status, Active, Expirable
  <2>2. req' \in [Workers -> Request]
    BY <1>3, GotoType DEF CompleteInvite
  <2> QED
    BY <1>3, <2>1, <2>2 DEF CompleteInvite, TypeOK, QueueTypeOK, queueVars
<1>4. ASSUME PersistConsent(w) PROVE TypeOK'
  <2> DEFINE i == req[w].inv
             answer == req[w].op
             status == IF answer = "consent" THEN "consent_given" ELSE "declined"
  <2>1. ASSUME SetStatus(i, status), RecordAnswer(i, answer)
        PROVE  invite' \in [InviteId -> Row] /\ consentLog' \in [InviteId -> Evidence]
    <3>0. i \in InviteId
      BY <1>4 DEF PersistConsent, Called, At
    <3>1. invite[i].status \in {invite[i].status} /\ status \in Status
      BY DEF Status, Active, Expirable
    <3>2. MoveStatus(i, {invite[i].status}, status)
      BY <2>1, <3>1 DEF MoveStatus
    <3> QED
      BY <2>1, <3>0, <3>1, <3>2, MoveStatusType, RecordAnswerType
  <2>2. invite' \in [InviteId -> Row] /\ consentLog' \in [InviteId -> Evidence]
    BY <1>4, <2>1 DEF PersistConsent, TypeOK
  <2>3. req' \in [Workers -> Request]
    BY <1>4, ReturnType DEF PersistConsent
  <2> QED
    BY <1>4, <2>2, <2>3 DEF PersistConsent, TypeOK, QueueTypeOK, queueVars
<1> QED
  BY <1>1, <1>2, <1>3, <1>4

(* Creation, expiry and the choice of the status to revive to.             *)
LEMMA RowStepTypes ==
  ASSUME Typed, NEW w \in Workers
  PROVE  /\ CheckCooldown(w) => TypeOK'
         /\ InsertInvite(w) => TypeOK'
         /\ LazyExpire(w) => TypeOK'
         /\ Revive(w) => TypeOK'
<1> USE DEF Steps, Typed
<1>1. ASSUME CheckCooldown(w) PROVE TypeOK'
  <2>1. req[w].user \in Users
    BY <1>1 DEF CheckCooldown, At, Called
  <2>2. req' \in [Workers -> Request]
    BY <1>1, GotoType, ReturnType DEF CheckCooldown
  <2> QED
    BY <1>1, <2>1, <2>2 DEF CheckCooldown, TypeOK, QueueTypeOK, queueVars
<1>2. ASSUME InsertInvite(w) PROVE TypeOK'
  <2>1. req' \in [Workers -> Request]
    BY <1>2, ReturnType DEF InsertInvite
  <2>2. PICK i \in InviteId \ used :
          /\ used' = used \cup {i}
          /\ invite' = [invite EXCEPT ![i] =
               [NoRow EXCEPT !.initiator = req[w].user, !.status = "invite_created",
                             !.from = req[w].inv]]
          /\ snapshot' = [snapshot EXCEPT ![i].initiator = TRUE]
          /\ consentLog' = [consentLog EXCEPT ![i].initiator = @ + 1]
    BY <1>2 DEF InsertInvite
  <2>3. invite' \in [InviteId -> Row]
    BY <2>2 DEF TypeOK, Request, Row, NoRow, Status, Active, Expirable
  <2>4. snapshot' \in [InviteId -> Snapshot]
    BY <2>2 DEF TypeOK, Snapshot
  <2>5. consentLog' \in [InviteId -> Evidence]
    <3>1. consentLog \in [InviteId -> Evidence]
      BY DEF TypeOK
    <3> QED
      BY <2>2, <3>1 DEF Evidence
  <2> QED
    BY <1>2, <2>1, <2>2, <2>3, <2>4, <2>5 DEF InsertInvite, TypeOK, QueueTypeOK, queueVars
<1>3. ASSUME LazyExpire(w) PROVE TypeOK'
  <2>1. invite' \in [InviteId -> Row]
    BY <1>3, MoveStatusType DEF LazyExpire, Status
  <2>2. req' \in [Workers -> Request]
    <3> DEFINE expired == [req[w].seen EXCEPT !.status = "expired"]
    <3>1. req[w] \in Request
      BY DEF TypeOK
    <3>2. expired \in Row
      BY <3>1 DEF Request, Row, Status
    <3>3. ReviveFrom(req[w], expired) \in Request
      BY <3>1, <3>2, ReviveFromType
    <3>4. CASE req' = [req EXCEPT ![w] = ReviveFrom(req[w], expired)]
      BY <3>3, <3>4 DEF TypeOK
    <3> QED
      BY <1>3, <3>4, ReturnType DEF LazyExpire
  <2> QED
    BY <1>3, <2>1, <2>2 DEF LazyExpire, TypeOK, QueueTypeOK, queueVars
<1>4. ASSUME Revive(w) PROVE TypeOK'
  <2>0. invite \in [InviteId -> Row] /\ req \in [Workers -> Request]
    BY DEF TypeOK
  <2> DEFINE status == IF Sheets(req[w].inv) = {} THEN "invite_opened" ELSE "answering"
             seen == [req[w].seen EXCEPT !.status = status]
  <2>1. status \in Status
    BY DEF Status, Active, Expirable
  <2>2. seen \in Row
    <3> HIDE DEF status
    <3>1. req[w].seen \in Row
      BY <2>0 DEF Request
    <3> QED
      BY <2>1, <3>1 DEF Row
  <2> HIDE DEF seen
  <2>3. req' = [req EXCEPT ![w].pc = "renew", ![w].seen = seen]
    BY <1>4 DEF Revive, seen
  <2>4. "renew" \in Steps
    OBVIOUS
  <2>5. req' \in [Workers -> Request]
    <3> HIDE DEF Steps
    <3> QED
      BY <2>0, <2>2, <2>3, <2>4, ZenonT(60) DEF Request
  <2> QED
    BY <1>4, <2>5 DEF Revive, tables, TypeOK, QueueTypeOK, queueVars
<1> QED
  BY <1>1, <1>2, <1>3, <1>4

(* The writes of a renewal, a reminder and a binding.                      *)
LEMMA WriteStepTypes ==
  ASSUME Typed, NEW w \in Workers
  PROVE  /\ WriteRenewal(w) => TypeOK'
         /\ TallyReminder(w) => TypeOK'
         /\ BindFirstInvitee(w) => TypeOK'
         /\ SendReminder(w) => TypeOK'
<1> USE DEF Steps, Typed
<1>1. ASSUME WriteRenewal(w) PROVE TypeOK'
  <2>0. invite \in [InviteId -> Row] /\ req \in [Workers -> Request]
    BY DEF TypeOK
  <2> DEFINE i == req[w].inv
             renewed == req[w].seen.renewed + 1
             status == req[w].seen.status
  <2>1. req[w].seen \in Row
    BY <2>0 DEF Request
  <2>2. renewed \in Nat /\ status \in Status \cup {"none"}
    BY <2>1 DEF Row
  <2>3. ASSUME invite' = [invite EXCEPT ![i].renewed = renewed,
                                        ![i].due = FALSE, ![i].status = status]
        PROVE  invite' \in [InviteId -> Row]
    <3>1. i \in InviteId
      BY <1>1 DEF WriteRenewal, Called, At
    <3> HIDE DEF renewed, status, i
    <3>2. [invite[i] EXCEPT !.renewed = renewed, !.due = FALSE, !.status = status] \in Row
      BY <2>0, <2>2, <3>1 DEF Row
    <3>3. \A j \in InviteId : invite'[j] \in Row
      BY <2>0, <2>3, <3>1, <3>2
    <3>4. invite' = [j \in InviteId |-> invite'[j]]
      BY <2>0, <2>3
    <3> QED
      BY <3>3, <3>4
  <2>4. invite' \in [InviteId -> Row]
    BY <1>1, <2>3 DEF WriteRenewal, TypeOK
  <2>5. req' \in [Workers -> Request]
    BY <1>1, ReturnType DEF WriteRenewal
  <2> QED
    BY <1>1, <2>4, <2>5 DEF WriteRenewal, TypeOK, QueueTypeOK, queueVars
<1>2. ASSUME TallyReminder(w) PROVE TypeOK'
  <2>0. invite \in [InviteId -> Row] /\ req \in [Workers -> Request]
    BY DEF TypeOK
  <2> DEFINE i == req[w].inv
             reminds == req[w].seen.reminds + 1
  <2>1. reminds \in Nat
    BY DEF TypeOK, Request, Row
  <2>2. ASSUME invite' = [invite EXCEPT ![i].reminds = reminds]
        PROVE  invite' \in [InviteId -> Row]
    <3> HIDE DEF reminds, i
    <3> QED
      BY <2>0, <2>1, <2>2, ZenonT(60) DEF Row
  <2>3. invite' \in [InviteId -> Row]
    BY <1>2, <2>2 DEF TallyReminder, TypeOK
  <2>4. req' \in [Workers -> Request]
    BY <1>2, ReturnType DEF TallyReminder
  <2> QED
    BY <1>2, <2>3, <2>4 DEF TallyReminder, TypeOK, QueueTypeOK, queueVars
<1>3. ASSUME BindFirstInvitee(w) PROVE TypeOK'
  <2>0. invite \in [InviteId -> Row] /\ req \in [Workers -> Request]
    BY DEF TypeOK
  <2> DEFINE i == req[w].inv
             u == req[w].user
  <2>1. u \in Users \cup {None} /\ "invite_opened" \in Status
    BY DEF TypeOK, Request, Status, Active, Expirable
  <2>2. ASSUME invite' = [invite EXCEPT ![i].invitee = u, ![i].status = "invite_opened"]
        PROVE  invite' \in [InviteId -> Row]
    <3> HIDE DEF i, u
    <3> DEFINE r == [invite[i] EXCEPT !.invitee = u, !.status = "invite_opened"]
    <3>1. ASSUME i \in InviteId PROVE r \in Row
      <4>1. invite[i] \in Row
        BY <2>0, <3>1
      <4> QED
        BY <4>1, <2>1 DEF Row
    <3>2. invite' = [invite EXCEPT ![i] = r]
      BY <2>2
    <3> HIDE DEF r
    <3> QED
      BY <2>0, <3>1, <3>2
  <2>3. invite' \in [InviteId -> Row]
    BY <1>3, <2>2 DEF BindFirstInvitee, TypeOK
  <2>4. req' \in [Workers -> Request]
    BY <1>3, ReturnType DEF BindFirstInvitee
  <2> QED
    BY <1>3, <2>3, <2>4 DEF BindFirstInvitee, TypeOK, QueueTypeOK, queueVars
<1>4. ASSUME SendReminder(w) PROVE TypeOK'
  <2>0. req[w].inv \in InviteId
    BY <1>4 DEF SendReminder, Called, At
  <2>1. delivered' \in [InviteId -> Nat]
    BY <1>4, <2>0 DEF SendReminder, TypeOK
  <2>2. req' \in [Workers -> Request]
    BY <1>4, GotoType, ReturnType DEF SendReminder
  <2> QED
    BY <1>4, <2>1, <2>2 DEF SendReminder, TypeOK, QueueTypeOK, queueVars
<1> QED
  BY <1>1, <1>2, <1>3, <1>4

(* The steps on the answer sheet.                                          *)
LEMMA SheetStepTypes ==
  ASSUME Typed, NEW w \in Workers
  PROVE  /\ InsertSheet(w) => TypeOK'
         /\ LoadForSave(w) => TypeOK'
         /\ LoadForSubmit(w) => TypeOK'
         /\ SaveInviteDraft(w) => TypeOK'
         /\ LockSheet(w) => TypeOK'
<1> USE DEF Steps, Typed
<1>1. ASSUME InsertSheet(w) PROVE TypeOK'
  <2>1. req[w].inv \in InviteId /\ sheet[req[w].inv] \in Seq(SheetState)
    BY <1>1 DEF InsertSheet, Called, At, TypeOK
  <2>2. Append(sheet[req[w].inv], "empty") \in Seq(SheetState)
    BY <2>1 DEF SheetState
  <2>3. sheet' \in [InviteId -> Seq(SheetState)]
    BY <1>1, <2>1, <2>2 DEF InsertSheet, TypeOK
  <2>4. req' \in [Workers -> Request]
    BY <1>1, ReturnType DEF InsertSheet
  <2> QED
    BY <1>1, <2>3, <2>4 DEF InsertSheet, TypeOK, QueueTypeOK, queueVars
<1>2. ASSUME LoadForSave(w) PROVE TypeOK'
  <2>1. req' \in [Workers -> Request]
    <3>1. CASE Return(w)
      BY <3>1, ReturnType
    <3>2. ASSUME NEW k \in Sheets(req[w].inv),
                 req' = [req EXCEPT ![w].pc = "save", ![w].row = k]
          PROVE  req' \in [Workers -> Request]
      <4>0. req[w].inv \in InviteId
        BY <1>2 DEF LoadForSave, Called, At
      <4>1. k \in Nat
        <5>1. sheet[req[w].inv] \in Seq(SheetState)
          BY <4>0 DEF TypeOK
        <5> QED
          BY <5>1 DEF Sheets
      <4>2. req \in [Workers -> Request] /\ "save" \in Steps
        BY DEF TypeOK
      <4> HIDE DEF Steps
      <4> QED
        BY <3>2, <4>1, <4>2, ZenonT(60) DEF Request
    <3> QED
      BY <1>2, <3>1, <3>2 DEF LoadForSave, LoadDraft
  <2> QED
    BY <1>2, <2>1 DEF LoadForSave, tables, TypeOK, QueueTypeOK, queueVars
<1>3. ASSUME LoadForSubmit(w) PROVE TypeOK'
  <2>1. req' \in [Workers -> Request]
    <3>1. CASE Return(w)
      BY <3>1, ReturnType
    <3>2. ASSUME NEW k \in Sheets(req[w].inv),
                 req' = [req EXCEPT ![w].pc = "lock", ![w].row = k]
          PROVE  req' \in [Workers -> Request]
      <4>0. req[w].inv \in InviteId
        BY <1>3 DEF LoadForSubmit, Called, At
      <4>1. k \in Nat
        <5>1. sheet[req[w].inv] \in Seq(SheetState)
          BY <4>0 DEF TypeOK
        <5> QED
          BY <5>1 DEF Sheets
      <4>2. req \in [Workers -> Request] /\ "lock" \in Steps
        BY DEF TypeOK
      <4> HIDE DEF Steps
      <4> QED
        BY <3>2, <4>1, <4>2, ZenonT(60) DEF Request
    <3> QED
      BY <1>3, <3>1, <3>2 DEF LoadForSubmit, LoadDraft
  <2> QED
    BY <1>3, <2>1 DEF LoadForSubmit, tables, TypeOK, QueueTypeOK, queueVars
<1>4. ASSUME SaveInviteDraft(w) PROVE TypeOK'
  <2>1. req[w].inv \in InviteId /\ sheet[req[w].inv] \in Seq(SheetState)
    BY <1>4 DEF SaveInviteDraft, Called, At, TypeOK
  <2>2. [sheet[req[w].inv] EXCEPT ![req[w].row] = "saved"] \in Seq(SheetState)
    BY <2>1, ExceptType DEF SheetState
  <2>3. sheet' \in [InviteId -> Seq(SheetState)]
    BY <1>4, <2>1, <2>2 DEF SaveInviteDraft, TypeOK
  <2>4. req' \in [Workers -> Request]
    BY <1>4, ReturnType DEF SaveInviteDraft
  <2> QED
    BY <1>4, <2>3, <2>4 DEF SaveInviteDraft, TypeOK, QueueTypeOK, queueVars
<1>5. ASSUME LockSheet(w) PROVE TypeOK'
  <2>1. req[w].inv \in InviteId /\ sheet[req[w].inv] \in Seq(SheetState)
    BY <1>5 DEF LockSheet, Called, At, TypeOK
  <2>2. [sheet[req[w].inv] EXCEPT ![req[w].row] = "submitted"] \in Seq(SheetState)
    BY <2>1, ExceptType DEF SheetState
  <2>3. sheet' \in [InviteId -> Seq(SheetState)]
    BY <1>5, <2>1, <2>2 DEF LockSheet, TypeOK
  <2>4. req' \in [Workers -> Request]
    BY <1>5, GotoType DEF LockSheet
  <2> QED
    BY <1>5, <2>3, <2>4 DEF LockSheet, TypeOK, QueueTypeOK, queueVars
<1> QED
  BY <1>1, <1>2, <1>3, <1>4, <1>5

(* The steps that freeze the snapshot and ask for the report.              *)
LEMMA SubmitStepTypes ==
  ASSUME Typed, NEW w \in Workers
  PROVE  /\ UpdateSnapshot(w) => TypeOK'
         /\ InsertSnapshot(w) => TypeOK'
         /\ PendReport(w) => TypeOK'
         /\ OpenTask(w) => TypeOK'
         /\ EnqueueReport(w) => TypeOK'
<1> USE DEF Steps, Typed
<1>1. ASSUME UpdateSnapshot(w) PROVE TypeOK'
  <2>1. Payload(w) \in Answers \cup {None}
    BY DEF Payload, Answers
  <2>2. snapshot' \in [InviteId -> Snapshot]
    BY <1>1, <2>1 DEF UpdateSnapshot, TypeOK, Snapshot
  <2>3. req' \in [Workers -> Request]
    BY <1>1, GotoType DEF UpdateSnapshot
  <2> QED
    BY <1>1, <2>2, <2>3 DEF UpdateSnapshot, TypeOK, QueueTypeOK, queueVars
<1>2. ASSUME InsertSnapshot(w) PROVE TypeOK'
  <2>1. Payload(w) \in Answers \cup {None}
    BY DEF Payload, Answers
  <2>2. snapshot' \in [InviteId -> Snapshot]
    BY <1>2, <2>1 DEF InsertSnapshot, TypeOK, Snapshot
  <2>3. req' \in [Workers -> Request]
    BY <1>2, GotoType DEF InsertSnapshot
  <2> QED
    BY <1>2, <2>2, <2>3 DEF InsertSnapshot, TypeOK, QueueTypeOK, queueVars
<1>3. ASSUME PendReport(w) PROVE TypeOK'
  <2>1. req' \in [Workers -> Request]
    BY <1>3, GotoType DEF PendReport
  <2> QED
    BY <1>3, <2>1, QueueStepTypes DEF PendReport, TypeOK, QueueTypeOK, queueVars
<1>4. ASSUME OpenTask(w) PROVE TypeOK'
  <2>1. req' \in [Workers -> Request]
    BY <1>4, GotoType DEF OpenTask
  <2> QED
    BY <1>4, <2>1, QueueStepTypes DEF OpenTask, TypeOK, QueueTypeOK, queueVars
<1>5. ASSUME EnqueueReport(w) PROVE TypeOK'
  <2>1. req' \in [Workers -> Request]
    BY <1>5, ReturnType DEF EnqueueReport
  <2> QED
    BY <1>5, <2>1, QueueStepTypes DEF EnqueueReport, TypeOK, QueueTypeOK, queueVars
<1> QED
  BY <1>1, <1>2, <1>3, <1>4, <1>5

-----------------------------------------------------------------------------
(* A handler keeps the call it serves.                                     *)

(* Where a handler that creates an invite can be.                          *)
Creation == {"idle", "cooldown", "checkActive", "insert"}

(* Where a handler of the invitee's answers can be.                        *)
AnswerSteps ==
  {"findSheet", "insertSheet", "mark", "load", "save", "loadSheet", "lock",
   "findSnapshot", "updateSnapshot", "insertSnapshot", "complete",
   "count", "pend", "findTask", "insertTask", "addJob"}

(* An expired invite is revived to a status that needs no consent, or to   *)
(* the one it had when its invitee has a sheet.                            *)
Revived(w) ==
  \/ req'[w].seen.status \in {"invite_created", "invite_opened"}
  \/ req'[w].seen.status = "answering" /\ sheet[req[w].inv] # << >>

(* It goes on under the same call, from where it may come.                 *)
Advances(w) ==
  /\ req[w].pc # "idle"
  /\ req'[w].pc \notin Creation => req[w].pc \notin Creation
  /\ req'[w].pc \in AnswerSteps => req[w].pc \in AnswerSteps
  /\ req'[w].pc = "renew" => Revived(w)
  /\ \A v \in Workers \ {w} : req'[v] = req[v]
  /\ req'[w].user = req[w].user /\ req'[w].op = req[w].op /\ req'[w].inv = req[w].inv

(* Every step of a handler ends it or advances it.                         *)
LEMMA ContinueAdvances ==
  ASSUME Typed, NEW w \in Workers, Continue(w)
  PROVE  Return(w) \/ Advances(w)
<1> USE DEF At, Creation, AnswerSteps
<1>1. ASSUME NEW pc \in Steps \ {"renew"}, Goto(w, pc), req[w].pc # "idle",
             pc \notin Creation => req[w].pc \notin Creation,
             pc \in AnswerSteps => req[w].pc \in AnswerSteps
      PROVE  Advances(w)
  <2>1. req \in [Workers -> Request]
    BY DEF Typed, TypeOK
  <2> QED
    BY <1>1, <2>1 DEF Goto, Advances, Request
<1>2. WriteCancel(w) => Return(w)
  BY DEF WriteCancel
<1>3. WriteRenewal(w) => Return(w)
  BY DEF WriteRenewal
<1>4. TallyReminder(w) => Return(w)
  BY DEF TallyReminder
<1>5. BindFirstInvitee(w) => Return(w)
  BY DEF BindFirstInvitee
<1>6. PersistConsent(w) => Return(w)
  BY DEF PersistConsent
<1>7. InsertSheet(w) => Return(w)
  BY DEF InsertSheet
<1>8. SaveInviteDraft(w) => Return(w)
  BY DEF SaveInviteDraft
<1>9. EnqueueReport(w) => Return(w)
  BY DEF EnqueueReport
<1>10. InsertInvite(w) => Return(w)
  BY DEF InsertInvite
<1>11. CheckDerived(w) => Return(w) \/ Advances(w)
  BY <1>1 DEF CheckDerived, Steps
<1>12. CheckCooldown(w) => Return(w) \/ Advances(w)
  BY <1>1 DEF CheckCooldown, Steps
<1>13. CheckActive(w) => Return(w) \/ Advances(w)
  BY <1>1 DEF CheckActive, Steps
<1>14. FindSheet(w) => Return(w) \/ Advances(w)
  BY <1>1 DEF FindSheet, Steps
<1>15. FindSnapshot(w) => Return(w) \/ Advances(w)
  BY <1>1 DEF FindSnapshot, Steps
<1>16. CountSnapshots(w) => Return(w) \/ Advances(w)
  BY <1>1 DEF CountSnapshots, Steps
<1>17. FindTask(w) => Return(w) \/ Advances(w)
  BY <1>1 DEF FindTask, Steps
<1>18. MarkAnswering(w) => Return(w) \/ Advances(w)
  BY <1>1 DEF MarkAnswering, Steps
<1>19. CompleteInvite(w) => Return(w) \/ Advances(w)
  BY <1>1 DEF CompleteInvite, Steps
<1>20. SendReminder(w) => Return(w) \/ Advances(w)
  BY <1>1 DEF SendReminder, Steps
<1>21. LockSheet(w) => Return(w) \/ Advances(w)
  BY <1>1 DEF LockSheet, Steps
<1>22. UpdateSnapshot(w) => Return(w) \/ Advances(w)
  BY <1>1 DEF UpdateSnapshot, Steps
<1>23. InsertSnapshot(w) => Return(w) \/ Advances(w)
  BY <1>1 DEF InsertSnapshot, Steps
<1>24. PendReport(w) => Return(w) \/ Advances(w)
  BY <1>1 DEF PendReport, Steps
<1>25. OpenTask(w) => Return(w) \/ Advances(w)
  BY <1>1 DEF OpenTask, Steps
<1>26. LoadForSave(w) => Return(w) \/ Advances(w)
  <2>1. req \in [Workers -> Request]
    BY DEF Typed, TypeOK
  <2>2. ASSUME NEW k, req[w].pc \in AnswerSteps, req' = [req EXCEPT ![w].pc = "save", ![w].row = k]
        PROVE  Advances(w)
    BY <2>1, <2>2 DEF Advances, Request
  <2> QED
    BY <2>2 DEF LoadForSave, LoadDraft
<1>27. LoadForSubmit(w) => Return(w) \/ Advances(w)
  <2>1. req \in [Workers -> Request]
    BY DEF Typed, TypeOK
  <2>2. ASSUME NEW k, req[w].pc \in AnswerSteps, req' = [req EXCEPT ![w].pc = "lock", ![w].row = k]
        PROVE  Advances(w)
    BY <2>1, <2>2 DEF Advances, Request
  <2> QED
    BY <2>2 DEF LoadForSubmit, LoadDraft
<1>28. Revive(w) => Advances(w)
  <2>1. req \in [Workers -> Request]
    BY DEF Typed, TypeOK
  <2>2. ASSUME NEW status, req[w].pc \notin Creation,
               status = "invite_opened" \/ (status = "answering" /\ sheet[req[w].inv] # << >>),
               req' = [req EXCEPT ![w].pc = "renew",
                                  ![w].seen = [req[w].seen EXCEPT !.status = status]]
        PROVE  Advances(w)
    <3>1. req[w] \in Request /\ req[w].seen \in Row
      BY <2>1 DEF Request
    <3>2. [req[w].seen EXCEPT !.status = status].status = status
      BY <3>1 DEF Row
    <3> DEFINE seen == [req[w].seen EXCEPT !.status = status]
    <3>3. /\ req'[w].seen = seen /\ req'[w].pc = "renew"
          /\ \A v \in Workers \ {w} : req'[v] = req[v]
          /\ req'[w].user = req[w].user /\ req'[w].op = req[w].op /\ req'[w].inv = req[w].inv
      <4> HIDE DEF seen
      <4> QED
        BY <2>1, <2>2, <3>1 DEF Request, seen
    <3>4. Revived(w)
      BY <2>2, <3>2, <3>3 DEF Revived
    <3> QED
      BY <2>2, <3>3, <3>4 DEF Advances
  <2>3. Sheets(req[w].inv) # {} => sheet[req[w].inv] # << >>
    BY DEF Sheets
  <2> DEFINE status == IF Sheets(req[w].inv) = {} THEN "invite_opened" ELSE "answering"
  <2>4. status = "invite_opened" \/ (status = "answering" /\ sheet[req[w].inv] # << >>)
    BY <2>3
  <2>5. Revive(w) => /\ req[w].pc \notin Creation
                     /\ req' = [req EXCEPT ![w].pc = "renew",
                                           ![w].seen = [req[w].seen EXCEPT !.status = status]]
    BY DEF Revive
  <2> HIDE DEF status
  <2> QED
    BY <2>2, <2>4, <2>5
<1>29. LazyExpire(w) => Return(w) \/ Advances(w)
  <2>1. req \in [Workers -> Request] /\ req[w] \in Request
    BY DEF Typed, TypeOK
  <2>2. ASSUME NEW row \in Row, req[w].pc \notin Creation,
               req' = [req EXCEPT ![w] = ReviveFrom(req[w], row)]
        PROVE  Advances(w)
    <3>1. /\ ReviveFrom(req[w], row).user = req[w].user
          /\ ReviveFrom(req[w], row).op = req[w].op
          /\ ReviveFrom(req[w], row).inv = req[w].inv
          /\ ReviveFrom(req[w], row).pc \in {"revive", "renew"}
      BY <2>1 DEF ReviveFrom, Request
    <3>2. ReviveFrom(req[w], row).pc = "renew" =>
            ReviveFrom(req[w], row).seen.status = "invite_created"
      BY <2>1 DEF ReviveFrom, Request, Row
    <3>3. /\ req'[w] = ReviveFrom(req[w], row)
          /\ \A v \in Workers \ {w} : req'[v] = req[v]
      BY <2>1, <2>2
    <3> QED
      BY <2>2, <3>1, <3>2, <3>3 DEF Advances, Revived
  <2>3. [req[w].seen EXCEPT !.status = "expired"] \in Row
    BY <2>1 DEF Request, Row, Status, Active, Expirable
  <2> QED
    BY <2>2, <2>3 DEF LazyExpire
<1> QED
  BY <1>2, <1>3, <1>4, <1>5, <1>6, <1>7, <1>8, <1>9, <1>10, <1>11, <1>12, <1>13, <1>14, <1>15, <1>16, <1>17, <1>18, <1>19, <1>20, <1>21, <1>22, <1>23, <1>24, <1>25, <1>26, <1>27, <1>28, <1>29 DEF Continue

(* A call that is taken names its user and its invite.                     *)
LEMMA ReceiveCalls ==
  ASSUME Typed, NEW w \in Workers, NEW u \in Users, NEW i \in InviteId,
         Receive(w, u, i)
  PROVE  /\ \A v \in Workers \ {w} : req'[v] = req[v]
         /\ req'[w].user = u /\ req'[w].inv = i
<1> DEFINE Calls == /\ \A v \in Workers \ {w} : req'[v] = req[v]
                    /\ req'[w].user = u /\ req'[w].inv = i
<1>1. req \in [Workers -> Request]
  BY DEF Typed, TypeOK
<1>2. ASSUME NEW pc, NEW op, Start(w, pc, op, u, i)
      PROVE  Calls
  <2> DEFINE seen == IF op \in {"renew", "remind"} THEN invite[i] ELSE NoRow
  <2>1. req' = [req EXCEPT ![w] =
          [Idle EXCEPT !.pc = pc, !.op = op, !.user = u, !.inv = i, !.seen = seen]]
    BY <1>2 DEF Start
  <2> HIDE DEF seen
  <2> QED
    BY <1>1, <2>1 DEF Idle
<1>3. CASE StartRenew(w, u, i)
  <2> DEFINE r == [Idle EXCEPT !.op = "renew", !.user = u, !.inv = i]
  <2>1. CASE Start(w, "renew", "renew", u, i)
    BY <2>1, <1>2
  <2>2. CASE req' = [req EXCEPT ![w] = ReviveFrom(r, invite[i])]
    <3>1. ReviveFrom(r, invite[i]).user = u /\ ReviveFrom(r, invite[i]).inv = i
      BY DEF ReviveFrom, Idle
    <3> HIDE DEF r
    <3> QED
      BY <1>1, <2>2, <3>1
  <2> QED
    BY <1>3, <2>1, <2>2 DEF StartRenew
<1>4. CASE LoadOverdue(w, u, i)
  BY <1>4, <1>2 DEF LoadOverdue
<1>5. CASE StartReplace(w, u, i)
  BY <1>5, <1>2 DEF StartReplace
<1>6. CASE StartCancel(w, u, i)
  BY <1>6, <1>2 DEF StartCancel
<1>7. CASE StartRemind(w, u, i)
  BY <1>7, <1>2 DEF StartRemind
<1>8. CASE StartOpen(w, u, i)
  BY <1>8, <1>2 DEF StartOpen
<1>9. CASE StartConsent(w, u, i)
  BY <1>9, <1>2 DEF StartConsent
<1>10. CASE StartOpenSheet(w, u, i)
  BY <1>10, <1>2 DEF StartOpenSheet
<1>11. CASE StartSaveDraft(w, u, i)
  BY <1>11, <1>2 DEF StartSaveDraft
<1>12. CASE StartSubmit(w, u, i)
  BY <1>12, <1>2 DEF StartSubmit
<1>13. CASE StartReuse(w, u, i)
  BY <1>13, <1>2 DEF StartReuse
<1> QED
  BY <1>3, <1>4, <1>5, <1>6, <1>7, <1>8, <1>9, <1>10, <1>11, <1>12, <1>13 DEF Receive

-----------------------------------------------------------------------------
(* The type invariant.                                                     *)

LEMMA InitTyped == Init => Typed
<1> SUFFICES ASSUME Init
             PROVE  Typed
  OBVIOUS
<1>1. TypeOK
  BY ConstantTypes DEF Init, QueueInit, TypeOK, QueueTypeOK, Snapshot, NoSnapshot, Evidence
<1>2. Called
  BY DEF Init, Called, Idle
<1> QED
  BY <1>1, <1>2 DEF Typed

(* What no handler does: the clock, the hourly scan, a deletion, a failure.*)
LEMMA OtherStepTypes ==
  ASSUME Typed
  PROVE  /\ \A w \in Workers, u \in Users : StartCreate(w, u) => TypeOK'
         /\ \A w \in Workers : Fail(w) => TypeOK'
         /\ \A u \in Users, i \in InviteId : DeletePairing(u, i) => TypeOK'
         /\ \A u \in Users : CooldownElapses(u) => TypeOK'
         /\ \A i \in InviteId : DeadlinePasses(i) => TypeOK'
         /\ ExpireScan => TypeOK'
<1> USE DEF Typed
<1>1. ASSUME NEW w \in Workers, NEW u \in Users, StartCreate(w, u)
      PROVE  TypeOK'
  <2>1. req' \in [Workers -> Request]
    BY <1>1, StartType DEF StartCreate, Steps, AllHandlers
  <2> QED
    BY <1>1, <2>1 DEF StartCreate, tables, TypeOK, QueueTypeOK, queueVars
<1>2. ASSUME NEW w \in Workers, Fail(w)
      PROVE  TypeOK'
  <2>1. req' \in [Workers -> Request]
    BY <1>2, ReturnType DEF Fail
  <2> QED
    BY <1>2, <2>1 DEF Fail, tables, TypeOK, QueueTypeOK, queueVars
<1>3. ASSUME NEW u \in Users, NEW i \in InviteId, DeletePairing(u, i)
      PROVE  TypeOK'
  <2>1. invite' \in [InviteId -> Row] /\ report' \in [InviteId -> Report]
    BY <1>3, ConstantTypes DEF DeletePairing, TypeOK, QueueTypeOK
  <2>2. snapshot' \in [InviteId -> Snapshot]
    BY <1>3 DEF DeletePairing, TypeOK, Snapshot, NoSnapshot
  <2>3. sheet' \in [InviteId -> Seq(SheetState)]
    <3>1. sheet[i] \in Seq(SheetState)
      BY DEF TypeOK
    <3>2. [k \in DOMAIN sheet[i] |-> "deleted"] \in [1 .. Len(sheet[i]) -> SheetState]
      BY <3>1 DEF SheetState
    <3>3. [k \in DOMAIN sheet[i] |-> "deleted"] \in Seq(SheetState)
      BY <3>1, <3>2, SeqDef, Len(sheet[i]) \in Nat, ZenonT(60)
    <3> QED
      BY <1>3, <3>3 DEF DeletePairing, TypeOK
  <2> QED
    BY <1>3, <2>1, <2>2, <2>3 DEF DeletePairing, TypeOK, QueueTypeOK
<1>4. ASSUME NEW u \in Users, CooldownElapses(u)
      PROVE  TypeOK'
  BY <1>4 DEF CooldownElapses, TypeOK, QueueTypeOK, queueVars
<1>5. ASSUME NEW i \in InviteId, DeadlinePasses(i)
      PROVE  TypeOK'
  <2>1. invite' = [invite EXCEPT ![i].due = TRUE]
    BY <1>5 DEF DeadlinePasses
  <2>2. invite' \in [InviteId -> Row]
    BY <2>1, ZenonT(60) DEF TypeOK, Row
  <2> QED
    BY <1>5, <2>2 DEF DeadlinePasses, TypeOK, QueueTypeOK, queueVars
<1>6. ASSUME ExpireScan
      PROVE  TypeOK'
  <2>1. \A i \in InviteId : [invite[i] EXCEPT !.status = "expired"] \in Row
    BY ZenonT(60) DEF TypeOK, Row, Status
  <2>2. invite' \in [InviteId -> Row]
    BY <1>6, <2>1 DEF ExpireScan, TypeOK
  <2> QED
    BY <1>6, <2>2 DEF ExpireScan, TypeOK, QueueTypeOK, queueVars
<1> QED
  BY <1>1, <1>2, <1>3, <1>4, <1>5, <1>6

(* A worker that returns, or advances under its call, leaves Called true.  *)
LEMMA CallKept ==
  ASSUME Typed, NEW w \in Workers, Return(w) \/ Advances(w)
  PROVE  Called'
<1>1. CASE Return(w)
  BY <1>1 DEF Return, Called, Idle, Typed, TypeOK
<1>2. CASE Advances(w)
  BY <1>2 DEF Advances, Called, Creation, Typed, TypeOK
<1> QED
  BY <1>1, <1>2

LEMMA NextTyped == Typed /\ [Next]_vars => Typed'
<1> SUFFICES ASSUME Typed, [Next]_vars
             PROVE  Typed'
  OBVIOUS
<1> USE DEF Typed
<1>1. ASSUME NEW w \in Workers, NEW u \in Users, StartCreate(w, u)
      PROVE  Typed'
  <2>1. req' = [req EXCEPT ![w] =
          [Idle EXCEPT !.pc = "cooldown", !.op = "create", !.user = u, !.inv = None, !.seen = NoRow]]
    BY <1>1 DEF StartCreate, Start
  <2>2. Called'
    BY <2>1 DEF Called, Idle, TypeOK
  <2> QED
    BY <1>1, <2>2, OtherStepTypes
<1>2. ASSUME NEW w \in Workers, NEW u \in Users, NEW i \in InviteId, Receive(w, u, i)
      PROVE  Typed'
  <2>1. TypeOK'
    BY <1>2, ReceiveType
  <2>2. Called'
    BY <1>2, ReceiveCalls DEF Called
  <2> QED
    BY <2>1, <2>2
<1>3. ASSUME NEW w \in Workers, Continue(w)
      PROVE  Typed'
  <2>1. TypeOK'
    BY <1>3, LookupTypes, StatusStepTypes, RowStepTypes, WriteStepTypes, SheetStepTypes,
       SubmitStepTypes DEF Continue
  <2>2. Called'
    BY <1>3, ContinueAdvances, CallKept
  <2> QED
    BY <2>1, <2>2
<1>4. ASSUME NEW w \in Workers, Fail(w)
      PROVE  Typed'
  BY <1>4, OtherStepTypes, CallKept DEF Fail
<1>5. ASSUME UNCHANGED req, TypeOK'
      PROVE  Typed'
  BY <1>5 DEF Called
<1>6. ASSUME NEW u \in Users, NEW i \in InviteId, DeletePairing(u, i)
      PROVE  Typed'
  BY <1>5, <1>6, OtherStepTypes DEF DeletePairing
<1>7. ASSUME NEW u \in Users, CooldownElapses(u)
      PROVE  Typed'
  BY <1>5, <1>7, OtherStepTypes DEF CooldownElapses
<1>8. ASSUME NEW i \in InviteId, DeadlinePasses(i)
      PROVE  Typed'
  BY <1>5, <1>8, OtherStepTypes DEF DeadlinePasses
<1>9. ASSUME ExpireScan
      PROVE  Typed'
  BY <1>5, <1>9, OtherStepTypes DEF ExpireScan
<1>10. CASE UNCHANGED vars
  <2>1. TypeOK'
    BY <1>10 DEF vars, tables, queueVars, TypeOK, QueueTypeOK
  <2> QED
    BY <1>5, <1>10, <2>1 DEF vars
<1> QED
  BY <1>1, <1>2, <1>3, <1>4, <1>6, <1>7, <1>8, <1>9, <1>10 DEF Next

(* Every table, queue and handler keeps its shape, and a handler in flight *)
(* serves the call of a user, about an invite unless it creates one.       *)
THEOREM TypedAlways == Spec => []Typed
<1> QED
  BY InitTyped, NextTyped, PTL DEF Spec

(* The rows the handlers write are rows the tables can hold, whatever      *)
(* handlers overtake one another.                                          *)
THEOREM TypeCorrect == Spec => []TypeOK
<1>1. Typed => TypeOK
  BY DEF Typed
<1> QED
  BY <1>1, TypedAlways, PTL

-----------------------------------------------------------------------------
(* The consent evidence.                                                   *)
(*                                                                         *)
(* ConsentEvidence alone is not inductive: a handler that loaded the row   *)
(* before the invite was cancelled, deleted or revived still writes its    *)
(* sheet, its snapshot or its status afterwards.  What makes those writes  *)
(* safe is that the consent was recorded when the handler was let in and   *)
(* that consent_log only grows, so the invariant also speaks of the        *)
(* handlers in flight.                                                     *)

Consented(i) == consentLog[i].agreed > 0

(* A handler of the invitee's answers serves an invite with a consent, and *)
(* a renewal brings back a status that is open and backed by one.          *)
Let(w) ==
  /\ req[w].pc \in AnswerSteps => Consented(req[w].inv)
  /\ req[w].pc = "renew" =>
       /\ req[w].seen.status \in Expirable
       /\ req[w].seen.status \in Answered => Consented(req[w].inv)

HandlersLetIn == \A w \in Workers : Let(w)

EvidenceInv == Typed /\ ConsentEvidence /\ HandlersLetIn

-----------------------------------------------------------------------------
(* What a step may do to one invite.                                       *)

(* Evidence is never taken back.                                           *)
EvidenceStays ==
  \A i \in InviteId :
    /\ consentLog[i].agreed > 0 => consentLog'[i].agreed > 0
    /\ consentLog[i].declined > 0 => consentLog'[i].declined > 0

(* What calls for a consent was there before, or the consent is recorded.  *)
BackedAnswer(i) ==
  \/ consentLog'[i].agreed > 0
  \/ /\ invite'[i].status \in Answered => invite[i].status \in Answered
     /\ sheet'[i] # << >> => sheet[i] # << >>
     /\ snapshot'[i].invitee # None => snapshot[i].invitee # None
     /\ report'[i].status # "none" => report[i].status # "none"

BackedRefusal(i) ==
  invite'[i].status = "declined" => invite[i].status = "declined" \/ consentLog'[i].declined > 0

Backed == EvidenceStays /\ \A i \in InviteId : BackedAnswer(i) /\ BackedRefusal(i)

(* Such a step keeps the evidence.                                         *)
LEMMA BackedKeepsEvidence ==
  ASSUME ConsentEvidence, Backed
  PROVE  ConsentEvidence'
BY DEF ConsentEvidence, Backed, EvidenceStays, BackedAnswer, BackedRefusal

(* And a handler that ends or advances was let in, or was when it started. *)
LEMMA AdvanceKeepsLetIn ==
  ASSUME EvidenceInv, EvidenceStays, NEW w \in Workers, Return(w) \/ Advances(w)
  PROVE  HandlersLetIn'
<1>1. req \in [Workers -> Request]
  BY DEF EvidenceInv, Typed, TypeOK
<1>2. ASSUME NEW v \in Workers, req'[v] = req[v]
      PROVE  Let(v)'
  <2>1. Called /\ Let(v)
    BY DEF EvidenceInv, Typed, HandlersLetIn
  <2> QED
    BY <1>2, <2>1 DEF Let, Called, Consented, EvidenceStays, AnswerSteps
<1>3. Let(w)'
  <2>1. CASE Return(w)
    BY <1>1, <2>1 DEF Return, Idle, Let, AnswerSteps
  <2>2. CASE Advances(w)
    <3>1. /\ req'[w].inv = req[w].inv
          /\ req'[w].pc \in AnswerSteps => req[w].pc \in AnswerSteps
          /\ req'[w].pc = "renew" => Revived(w)
      BY <2>2 DEF Advances
    <3>2. req[w].pc \in AnswerSteps => consentLog'[req[w].inv].agreed > 0 /\ req[w].inv \in InviteId
      BY DEF EvidenceInv, Typed, Called, HandlersLetIn, Let, Consented, EvidenceStays, AnswerSteps
    <3>3. ASSUME req'[w].pc = "renew"
          PROVE  /\ req'[w].seen.status \in Expirable
                 /\ req'[w].seen.status \in Answered => consentLog'[req[w].inv].agreed > 0
      <4>1. req'[w].pc \notin Creation
        BY <3>3 DEF Creation
      <4>2. req[w].pc \notin Creation /\ req[w].inv \in InviteId
        BY <2>2, <4>1 DEF Advances, Creation, EvidenceInv, Typed, Called
      <4>3. sheet[req[w].inv] # << >> => consentLog'[req[w].inv].agreed > 0
        BY <4>2 DEF EvidenceInv, ConsentEvidence, EvidenceStays, Consented
      <4> QED
        BY <3>1, <3>3, <4>3 DEF Revived, Expirable, Answered
    <3> QED
      BY <3>1, <3>2, <3>3 DEF Let, Consented
  <2> QED
    BY <2>1, <2>2
<1>4. \A v \in Workers \ {w} : req'[v] = req[v]
  BY <1>1 DEF Return, Advances
<1> QED
  BY <1>2, <1>3, <1>4 DEF HandlersLetIn

(* A status moved by MoveStatus was one of those the UPDATE names.         *)
LEMMA MoveStatusEffect ==
  ASSUME TypeOK, NEW i \in InviteId, NEW from, NEW status, MoveStatus(i, from, status)
  PROVE  \A j \in InviteId :
           \/ invite'[j].status = invite[j].status
           \/ j = i /\ invite[j].status \in from /\ invite'[j].status = status
<1>1. invite \in [InviteId -> Row]
  BY DEF TypeOK
<1>2. CASE invite[i].status \in from /\ SetStatus(i, status)
  BY <1>1, <1>2 DEF SetStatus, Row
<1> QED
  BY <1>2 DEF MoveStatus

-----------------------------------------------------------------------------
(* The steps of the handlers are backed.                                   *)

(* A step that leaves the other tables alone, and moves no status that     *)
(* calls for evidence but one that already did.                            *)
LEMMA StatusBacked ==
  ASSUME UNCHANGED <<sheet, snapshot, consentLog, report>>,
         \A j \in InviteId :
           \/ invite'[j].status = invite[j].status
           \/ /\ invite'[j].status # "declined"
              /\ invite'[j].status \in Answered => invite[j].status \in Answered \/ Consented(j)
  PROVE  Backed
BY DEF Backed, EvidenceStays, BackedAnswer, BackedRefusal, Consented

(* The handlers of the initiator and the expiry found on loading.          *)
LEMMA InitiatorSteps ==
  ASSUME EvidenceInv, NEW w \in Workers
  PROVE  /\ LazyExpire(w) => Backed
         /\ WriteCancel(w) => Backed
         /\ WriteRenewal(w) => Backed
         /\ TallyReminder(w) => Backed
<1> DEFINE i == req[w].inv
<1>1. invite \in [InviteId -> Row]
  BY DEF EvidenceInv, Typed, TypeOK
<1>2. ASSUME LazyExpire(w) PROVE Backed
  <2>1. i \in InviteId
    BY <1>2 DEF LazyExpire, At, EvidenceInv, Typed, Called
  <2>2. MoveStatus(i, Expirable, "expired")
    BY <1>2 DEF LazyExpire
  <2> QED
    BY <1>2, <2>1, <2>2, MoveStatusEffect, StatusBacked
    DEF LazyExpire, queueVars, Answered, EvidenceInv, Typed
<1>3. ASSUME WriteCancel(w) PROVE Backed
  <2>1. i \in InviteId
    BY <1>3 DEF WriteCancel, At, EvidenceInv, Typed, Called
  <2>2. MoveStatus(i, Active, "cancelled")
    BY <1>3 DEF WriteCancel
  <2> QED
    BY <1>3, <2>1, <2>2, MoveStatusEffect, StatusBacked
    DEF WriteCancel, queueVars, Answered, EvidenceInv, Typed
<1>4. ASSUME WriteRenewal(w) PROVE Backed
  <2> DEFINE status == req[w].seen.status
  <2>1. i \in InviteId /\ status \in Expirable /\ (status \in Answered => Consented(i))
    BY <1>4 DEF WriteRenewal, At, EvidenceInv, Typed, Called, HandlersLetIn, Let
  <2>2. ASSUME invite' = [invite EXCEPT ![i].renewed = req[w].seen.renewed + 1,
                                        ![i].due = FALSE, ![i].status = status]
        PROVE  \A j \in InviteId : invite'[j].status = invite[j].status \/ (j = i /\ invite'[j].status = status)
    <3> HIDE DEF i, status
    <3> QED
      BY <1>1, <2>2 DEF Row
  <2>3. \A j \in InviteId : invite'[j].status = invite[j].status \/ (j = i /\ invite'[j].status = status)
    BY <1>4, <2>2 DEF WriteRenewal
  <2>4. status # "declined"
    BY <2>1 DEF Expirable
  <2> HIDE DEF i, status
  <2> QED
    BY <1>4, <2>1, <2>3, <2>4, StatusBacked DEF WriteRenewal, queueVars
<1>5. ASSUME TallyReminder(w) PROVE Backed
  <2>1. \A j \in InviteId : invite'[j].status = invite[j].status
    BY <1>1, <1>5 DEF TallyReminder, Row
  <2> QED
    BY <1>5, <2>1, StatusBacked DEF TallyReminder, queueVars
<1> QED
  BY <1>2, <1>3, <1>4, <1>5

(* Creation, the first opening and the answer to the consent question.     *)
LEMMA ConsentSteps ==
  ASSUME EvidenceInv, NEW w \in Workers
  PROVE  /\ InsertInvite(w) => Backed
         /\ BindFirstInvitee(w) => Backed
         /\ PersistConsent(w) => Backed
<1> DEFINE i == req[w].inv
<1>1. /\ invite \in [InviteId -> Row]
      /\ snapshot \in [InviteId -> Snapshot]
      /\ consentLog \in [InviteId -> Evidence]
  BY DEF EvidenceInv, Typed, TypeOK
<1>2. ASSUME InsertInvite(w) PROVE Backed
  <2>1. PICK k \in InviteId \ used :
          /\ invite' = [invite EXCEPT ![k] =
               [NoRow EXCEPT !.initiator = req[w].user, !.status = "invite_created",
                             !.from = req[w].inv]]
          /\ snapshot' = [snapshot EXCEPT ![k].initiator = TRUE]
          /\ consentLog' = [consentLog EXCEPT ![k].initiator = @ + 1]
    BY <1>2 DEF InsertInvite
  <2>2. \A j \in InviteId : invite'[j].status = invite[j].status \/ invite'[j].status = "invite_created"
    BY <1>1, <2>1 DEF NoRow
  <2>3. \A j \in InviteId : snapshot'[j].invitee = snapshot[j].invitee
    BY <1>1, <2>1 DEF Snapshot
  <2>4. \A j \in InviteId : /\ consentLog'[j].agreed = consentLog[j].agreed
                            /\ consentLog'[j].declined = consentLog[j].declined
    BY <1>1, <2>1 DEF Evidence
  <2>5. UNCHANGED <<sheet, report>>
    BY <1>2 DEF InsertInvite, queueVars
  <2> QED
    BY <2>2, <2>3, <2>4, <2>5
    DEF Backed, EvidenceStays, BackedAnswer, BackedRefusal, Answered
<1>3. ASSUME BindFirstInvitee(w) PROVE Backed
  <2>1. \A j \in InviteId : invite'[j].status = invite[j].status \/ invite'[j].status = "invite_opened"
    BY <1>1, <1>3 DEF BindFirstInvitee, Row
  <2> QED
    BY <1>3, <2>1, StatusBacked DEF BindFirstInvitee, queueVars, Answered
<1>4. ASSUME PersistConsent(w) PROVE Backed
  <2> DEFINE status == IF req[w].op = "consent" THEN "consent_given" ELSE "declined"
  <2>1. i \in InviteId
    BY <1>4 DEF PersistConsent, At, EvidenceInv, Typed, Called
  <2>2. CASE UNCHANGED <<invite, consentLog>>
    BY <1>4, <2>2, StatusBacked DEF PersistConsent, queueVars
  <2>3. CASE SetStatus(i, status) /\ RecordAnswer(i, req[w].op)
    <3>1. \A j \in InviteId \ {i} :
            invite'[j].status = invite[j].status /\ consentLog'[j] = consentLog[j]
      BY <1>1, <2>3 DEF SetStatus, RecordAnswer
    <3>2. invite'[i].status = status
      BY <1>1, <2>1, <2>3 DEF SetStatus, Row
    <3>3. CASE req[w].op = "consent"
      <4>1. consentLog'[i].agreed > 0 /\ consentLog'[i].declined = consentLog[i].declined
        BY <1>1, <2>1, <2>3, <3>3 DEF RecordAnswer, Evidence
      <4>2. UNCHANGED <<sheet, snapshot, report>>
        BY <1>4 DEF PersistConsent, queueVars
      <4> QED
        BY <3>1, <3>2, <3>3, <4>1, <4>2
        DEF Backed, EvidenceStays, BackedAnswer, BackedRefusal
    <3>4. CASE req[w].op # "consent"
      <4>1. consentLog'[i].declined > 0 /\ consentLog'[i].agreed = consentLog[i].agreed
        BY <1>1, <2>1, <2>3, <3>4 DEF RecordAnswer, Evidence
      <4>2. UNCHANGED <<sheet, snapshot, report>>
        BY <1>4 DEF PersistConsent, queueVars
      <4> QED
        BY <3>1, <3>2, <3>4, <4>1, <4>2
        DEF Backed, EvidenceStays, BackedAnswer, BackedRefusal, Answered
    <3> QED
      BY <3>3, <3>4
  <2> QED
    BY <1>4, <2>2, <2>3 DEF PersistConsent
<1> QED
  BY <1>2, <1>3, <1>4

(* A handler of the invitee's answers writes only to the invite it serves, *)
(* which has its consent.                                                  *)
LEMMA AnswerBacked ==
  ASSUME EvidenceInv, NEW w \in Workers, req[w].pc \in AnswerSteps,
         UNCHANGED consentLog,
         \A j \in InviteId \ {req[w].inv} :
           /\ invite'[j].status = invite[j].status
           /\ sheet'[j] = sheet[j]
           /\ snapshot'[j] = snapshot[j]
           /\ report'[j] = report[j],
         invite'[req[w].inv].status # "declined" \/ UNCHANGED invite
  PROVE  Backed
<1>1. req[w].inv \in InviteId /\ Consented(req[w].inv)
  BY DEF EvidenceInv, Typed, Called, HandlersLetIn, Let, AnswerSteps
<1> QED
  BY <1>1 DEF Backed, EvidenceStays, BackedAnswer, BackedRefusal, Consented

LEMMA AnswerHandlerSteps ==
  ASSUME EvidenceInv, NEW w \in Workers
  PROVE  /\ InsertSheet(w) => Backed
         /\ MarkAnswering(w) => Backed
         /\ SaveInviteDraft(w) => Backed
         /\ LockSheet(w) => Backed
         /\ UpdateSnapshot(w) => Backed
         /\ InsertSnapshot(w) => Backed
         /\ CompleteInvite(w) => Backed
         /\ PendReport(w) => Backed
<1> DEFINE i == req[w].inv
<1> USE DEF At, queueVars
<1>1. TypeOK
  BY DEF EvidenceInv, Typed
<1>2. ASSUME req[w].pc \in AnswerSteps
      PROVE  i \in InviteId
  BY <1>2 DEF EvidenceInv, Typed, Called, AnswerSteps
<1>3. ASSUME InsertSheet(w) PROVE Backed
  <2>1. \A j \in InviteId \ {i} : sheet'[j] = sheet[j]
    BY <1>1, <1>3 DEF InsertSheet, TypeOK
  <2> QED
    BY <1>3, <2>1, AnswerBacked DEF InsertSheet, AnswerSteps
<1>4. ASSUME MarkAnswering(w) PROVE Backed
  <2>1. i \in InviteId /\ MoveStatus(i, {"consent_given"}, "answering")
    BY <1>2, <1>4 DEF MarkAnswering, AnswerSteps
  <2> QED
    BY <1>1, <1>4, <2>1, MoveStatusEffect, StatusBacked DEF MarkAnswering, Answered
<1>5. ASSUME SaveInviteDraft(w) PROVE Backed
  <2>1. \A j \in InviteId \ {i} : sheet'[j] = sheet[j]
    BY <1>1, <1>5 DEF SaveInviteDraft, TypeOK
  <2> QED
    BY <1>5, <2>1, AnswerBacked DEF SaveInviteDraft, AnswerSteps
<1>6. ASSUME LockSheet(w) PROVE Backed
  <2>1. \A j \in InviteId \ {i} : sheet'[j] = sheet[j]
    BY <1>1, <1>6 DEF LockSheet, TypeOK
  <2> QED
    BY <1>6, <2>1, AnswerBacked DEF LockSheet, AnswerSteps
<1>7. ASSUME UpdateSnapshot(w) PROVE Backed
  <2>1. \A j \in InviteId \ {i} : snapshot'[j] = snapshot[j]
    BY <1>1, <1>7 DEF UpdateSnapshot, TypeOK
  <2> QED
    BY <1>7, <2>1, AnswerBacked DEF UpdateSnapshot, AnswerSteps
<1>8. ASSUME InsertSnapshot(w) PROVE Backed
  <2>1. \A j \in InviteId \ {i} : snapshot'[j] = snapshot[j]
    BY <1>1, <1>8 DEF InsertSnapshot, TypeOK
  <2> QED
    BY <1>8, <2>1, AnswerBacked DEF InsertSnapshot, AnswerSteps
<1>9. ASSUME CompleteInvite(w) PROVE Backed
  <2>1. i \in InviteId /\ MoveStatus(i, Answerable, "completed")
    BY <1>2, <1>9 DEF CompleteInvite, AnswerSteps
  <2> QED
    BY <1>1, <1>9, <2>1, MoveStatusEffect, StatusBacked
    DEF CompleteInvite, Answered, Answerable
<1>10. ASSUME PendReport(w) PROVE Backed
  <2>1. \A j \in InviteId \ {i} : report'[j] = report[j]
    BY <1>1, <1>10 DEF PendReport, EnsurePending, TypeOK, QueueTypeOK
  <2> QED
    BY <1>10, <2>1, AnswerBacked DEF PendReport, AnswerSteps
<1> QED
  BY <1>3, <1>4, <1>5, <1>6, <1>7, <1>8, <1>9, <1>10

(* Every other step of a handler leaves the tables at stake alone.         *)
LEMMA ContinueBacked ==
  ASSUME EvidenceInv, NEW w \in Workers, Continue(w)
  PROVE  Backed
<1>1. UNCHANGED <<invite, sheet, snapshot, consentLog, report>> => Backed
  BY StatusBacked
<1>2. CheckDerived(w) \/ CheckActive(w) \/ Revive(w) \/ FindSheet(w) \/ LoadForSave(w)
      \/ LoadForSubmit(w) \/ FindSnapshot(w) \/ CountSnapshots(w) \/ FindTask(w) => Backed
  BY <1>1 DEF CheckDerived, CheckActive, Revive, FindSheet, LoadForSave, LoadForSubmit,
              FindSnapshot, CountSnapshots, FindTask, tables, queueVars
<1>3. CheckCooldown(w) \/ SendReminder(w) \/ OpenTask(w) \/ EnqueueReport(w) => Backed
  BY <1>1 DEF CheckCooldown, SendReminder, OpenTask, EnqueueReport, queueVars
<1> QED
  BY <1>2, <1>3, InitiatorSteps, ConsentSteps, AnswerHandlerSteps DEF Continue

(* A call is taken only when the row calls for it: the handlers of the     *)
(* invitee's answers need a consent, a renewal an open or expired invite.  *)
LEMMA ReceiveLetIn ==
  ASSUME EvidenceInv, NEW w \in Workers, NEW u \in Users, NEW i \in InviteId,
         Receive(w, u, i)
  PROVE  Let(w)' /\ UNCHANGED tables
<1>1. /\ req \in [Workers -> Request]
      /\ invite[i] \in Row
  BY DEF EvidenceInv, Typed, TypeOK
<1>2. req'[w].inv = i
  BY ReceiveCalls DEF EvidenceInv
<1>3. invite[i].status \in Answered => Consented(i)
  BY DEF EvidenceInv, ConsentEvidence, Consented
<1>4. ASSUME NEW pc, NEW op, Start(w, pc, op, u, i), pc # "renew",
             pc \in AnswerSteps => invite[i].status \in Answered,
             UNCHANGED tables
      PROVE  Let(w)'
  <2> DEFINE seen == IF op \in {"renew", "remind"} THEN invite[i] ELSE NoRow
  <2>1. req' = [req EXCEPT ![w] =
          [Idle EXCEPT !.pc = pc, !.op = op, !.user = u, !.inv = i, !.seen = seen]]
    BY <1>4 DEF Start
  <2> HIDE DEF seen
  <2>2. req'[w].pc = pc
    BY <1>1, <2>1 DEF Idle
  <2> QED
    BY <1>2, <1>3, <1>4, <2>2 DEF Let, Consented, tables
<1>5. ASSUME MayAnswer(u, i)
      PROVE  invite[i].status \in Answered
  BY <1>5 DEF MayAnswer, Answerable, Answered
<1>6. ASSUME StartRenew(w, u, i)
      PROVE  Let(w)'
  <2> DEFINE r == [Idle EXCEPT !.op = "renew", !.user = u, !.inv = i]
  <2>1. UNCHANGED tables
    BY <1>6 DEF StartRenew
  <2>2. CASE invite[i].status \in Expirable /\ Start(w, "renew", "renew", u, i)
    <3>1. req' = [req EXCEPT ![w] =
            [Idle EXCEPT !.pc = "renew", !.op = "renew", !.user = u, !.inv = i, !.seen = invite[i]]]
      BY <2>2 DEF Start
    <3>2. req'[w].pc = "renew" /\ req'[w].seen = invite[i]
      BY <1>1, <3>1 DEF Idle
    <3> QED
      BY <1>2, <1>3, <2>1, <2>2, <3>2 DEF Let, Consented, tables, AnswerSteps
  <2>3. CASE req' = [req EXCEPT ![w] = ReviveFrom(r, invite[i])]
    <3>1. req'[w] = ReviveFrom(r, invite[i])
      BY <1>1, <2>3
    <3>2. r \in Request
      BY ConstantTypes, <1>1, i \in InviteId, u \in Users DEF Request, AllHandlers
    <3> HIDE DEF r
    <3>3. /\ ReviveFrom(r, invite[i]).pc \in {"renew", "revive"}
          /\ ReviveFrom(r, invite[i]).pc = "renew" =>
               ReviveFrom(r, invite[i]).seen.status = "invite_created"
      BY <1>1, <3>2 DEF ReviveFrom, Request, Row
    <3> QED
      BY <3>1, <3>3 DEF Let, AnswerSteps, Expirable, Answered
  <2> QED
    BY <1>6, <2>2, <2>3 DEF StartRenew
<1>7. LoadOverdue(w, u, i) => Let(w)' /\ UNCHANGED tables
  BY <1>4 DEF LoadOverdue, AnswerSteps
<1>8. StartReplace(w, u, i) => Let(w)' /\ UNCHANGED tables
  BY <1>4 DEF StartReplace, AnswerSteps
<1>9. StartCancel(w, u, i) => Let(w)' /\ UNCHANGED tables
  BY <1>4 DEF StartCancel, AnswerSteps
<1>10. StartRemind(w, u, i) => Let(w)' /\ UNCHANGED tables
  BY <1>4 DEF StartRemind, AnswerSteps
<1>11. StartOpen(w, u, i) => Let(w)' /\ UNCHANGED tables
  BY <1>4 DEF StartOpen, AnswerSteps
<1>12. StartConsent(w, u, i) => Let(w)' /\ UNCHANGED tables
  BY <1>4 DEF StartConsent, AnswerSteps
<1>13. StartOpenSheet(w, u, i) => Let(w)' /\ UNCHANGED tables
  BY <1>4, <1>5 DEF StartOpenSheet
<1>14. StartSaveDraft(w, u, i) => Let(w)' /\ UNCHANGED tables
  BY <1>4, <1>5 DEF StartSaveDraft
<1>15. StartSubmit(w, u, i) => Let(w)' /\ UNCHANGED tables
  BY <1>4, <1>5 DEF StartSubmit
<1>16. StartReuse(w, u, i) => Let(w)' /\ UNCHANGED tables
  BY <1>4, <1>5 DEF StartReuse
<1>17. StartRenew(w, u, i) => UNCHANGED tables
  BY DEF StartRenew
<1> QED
  BY <1>6, <1>7, <1>8, <1>9, <1>10, <1>11, <1>12, <1>13, <1>14, <1>15, <1>16, <1>17 DEF Receive

-----------------------------------------------------------------------------
(* The invariant.                                                          *)

LEMMA InitEvidence == Init => EvidenceInv
<1> SUFFICES ASSUME Init
             PROVE  EvidenceInv
  OBVIOUS
<1>1. ConsentEvidence
  BY DEF Init, QueueInit, ConsentEvidence, NoRow, NoSnapshot, NoReport, Answered
<1>2. HandlersLetIn
  BY DEF Init, HandlersLetIn, Let, Idle, AnswerSteps
<1> QED
  BY <1>1, <1>2, InitTyped DEF EvidenceInv

(* A step that is backed and leaves the handlers as they were.             *)
LEMMA QuietStep ==
  ASSUME EvidenceInv, Backed, UNCHANGED req
  PROVE  ConsentEvidence' /\ HandlersLetIn'
<1>1. ASSUME NEW w \in Workers
      PROVE  Let(w)'
  BY DEF Backed, EvidenceStays, EvidenceInv, Typed, Called, HandlersLetIn, Let, Consented,
         AnswerSteps
<1> QED
  BY <1>1, BackedKeepsEvidence DEF EvidenceInv, HandlersLetIn

LEMMA NextEvidence == EvidenceInv /\ [Next]_vars => EvidenceInv'
<1> SUFFICES ASSUME EvidenceInv, [Next]_vars
             PROVE  ConsentEvidence' /\ HandlersLetIn'
  BY NextTyped DEF EvidenceInv
<1> DEFINE Kept == ConsentEvidence' /\ HandlersLetIn'
<1>1. /\ invite \in [InviteId -> Row]
      /\ req \in [Workers -> Request]
      /\ report \in [InviteId -> Report]
      /\ sheet \in [InviteId -> Seq(SheetState)]
      /\ snapshot \in [InviteId -> Snapshot]
  BY DEF EvidenceInv, Typed, TypeOK, QueueTypeOK
<1>2. UNCHANGED tables => Backed
  BY StatusBacked DEF tables, queueVars
<1>3. ASSUME NEW w \in Workers, Let(w)', \A v \in Workers \ {w} : req'[v] = req[v],
             UNCHANGED tables
      PROVE  Kept
  <2>1. ASSUME NEW v \in Workers \ {w}
        PROVE  Let(v)'
    BY <1>3 DEF EvidenceInv, HandlersLetIn, Let, Consented, tables
  <2> QED
    BY <1>2, <1>3, <2>1, BackedKeepsEvidence DEF EvidenceInv, HandlersLetIn
<1>4. ASSUME NEW w \in Workers, NEW u \in Users, StartCreate(w, u)
      PROVE  Kept
  <2>1. req' = [req EXCEPT ![w] =
          [Idle EXCEPT !.pc = "cooldown", !.op = "create", !.user = u, !.inv = None, !.seen = NoRow]]
    BY <1>4 DEF StartCreate, Start
  <2>2. Let(w)' /\ \A v \in Workers \ {w} : req'[v] = req[v]
    BY <1>1, <2>1 DEF Idle, Let, AnswerSteps
  <2> QED
    BY <1>3, <1>4, <2>2 DEF StartCreate
<1>5. ASSUME NEW w \in Workers, NEW u \in Users, NEW i \in InviteId, Receive(w, u, i)
      PROVE  Kept
  BY <1>3, <1>5, ReceiveLetIn, ReceiveCalls DEF EvidenceInv
<1>6. ASSUME NEW w \in Workers, Continue(w)
      PROVE  Kept
  <2>1. Backed
    BY <1>6, ContinueBacked
  <2> QED
    BY <1>6, <2>1, BackedKeepsEvidence, AdvanceKeepsLetIn, ContinueAdvances
    DEF Backed, EvidenceInv
<1>7. ASSUME NEW w \in Workers, Fail(w)
      PROVE  Kept
  BY <1>2, <1>7, BackedKeepsEvidence, AdvanceKeepsLetIn DEF Fail, Backed, EvidenceInv
<1>8. ASSUME NEW u \in Users, NEW i \in InviteId, DeletePairing(u, i)
      PROVE  Kept
  <2>1. \A j \in InviteId :
          /\ invite'[j].status = invite[j].status \/ invite'[j].status = "none"
          /\ report'[j].status = report[j].status \/ report'[j].status = "none"
    BY <1>1, <1>8 DEF DeletePairing, NoRow, NoReport
  <2>2. \A j \in InviteId :
          /\ snapshot'[j].invitee = snapshot[j].invitee \/ snapshot'[j].invitee = None
          /\ sheet'[j] # << >> => sheet[j] # << >>
    <3>1. \A j \in InviteId :
            snapshot'[j].invitee = snapshot[j].invitee \/ snapshot'[j].invitee = None
      BY <1>1, <1>8 DEF DeletePairing, NoSnapshot
    <3>2. sheet[i] = << >> => [k \in DOMAIN sheet[i] |-> "deleted"] = << >>
      OBVIOUS
    <3>3. \A j \in InviteId : sheet'[j] # << >> => sheet[j] # << >>
      BY <1>1, <1>8, <3>2 DEF DeletePairing
    <3> QED
      BY <3>1, <3>3
  <2>3. UNCHANGED <<consentLog, req>>
    BY <1>8 DEF DeletePairing
  <2>4. Backed
    BY <2>1, <2>2, <2>3 DEF Backed, EvidenceStays, BackedAnswer, BackedRefusal, Answered
  <2> QED
    BY <2>3, <2>4, QuietStep
<1>9. ASSUME NEW u \in Users, CooldownElapses(u)
      PROVE  Kept
  BY <1>9, StatusBacked, QuietStep DEF CooldownElapses, queueVars
<1>10. ASSUME NEW i \in InviteId, DeadlinePasses(i)
       PROVE  Kept
  <2>1. \A j \in InviteId : invite'[j].status = invite[j].status
    BY <1>1, <1>10 DEF DeadlinePasses, Row
  <2> QED
    BY <1>10, <2>1, StatusBacked, QuietStep DEF DeadlinePasses, queueVars
<1>11. ASSUME ExpireScan
       PROVE  Kept
  <2>1. \A j \in InviteId : invite'[j].status = invite[j].status \/ invite'[j].status = "expired"
    BY <1>1, <1>11 DEF ExpireScan, Row
  <2> QED
    BY <1>11, <2>1, StatusBacked, QuietStep DEF ExpireScan, queueVars, Answered
<1>12. CASE UNCHANGED vars
  BY <1>2, <1>12, QuietStep DEF vars
<1> QED
  BY <1>4, <1>5, <1>6, <1>7, <1>8, <1>9, <1>10, <1>11, <1>12 DEF Next

(* No answer, snapshot or report of an invitee without their consent on    *)
(* record, and no refusal without its evidence: whatever handlers overtake *)
(* one another, fail half way, or write after the row they loaded is gone. *)
THEOREM ConsentRecorded == Spec => []ConsentEvidence
<1>1. EvidenceInv => ConsentEvidence
  BY DEF EvidenceInv
<1> QED
  BY <1>1, InitEvidence, NextEvidence, PTL DEF Spec

-----------------------------------------------------------------------------
(* The rows: a completed invite has both snapshots, the invitee who bound  *)
(* the link keeps it, one answer to the consent question is recorded, a    *)
(* refused reminder costs nothing, every status moves along the machine,   *)
(* and Invite implements ConsentFirst.                                     *)
(*                                                                         *)
(* Effect says what a step of any handler may do to a row, its evidence    *)
(* and its snapshots; each action is looked at once, and the properties    *)
(* follow from Effect.  Aware says what a handler in flight still knows of *)
(* the row it loaded: of a deleted invite it knows nothing, but such a row *)
(* never comes back, so its writes miss.                                   *)

(* The invariant.                                                          *)

Unanswered == {"invite_created", "invite_opened"}

RowSound(i) ==
  /\ Exists(i) =>
       /\ i \in used
       /\ snapshot[i].initiator
       /\ invite[i].initiator \in Users
       /\ invite[i].initiator # invite[i].invitee
       /\ invite[i].renewed = 0 =>
            /\ consentLog[i].agreed + consentLog[i].declined <= 1
            /\ invite[i].status \in Unanswered =>
                 consentLog[i].agreed + consentLog[i].declined = 0
  /\ ~ Exists(i) => invite[i].invitee = None
  /\ i \notin used => consentLog[i].agreed + consentLog[i].declined = 0
  /\ invite[i].status \in {"completed", "report_unlocked"} => snapshot[i].invitee # None
  /\ invite[i].reminds <= RemindMax
  /\ invite[i].reminds <= delivered[i]

Aware(w) ==
  LET r == req[w] IN
  /\ r.pc \notin Creation => r.inv \in used
  /\ r.pc = "bind" => invite[r.inv].initiator # r.user \/ ~ Exists(r.inv)
  /\ r.pc \in {"updateSnapshot", "complete"} =>
       snapshot[r.inv].invitee # None \/ ~ Exists(r.inv)
  /\ r.pc \in {"send", "tally"} => r.seen.reminds < RemindMax
  /\ r.pc = "send" => r.seen.reminds <= delivered[r.inv]
  /\ r.pc = "tally" => r.seen.reminds + 1 <= delivered[r.inv]

RowInv ==
  /\ EvidenceInv
  /\ \A i \in InviteId : RowSound(i)
  /\ \A w \in Workers : Aware(w)

-----------------------------------------------------------------------------
(* What a step may do to invite i.                                         *)

SameInvite(i) ==
  invite'[i].initiator = invite[i].initiator /\ invite'[i].from = invite[i].from

LogSame(i) ==
  /\ consentLog'[i].agreed = consentLog[i].agreed
  /\ consentLog'[i].declined = consentLog[i].declined

Unmoved(i) ==
  /\ SameInvite(i)
  /\ invite'[i].invitee = invite[i].invitee
  /\ invite'[i].renewed = invite[i].renewed

(* The edges of the machine that no property asks more about.              *)
Forward ==
  (Expirable \X {"expired"}) \cup (Active \X {"cancelled"})
  \cup {<<"consent_given", "answering">>}

Stays(i) ==
  /\ Unmoved(i) /\ LogSame(i)
  /\ \/ invite'[i].status = invite[i].status
     \/ <<invite[i].status, invite'[i].status>> \in Forward

Replies(i) ==
  /\ Unmoved(i)
  /\ invite[i].status = "invite_opened"
  /\ invite'[i].status \in {"consent_given", "declined"}
  /\ consentLog'[i].agreed + consentLog'[i].declined
       = consentLog[i].agreed + consentLog[i].declined + 1

Completes(i) ==
  /\ Unmoved(i) /\ LogSame(i)
  /\ invite[i].status \in Answerable
  /\ invite'[i].status = "completed"
  /\ \E w \in Workers : At(w, "complete") /\ req[w].inv = i

Binds(i) ==
  /\ SameInvite(i) /\ LogSame(i)
  /\ invite'[i].renewed = invite[i].renewed
  /\ invite[i].invitee = None
  /\ invite[i].status = "invite_created"
  /\ invite'[i].status = "invite_opened"
  /\ \E w \in Workers : At(w, "bind") /\ req[w].inv = i /\ invite'[i].invitee = req[w].user

Renews(i) ==
  /\ SameInvite(i) /\ LogSame(i)
  /\ invite'[i].invitee = invite[i].invitee
  /\ Exists(i)
  /\ \E w \in Workers :
       /\ At(w, "renew") /\ req[w].inv = i /\ req'[w] = Idle
       /\ invite'[i].status = req[w].seen.status
       /\ invite'[i].renewed = req[w].seen.renewed + 1

Inserts(i) ==
  /\ LogSame(i)
  /\ i \notin used /\ i \in used'
  /\ snapshot'[i].initiator
  /\ \E w \in Workers :
       /\ At(w, "insert") /\ req'[w] = Idle
       /\ invite'[i] = [NoRow EXCEPT !.initiator = req[w].user, !.status = "invite_created",
                                     !.from = req[w].inv]

Deletes(i) == LogSame(i) /\ invite'[i] = NoRow

Moves(i) ==
  \/ Stays(i) \/ Replies(i) \/ Completes(i) \/ Binds(i) \/ Renews(i) \/ Inserts(i) \/ Deletes(i)

(* A snapshot goes only with its invite.                                   *)
SnapKept(i) ==
  /\ snapshot[i].invitee # None => snapshot'[i].invitee # None \/ invite'[i] = NoRow
  /\ snapshot[i].initiator => snapshot'[i].initiator \/ invite'[i] = NoRow

Tallied(i) ==
  \/ invite'[i].reminds \in {invite[i].reminds, 0}
  \/ \E w \in Workers : /\ At(w, "tally") /\ req[w].inv = i
                        /\ invite'[i].reminds = req[w].seen.reminds + 1

Effect ==
  /\ used \subseteq used'
  /\ \A i \in InviteId :
       Moves(i) /\ SnapKept(i) /\ Tallied(i) /\ delivered'[i] >= delivered[i]

-----------------------------------------------------------------------------
(* What the rows keep through such a step.                                 *)

LEMMA TypesUsed ==
  ASSUME Typed
  PROVE  /\ invite \in [InviteId -> Row] /\ snapshot \in [InviteId -> Snapshot]
         /\ consentLog \in [InviteId -> Evidence] /\ delivered \in [InviteId -> Nat]
         /\ req \in [Workers -> Request] /\ used \subseteq InviteId
         /\ \A i \in InviteId :
              /\ invite[i].renewed \in Nat /\ invite[i].reminds \in Nat
              /\ consentLog[i].agreed \in Nat /\ consentLog[i].declined \in Nat
              /\ delivered[i] \in Nat
         /\ \A w \in Workers : req[w].seen.renewed \in Nat /\ req[w].seen.reminds \in Nat
BY DEF Typed, TypeOK, Row, Evidence, Request

LEMMA TypesAfter ==
  ASSUME Typed'
  PROVE  \A i \in InviteId :
           /\ invite'[i].renewed \in Nat /\ invite'[i].reminds \in Nat
           /\ consentLog'[i].agreed \in Nat /\ consentLog'[i].declined \in Nat
           /\ delivered'[i] \in Nat
BY DEF Typed, TypeOK, Row, Evidence

LEMMA NoRowIs ==
  /\ NoRow.status = "none" /\ NoRow.initiator = None /\ NoRow.invitee = None
  /\ NoRow.renewed = 0 /\ NoRow.reminds = 0 /\ NoRow.from = None
BY DEF NoRow

(* A row that existed once and is gone stays gone, one that is there now   *)
(* was there before with the same initiator.                               *)
LEMMA UsedRows ==
  ASSUME RowInv, Effect, NEW i \in used, Exists(i)'
  PROVE  Exists(i) /\ SameInvite(i)
<1>1. i \in InviteId /\ Moves(i)
  BY TypesUsed DEF RowInv, EvidenceInv, Effect
<1>2. ~ Inserts(i)
  BY DEF Inserts
<1>3. ~ Deletes(i)
  BY NoRowIs DEF Deletes, Exists
<1>4. CASE Stays(i)
  BY <1>4 DEF Stays, Unmoved, Forward, Exists, Expirable, Active
<1>5. CASE Replies(i) \/ Completes(i) \/ Binds(i) \/ Renews(i)
  BY <1>5 DEF Replies, Completes, Binds, Renews, Unmoved, Exists, Answerable
<1> QED
  BY <1>1, <1>2, <1>3, <1>4, <1>5 DEF Moves

LEMMA InsertedRow ==
  ASSUME RowInv, NEW i \in InviteId, Inserts(i)
  PROVE  /\ invite'[i].initiator \in Users /\ invite'[i].invitee = None
         /\ invite'[i].renewed = 0 /\ invite'[i].reminds = 0
         /\ invite'[i].status = "invite_created"
<1>1. PICK w \in Workers : /\ At(w, "insert")
                           /\ invite'[i] = [NoRow EXCEPT !.initiator = req[w].user,
                                              !.status = "invite_created", !.from = req[w].inv]
  BY DEF Inserts
<1>2. req[w].user \in Users
  BY <1>1 DEF RowInv, EvidenceInv, Typed, Called, At
<1> QED
  BY <1>1, <1>2 DEF NoRow

LEMMA RowsKept ==
  ASSUME RowInv, Typed', Effect, NEW i \in InviteId
  PROVE  RowSound(i)'
<1>1. RowSound(i) /\ Moves(i) /\ SnapKept(i) /\ Tallied(i) /\ delivered'[i] >= delivered[i]
  BY DEF RowInv, Effect
<1>2. /\ invite[i].renewed \in Nat /\ invite[i].reminds \in Nat
      /\ consentLog[i].agreed \in Nat /\ consentLog[i].declined \in Nat
      /\ delivered[i] \in Nat /\ delivered'[i] \in Nat
      /\ invite'[i].renewed \in Nat /\ invite'[i].reminds \in Nat
      /\ consentLog'[i].agreed \in Nat /\ consentLog'[i].declined \in Nat
      /\ \A w \in Workers : req[w].seen.renewed \in Nat /\ req[w].seen.reminds \in Nat
      /\ RemindMax \in Nat
  BY TypesUsed, TypesAfter, InviteAssumption DEF RowInv, EvidenceInv
<1>3. invite'[i].reminds <= RemindMax /\ invite'[i].reminds <= delivered'[i]
  <2>1. ASSUME NEW w \in Workers, At(w, "tally"), req[w].inv = i,
               invite'[i].reminds = req[w].seen.reminds + 1
        PROVE  invite'[i].reminds <= RemindMax /\ invite'[i].reminds <= delivered[i]
    BY <1>2, <2>1 DEF RowInv, Aware, At
  <2>2. CASE invite'[i].reminds \in {invite[i].reminds, 0}
    BY <1>1, <1>2, <2>2 DEF RowSound
  <2> QED
    BY <1>1, <1>2, <2>1, <2>2 DEF Tallied
<1>4. used \subseteq used'
  BY DEF Effect
<1> DEFINE sum == consentLog[i].agreed + consentLog[i].declined
           sumAfter == consentLog'[i].agreed + consentLog'[i].declined
<1>5. sum \in Nat /\ sumAfter \in Nat /\ (LogSame(i) => sumAfter = sum)
  BY <1>2 DEF LogSame
<1> HIDE DEF sum, sumAfter
<1>6. /\ Exists(i)' =>
           /\ i \in used'
           /\ snapshot'[i].initiator
           /\ invite'[i].initiator \in Users
           /\ invite'[i].initiator # invite'[i].invitee
           /\ invite'[i].renewed = 0 =>
                sumAfter <= 1 /\ (invite'[i].status \in Unanswered => sumAfter = 0)
      /\ i \notin used' => sumAfter = 0
      /\ invite'[i].status \in {"completed", "report_unlocked"} => snapshot'[i].invitee # None
  <2>0. /\ Exists(i) => /\ i \in used /\ snapshot[i].initiator
                        /\ invite[i].initiator \in Users
                        /\ invite[i].initiator # invite[i].invitee
                        /\ invite[i].renewed = 0 =>
                             sum <= 1 /\ (invite[i].status \in Unanswered => sum = 0)
        /\ i \notin used => sum = 0
        /\ invite[i].status \in {"completed", "report_unlocked"} => snapshot[i].invitee # None
    BY <1>1 DEF RowSound, sum
  <2>1. CASE Stays(i)
    <3>1. Exists(i)' => Exists(i)
      BY <2>1 DEF Stays, Forward, Exists, Expirable, Active
    <3>2. invite'[i].status \in {"completed", "report_unlocked"} => invite'[i].status = invite[i].status
      BY <2>1 DEF Stays, Forward
    <3>3. invite'[i].status \in Unanswered => invite'[i].status = invite[i].status
      BY <2>1 DEF Stays, Forward, Unanswered
    <3>4. Exists(i)' => invite'[i] # NoRow
      BY NoRowIs DEF Exists
    <3> QED
      BY <1>1, <1>4, <1>5, <2>0, <2>1, <3>1, <3>2, <3>3, <3>4, NoRowIs
      DEF Stays, Unmoved, SameInvite, SnapKept, Exists
  <2>2. CASE Replies(i)
    <3>1. Exists(i) /\ invite[i].status \in Unanswered
      BY <2>2 DEF Replies, Exists, Unanswered
    <3>2. sumAfter = sum + 1
      BY <2>2 DEF Replies, sum, sumAfter
    <3>3. Exists(i)' /\ invite'[i].status \notin Unanswered \cup {"completed", "report_unlocked"}
      BY <2>2 DEF Replies, Exists, Unanswered
    <3>4. invite'[i] # NoRow
      BY <3>3, NoRowIs DEF Exists
    <3> QED
      BY <1>1, <1>4, <1>5, <2>0, <2>2, <3>1, <3>2, <3>3, <3>4
      DEF Replies, Unmoved, SameInvite, SnapKept
  <2>3. CASE Completes(i)
    <3>1. PICK w \in Workers : At(w, "complete") /\ req[w].inv = i
      BY <2>3 DEF Completes
    <3>2. Exists(i) /\ invite'[i] # NoRow /\ invite'[i].status \notin Unanswered
      BY <2>3, NoRowIs DEF Completes, Exists, Answerable, Unanswered
    <3>3. snapshot[i].invitee # None
      BY <3>1, <3>2 DEF RowInv, Aware, At
    <3> QED
      BY <1>1, <1>4, <1>5, <2>0, <2>3, <3>2, <3>3 DEF Completes, Unmoved, SameInvite, SnapKept
  <2>4. CASE Binds(i)
    <3>1. PICK w \in Workers : /\ At(w, "bind") /\ req[w].inv = i
                               /\ invite'[i].invitee = req[w].user
      BY <2>4 DEF Binds
    <3>2. Exists(i) /\ invite'[i] # NoRow /\ invite[i].status \in Unanswered
      BY <2>4, NoRowIs DEF Binds, Exists, Unanswered
    <3>3. invite[i].initiator # req[w].user
      BY <3>1, <3>2 DEF RowInv, Aware, At
    <3> QED
      BY <1>1, <1>4, <1>5, <2>0, <2>4, <3>1, <3>2, <3>3 DEF Binds, SameInvite, SnapKept
  <2>5. CASE Renews(i)
    <3>1. PICK w \in Workers : /\ At(w, "renew") /\ req[w].inv = i
                               /\ invite'[i].status = req[w].seen.status
                               /\ invite'[i].renewed = req[w].seen.renewed + 1
      BY <2>5 DEF Renews
    <3>2. req[w].seen.status \in Expirable
      BY <3>1 DEF RowInv, EvidenceInv, HandlersLetIn, Let, At
    <3>3. invite'[i].renewed # 0
      BY <1>2, <3>1
    <3>4. Exists(i) /\ invite'[i] # NoRow /\ invite'[i].status \notin {"completed", "report_unlocked"}
      BY <2>5, <3>1, <3>2, NoRowIs DEF Renews, Exists, Expirable
    <3> QED
      BY <1>1, <1>4, <1>5, <2>0, <2>5, <3>3, <3>4 DEF Renews, SameInvite, SnapKept
  <2>6. CASE Inserts(i)
    <3>1. i \notin used /\ i \in used' /\ snapshot'[i].initiator /\ LogSame(i)
      BY <2>6 DEF Inserts
    <3>2. /\ invite'[i].initiator \in Users /\ invite'[i].invitee = None
          /\ invite'[i].status = "invite_created"
      BY <2>6, InsertedRow
    <3>3. invite'[i].initiator # None
      BY <3>2, InviteAssumption
    <3> QED
      BY <1>5, <2>0, <3>1, <3>2, <3>3 DEF Unanswered
  <2>7. CASE Deletes(i)
    BY <1>4, <1>5, <2>0, <2>7, NoRowIs DEF Deletes, Exists
  <2> QED
    BY <1>1, <2>1, <2>2, <2>3, <2>4, <2>5, <2>6, <2>7 DEF Moves
<1>7. ~ Exists(i)' => invite'[i].invitee = None
  <2>1. CASE Stays(i)
    BY <1>1, <2>1 DEF Stays, Forward, Unmoved, Exists, RowSound
  <2>2. CASE Replies(i) \/ Completes(i) \/ Binds(i)
    BY <2>2 DEF Replies, Completes, Binds, Exists
  <2>3. CASE Renews(i)
    BY <2>3 DEF Renews, RowInv, EvidenceInv, HandlersLetIn, Let, At, Exists, Expirable
  <2>4. CASE Inserts(i) \/ Deletes(i)
    BY <2>4, InsertedRow, NoRowIs DEF Deletes
  <2> QED
    BY <1>1, <2>1, <2>2, <2>3, <2>4 DEF Moves
<1> QED
  BY <1>3, <1>6, <1>7 DEF RowSound, Exists, sumAfter

(* A handler that does not move knows what it knew.                        *)
LEMMA AwareKept ==
  ASSUME RowInv, Typed', Effect, NEW v \in Workers, req'[v] = req[v]
  PROVE  Aware(v)'
<1> DEFINE r == req[v]
<1>1. /\ Aware(v) /\ Called /\ r.seen.reminds \in Nat /\ RemindMax \in Nat
      /\ \A i \in InviteId : delivered[i] \in Nat /\ delivered'[i] \in Nat
  BY TypesUsed, TypesAfter, InviteAssumption DEF RowInv, EvidenceInv, Typed
<1>2. CASE r.pc \in Creation
  BY <1>2 DEF Aware, Creation
<1>3. CASE r.pc \notin Creation
  <2>1. r.inv \in used /\ r.inv \in InviteId
    BY <1>1, <1>3 DEF Aware, Called, Creation
  <2>2. r.inv \in used' /\ delivered'[r.inv] >= delivered[r.inv] /\ SnapKept(r.inv)
    BY <2>1 DEF Effect
  <2>3. Exists(r.inv)' => Exists(r.inv) /\ SameInvite(r.inv)
    BY <2>1, UsedRows
  <2>4. Exists(r.inv)' => invite'[r.inv] # NoRow
    BY NoRowIs DEF Exists
  <2>5. /\ r.pc = "bind" => invite'[r.inv].initiator # r.user \/ ~ Exists(r.inv)'
        /\ r.pc \in {"updateSnapshot", "complete"} =>
             snapshot'[r.inv].invitee # None \/ ~ Exists(r.inv)'
    BY <1>1, <2>2, <2>3, <2>4 DEF Aware, SameInvite, SnapKept
  <2>6. /\ r.pc = "send" => r.seen.reminds <= delivered'[r.inv]
        /\ r.pc = "tally" => r.seen.reminds + 1 <= delivered'[r.inv]
        /\ r.pc \in {"send", "tally"} => r.seen.reminds < RemindMax
    BY <1>1, <2>1, <2>2 DEF Aware
  <2> QED
    BY <2>2, <2>5, <2>6 DEF Aware, Exists
<1> QED
  BY <1>2, <1>3

-----------------------------------------------------------------------------
(* Every step has such an effect.                                          *)

(* Nothing happens to an invite.                                           *)
LEMMA NoEffect ==
  ASSUME UNCHANGED <<invite, used, snapshot, consentLog>>, Typed,
         \A i \in InviteId : delivered'[i] >= delivered[i]
  PROVE  Effect
BY DEF Effect, Moves, Stays, Unmoved, SameInvite, LogSame, SnapKept, Tallied

LEMMA UnchangedDelivered ==
  ASSUME UNCHANGED delivered, Typed
  PROVE  \A i \in InviteId : delivered'[i] >= delivered[i]
<1>1. \A i \in InviteId : delivered[i] \in Nat
  BY TypesUsed
<1> QED
  BY <1>1

(* One row moves, and only the table of invites changes.                   *)
LEMMA RowEffect ==
  ASSUME Typed, UNCHANGED <<used, snapshot, consentLog, delivered>>,
         \A i \in InviteId : Tallied(i) /\ (LogSame(i) => Moves(i))
  PROVE  Effect
BY UnchangedDelivered DEF Effect, LogSame, SnapKept

LEMMA MoveStatusRow ==
  ASSUME Typed, NEW i \in InviteId, NEW from, NEW status, MoveStatus(i, from, status)
  PROVE  \A j \in InviteId :
           /\ Unmoved(j) /\ invite'[j].reminds = invite[j].reminds
           /\ \/ invite'[j].status = invite[j].status
              \/ j = i /\ invite[j].status \in from /\ invite'[j].status = status
<1>1. invite \in [InviteId -> Row]
  BY TypesUsed
<1>2. CASE invite[i].status \in from /\ SetStatus(i, status)
  BY <1>1, <1>2 DEF SetStatus, Row, Unmoved, SameInvite
<1>3. CASE UNCHANGED invite
  BY <1>3 DEF Unmoved, SameInvite
<1> QED
  BY <1>2, <1>3 DEF MoveStatus

LEMMA StatusSteps ==
  ASSUME RowInv, NEW w \in Workers
  PROVE  /\ LazyExpire(w) => Effect
         /\ WriteCancel(w) => Effect
         /\ MarkAnswering(w) => Effect
         /\ CompleteInvite(w) => Effect
<1> DEFINE i == req[w].inv
<1>1. Typed /\ Called
  BY DEF RowInv, EvidenceInv, Typed
<1>2. ASSUME LazyExpire(w) PROVE Effect
  <2>1. i \in InviteId /\ MoveStatus(i, Expirable, "expired")
    BY <1>1, <1>2 DEF LazyExpire, At, Called
  <2> QED
    BY <1>1, <1>2, <2>1, MoveStatusRow, RowEffect
    DEF LazyExpire, Tallied, Moves, Stays, Forward
<1>3. ASSUME WriteCancel(w) PROVE Effect
  <2>1. i \in InviteId /\ MoveStatus(i, Active, "cancelled")
    BY <1>1, <1>3 DEF WriteCancel, At, Called
  <2> QED
    BY <1>1, <1>3, <2>1, MoveStatusRow, RowEffect
    DEF WriteCancel, Tallied, Moves, Stays, Forward
<1>4. ASSUME MarkAnswering(w) PROVE Effect
  <2>1. i \in InviteId /\ MoveStatus(i, {"consent_given"}, "answering")
    BY <1>1, <1>4 DEF MarkAnswering, At, Called
  <2> QED
    BY <1>1, <1>4, <2>1, MoveStatusRow, RowEffect
    DEF MarkAnswering, Tallied, Moves, Stays, Forward
<1>5. ASSUME CompleteInvite(w) PROVE Effect
  <2>1. i \in InviteId /\ MoveStatus(i, Answerable, "completed") /\ At(w, "complete")
    BY <1>1, <1>5 DEF CompleteInvite, At, Called
  <2> QED
    BY <1>1, <1>5, <2>1, MoveStatusRow, RowEffect
    DEF CompleteInvite, Tallied, Moves, Stays, Completes
<1> QED
  BY <1>2, <1>3, <1>4, <1>5

(* The clock and the hourly scan.                                          *)
LEMMA ClockSteps ==
  ASSUME RowInv
  PROVE  /\ ExpireScan => Effect
         /\ \A i \in InviteId : DeadlinePasses(i) => Effect
<1>1. Typed /\ invite \in [InviteId -> Row]
  BY TypesUsed DEF RowInv, EvidenceInv
<1>2. ASSUME ExpireScan PROVE Effect
  <2>1. ASSUME NEW j \in InviteId
        PROVE  /\ Unmoved(j) /\ invite'[j].reminds = invite[j].reminds
               /\ \/ invite'[j].status = invite[j].status
                  \/ invite[j].status \in Expirable /\ invite'[j].status = "expired"
    BY <1>1, <1>2 DEF ExpireScan, Overdue, Row, Unmoved, SameInvite
  <2> QED
    BY <1>1, <1>2, <2>1, RowEffect DEF ExpireScan, Tallied, Moves, Stays, Forward
<1>3. ASSUME NEW i \in InviteId, DeadlinePasses(i) PROVE Effect
  <2>1. ASSUME NEW j \in InviteId
        PROVE  /\ Unmoved(j) /\ invite'[j].reminds = invite[j].reminds
               /\ invite'[j].status = invite[j].status
    BY <1>1, <1>3 DEF DeadlinePasses, Row, Unmoved, SameInvite
  <2> QED
    BY <1>1, <1>3, <2>1, RowEffect DEF DeadlinePasses, Tallied, Moves, Stays
<1> QED
  BY <1>2, <1>3

(* Binding, renewing, counting a reminder.                                 *)
LEMMA WriteSteps ==
  ASSUME RowInv, NEW w \in Workers
  PROVE  /\ BindFirstInvitee(w) => Effect
         /\ WriteRenewal(w) => Effect
         /\ TallyReminder(w) => Effect
<1>1. Typed /\ invite \in [InviteId -> Row] /\ req \in [Workers -> Request]
  BY TypesUsed DEF RowInv, EvidenceInv
<1>2. PICK r \in Request : req[w] = r
  BY <1>1
<1> DEFINE i == r.inv
<1>3. ASSUME BindFirstInvitee(w) PROVE Effect
  <2>0. At(w, "bind") /\ req[w].inv = i /\ UNCHANGED <<used, snapshot, consentLog, delivered>>
    BY <1>2, <1>3 DEF BindFirstInvitee
  <2>1. CASE UNCHANGED invite
    BY <1>1, <2>0, <2>1, NoEffect, UnchangedDelivered
  <2>2. CASE /\ invite[i].invitee = None /\ invite[i].status = "invite_created"
             /\ invite' = [invite EXCEPT ![i].invitee = r.user, ![i].status = "invite_opened"]
    <3> HIDE DEF i
    <3>1. ASSUME NEW j \in InviteId
          PROVE  /\ SameInvite(j) /\ invite'[j].reminds = invite[j].reminds
                 /\ invite'[j].renewed = invite[j].renewed
                 /\ \/ Unmoved(j) /\ invite'[j].status = invite[j].status
                    \/ /\ j = i /\ invite[j].invitee = None /\ invite[j].status = "invite_created"
                       /\ invite'[j].status = "invite_opened" /\ invite'[j].invitee = r.user
      BY <1>1, <2>2 DEF Row, SameInvite, Unmoved
    <3>2. ASSUME NEW j \in InviteId, LogSame(j)
          PROVE  Stays(j) \/ Binds(j)
      BY <1>2, <2>0, <3>1, <3>2 DEF Stays, Binds
    <3> QED
      BY <1>1, <2>0, <3>1, <3>2, RowEffect DEF Tallied, Moves
  <2> QED
    BY <1>2, <1>3, <2>1, <2>2 DEF BindFirstInvitee
<1>4. ASSUME WriteRenewal(w) PROVE Effect
  <2>0. /\ At(w, "renew") /\ req[w].inv = i /\ UNCHANGED <<used, snapshot, consentLog, delivered>>
        /\ req'[w] = Idle
    BY <1>1, <1>2, <1>4 DEF WriteRenewal, Return
  <2>1. CASE UNCHANGED invite
    BY <1>1, <2>0, <2>1, NoEffect, UnchangedDelivered
  <2>2. CASE /\ Exists(i)
             /\ invite' = [invite EXCEPT ![i].renewed = r.seen.renewed + 1,
                                         ![i].due = FALSE, ![i].status = r.seen.status]
    <3> DEFINE n == r.seen.renewed + 1  status == r.seen.status
    <3> HIDE DEF i, n, status
    <3>1. invite' = [invite EXCEPT ![i].renewed = n, ![i].due = FALSE, ![i].status = status]
      BY <2>2 DEF n, status
    <3>2. ASSUME NEW j \in InviteId
          PROVE  /\ SameInvite(j) /\ invite'[j].reminds = invite[j].reminds
                 /\ invite'[j].invitee = invite[j].invitee
                 /\ \/ Unmoved(j) /\ invite'[j].status = invite[j].status
                    \/ j = i /\ invite'[j].status = status /\ invite'[j].renewed = n
      BY <1>1, <3>1 DEF Row, SameInvite, Unmoved
    <3>3. ASSUME NEW j \in InviteId, LogSame(j)
          PROVE  Stays(j) \/ Renews(j)
      BY <1>2, <2>0, <2>2, <3>2, <3>3 DEF Stays, Renews, n, status
    <3> QED
      BY <1>1, <2>0, <3>2, <3>3, RowEffect DEF Tallied, Moves
  <2> QED
    BY <1>2, <1>4, <2>1, <2>2 DEF WriteRenewal
<1>5. ASSUME TallyReminder(w) PROVE Effect
  <2>0. At(w, "tally") /\ req[w].inv = i /\ UNCHANGED <<used, snapshot, consentLog, delivered>>
    BY <1>2, <1>5 DEF TallyReminder
  <2>1. CASE UNCHANGED invite
    BY <1>1, <2>0, <2>1, NoEffect, UnchangedDelivered
  <2>2. CASE invite' = [invite EXCEPT ![i].reminds = r.seen.reminds + 1]
    <3> DEFINE n == r.seen.reminds + 1
    <3> HIDE DEF i, n
    <3>1. invite' = [invite EXCEPT ![i].reminds = n]
      BY <2>2 DEF n
    <3>2. ASSUME NEW j \in InviteId
          PROVE  /\ Unmoved(j) /\ invite'[j].status = invite[j].status
                 /\ invite'[j].reminds = invite[j].reminds \/ (j = i /\ invite'[j].reminds = n)
      BY <1>1, <3>1 DEF Row, SameInvite, Unmoved
    <3>3. \A j \in InviteId : Tallied(j)
      BY <1>2, <2>0, <3>2 DEF Tallied, n
    <3> QED
      BY <1>1, <2>0, <3>2, <3>3, RowEffect DEF Moves, Stays
  <2> QED
    BY <1>2, <1>5, <2>1, <2>2 DEF TallyReminder
<1> QED
  BY <1>3, <1>4, <1>5

(* The answer to the consent question is one more row of evidence.         *)
LEMMA PersistEffect ==
  ASSUME RowInv, NEW w \in Workers, PersistConsent(w)
  PROVE  Effect
<1>1. /\ Typed /\ invite \in [InviteId -> Row] /\ consentLog \in [InviteId -> Evidence]
      /\ req[w].inv \in InviteId
  BY TypesUsed DEF RowInv, EvidenceInv, Typed, Called, PersistConsent, At
<1>2. PICK i \in InviteId, answer \in {req[w].op} : req[w].inv = i /\ req[w].op = answer
  BY <1>1
<1> DEFINE status == IF answer = "consent" THEN "consent_given" ELSE "declined"
<1>3. UNCHANGED <<used, snapshot, delivered>>
  BY DEF PersistConsent
<1>4. CASE UNCHANGED <<invite, consentLog>>
  BY <1>1, <1>3, <1>4, NoEffect, UnchangedDelivered
<1>5. CASE invite[i].status = "invite_opened" /\ SetStatus(i, status) /\ RecordAnswer(i, answer)
  <2>1. status \in {"consent_given", "declined"}
    OBVIOUS
  <2> HIDE DEF status
  <2>2. ASSUME NEW j \in InviteId
        PROVE  /\ Unmoved(j) /\ invite'[j].reminds = invite[j].reminds
               /\ invite'[j].status = IF j = i THEN status ELSE invite[j].status
    BY <1>1, <1>5 DEF SetStatus, Row, Unmoved, SameInvite
  <2>3. /\ \A j \in InviteId \ {i} : LogSame(j)
        /\ consentLog'[i].agreed + consentLog'[i].declined
             = consentLog[i].agreed + consentLog[i].declined + 1
    <3>1. \/ consentLog' = [consentLog EXCEPT ![i].agreed = @ + 1]
          \/ consentLog' = [consentLog EXCEPT ![i].declined = @ + 1]
      BY <1>5 DEF RecordAnswer
    <3> QED
      BY <1>1, <3>1 DEF Evidence, LogSame
  <2>4. ASSUME NEW j \in InviteId
        PROVE  Moves(j) /\ SnapKept(j) /\ Tallied(j)
    <3>1. CASE j = i
      BY <1>3, <1>5, <2>1, <2>2, <2>3, <3>1 DEF Moves, Replies, SnapKept, Tallied
    <3>2. CASE j # i
      BY <1>3, <2>2, <2>3, <3>2 DEF Moves, Stays, SnapKept, Tallied
    <3> QED
      BY <3>1, <3>2
  <2> QED
    BY <1>1, <1>3, <2>4, UnchangedDelivered DEF Effect
<1> QED
  BY <1>2, <1>4, <1>5 DEF PersistConsent

(* A created invite takes an id that no table has seen.                    *)
LEMMA InsertEffect ==
  ASSUME RowInv, NEW w \in Workers, InsertInvite(w)
  PROVE  Effect
<1>1. /\ Typed /\ invite \in [InviteId -> Row] /\ consentLog \in [InviteId -> Evidence]
      /\ snapshot \in [InviteId -> Snapshot] /\ req \in [Workers -> Request]
  BY TypesUsed DEF RowInv, EvidenceInv
<1>2. PICK i \in InviteId \ used :
        /\ used' = used \cup {i}
        /\ invite' = [invite EXCEPT ![i] =
             [NoRow EXCEPT !.initiator = req[w].user, !.status = "invite_created",
                           !.from = req[w].inv]]
        /\ snapshot' = [snapshot EXCEPT ![i].initiator = TRUE]
        /\ consentLog' = [consentLog EXCEPT ![i].initiator = @ + 1]
  BY DEF InsertInvite
<1>3. \A j \in InviteId : LogSame(j)
  BY <1>1, <1>2 DEF Evidence, LogSame
<1>4. snapshot'[i].initiator /\ \A j \in InviteId : SnapKept(j)
  BY <1>1, <1>2 DEF Snapshot, SnapKept
<1>5. ASSUME NEW j \in InviteId \ {i}
      PROVE  Stays(j) /\ Tallied(j)
  BY <1>2, <1>3 DEF Stays, Unmoved, SameInvite, Tallied
<1>6. invite'[i] = [NoRow EXCEPT !.initiator = req[w].user, !.status = "invite_created",
                                 !.from = req[w].inv]
  BY <1>1, <1>2
<1>7. Tallied(i)
  BY <1>6 DEF Tallied, NoRow
<1>8. Inserts(i)
  <2>1. At(w, "insert") /\ req'[w] = Idle
    BY <1>1 DEF InsertInvite, Return
  <2> QED
    BY <1>2, <1>3, <1>4, <1>6, <2>1 DEF Inserts
<1>9. UNCHANGED delivered
  BY DEF InsertInvite
<1> QED
  BY <1>1, <1>2, <1>4, <1>5, <1>7, <1>8, <1>9, UnchangedDelivered DEF Effect, Moves

(* A deletion, and the steps that write reminders or snapshots.            *)
LEMMA OtherEffects ==
  ASSUME RowInv
  PROVE  /\ \A u \in Users, i \in InviteId : DeletePairing(u, i) => Effect
         /\ \A w \in Workers : SendReminder(w) => Effect
         /\ \A w \in Workers : UpdateSnapshot(w) \/ InsertSnapshot(w) => Effect
<1>1. /\ Typed /\ invite \in [InviteId -> Row] /\ snapshot \in [InviteId -> Snapshot]
      /\ delivered \in [InviteId -> Nat]
  BY TypesUsed DEF RowInv, EvidenceInv
<1>2. ASSUME NEW u \in Users, NEW i \in InviteId, DeletePairing(u, i)
      PROVE  Effect
  <2>1. UNCHANGED <<used, consentLog, delivered>>
    BY <1>2 DEF DeletePairing
  <2>2. \A j \in InviteId \ {i} : invite'[j] = invite[j] /\ snapshot'[j] = snapshot[j]
    BY <1>1, <1>2 DEF DeletePairing
  <2>3. invite'[i] = NoRow
    BY <1>1, <1>2 DEF DeletePairing
  <2>4. ASSUME NEW j \in InviteId
        PROVE  Moves(j) /\ SnapKept(j) /\ Tallied(j)
    <3>1. LogSame(j)
      BY <2>1 DEF LogSame
    <3>2. CASE j = i
      BY <2>3, <3>1, <3>2, NoRowIs DEF Moves, Deletes, SnapKept, Tallied
    <3>3. CASE j # i
      BY <2>2, <3>1, <3>3 DEF Moves, Stays, Unmoved, SameInvite, SnapKept, Tallied
    <3> QED
      BY <3>2, <3>3
  <2> QED
    BY <1>1, <2>1, <2>4, UnchangedDelivered DEF Effect
<1>3. ASSUME NEW w \in Workers, SendReminder(w)
      PROVE  Effect
  <2>1. \A j \in InviteId : delivered'[j] >= delivered[j]
    BY <1>1, <1>3 DEF SendReminder
  <2> QED
    BY <1>1, <1>3, <2>1, NoEffect DEF SendReminder
<1>4. ASSUME NEW w \in Workers, UpdateSnapshot(w) \/ InsertSnapshot(w)
      PROVE  Effect
  <2>1. UNCHANGED <<invite, used, consentLog, delivered>>
    BY <1>4 DEF UpdateSnapshot, InsertSnapshot
  <2>2. Payload(w) # None
    BY NoneIsNoAnswer DEF Payload, Answers
  <2>3. \A j \in InviteId : SnapKept(j)
    BY <1>1, <1>4, <2>2 DEF UpdateSnapshot, InsertSnapshot, Snapshot, SnapKept
  <2> QED
    BY <1>1, <2>1, <2>3, UnchangedDelivered
    DEF Effect, Moves, Stays, Unmoved, SameInvite, LogSame, Tallied
<1> QED
  BY <1>2, <1>3, <1>4

LEMMA ContinueEffect ==
  ASSUME RowInv, NEW w \in Workers, Continue(w)
  PROVE  Effect
<1>1. Typed
  BY DEF RowInv, EvidenceInv
<1>2. UNCHANGED <<invite, used, snapshot, consentLog, delivered>> => Effect
  BY <1>1, NoEffect, UnchangedDelivered
<1>3. CheckDerived(w) \/ CheckActive(w) \/ Revive(w) \/ FindSheet(w) \/ LoadForSave(w)
      \/ LoadForSubmit(w) \/ FindSnapshot(w) \/ CountSnapshots(w) \/ FindTask(w) => Effect
  BY <1>2 DEF CheckDerived, CheckActive, Revive, FindSheet, LoadForSave, LoadForSubmit,
              FindSnapshot, CountSnapshots, FindTask, tables
<1>4. CheckCooldown(w) \/ InsertSheet(w) \/ SaveInviteDraft(w) \/ LockSheet(w) \/ PendReport(w)
      \/ OpenTask(w) \/ EnqueueReport(w) => Effect
  BY <1>2 DEF CheckCooldown, InsertSheet, SaveInviteDraft, LockSheet, PendReport, OpenTask,
              EnqueueReport
<1> QED
  BY <1>3, <1>4, StatusSteps, WriteSteps, PersistEffect, InsertEffect, OtherEffects DEF Continue

LEMMA NextEffect ==
  ASSUME RowInv, [Next]_vars
  PROVE  Effect
<1>1. Typed
  BY DEF RowInv, EvidenceInv
<1>2. UNCHANGED tables => Effect
  BY <1>1, NoEffect, UnchangedDelivered DEF tables
<1>3. ASSUME NEW w \in Workers, NEW u \in Users, StartCreate(w, u)
      PROVE  Effect
  BY <1>2, <1>3 DEF StartCreate
<1>4. ASSUME NEW w \in Workers, NEW u \in Users, NEW i \in InviteId, Receive(w, u, i)
      PROVE  Effect
  BY <1>2, <1>4, ReceiveLetIn DEF RowInv
<1>5. ASSUME NEW w \in Workers, Fail(w)
      PROVE  Effect
  BY <1>2, <1>5 DEF Fail
<1>6. ASSUME NEW u \in Users, CooldownElapses(u)
      PROVE  Effect
  BY <1>1, <1>6, NoEffect, UnchangedDelivered DEF CooldownElapses
<1>7. CASE UNCHANGED vars
  BY <1>2, <1>7 DEF vars
<1> QED
  BY <1>3, <1>4, <1>5, <1>6, <1>7, ContinueEffect, ClockSteps, OtherEffects DEF Next

-----------------------------------------------------------------------------
(* What the handler that moves knows.                                      *)

(* Where a handler relies on what it found out earlier.                    *)
Relying == {"bind", "updateSnapshot", "complete", "send", "tally"}

(* Only these steps take a handler there.                                  *)
LEMMA ContinueRelies ==
  ASSUME RowInv, NEW w \in Workers, Continue(w), req'[w].pc \in Relying
  PROVE  FindSnapshot(w) \/ UpdateSnapshot(w) \/ InsertSnapshot(w) \/ SendReminder(w)
<1>1. req \in [Workers -> Request] /\ req[w] \in Request
  BY TypesUsed DEF RowInv, EvidenceInv
<1>2. ~ Return(w)
  BY <1>1 DEF Return, Idle, Relying
<1>3. \A pc \in Steps \ Relying : ~ Goto(w, pc)
  BY <1>1 DEF Goto, Request
<1>4. ~ (CheckDerived(w) \/ CheckCooldown(w) \/ CheckActive(w) \/ FindSheet(w) \/ MarkAnswering(w)
         \/ LockSheet(w) \/ CountSnapshots(w) \/ PendReport(w) \/ FindTask(w) \/ OpenTask(w)
         \/ CompleteInvite(w))
  BY <1>2, <1>3, SMTT(30) DEF Steps, Relying, CheckDerived, CheckCooldown, CheckActive, FindSheet,
     MarkAnswering, LockSheet, CountSnapshots, PendReport, FindTask, OpenTask, CompleteInvite
<1>5. ~ (InsertInvite(w) \/ WriteRenewal(w) \/ WriteCancel(w) \/ TallyReminder(w)
         \/ BindFirstInvitee(w) \/ PersistConsent(w) \/ InsertSheet(w) \/ SaveInviteDraft(w)
         \/ EnqueueReport(w))
  BY <1>2 DEF InsertInvite, WriteRenewal, WriteCancel, TallyReminder, BindFirstInvitee,
     PersistConsent, InsertSheet, SaveInviteDraft, EnqueueReport
<1>6. ~ (LoadForSave(w) \/ LoadForSubmit(w))
  <2>1. ASSUME NEW pc \in {"save", "lock"}, NEW k,
               req' = [req EXCEPT ![w].pc = pc, ![w].row = k]
        PROVE  FALSE
    BY <1>1, <2>1 DEF Request, Relying
  <2> QED
    BY <1>2, <2>1 DEF LoadForSave, LoadForSubmit, LoadDraft
<1>7. ~ Revive(w)
  <2> DEFINE status == IF Sheets(req[w].inv) = {} THEN "invite_opened" ELSE "answering"
             seen == [req[w].seen EXCEPT !.status = status]
  <2>1. Revive(w) => req' = [req EXCEPT ![w].pc = "renew", ![w].seen = seen]
    BY DEF Revive
  <2> HIDE DEF seen
  <2> QED
    BY <1>1, <2>1 DEF Request, Relying
<1>8. ~ LazyExpire(w)
  <2>1. ASSUME NEW row, req' = [req EXCEPT ![w] = ReviveFrom(req[w], row)]
        PROVE  FALSE
    <3>1. ReviveFrom(req[w], row).pc \in {"renew", "revive"}
      BY <1>1 DEF ReviveFrom, Request
    <3> QED
      BY <1>1, <2>1, <3>1 DEF Relying
  <2> QED
    BY <1>2, <2>1 DEF LazyExpire
<1> QED
  BY <1>4, <1>5, <1>6, <1>7, <1>8 DEF Continue

LEMMA ContinueAware ==
  ASSUME RowInv, Effect, NEW w \in Workers, Continue(w)
  PROVE  Aware(w)' /\ \A v \in Workers \ {w} : req'[v] = req[v]
<1>1. /\ Typed /\ Aware(w) /\ Called /\ req \in [Workers -> Request]
      /\ snapshot \in [InviteId -> Snapshot] /\ delivered \in [InviteId -> Nat]
  BY TypesUsed DEF RowInv, EvidenceInv, Typed
<1>2. CASE Return(w)
  BY <1>1, <1>2 DEF Return, Idle, Aware, Creation
<1>3. CASE Advances(w)
  <2>1. /\ req'[w].inv = req[w].inv /\ \A v \in Workers \ {w} : req'[v] = req[v]
        /\ req'[w].pc \notin Creation => req[w].inv \in used'
    BY <1>1, <1>3 DEF Advances, Aware, Effect
  <2>2. CASE req'[w].pc \notin Relying
    BY <2>1, <2>2 DEF Aware, Relying
  <2>3. CASE req'[w].pc \in Relying
    <3>0. PICK i \in InviteId : req[w].inv = i /\ req'[w].inv = i /\ i \in used'
      <4>1. req'[w].pc \notin Creation /\ req[w].pc \notin Creation
        BY <1>3, <2>3 DEF Advances, Relying, Creation
      <4> QED
        BY <1>1, <2>1, <4>1 DEF Called, Creation
    <3>1. CASE FindSnapshot(w)
      <4>1. /\ req' = [req EXCEPT ![w].pc = IF snapshot[i].invitee = None THEN "insertSnapshot"
                                                                           ELSE "updateSnapshot"]
            /\ UNCHANGED <<invite, snapshot>>
        BY <3>0, <3>1 DEF FindSnapshot, Goto, tables
      <4>2. req'[w].pc = IF snapshot[i].invitee = None THEN "insertSnapshot" ELSE "updateSnapshot"
        BY <1>1, <4>1 DEF Request
      <4> QED
        BY <2>1, <3>0, <4>1, <4>2 DEF Aware
    <3>2. CASE UpdateSnapshot(w) \/ InsertSnapshot(w)
      <4>1. req'[w].pc = "complete" /\ UNCHANGED invite
        BY <1>1, <3>2 DEF UpdateSnapshot, InsertSnapshot, Goto, Request
      <4>2. Payload(w) # None
        BY NoneIsNoAnswer DEF Payload, Answers
      <4>3. snapshot'[i].invitee # None \/ ~ Exists(i)
        BY <1>1, <3>0, <3>2, <4>2 DEF UpdateSnapshot, InsertSnapshot, Snapshot, Aware, At
      <4> QED
        BY <2>1, <3>0, <4>1, <4>3 DEF Aware, Exists
    <3>3. CASE SendReminder(w)
      <4>1. /\ At(w, "send") /\ delivered' = [delivered EXCEPT ![i] = @ + 1]
            /\ req' = [req EXCEPT ![w].pc = "tally"]
        BY <1>1, <2>3, <3>0, <3>3 DEF SendReminder, Return, Idle, Relying, Goto
      <4>2. req'[w].pc = "tally" /\ req'[w].seen = req[w].seen
        BY <1>1, <4>1 DEF Request
      <4>3. req[w].seen.reminds < RemindMax /\ req[w].seen.reminds <= delivered[i]
        BY <1>1, <3>0, <4>1 DEF Aware, At
      <4>4. delivered'[i] = delivered[i] + 1 /\ delivered[i] \in Nat /\ req[w].seen.reminds \in Nat
        BY <1>1, <4>1, TypesUsed
      <4> QED
        BY <2>1, <3>0, <4>2, <4>3, <4>4 DEF Aware
    <3> QED
      BY <2>3, <3>1, <3>2, <3>3, ContinueRelies
  <2> QED
    BY <2>1, <2>2, <2>3
<1> QED
  BY <1>1, <1>2, <1>3, ContinueAdvances DEF Return

LEMMA ReceiveAware ==
  ASSUME RowInv, NEW w \in Workers, NEW u \in Users, NEW i \in InviteId, Receive(w, u, i)
  PROVE  Aware(w)'
<1>1. /\ Typed /\ RowSound(i) /\ req \in [Workers -> Request] /\ invite[i] \in Row
      /\ invite[i].reminds \in Nat
  BY TypesUsed DEF RowInv, EvidenceInv
<1>2. req'[w].inv = i /\ req'[w].user = u /\ UNCHANGED tables
  BY <1>1, ReceiveCalls, ReceiveLetIn DEF RowInv
<1>3. UNCHANGED <<invite, used, snapshot, delivered>>
  BY <1>2 DEF tables
<1>4. Exists(i)
  BY DEF Receive, LoadOverdue, StartReplace, StartRenew, StartCancel, StartRemind, StartOpen,
     StartConsent, StartOpenSheet, StartSaveDraft, StartSubmit, StartReuse, Loads, MayAnswer,
     Overdue, Exists, Expirable
<1>5. i \in used'
  BY <1>1, <1>3, <1>4 DEF RowSound
<1>6. ASSUME NEW pc, NEW op, Start(w, pc, op, u, i)
      PROVE  req'[w].pc = pc /\ (op = "remind" => req'[w].seen = invite[i])
  <2> DEFINE seen == IF op \in {"renew", "remind"} THEN invite[i] ELSE NoRow
  <2>1. req' = [req EXCEPT ![w] =
          [Idle EXCEPT !.pc = pc, !.op = op, !.user = u, !.inv = i, !.seen = seen]]
    BY <1>6 DEF Start
  <2>2. op = "remind" => seen = invite[i]
    OBVIOUS
  <2> HIDE DEF seen
  <2>3. req'[w].pc = pc /\ req'[w].seen = seen
    BY <1>1, <2>1 DEF Idle
  <2> QED
    BY <2>2, <2>3
<1>7. ASSUME StartOpen(w, u, i)
      PROVE  Aware(w)'
  <2>1. req'[w].pc = "bind" /\ invite[i].initiator # u
    BY <1>6, <1>7 DEF StartOpen
  <2> QED
    BY <1>2, <1>3, <1>5, <2>1 DEF Aware
<1>8. ASSUME StartRemind(w, u, i)
      PROVE  Aware(w)'
  <2>1. /\ req'[w].pc = "send" /\ req'[w].seen = invite[i]
        /\ invite[i].reminds < RemindMax
    BY <1>6, <1>8 DEF StartRemind
  <2> QED
    BY <1>1, <1>2, <1>3, <1>5, <2>1 DEF Aware, RowSound
<1>9. ASSUME req'[w].pc \notin Relying
      PROVE  Aware(w)'
  BY <1>2, <1>5, <1>9 DEF Aware, Relying
<1>10. ASSUME StartRenew(w, u, i)
       PROVE  req'[w].pc \notin Relying
  <2> DEFINE r == [Idle EXCEPT !.op = "renew", !.user = u, !.inv = i]
  <2>1. ASSUME req' = [req EXCEPT ![w] = ReviveFrom(r, invite[i])]
        PROVE  req'[w].pc \in {"renew", "revive"}
    <3>1. r \in Request
      BY ConstantTypes DEF Request, AllHandlers
    <3> HIDE DEF r
    <3> QED
      BY <1>1, <2>1, <3>1 DEF ReviveFrom, Request
  <2> QED
    BY <1>6, <1>10, <2>1 DEF StartRenew, Relying
<1>11. ASSUME \/ LoadOverdue(w, u, i) \/ StartReplace(w, u, i) \/ StartCancel(w, u, i)
              \/ StartConsent(w, u, i)
       PROVE  req'[w].pc \notin Relying
  BY <1>6, <1>11 DEF LoadOverdue, StartReplace, StartCancel, StartConsent, Relying
<1>12. ASSUME \/ StartOpenSheet(w, u, i) \/ StartSaveDraft(w, u, i) \/ StartSubmit(w, u, i)
              \/ StartReuse(w, u, i)
       PROVE  req'[w].pc \notin Relying
  BY <1>6, <1>12 DEF StartOpenSheet, StartSaveDraft, StartSubmit, StartReuse, Relying
<1> QED
  BY <1>7, <1>8, <1>9, <1>10, <1>11, <1>12 DEF Receive

-----------------------------------------------------------------------------
(* The invariant.                                                          *)

LEMMA InitRow == Init => RowInv
<1> SUFFICES ASSUME Init
             PROVE  RowInv
  OBVIOUS
<1>1. ASSUME NEW i \in InviteId
      PROVE  RowSound(i)
  <2>1. /\ invite[i].status = "none" /\ invite[i].reminds = 0 /\ delivered[i] = 0
        /\ invite[i].invitee = None
        /\ consentLog[i].agreed + consentLog[i].declined = 0 /\ RemindMax \in Nat
    BY NoRowIs, InviteAssumption DEF Init
  <2>2. ~ Exists(i) /\ invite[i].status \notin {"completed", "report_unlocked"}
    BY <2>1 DEF Exists
  <2>3. invite[i].reminds <= RemindMax /\ invite[i].reminds <= delivered[i]
    BY <2>1
  <2> QED
    BY <2>1, <2>2, <2>3 DEF RowSound
<1>2. \A w \in Workers : Aware(w)
  BY DEF Init, Aware, Idle, Creation
<1> QED
  BY <1>1, <1>2, InitEvidence DEF RowInv

LEMMA NextRow == RowInv /\ [Next]_vars => RowInv'
<1> SUFFICES ASSUME RowInv, [Next]_vars
             PROVE  RowInv'
  OBVIOUS
<1>1. EvidenceInv' /\ Typed' /\ Typed /\ req \in [Workers -> Request]
  BY NextEvidence, TypesUsed DEF RowInv, EvidenceInv
<1>2. Effect
  BY NextEffect
<1>3. \A i \in InviteId : RowSound(i)'
  BY <1>1, <1>2, RowsKept
<1> DEFINE Knowing == \A v \in Workers : Aware(v)'
<1>4. ASSUME NEW w \in Workers, Aware(w)', \A v \in Workers \ {w} : req'[v] = req[v]
      PROVE  Knowing
  BY <1>1, <1>2, <1>4, AwareKept
<1>5. UNCHANGED req => Knowing
  BY <1>1, <1>2, AwareKept
<1> HIDE DEF Knowing
<1>6. ASSUME NEW w \in Workers, NEW u \in Users, StartCreate(w, u)
      PROVE  Knowing
  <2>1. req' = [req EXCEPT ![w] =
          [Idle EXCEPT !.pc = "cooldown", !.op = "create", !.user = u, !.inv = None, !.seen = NoRow]]
    BY <1>6 DEF StartCreate, Start
  <2>2. req'[w].pc = "cooldown" /\ \A v \in Workers \ {w} : req'[v] = req[v]
    BY <1>1, <2>1 DEF Idle
  <2> QED
    BY <1>4, <2>2 DEF Aware, Creation
<1>7. ASSUME NEW w \in Workers, NEW u \in Users, NEW i \in InviteId, Receive(w, u, i)
      PROVE  Knowing
  BY <1>1, <1>4, <1>7, ReceiveAware, ReceiveCalls
<1>8. ASSUME NEW w \in Workers, Continue(w)
      PROVE  Knowing
  BY <1>2, <1>4, <1>8, ContinueAware
<1>9. ASSUME NEW w \in Workers, Fail(w)
      PROVE  Knowing
  <2>1. req'[w] = Idle /\ \A v \in Workers \ {w} : req'[v] = req[v]
    BY <1>1, <1>9 DEF Fail, Return
  <2> QED
    BY <1>4, <2>1 DEF Aware, Idle, Creation
<1>10. ASSUME NEW u \in Users, NEW i \in InviteId, DeletePairing(u, i)
       PROVE  Knowing
  BY <1>5, <1>10 DEF DeletePairing
<1>11. ASSUME NEW u \in Users, CooldownElapses(u)
       PROVE  Knowing
  BY <1>5, <1>11 DEF CooldownElapses
<1>12. ASSUME NEW i \in InviteId, DeadlinePasses(i)
       PROVE  Knowing
  BY <1>5, <1>12 DEF DeadlinePasses
<1>13. ASSUME ExpireScan
       PROVE  Knowing
  BY <1>5, <1>13 DEF ExpireScan
<1>14. ASSUME UNCHANGED vars
       PROVE  Knowing
  BY <1>5, <1>14 DEF vars
<1>15. Knowing
  BY <1>6, <1>7, <1>8, <1>9, <1>10, <1>11, <1>12, <1>13, <1>14 DEF Next
<1> QED
  BY <1>1, <1>3, <1>15 DEF RowInv, Knowing

(* The inductive invariant holds in every reachable state.                 *)
THEOREM RowsAlways == Spec => []RowInv
<1> QED
  BY InitRow, NextRow, PTL DEF Spec

-----------------------------------------------------------------------------
(* What follows from it.                                                   *)

(* A completed invite has both snapshots whatever is deleted, cancelled or *)
(* renewed while submit and reuse write theirs, so its report can be made. *)
THEOREM CompletedSnapshots == Spec => []CompletedHasSnapshots
<1>1. RowInv => CompletedHasSnapshots
  BY DEF RowInv, RowSound, CompletedHasSnapshots
<1> QED
  BY <1>1, RowsAlways, PTL

(* The consent question is answered once, from however many devices and    *)
(* through however many retries persistInviteConsent runs.                 *)
THEOREM OneAnswer == Spec => []OneAnswerRecorded
<1>1. RowInv => OneAnswerRecorded
  BY DEF RowInv, RowSound, OneAnswerRecorded
<1> QED
  BY <1>1, RowsAlways, PTL

(* No reminder is counted that was not delivered, and never more than the  *)
(* budget, though remind counts after the message is out.                  *)
THEOREM RefusalsCostNothing == Spec => []RefusedCostsNothing
<1>1. RowInv => RefusedCostsNothing
  BY DEF RowInv, RowSound, RefusedCostsNothing
<1> QED
  BY <1>1, RowsAlways, PTL

(* Whoever bound the link keeps it until the pairing is deleted, nobody is *)
(* their own invitee, and a deleted invite stays deleted whatever writes   *)
(* its handlers still have to make.                                        *)
THEOREM InviteeKept == Spec => InviteeNeverReplaced
<1>1. ASSUME RowInv, [Next]_vars, NEW i \in InviteId
      PROVE  /\ invite[i].invitee # None =>
                  invite'[i].invitee = invite[i].invitee \/ ~ Exists(i)'
             /\ i \in used /\ ~ Exists(i) => ~ Exists(i)'
             /\ Exists(i)' => invite'[i].initiator # invite'[i].invitee
  <2>1. Effect /\ RowSound(i) /\ RowInv'
    BY <1>1, NextEffect, NextRow DEF RowInv
  <2>2. Moves(i) /\ RowSound(i)'
    BY <2>1 DEF Effect, RowInv
  <2>3. i \in used /\ ~ Exists(i) => ~ Exists(i)'
    BY <1>1, <2>1, UsedRows
  <2>4. invite[i].invitee # None => invite'[i].invitee = invite[i].invitee \/ ~ Exists(i)'
    <3>1. CASE Stays(i) \/ Replies(i) \/ Completes(i) \/ Binds(i) \/ Renews(i)
      BY <3>1 DEF Stays, Replies, Completes, Binds, Renews, Unmoved
    <3>2. CASE Inserts(i)
      BY <2>1, <3>2 DEF Inserts, RowSound
    <3>3. CASE Deletes(i)
      BY <3>3, NoRowIs DEF Deletes, Exists
    <3> QED
      BY <2>2, <3>1, <3>2, <3>3 DEF Moves
  <2> QED
    BY <2>2, <2>3, <2>4 DEF RowSound
<1>2. RowInv /\ [Next]_vars =>
        [\A i \in InviteId :
           /\ invite[i].invitee # None =>
                invite'[i].invitee = invite[i].invitee \/ ~ Exists(i)'
           /\ i \in used /\ ~ Exists(i) => ~ Exists(i)'
           /\ Exists(i)' => invite'[i].initiator # invite'[i].invitee]_vars
  BY <1>1
<1> QED
  BY <1>2, RowsAlways, PTL DEF Spec, InviteeNeverReplaced

(* A status moves along the machine, or a renewal is written.              *)
LEMMA StatusMoves ==
  ASSUME RowInv, [Next]_vars, NEW i \in InviteId, invite'[i].status # invite[i].status
  PROVE  <<invite[i].status, invite'[i].status>> \in Edges \/ Renewing(i)
<1>1. Moves(i) /\ RowSound(i) /\ invite[i].status \in Status \cup {"none"}
  BY NextEffect, TypesUsed DEF Effect, RowInv, EvidenceInv, Row
<1>2. CASE Stays(i)
  BY <1>2 DEF Stays, Forward, Edges
<1>3. CASE Replies(i) \/ Completes(i) \/ Binds(i)
  BY <1>3 DEF Replies, Completes, Binds, Answerable, Edges
<1>4. CASE Renews(i)
  BY <1>4 DEF Renews, Renewing
<1>5. CASE Inserts(i)
  <2>1. ~ Exists(i) /\ invite'[i].status = "invite_created"
    BY <1>1, <1>5, InsertedRow DEF Inserts, RowSound
  <2> QED
    BY <2>1 DEF Exists, Edges
<1>6. CASE Deletes(i)
  BY <1>1, <1>6, NoRowIs DEF Deletes, Edges
<1> QED
  BY <1>1, <1>2, <1>3, <1>4, <1>5, <1>6 DEF Moves

(* No interleaving takes a status off the machine but a renewal's write,   *)
(* the one UPDATE that does not repeat its handler's test.                 *)
THEOREM StatusesFollow == Spec => StatusFollowsMachine
<1>1. RowInv /\ [Next]_vars =>
        [\A i \in InviteId :
           invite'[i].status # invite[i].status =>
             <<invite[i].status, invite'[i].status>> \in Edges \/ Renewing(i)]_vars
  BY StatusMoves
<1> QED
  BY <1>1, RowsAlways, PTL DEF Spec, StatusFollowsMachine

-----------------------------------------------------------------------------
(* The refinement: ConsentFirst sees three sets of pairings.               *)

KeptAt(i) == Sheets(i) # {} \/ snapshot[i].invitee # None
CompleteAt(i) == invite[i].status \in {"completed", "report_unlocked"}

Unseen(i) ==
  /\ Consented(i)' = Consented(i)
  /\ KeptAt(i)' = KeptAt(i)
  /\ CompleteAt(i)' = CompleteAt(i)

(* A step that touches one pairing does so as one of ConsentFirst's.       *)
LEMMA PromiseStep ==
  ASSUME NEW i \in InviteId, \A j \in InviteId \ {i} : Unseen(j),
         \/ Unseen(i)
         \/ Consented(i)' /\ KeptAt(i)' = KeptAt(i) /\ CompleteAt(i)' = CompleteAt(i)
         \/ /\ Consented(i) /\ Consented(i)' /\ KeptAt(i)'
            /\ CompleteAt(i)' = CompleteAt(i)
         \/ /\ KeptAt(i) /\ KeptAt(i)' /\ CompleteAt(i)'
            /\ Consented(i)' = Consented(i)
         \/ /\ ~ CompleteAt(i)'
            /\ Consented(i)' = Consented(i) /\ KeptAt(i)' = KeptAt(i)
         \/ /\ ~ KeptAt(i)' /\ ~ CompleteAt(i)'
            /\ Consented(i)' = Consented(i)
  PROVE  [Promise!Next]_(Promise!promise)
<1> DEFINE agreed == {j \in InviteId : consentLog[j].agreed > 0}
           kept == {j \in InviteId : Sheets(j) # {} \/ snapshot[j].invitee # None}
           complete == {j \in InviteId : invite[j].status \in {"completed", "report_unlocked"}}
<1>0. /\ \A j \in InviteId : /\ j \in agreed <=> Consented(j)
                             /\ j \in kept <=> KeptAt(j)
                             /\ j \in complete <=> CompleteAt(j)
      /\ \A j \in InviteId : /\ j \in agreed' <=> Consented(j)'
                             /\ j \in kept' <=> KeptAt(j)'
                             /\ j \in complete' <=> CompleteAt(j)'
      /\ agreed \subseteq InviteId /\ kept \subseteq InviteId /\ complete \subseteq InviteId
      /\ agreed' \subseteq InviteId /\ kept' \subseteq InviteId /\ complete' \subseteq InviteId
  BY DEF Consented, KeptAt, CompleteAt
<1>9. [Promise!Next]_(Promise!promise) <=>
        \/ \E j \in InviteId :
             \/ agreed' = agreed \cup {j} /\ kept' = kept /\ complete' = complete
             \/ j \in agreed /\ kept' = kept \cup {j} /\ agreed' = agreed /\ complete' = complete
             \/ j \in kept /\ complete' = complete \cup {j} /\ agreed' = agreed /\ kept' = kept
             \/ complete' = complete \ {j} /\ agreed' = agreed /\ kept' = kept
             \/ kept' = kept \ {j} /\ complete' = complete \ {j} /\ agreed' = agreed
        \/ agreed' = agreed /\ kept' = kept /\ complete' = complete
  BY DEF Promise!Next, Promise!Agree, Promise!Keep, Promise!Complete, Promise!Reopen,
         Promise!Delete, Promise!promise
<1> HIDE DEF agreed, kept, complete
<1>1. ASSUME Unseen(i)
      PROVE  agreed' = agreed /\ kept' = kept /\ complete' = complete
  BY <1>0, <1>1 DEF Unseen
<1> QED
  BY <1>9, <1>0, <1>1 DEF Unseen

LEMMA UnseenStep ==
  ASSUME \A i \in InviteId : Unseen(i)
  PROVE  [Promise!Next]_(Promise!promise)
<1>1. CASE InviteId = {}
  BY <1>1 DEF Promise!promise
<1>2. ASSUME NEW i \in InviteId
      PROVE  [Promise!Next]_(Promise!promise)
  <2>1. Unseen(i) /\ \A j \in InviteId \ {i} : Unseen(j)
    OBVIOUS
  <2> QED
    BY <2>1, PromiseStep
<1> QED
  BY <1>1, <1>2

(* A step that writes statuses only is seen if one becomes complete, which *)
(* needs the snapshot, or stops being so.                                  *)
LEMMA StatusSeen ==
  ASSUME RowInv, Effect, UNCHANGED <<sheet, snapshot, consentLog>>,
         NEW i \in InviteId, \A j \in InviteId \ {i} : invite'[j].status = invite[j].status
  PROVE  [Promise!Next]_(Promise!promise)
<1>1. \A j \in InviteId : Consented(j)' = Consented(j) /\ KeptAt(j)' = KeptAt(j)
  BY DEF Consented, KeptAt, Sheets
<1>2. \A j \in InviteId \ {i} : Unseen(j)
  BY <1>1 DEF Unseen, CompleteAt
<1>3. CompleteAt(i)' /\ ~ CompleteAt(i) => KeptAt(i)
  <2>1. Moves(i) /\ RowSound(i)
    BY DEF Effect, RowInv
  <2>2. ASSUME Completes(i)
        PROVE  KeptAt(i)
    <3>1. PICK w \in Workers : At(w, "complete") /\ req[w].inv = i
      BY <2>2 DEF Completes
    <3>2. Exists(i)
      BY <2>2 DEF Completes, Exists, Answerable
    <3> QED
      BY <3>1, <3>2 DEF RowInv, Aware, At, KeptAt
  <2>3. Stays(i) => ~ (CompleteAt(i)' /\ ~ CompleteAt(i))
    BY DEF Stays, Forward, CompleteAt
  <2>4. Replies(i) \/ Binds(i) => ~ CompleteAt(i)'
    BY DEF Replies, Binds, CompleteAt
  <2>5. Renews(i) => ~ CompleteAt(i)'
    BY DEF Renews, RowInv, EvidenceInv, HandlersLetIn, Let, At, Expirable, CompleteAt
  <2>6. Inserts(i) \/ Deletes(i) => ~ CompleteAt(i)'
    BY InsertedRow, NoRowIs DEF Deletes, CompleteAt
  <2> QED
    BY <2>1, <2>2, <2>3, <2>4, <2>5, <2>6 DEF Moves
<1>4. Unseen(i) \/ (KeptAt(i) /\ KeptAt(i)' /\ CompleteAt(i)') \/ ~ CompleteAt(i)'
  BY <1>1, <1>3 DEF Unseen
<1> QED
  BY <1>1, <1>2, <1>4, PromiseStep

LEMMA ContinueSeen ==
  ASSUME RowInv, Effect, NEW w \in Workers, Continue(w)
  PROVE  [Promise!Next]_(Promise!promise)
<1>1. /\ Typed /\ Called /\ invite \in [InviteId -> Row] /\ sheet \in [InviteId -> Seq(SheetState)]
      /\ snapshot \in [InviteId -> Snapshot] /\ consentLog \in [InviteId -> Evidence]
      /\ \A i \in InviteId : Moves(i)
  BY TypesUsed DEF RowInv, EvidenceInv, Typed, TypeOK, Effect
<1>2. UNCHANGED <<invite, sheet, snapshot, consentLog>> => [Promise!Next]_(Promise!promise)
  BY UnseenStep DEF Unseen, Consented, KeptAt, Sheets, CompleteAt
<1>3. CheckDerived(w) \/ CheckActive(w) \/ Revive(w) \/ FindSheet(w) \/ LoadForSave(w)
      \/ LoadForSubmit(w) \/ FindSnapshot(w) \/ CountSnapshots(w) \/ FindTask(w)
      => [Promise!Next]_(Promise!promise)
  BY <1>2 DEF CheckDerived, CheckActive, Revive, FindSheet, LoadForSave, LoadForSubmit,
              FindSnapshot, CountSnapshots, FindTask, tables
<1>4. CheckCooldown(w) \/ SendReminder(w) \/ PendReport(w) \/ OpenTask(w) \/ EnqueueReport(w)
      => [Promise!Next]_(Promise!promise)
  BY <1>2 DEF CheckCooldown, SendReminder, PendReport, OpenTask, EnqueueReport
<1>5. ASSUME \/ LazyExpire(w) \/ WriteCancel(w) \/ MarkAnswering(w) \/ CompleteInvite(w)
             \/ WriteRenewal(w) \/ TallyReminder(w) \/ BindFirstInvitee(w)
      PROVE  [Promise!Next]_(Promise!promise)
  <2>1. PICK i \in InviteId : req[w].inv = i
    BY <1>1, <1>5 DEF LazyExpire, WriteCancel, MarkAnswering, CompleteInvite, WriteRenewal,
       TallyReminder, BindFirstInvitee, At, Called
  <2>2. UNCHANGED <<sheet, snapshot, consentLog>>
    BY <1>5 DEF LazyExpire, WriteCancel, MarkAnswering, CompleteInvite, WriteRenewal,
       TallyReminder, BindFirstInvitee
  <2>3. \A j \in InviteId \ {i} : invite'[j] = invite[j]
    BY <1>1, <1>5, <2>1 DEF LazyExpire, WriteCancel, MarkAnswering, CompleteInvite, WriteRenewal,
       TallyReminder, BindFirstInvitee, MoveStatus, SetStatus
  <2> QED
    BY <2>2, <2>3, StatusSeen
<1>6. ASSUME InsertInvite(w)
      PROVE  [Promise!Next]_(Promise!promise)
  <2>1. ASSUME NEW j \in InviteId
        PROVE  /\ consentLog'[j].agreed = consentLog[j].agreed
               /\ snapshot'[j].invitee = snapshot[j].invitee
               /\ invite'[j] = invite[j] \/ (j \notin used /\ invite'[j].status = "invite_created")
    BY <1>1, <1>6 DEF InsertInvite, Evidence, Snapshot, NoRow
  <2>2. \A j \in InviteId : j \notin used => ~ CompleteAt(j)
    BY DEF RowInv, RowSound, CompleteAt, Exists
  <2>3. UNCHANGED sheet
    BY <1>6 DEF InsertInvite
  <2> QED
    BY <2>1, <2>2, <2>3, UnseenStep DEF Unseen, Consented, KeptAt, Sheets, CompleteAt
<1>7. ASSUME PersistConsent(w)
      PROVE  [Promise!Next]_(Promise!promise)
  <2>1. PICK i \in InviteId : req[w].inv = i
    BY <1>1, <1>7 DEF PersistConsent, At, Called
  <2>2. UNCHANGED <<sheet, snapshot>>
    BY <1>7 DEF PersistConsent
  <2>3. CASE UNCHANGED <<invite, consentLog>>
    BY <1>2, <2>2, <2>3
  <2>4. CASE /\ invite[i].status = "invite_opened"
             /\ SetStatus(i, IF req[w].op = "consent" THEN "consent_given" ELSE "declined")
             /\ RecordAnswer(i, req[w].op)
    <3>1. \A j \in InviteId \ {i} : invite'[j] = invite[j] /\ consentLog'[j] = consentLog[j]
      BY <1>1, <2>4 DEF SetStatus, RecordAnswer
    <3>2. \A j \in InviteId \ {i} : Unseen(j)
      BY <2>2, <3>1 DEF Unseen, Consented, KeptAt, Sheets, CompleteAt
    <3>3. KeptAt(i)' = KeptAt(i) /\ ~ CompleteAt(i)' /\ ~ CompleteAt(i)
      BY <1>1, <2>2, <2>4 DEF KeptAt, Sheets, CompleteAt, SetStatus, Row
    <3>4. Consented(i)' \/ Consented(i)' = Consented(i)
      <4>1. consentLog'[i].agreed > 0 \/ consentLog'[i].agreed = consentLog[i].agreed
        BY <1>1, <2>4 DEF RecordAnswer, Evidence
      <4> QED
        BY <4>1 DEF Consented
    <3>5. CompleteAt(i)' = CompleteAt(i)
      BY <3>3 DEF CompleteAt
    <3>6. \/ Unseen(i)
          \/ Consented(i)' /\ KeptAt(i)' = KeptAt(i) /\ CompleteAt(i)' = CompleteAt(i)
      BY <3>3, <3>4, <3>5 DEF Unseen
    <3> QED
      BY <3>2, <3>6, PromiseStep
  <2> QED
    BY <1>7, <2>1, <2>3, <2>4 DEF PersistConsent
<1>8. ASSUME SaveInviteDraft(w) \/ LockSheet(w)
      PROVE  [Promise!Next]_(Promise!promise)
  <2>1. ASSUME NEW j \in InviteId
        PROVE  /\ DOMAIN sheet'[j] = DOMAIN sheet[j]
               /\ \A k \in DOMAIN sheet[j] : sheet'[j][k] = "deleted" <=> sheet[j][k] = "deleted"
    <3>1. PICK i \in InviteId, k \in Nat : i = req[w].inv /\ k = req[w].row
      BY <1>1, <1>8 DEF SaveInviteDraft, LockSheet, At, Called, Typed, TypeOK, Request
    <3>2. \/ sheet' = sheet
          \/ \E state \in {"saved", "submitted"} :
               sheet[i][k] # "deleted" /\ sheet' = [sheet EXCEPT ![i][k] = state]
      BY <1>8, <3>1 DEF SaveInviteDraft, LockSheet
    <3>3. ASSUME NEW state \in {"saved", "submitted"}, sheet[i][k] # "deleted",
                 sheet' = [sheet EXCEPT ![i][k] = state]
          PROVE  /\ DOMAIN sheet'[j] = DOMAIN sheet[j]
                 /\ \A m \in DOMAIN sheet[j] :
                      sheet'[j][m] = "deleted" <=> sheet[j][m] = "deleted"
      <4>1. sheet'[j] = IF j = i THEN [sheet[i] EXCEPT ![k] = state] ELSE sheet[j]
        BY <1>1, <3>3
      <4>2. \A s \in Seq(SheetState) :
              /\ DOMAIN [s EXCEPT ![k] = state] = DOMAIN s
              /\ \A m \in DOMAIN s : [s EXCEPT ![k] = state][m] = IF m = k THEN state ELSE s[m]
        OBVIOUS
      <4>3. sheet[i] \in Seq(SheetState)
        BY <1>1
      <4> QED
        BY <3>3, <4>1, <4>2, <4>3
    <3> QED
      BY <3>2, <3>3
  <2>2. \A j \in InviteId : Sheets(j)' = Sheets(j)
    BY <2>1 DEF Sheets
  <2>3. UNCHANGED <<invite, snapshot, consentLog>>
    BY <1>8 DEF SaveInviteDraft, LockSheet
  <2> QED
    BY <2>2, <2>3, UnseenStep DEF Unseen, Consented, KeptAt, CompleteAt
<1>9. ASSUME InsertSheet(w) \/ UpdateSnapshot(w) \/ InsertSnapshot(w)
      PROVE  [Promise!Next]_(Promise!promise)
  <2>1. PICK i \in InviteId : req[w].inv = i /\ Consented(i)
    BY <1>1, <1>9 DEF InsertSheet, UpdateSnapshot, InsertSnapshot, At, Called, RowInv, EvidenceInv,
       HandlersLetIn, Let, AnswerSteps
  <2>2. UNCHANGED <<invite, consentLog>>
    BY <1>9 DEF InsertSheet, UpdateSnapshot, InsertSnapshot
  <2>3. \A j \in InviteId \ {i} : sheet'[j] = sheet[j] /\ snapshot'[j] = snapshot[j]
    BY <1>1, <1>9, <2>1 DEF InsertSheet, UpdateSnapshot, InsertSnapshot
  <2>4. \A j \in InviteId \ {i} : Unseen(j)
    BY <2>2, <2>3 DEF Unseen, Consented, KeptAt, Sheets, CompleteAt
  <2>5. KeptAt(i)' = KeptAt(i) \/ KeptAt(i)'
    <3>1. CASE InsertSheet(w)
      <4>1. sheet'[i] = Append(sheet[i], "empty") /\ sheet[i] \in Seq(SheetState)
            /\ "empty" \in SheetState
        BY <1>1, <2>1, <3>1 DEF InsertSheet, SheetState
      <4>2. /\ Len(sheet[i]) + 1 \in DOMAIN sheet'[i]
            /\ sheet'[i][Len(sheet[i]) + 1] = "empty"
        BY <4>1, AppendProperties
      <4>3. Len(sheet[i]) + 1 \in Sheets(i)'
        BY <4>2 DEF Sheets
      <4> QED
        BY <4>3 DEF KeptAt
    <3>2. CASE UpdateSnapshot(w) \/ InsertSnapshot(w)
      <4>1. Payload(w) # None /\ UNCHANGED sheet
        BY <3>2, NoneIsNoAnswer DEF Payload, Answers, UpdateSnapshot, InsertSnapshot
      <4>2. snapshot'[i].invitee # None \/ snapshot'[i].invitee = snapshot[i].invitee
        BY <1>1, <2>1, <3>2, <4>1 DEF UpdateSnapshot, InsertSnapshot, Snapshot
      <4> QED
        BY <4>1, <4>2 DEF KeptAt, Sheets
    <3> QED
      BY <1>9, <3>1, <3>2
  <2>6. Consented(i)' = Consented(i) /\ CompleteAt(i)' = CompleteAt(i)
    BY <2>2 DEF Consented, CompleteAt
  <2> QED
    BY <2>1, <2>4, <2>5, <2>6, PromiseStep DEF Unseen
<1> QED
  BY <1>3, <1>4, <1>5, <1>6, <1>7, <1>8, <1>9 DEF Continue

(* A deletion takes the answers with it and leaves the evidence.           *)
LEMMA DeleteSeen ==
  ASSUME RowInv, NEW u \in Users, NEW i \in InviteId, DeletePairing(u, i)
  PROVE  [Promise!Next]_(Promise!promise)
<1>1. /\ invite \in [InviteId -> Row] /\ sheet \in [InviteId -> Seq(SheetState)]
      /\ snapshot \in [InviteId -> Snapshot]
  BY DEF RowInv, EvidenceInv, Typed, TypeOK
<1>2. /\ invite'[i] = NoRow /\ snapshot'[i] = NoSnapshot /\ consentLog' = consentLog
      /\ sheet'[i] = [k \in DOMAIN sheet[i] |-> "deleted"]
      /\ \A j \in InviteId \ {i} :
           invite'[j] = invite[j] /\ snapshot'[j] = snapshot[j] /\ sheet'[j] = sheet[j]
  BY <1>1 DEF DeletePairing
<1>3. \A j \in InviteId \ {i} : Unseen(j)
  BY <1>2 DEF Unseen, Consented, KeptAt, Sheets, CompleteAt
<1>4. ~ KeptAt(i)' /\ ~ CompleteAt(i)' /\ Consented(i)' = Consented(i)
  BY <1>2, NoRowIs DEF KeptAt, CompleteAt, Consented, Sheets, NoSnapshot
<1> QED
  BY <1>3, <1>4, PromiseStep

(* Starting or failing a handler, the clock and the scan are not seen: the *)
(* invites the scan expires were not complete.                             *)
LEMMA QuietSeen ==
  ASSUME RowInv,
         \/ \E w \in Workers, u \in Users : StartCreate(w, u)
         \/ \E w \in Workers, u \in Users, i \in InviteId : Receive(w, u, i)
         \/ \E w \in Workers : Fail(w)
         \/ \E u \in Users : CooldownElapses(u)
         \/ \E i \in InviteId : DeadlinePasses(i)
         \/ ExpireScan
         \/ UNCHANGED vars
  PROVE  [Promise!Next]_(Promise!promise)
<1>1. invite \in [InviteId -> Row]
  BY DEF RowInv, EvidenceInv, Typed, TypeOK
<1>2. ASSUME UNCHANGED <<sheet, snapshot, consentLog>>,
             \A i \in InviteId : CompleteAt(i)' = CompleteAt(i)
      PROVE  [Promise!Next]_(Promise!promise)
  BY <1>2, UnseenStep DEF Unseen, Consented, KeptAt, Sheets
<1>3. UNCHANGED <<invite, sheet, snapshot, consentLog>> => [Promise!Next]_(Promise!promise)
  BY <1>2 DEF CompleteAt
<1>4. ASSUME NEW w \in Workers, NEW u \in Users, StartCreate(w, u)
      PROVE  [Promise!Next]_(Promise!promise)
  BY <1>3, <1>4, SMTT(30) DEF StartCreate, tables
<1>5. ASSUME NEW w \in Workers, NEW u \in Users, NEW i \in InviteId, Receive(w, u, i)
      PROVE  [Promise!Next]_(Promise!promise)
  BY <1>3, <1>5, Zenon DEF Receive, LoadOverdue, StartReplace, StartRenew, StartCancel, StartRemind,
     StartOpen, StartConsent, StartOpenSheet, StartSaveDraft, StartSubmit, StartReuse, tables
<1>6. ASSUME NEW w \in Workers, Fail(w)
      PROVE  [Promise!Next]_(Promise!promise)
  BY <1>3, <1>6 DEF Fail, tables
<1>7. ASSUME NEW u \in Users, CooldownElapses(u)
      PROVE  [Promise!Next]_(Promise!promise)
  BY <1>3, <1>7 DEF CooldownElapses
<1>8. ASSUME NEW i \in InviteId, DeadlinePasses(i)
      PROVE  [Promise!Next]_(Promise!promise)
  <2>1. \A j \in InviteId : invite'[j].status = invite[j].status
    BY <1>1, <1>8 DEF DeadlinePasses, Row
  <2> QED
    BY <1>2, <1>8, <2>1 DEF DeadlinePasses, CompleteAt
<1>9. ASSUME ExpireScan
      PROVE  [Promise!Next]_(Promise!promise)
  <2>1. ASSUME NEW j \in InviteId
        PROVE  \/ invite'[j].status = invite[j].status
               \/ invite[j].status \in Expirable /\ invite'[j].status = "expired"
    BY <1>1, <1>9, <2>1 DEF ExpireScan, Overdue, Row
  <2>2. \A j \in InviteId : CompleteAt(j)' = CompleteAt(j)
    BY <2>1 DEF CompleteAt, Expirable
  <2> QED
    BY <1>2, <1>9, <2>2 DEF ExpireScan
<1>10. UNCHANGED vars => [Promise!Next]_(Promise!promise)
  BY <1>3 DEF vars, tables
<1> QED
  BY <1>4, <1>5, <1>6, <1>7, <1>8, <1>9, <1>10

LEMMA NextSeen == RowInv /\ [Next]_vars => [Promise!Next]_(Promise!promise)
<1> SUFFICES ASSUME RowInv, [Next]_vars
             PROVE  [Promise!Next]_(Promise!promise)
  OBVIOUS
<1>1. ASSUME NEW w \in Workers, Continue(w)
      PROVE  [Promise!Next]_(Promise!promise)
  BY <1>1, NextEffect, ContinueSeen
<1>2. ASSUME NEW u \in Users, NEW i \in InviteId, DeletePairing(u, i)
      PROVE  [Promise!Next]_(Promise!promise)
  BY <1>2, DeleteSeen
<1> QED
  BY <1>1, <1>2, QuietSeen DEF Next

LEMMA InitSeen == Init => Promise!Init
  BY DEF Init, Promise!Init, NoRow, NoSnapshot, Sheets

(* The invite handlers implement ConsentFirst, step by step: whatever the  *)
(* interleaving of openSheet, submit, reuse, cancel, renew and delete, an  *)
(* answer is kept only where consent is on record, and a pairing becomes   *)
(* complete only while the answers are kept.                               *)
THEOREM KeepsThePromise == Spec => KeepsPromise
<1> QED
  BY InitSeen, NextSeen, RowsAlways, PTL DEF Spec, KeepsPromise, Promise!Spec

-----------------------------------------------------------------------------
(* How many invites create and replace can make: a declined invite is      *)
(* replaced no more often than its budget, and two invites of one          *)
(* initiator are in progress together only if one was renewed.             *)
(*                                                                         *)
(* create and replace test first and insert later, in a transaction that   *)
(* repeats no test, so what they found must still hold when they insert.   *)
(* It does because of the creation window alone: of one user's handlers at *)
(* most one is past it (Alone), and a handler still before it is turned    *)
(* away as long as that one is in flight (Admitted, MayInsert).            *)
(* The invariant.                                                          *)

(* Past the window, and where the creation window is asked for.            *)
Window == {"checkActive", "insert"}
Asking == {"cooldown"} \cup Window

(* A replacement is asked for by the initiator of the declined invite.     *)
Authorised(w) ==
  LET r == req[w] IN
  /\ r.pc \in Asking => r.op \in CreateHandlers
  /\ r.pc = "derived" => r.op = "replace"
  /\ r.op = "create" => r.inv = None
  /\ r.op = "replace" =>
       r.inv \in used /\ (Exists(r.inv) => invite[r.inv].initiator = r.user)

Admitted(w) == req[w].pc \in Window => req[w].user \in cooldown

MayInsert(w) ==
  req[w].pc \in Window \/ (req[w].pc = "cooldown" /\ req[w].user \notin cooldown)

BudgetLeft(i) == Cardinality(DerivedFrom(i)) < ReplacementMax

(* The count of derived invites still stands.                              *)
Budgeted(w) == req[w].op = "replace" /\ MayInsert(w) => BudgetLeft(req[w].inv)

(* And so does the search for an active invite, but for renewals.          *)
Clear(w) ==
  req[w].pc = "insert" =>
    \A i \in InviteId :
      invite[i].initiator = req[w].user /\ invite[i].status \in Active => invite[i].renewed > 0

Creates(w) == Authorised(w) /\ Admitted(w) /\ Budgeted(w) /\ Clear(w)

Alone(w, v) ==
  ~ (req[w].pc \in Window /\ req[v].pc \in Window /\ req[w].user = req[v].user)

(* Replacements of one invite have one caller, deleted or not.             *)
OneCaller(w, v) ==
  req[w].op = "replace" /\ req[v].op = "replace" /\ req[w].inv = req[v].inv
    => req[w].user = req[v].user

Apart == \A w, v \in Workers : w # v => Alone(w, v) /\ OneCaller(w, v)

CreationInv ==
  /\ RowInv
  /\ IsFiniteSet(used)
  /\ \A w \in Workers : Creates(w)
  /\ Apart
  /\ ReplacedOnce
  /\ OneActiveUnlessRenewed

-----------------------------------------------------------------------------
(* Rows and counts through a step.                                         *)

LEMMA DerivedCounts ==
  ASSUME CreationInv, NEW i \in InviteId
  PROVE  IsFiniteSet(DerivedFrom(i)) /\ Cardinality(DerivedFrom(i)) \in Nat
<1>1. DerivedFrom(i) \in SUBSET used
  BY DEF CreationInv, RowInv, RowSound, DerivedFrom
<1>2. IsFiniteSet(DerivedFrom(i))
  BY <1>1, FS_Subset DEF CreationInv
<1> QED
  BY <1>2, FS_CardinalityType

(* An invite derives from i after a step if it did before, or is inserted. *)
LEMMA DerivedAfter ==
  ASSUME CreationInv, Effect, NEW i \in InviteId,
         NEW j \in InviteId, Exists(j)', invite'[j].from = i
  PROVE  j \in DerivedFrom(i) \/ Inserts(j)
<1>1. CASE j \in used
  BY <1>1, UsedRows DEF CreationInv, DerivedFrom, SameInvite
<1>2. CASE j \notin used
  <2>1. ~ Exists(j) /\ Moves(j)
    BY <1>2 DEF CreationInv, RowInv, RowSound, Effect
  <2>2. ~ (Stays(j) \/ Replies(j) \/ Completes(j) \/ Binds(j) \/ Renews(j) \/ Deletes(j))
    BY <2>1, NoRowIs DEF Exists, Stays, Forward, Expirable, Active, Replies, Completes,
       Answerable, Binds, Renews, Deletes
  <2> QED
    BY <2>1, <2>2 DEF Moves
<1> QED
  BY <1>1, <1>2

LEMMA BudgetKept ==
  ASSUME CreationInv, Effect, NEW i \in InviteId,
         \A j \in InviteId : Inserts(j) => invite'[j].from # i
  PROVE  /\ BudgetLeft(i) => BudgetLeft(i)'
         /\ Cardinality(DerivedFrom(i))' <= ReplacementMax
<1>1. DerivedFrom(i)' \in SUBSET DerivedFrom(i)
  BY DerivedAfter DEF DerivedFrom
<1>2. IsFiniteSet(DerivedFrom(i)) /\ Cardinality(DerivedFrom(i)) \in Nat
  BY DerivedCounts
<1>3. /\ Cardinality(DerivedFrom(i)') <= Cardinality(DerivedFrom(i))
      /\ Cardinality(DerivedFrom(i)') \in Nat
  BY <1>1, <1>2, FS_Subset, FS_CardinalityType
<1>4. Cardinality(DerivedFrom(i)) <= ReplacementMax /\ ReplacementMax \in Nat
  BY InviteAssumption DEF CreationInv, ReplacedOnce
<1> HIDE DEF DerivedFrom
<1> QED
  BY <1>2, <1>3, <1>4 DEF BudgetLeft

(* An invite that is active after a step was active, or was renewed.       *)
LEMMA ActiveAfter ==
  ASSUME CreationInv, Typed', Effect, NEW i \in InviteId, ~ Inserts(i),
         invite'[i].status \in Active
  PROVE  /\ SameInvite(i)
         /\ \/ invite[i].status \in Active /\ invite'[i].renewed = invite[i].renewed
            \/ invite'[i].renewed > 0
<1>1. Moves(i)
  BY DEF Effect
<1>2. CASE Stays(i)
  BY <1>2 DEF Stays, Unmoved, Forward, Active, Expirable
<1>3. CASE Replies(i) \/ Completes(i) \/ Binds(i)
  BY <1>3 DEF Replies, Completes, Binds, Unmoved, Active, Expirable, Answerable
<1>4. CASE Renews(i)
  <2>1. PICK w \in Workers : invite'[i].renewed = req[w].seen.renewed + 1
    BY <1>4 DEF Renews
  <2>2. req[w].seen.renewed \in Nat
    BY TypesUsed DEF CreationInv, RowInv, EvidenceInv
  <2> QED
    BY <1>4, <2>1, <2>2 DEF Renews
<1>5. ~ Deletes(i)
  BY NoRowIs DEF Deletes, Active, Expirable
<1> QED
  BY <1>1, <1>2, <1>3, <1>4, <1>5 DEF Moves

(* Where nothing is inserted the two properties are kept.                  *)
LEMMA NothingInserted ==
  ASSUME CreationInv, Typed', Effect, \A i \in InviteId : ~ Inserts(i)
  PROVE  ReplacedOnce' /\ OneActiveUnlessRenewed'
<1>1. ReplacedOnce'
  BY BudgetKept DEF ReplacedOnce
<1>2. ASSUME NEW i \in InviteId, NEW j \in InviteId, i # j,
             {invite'[i].status, invite'[j].status} \subseteq Active,
             invite'[i].initiator = invite'[j].initiator
      PROVE  invite'[i].renewed + invite'[j].renewed > 0
  <2>1. invite'[i].renewed \in Nat /\ invite'[j].renewed \in Nat
    BY TypesAfter
  <2>2. CASE invite'[i].renewed > 0 \/ invite'[j].renewed > 0
    BY <2>1, <2>2
  <2>3. CASE ~ (invite'[i].renewed > 0 \/ invite'[j].renewed > 0)
    <3>1. /\ SameInvite(i) /\ invite[i].status \in Active /\ invite'[i].renewed = invite[i].renewed
          /\ SameInvite(j) /\ invite[j].status \in Active /\ invite'[j].renewed = invite[j].renewed
      BY <1>2, <2>3, ActiveAfter
    <3> QED
      BY <1>2, <3>1 DEF SameInvite, CreationInv, OneActiveUnlessRenewed
  <2> QED
    BY <2>2, <2>3
<1> QED
  BY <1>1, <1>2 DEF OneActiveUnlessRenewed

-----------------------------------------------------------------------------
(* What a handler that does not move keeps.                                *)

LEMMA CreatesKept ==
  ASSUME CreationInv, Typed', Effect, NEW w \in Workers, req'[w] = req[w],
         req[w].op \in CreateHandlers /\ req[w].user \in cooldown => req[w].user \in cooldown',
         \A j \in InviteId :
           Inserts(j) => /\ req[w].op = "replace" /\ MayInsert(w) => invite'[j].from # req[w].inv
                         /\ req[w].pc = "insert" => invite'[j].initiator # req[w].user
  PROVE  Creates(w)'
<1>1. Creates(w) /\ used \subseteq used' /\ used \subseteq InviteId
  BY TypesUsed DEF CreationInv, RowInv, EvidenceInv, Effect
<1>2. Authorised(w)'
  <2>1. req[w].inv \in used /\ Exists(req[w].inv)' => Exists(req[w].inv) /\ SameInvite(req[w].inv)
    BY UsedRows DEF CreationInv
  <2> QED
    BY <1>1, <2>1 DEF Creates, Authorised, SameInvite, Exists
<1>3. Admitted(w)' /\ (req[w].op = "replace" /\ MayInsert(w)' => MayInsert(w))
  BY <1>1 DEF Creates, Admitted, Authorised, Asking, MayInsert, CreateHandlers
<1>4. Budgeted(w)'
  <2> SUFFICES ASSUME req[w].op = "replace", MayInsert(w)'
               PROVE  BudgetLeft(req[w].inv)'
    BY DEF Budgeted
  <2>1. MayInsert(w) /\ BudgetLeft(req[w].inv) /\ req[w].inv \in InviteId
    BY <1>1, <1>3 DEF Creates, Budgeted, Authorised
  <2> QED
    BY <2>1, BudgetKept
<1>5. Clear(w)'
  <2> SUFFICES ASSUME req[w].pc = "insert", NEW i \in InviteId,
                      invite'[i].initiator = req[w].user, invite'[i].status \in Active
               PROVE  invite'[i].renewed > 0
    BY DEF Clear
  <2>1. ~ Inserts(i)
    OBVIOUS
  <2> QED
    BY <1>1, <2>1, ActiveAfter DEF Creates, Clear, SameInvite
<1> QED
  BY <1>2, <1>3, <1>4, <1>5 DEF Creates

(* Of two handlers that do not move.                                       *)
LEMMA ApartKept ==
  ASSUME Apart, NEW w \in Workers, NEW v \in Workers, w # v,
         req'[w] = req[w], req'[v] = req[v]
  PROVE  (Alone(w, v) /\ OneCaller(w, v))'
BY DEF Apart, Alone, OneCaller

-----------------------------------------------------------------------------
(* The handler that moves.                                                 *)

(* What a handler that moves has to bring along.                           *)
Fits(w) == Creates(w)' /\ \A v \in Workers \ {w} : (Alone(w, v) /\ OneCaller(w, v))'

LEMMA FitKeeps ==
  ASSUME CreationInv, RowInv', Effect, UNCHANGED used, cooldown \subseteq cooldown',
         NEW w \in Workers, \A v \in Workers \ {w} : req'[v] = req[v], Fits(w)
  PROVE  CreationInv'
<1>1. Typed' /\ \A i \in InviteId : ~ Inserts(i)
  BY DEF RowInv, EvidenceInv, Inserts
<1>2. \A v \in Workers : Creates(v)'
  BY <1>1, CreatesKept DEF Fits
<1>3. Apart'
  <2> SUFFICES ASSUME NEW u \in Workers, NEW v \in Workers, u # v
               PROVE  (Alone(u, v) /\ OneCaller(u, v))'
    BY DEF Apart
  <2>1. CASE u = w
    BY <2>1 DEF Fits
  <2>2. CASE v = w
    BY <2>2 DEF Fits, Alone, OneCaller
  <2>3. CASE u # w /\ v # w
    BY <2>3, ApartKept DEF CreationInv
  <2> QED
    BY <2>1, <2>2, <2>3
<1> QED
  BY <1>1, <1>2, <1>3, NothingInserted DEF CreationInv

LEMMA EndFits ==
  ASSUME NEW w \in Workers, req'[w] = Idle
  PROVE  Fits(w)
BY DEF Fits, Creates, Authorised, Admitted, Budgeted, MayInsert, Clear, Alone, OneCaller,
       Asking, Window, CreateHandlers, Idle

(* A handler that is not on its way to an insert.                          *)
LEMMA ElsewhereFits ==
  ASSUME CreationInv, Effect, NEW w \in Workers, \A v \in Workers \ {w} : req'[v] = req[v],
         req'[w].pc \notin Asking \cup {"derived"},
         \/ req'[w].op \notin CreateHandlers
         \/ /\ req'[w].op = req[w].op /\ req'[w].user = req[w].user
            /\ req'[w].inv = req[w].inv
  PROVE  Fits(w)
<1>1. Authorised(w)'
  <2>1. CASE req'[w].op \notin CreateHandlers
    BY <2>1 DEF Authorised, CreateHandlers
  <2>2. CASE /\ req'[w].op = req[w].op /\ req'[w].user = req[w].user
             /\ req'[w].inv = req[w].inv
    <3>1. Authorised(w) /\ used \subseteq used'
      BY DEF CreationInv, Creates, Effect
    <3>2. \A i \in used : Exists(i)' => Exists(i) /\ SameInvite(i)
      BY UsedRows DEF CreationInv
    <3> QED
      BY <2>2, <3>1, <3>2 DEF Authorised, SameInvite, Exists
  <2> QED
    BY <2>1, <2>2
<1>2. Admitted(w)' /\ Budgeted(w)' /\ Clear(w)' /\ \A v \in Workers : Alone(w, v)'
  BY DEF Admitted, Budgeted, MayInsert, Clear, Alone, Asking, Window
<1>3. \A v \in Workers \ {w} : OneCaller(w, v)'
  BY DEF OneCaller, CreationInv, Apart, CreateHandlers
<1> QED
  BY <1>1, <1>2, <1>3 DEF Fits, Creates

(* Only these steps take a handler on its way.                             *)
LEMMA ContinueAsks ==
  ASSUME RowInv, NEW w \in Workers, Continue(w), req'[w].pc \in Asking \cup {"derived"}
  PROVE  CheckDerived(w) \/ CheckCooldown(w) \/ CheckActive(w)
<1>1. req \in [Workers -> Request] /\ req[w] \in Request
  BY TypesUsed DEF RowInv, EvidenceInv
<1> USE DEF Asking, Window
<1>2. ~ Return(w)
  BY <1>1 DEF Return, Idle
<1>3. \A pc \in Steps \ (Asking \cup {"derived"}) : ~ Goto(w, pc)
  BY <1>1 DEF Goto, Request
<1>4. ~ (FindSheet(w) \/ MarkAnswering(w) \/ LockSheet(w) \/ CountSnapshots(w) \/ PendReport(w)
         \/ FindTask(w) \/ OpenTask(w) \/ CompleteInvite(w) \/ FindSnapshot(w)
         \/ UpdateSnapshot(w) \/ InsertSnapshot(w) \/ SendReminder(w))
  BY <1>2, <1>3, SMTT(30) DEF Steps, FindSheet, MarkAnswering, LockSheet, CountSnapshots, PendReport,
     FindTask, OpenTask, CompleteInvite, FindSnapshot, UpdateSnapshot, InsertSnapshot,
     SendReminder
<1>5. ~ (InsertInvite(w) \/ WriteRenewal(w) \/ WriteCancel(w) \/ TallyReminder(w)
         \/ BindFirstInvitee(w) \/ PersistConsent(w) \/ InsertSheet(w) \/ SaveInviteDraft(w)
         \/ EnqueueReport(w))
  BY <1>2 DEF InsertInvite, WriteRenewal, WriteCancel, TallyReminder, BindFirstInvitee,
     PersistConsent, InsertSheet, SaveInviteDraft, EnqueueReport
<1>6. ~ (LoadForSave(w) \/ LoadForSubmit(w))
  <2>1. ASSUME NEW pc \in {"save", "lock"}, NEW k,
               req' = [req EXCEPT ![w].pc = pc, ![w].row = k]
        PROVE  FALSE
    BY <1>1, <2>1 DEF Request
  <2> QED
    BY <1>2, <2>1 DEF LoadForSave, LoadForSubmit, LoadDraft
<1>7. ~ Revive(w)
  <2> DEFINE status == IF Sheets(req[w].inv) = {} THEN "invite_opened" ELSE "answering"
             seen == [req[w].seen EXCEPT !.status = status]
  <2>1. Revive(w) => req' = [req EXCEPT ![w].pc = "renew", ![w].seen = seen]
    BY DEF Revive
  <2> HIDE DEF seen
  <2> QED
    BY <1>1, <2>1 DEF Request
<1>8. ~ LazyExpire(w)
  <2>1. ASSUME NEW row, req' = [req EXCEPT ![w] = ReviveFrom(req[w], row)]
        PROVE  FALSE
    <3>1. ReviveFrom(req[w], row).pc \in {"renew", "revive"}
      BY <1>1 DEF ReviveFrom, Request
    <3> QED
      BY <1>1, <2>1, <3>1
  <2> QED
    BY <1>2, <2>1 DEF LazyExpire
<1> QED
  BY <1>4, <1>5, <1>6, <1>7, <1>8 DEF Continue

(* The three tests of create and replace, in their order: the budget, the  *)
(* window, the search for an active invite.                                *)
LEMMA AskFits ==
  ASSUME CreationInv, Effect, NEW w \in Workers,
         CheckDerived(w) \/ CheckCooldown(w) \/ CheckActive(w)
  PROVE  Fits(w) /\ cooldown \subseteq cooldown' /\ UNCHANGED used
         /\ \A v \in Workers \ {w} : req'[v] = req[v]
<1>1. /\ req \in [Workers -> Request] /\ req[w] \in Request /\ Creates(w) /\ Apart
      /\ \A v \in Workers : Creates(v)
  BY TypesUsed DEF CreationInv, RowInv, EvidenceInv
<1>2. /\ cooldown \subseteq cooldown' /\ UNCHANGED used
      /\ UNCHANGED invite
      /\ \A v \in Workers \ {w} : req'[v] = req[v]
  BY <1>1 DEF CheckDerived, CheckCooldown, CheckActive, Goto, Return, tables
<1>3. CASE Return(w)
  BY <1>1, <1>2, <1>3, EndFits DEF Return
<1>4. ASSUME NEW pc \in Asking, Goto(w, pc),
             req[w].pc \in {"derived"} \cup Asking
      PROVE  /\ req'[w].pc = pc /\ req'[w].op = req[w].op
             /\ req'[w].user = req[w].user /\ req'[w].inv = req[w].inv
             /\ Authorised(w)' /\ \A v \in Workers \ {w} : OneCaller(w, v)'
  <2>1. /\ req'[w].pc = pc /\ req'[w].op = req[w].op
        /\ req'[w].user = req[w].user /\ req'[w].inv = req[w].inv
    BY <1>1, <1>4 DEF Goto, Request
  <2>2. Authorised(w)'
    BY <1>1, <1>2, <1>4, <2>1 DEF Creates, Authorised, Asking, Window, CreateHandlers, Exists
  <2>3. \A v \in Workers \ {w} : OneCaller(w, v)'
    BY <1>1, <1>2, <2>1 DEF OneCaller, Apart
  <2> QED
    BY <2>1, <2>2, <2>3
<1>5. ASSUME NEW i
      PROVE  BudgetLeft(i)' = BudgetLeft(i)
  <2>1. DerivedFrom(i)' = DerivedFrom(i)
    BY <1>2 DEF DerivedFrom, Exists
  <2> QED
    BY <2>1 DEF BudgetLeft
<1>6. CASE CheckDerived(w) /\ Goto(w, "cooldown") /\ BudgetLeft(req[w].inv)
  <2>1. /\ req'[w].pc = "cooldown" /\ req'[w].inv = req[w].inv
        /\ Authorised(w)' /\ \A v \in Workers \ {w} : OneCaller(w, v)'
    BY <1>4, <1>6 DEF CheckDerived, At, Asking
  <2>2. Budgeted(w)'
    BY <1>5, <1>6, <2>1 DEF Budgeted
  <2>3. Admitted(w)' /\ Clear(w)' /\ \A v \in Workers : Alone(w, v)'
    BY <2>1 DEF Admitted, Clear, Alone, Window
  <2> QED
    BY <1>2, <2>1, <2>2, <2>3 DEF Fits, Creates
<1>7. CASE CheckCooldown(w) /\ Goto(w, "checkActive") /\ req[w].user \notin cooldown
  <2>1. /\ req'[w].pc = "checkActive" /\ req'[w].inv = req[w].inv /\ req'[w].user = req[w].user
        /\ req'[w].op = req[w].op /\ req[w].pc = "cooldown"
        /\ Authorised(w)' /\ \A v \in Workers \ {w} : OneCaller(w, v)'
    BY <1>4, <1>7 DEF CheckCooldown, At, Asking, Window
  <2>2. Budgeted(w)'
    BY <1>1, <1>5, <1>7, <2>1 DEF Creates, Budgeted, MayInsert
  <2>3. Admitted(w)' /\ Clear(w)'
    BY <1>7, <2>1 DEF CheckCooldown, Admitted, Clear
  <2>4. \A v \in Workers \ {w} : Alone(w, v)'
    BY <1>1, <1>2, <1>7, <2>1 DEF Alone, Creates, Admitted
  <2> QED
    BY <1>2, <2>1, <2>2, <2>3, <2>4 DEF Fits, Creates
<1>8. CASE CheckActive(w) /\ Goto(w, "insert") /\ ActiveOf(req[w].user) = {}
  <2>1. /\ req'[w].pc = "insert" /\ req'[w].inv = req[w].inv /\ req'[w].user = req[w].user
        /\ req'[w].op = req[w].op /\ req[w].pc = "checkActive"
        /\ Authorised(w)' /\ \A v \in Workers \ {w} : OneCaller(w, v)'
    BY <1>4, <1>8 DEF CheckActive, At, Asking, Window
  <2>2. Budgeted(w)' /\ Admitted(w)'
    BY <1>1, <1>2, <1>5, <2>1 DEF Creates, Budgeted, MayInsert, Admitted, Window
  <2>3. Clear(w)'
    BY <1>2, <1>8, <2>1 DEF Clear, ActiveOf
  <2>4. \A v \in Workers \ {w} : Alone(w, v)'
    BY <1>1, <1>2, <2>1 DEF Alone, Apart, Window
  <2> QED
    BY <1>2, <2>1, <2>2, <2>3, <2>4 DEF Fits, Creates
<1> QED
  BY <1>3, <1>6, <1>7, <1>8 DEF CheckDerived, CheckCooldown, CheckActive, BudgetLeft

(* The insert: the new invite is the caller's only active one but for the  *)
(* renewed, and one more derived from an invite that had budget left.      *)
LEMMA InsertKeeps ==
  ASSUME CreationInv, RowInv', Effect, NEW w \in Workers, InsertInvite(w)
  PROVE  CreationInv'
<1>1. /\ req \in [Workers -> Request] /\ invite \in [InviteId -> Row] /\ Typed'
      /\ \A v \in Workers : Creates(v)
      /\ Apart /\ used \subseteq InviteId
  BY TypesUsed DEF CreationInv, RowInv, EvidenceInv
<1>2. PICK k \in InviteId \ used :
        /\ used' = used \cup {k}
        /\ invite' = [invite EXCEPT ![k] =
             [NoRow EXCEPT !.initiator = req[w].user, !.status = "invite_created",
                           !.from = req[w].inv]]
  BY DEF InsertInvite
<1>3. /\ req[w].pc = "insert" /\ req[w].op \in CreateHandlers /\ req[w].user \in cooldown
      /\ UNCHANGED cooldown
      /\ req'[w] = Idle /\ \A v \in Workers \ {w} : req'[v] = req[v]
  BY <1>1 DEF InsertInvite, At, Return, Creates, Authorised, Admitted, Asking, Window
<1>4. /\ invite'[k].initiator = req[w].user /\ invite'[k].from = req[w].inv
      /\ invite'[k].renewed = 0
      /\ \A j \in InviteId \ {k} : invite'[j] = invite[j] /\ ~ Inserts(j)
  BY <1>1, <1>2 DEF NoRow, Inserts
<1>5. IsFiniteSet(used')
  BY <1>2, FS_AddElement DEF CreationInv
<1>6. ASSUME NEW v \in Workers \ {w}
      PROVE  Creates(v)'
  <2>1. Alone(w, v) /\ OneCaller(w, v) /\ Creates(w) /\ Creates(v)
    BY <1>1 DEF Apart
  <2>2. req[v].pc = "insert" => req[w].user # req[v].user
    BY <1>3, <2>1 DEF Alone, Window
  <2>3. ASSUME req[v].op = "replace", MayInsert(v), req[w].inv = req[v].inv
        PROVE  FALSE
    <3>1. req[v].inv \in InviteId
      BY <1>1, <2>1, <2>3 DEF Creates, Authorised
    <3>2. req[w].op = "replace"
      BY <1>3, <2>1, <2>3, <3>1, NoneIsNoId DEF Creates, Authorised, CreateHandlers
    <3>3. req[w].user = req[v].user
      BY <2>1, <2>3, <3>2 DEF OneCaller
    <3> QED
      BY <1>3, <2>1, <2>3, <3>3 DEF Alone, MayInsert, Window
  <2> QED
    BY <1>1, <1>3, <1>4, <2>2, <2>3, CreatesKept
<1>7. Fits(w)
  BY <1>3, EndFits
<1>8. Apart'
  <2> SUFFICES ASSUME NEW u \in Workers, NEW v \in Workers, u # v
               PROVE  (Alone(u, v) /\ OneCaller(u, v))'
    BY DEF Apart
  <2>1. CASE u = w
    BY <1>7, <2>1 DEF Fits
  <2>2. CASE v = w
    BY <1>7, <2>2 DEF Fits, Alone, OneCaller
  <2>3. CASE u # w /\ v # w
    BY <1>1, <1>3, <2>3, ApartKept
  <2> QED
    BY <2>1, <2>2, <2>3
<1>9. ReplacedOnce'
  <2> SUFFICES ASSUME NEW i \in InviteId
               PROVE  Cardinality(DerivedFrom(i))' <= ReplacementMax
    BY DEF ReplacedOnce
  <2>1. CASE req[w].inv # i
    BY <1>4, <2>1, BudgetKept
  <2>2. CASE req[w].inv = i
    <3>1. req[w].op = "replace" /\ BudgetLeft(i)
      BY <1>1, <1>3, <2>2, NoneIsNoId DEF Creates, Authorised, CreateHandlers, Budgeted,
         MayInsert, Window
    <3>2. DerivedFrom(i)' \in SUBSET (DerivedFrom(i) \cup {k})
      BY <1>4, DerivedAfter DEF DerivedFrom
    <3>3. /\ IsFiniteSet(DerivedFrom(i)) /\ Cardinality(DerivedFrom(i)) \in Nat
          /\ ReplacementMax \in Nat
      BY DerivedCounts, InviteAssumption
    <3>4. IsFiniteSet(DerivedFrom(i) \cup {k})
      BY <3>3, FS_AddElement
    <3>5. /\ Cardinality(DerivedFrom(i) \cup {k}) <= Cardinality(DerivedFrom(i)) + 1
          /\ Cardinality(DerivedFrom(i) \cup {k}) \in Nat
      BY <3>3, <3>4, FS_AddElement, FS_CardinalityType
    <3>6. /\ Cardinality(DerivedFrom(i)') <= Cardinality(DerivedFrom(i) \cup {k})
          /\ Cardinality(DerivedFrom(i)') \in Nat
      BY <3>2, <3>4, FS_Subset, FS_CardinalityType
    <3> HIDE DEF DerivedFrom
    <3> QED
      BY <3>1, <3>3, <3>5, <3>6 DEF BudgetLeft
  <2> QED
    BY <2>1, <2>2
<1>10. OneActiveUnlessRenewed'
  <2>1. ASSUME NEW j \in InviteId \ {k}, invite'[j].status \in Active,
               invite'[j].initiator = invite'[k].initiator
        PROVE  invite'[j].renewed > 0
    BY <1>1, <1>3, <1>4, <2>1 DEF Creates, Clear
  <2>2. \A j \in InviteId : invite'[j].renewed \in Nat
    BY <1>1, TypesAfter
  <2> SUFFICES ASSUME NEW i \in InviteId, NEW j \in InviteId, i # j,
                      {invite'[i].status, invite'[j].status} \subseteq Active,
                      invite'[i].initiator = invite'[j].initiator
               PROVE  invite'[i].renewed + invite'[j].renewed > 0
    BY DEF OneActiveUnlessRenewed
  <2>3. CASE i = k \/ j = k
    <3>1. invite'[i].renewed > 0 \/ invite'[j].renewed > 0
      BY <2>1, <2>3
    <3> QED
      BY <2>2, <3>1
  <2>4. CASE i # k /\ j # k
    BY <1>4, <2>4 DEF CreationInv, OneActiveUnlessRenewed
  <2> QED
    BY <2>3, <2>4
<1>11. \A v \in Workers : Creates(v)'
  BY <1>6, <1>7 DEF Fits
<1> QED
  BY <1>5, <1>8, <1>9, <1>10, <1>11 DEF CreationInv

(* A call that is taken: a replacement is its initiator's, every other     *)
(* call is not a creation.                                                 *)
LEMMA ReceiveFits ==
  ASSUME CreationInv, Effect, NEW w \in Workers, NEW u \in Users, NEW i \in InviteId,
         Receive(w, u, i)
  PROVE  Fits(w)
<1>1. Typed /\ req \in [Workers -> Request] /\ RowSound(i) /\ Apart
      /\ \A v \in Workers : Creates(v)
  BY TypesUsed DEF CreationInv, RowInv, EvidenceInv
<1>2. /\ req'[w].inv = i /\ req'[w].user = u /\ UNCHANGED tables
      /\ \A v \in Workers \ {w} : req'[v] = req[v]
  BY <1>1, ReceiveCalls, ReceiveLetIn DEF CreationInv, RowInv
<1>3. ASSUME NEW pc, NEW op, Start(w, pc, op, u, i)
      PROVE  req'[w].pc = pc /\ req'[w].op = op
  <2> DEFINE seen == IF op \in {"renew", "remind"} THEN invite[i] ELSE NoRow
  <2>1. req' = [req EXCEPT ![w] =
          [Idle EXCEPT !.pc = pc, !.op = op, !.user = u, !.inv = i, !.seen = seen]]
    BY <1>3 DEF Start
  <2> HIDE DEF seen
  <2> QED
    BY <1>1, <2>1 DEF Idle
<1>4. ASSUME StartReplace(w, u, i)
      PROVE  Fits(w)
  <2>1. /\ req'[w].pc = "derived" /\ req'[w].op = "replace"
        /\ Exists(i) /\ invite[i].initiator = u
    BY <1>3, <1>4 DEF StartReplace, Loads
  <2>2. i \in used /\ UNCHANGED <<invite, used>>
    BY <1>1, <1>2, <2>1 DEF RowSound, tables
  <2>3. Creates(w)' /\ \A v \in Workers : Alone(w, v)'
    BY <1>2, <2>1, <2>2 DEF Creates, Authorised, Admitted, Budgeted, MayInsert, Clear, Alone,
       Asking, Window
  <2>4. \A v \in Workers \ {w} : OneCaller(w, v)'
    BY <1>1, <1>2, <2>1 DEF OneCaller, Creates, Authorised
  <2> QED
    BY <2>3, <2>4 DEF Fits
<1>5. ASSUME req'[w].pc \notin Asking \cup {"derived"}, req'[w].op \notin CreateHandlers
      PROVE  Fits(w)
  BY <1>2, <1>5, ElsewhereFits
<1> USE DEF Asking, Window, CreateHandlers
<1>6. ASSUME StartRenew(w, u, i)
      PROVE  Fits(w)
  <2> DEFINE r == [Idle EXCEPT !.op = "renew", !.user = u, !.inv = i]
  <2>1. ASSUME req' = [req EXCEPT ![w] = ReviveFrom(r, invite[i])]
        PROVE  req'[w].pc \in {"renew", "revive"} /\ req'[w].op = "renew"
    <3>1. r \in Request /\ r.op = "renew"
      BY ConstantTypes DEF Request, AllHandlers
    <3> HIDE DEF r
    <3> QED
      BY <1>1, <2>1, <3>1 DEF ReviveFrom, Request
  <2> QED
    BY <1>3, <1>5, <1>6, <2>1 DEF StartRenew
<1>7. ASSUME \/ LoadOverdue(w, u, i) \/ StartCancel(w, u, i) \/ StartConsent(w, u, i)
             \/ StartOpen(w, u, i) \/ StartRemind(w, u, i)
      PROVE  Fits(w)
  BY <1>3, <1>5, <1>7 DEF LoadOverdue, StartCancel, StartConsent, StartOpen, StartRemind
<1>8. ASSUME \/ StartOpenSheet(w, u, i) \/ StartSaveDraft(w, u, i) \/ StartSubmit(w, u, i)
             \/ StartReuse(w, u, i)
      PROVE  Fits(w)
  BY <1>3, <1>5, <1>8 DEF StartOpenSheet, StartSaveDraft, StartSubmit, StartReuse
<1> QED
  BY <1>4, <1>6, <1>7, <1>8 DEF Receive

-----------------------------------------------------------------------------
(* The invariant.                                                          *)

LEMMA InitCreation == Init => CreationInv
<1> SUFFICES ASSUME Init
             PROVE  CreationInv
  OBVIOUS
<1>1. RowInv /\ IsFiniteSet(used)
  BY InitRow, FS_EmptySet DEF Init
<1>2. (\A w \in Workers : Creates(w)) /\ Apart
  BY DEF Init, Creates, Authorised, Admitted, Budgeted, MayInsert, Clear, Apart, Alone,
         OneCaller, Asking, Window, Idle
<1>3. \A i \in InviteId : ~ Exists(i) /\ invite[i].status \notin Active
  BY NoRowIs DEF Init, Exists, Active, Expirable
<1>4. ASSUME NEW i \in InviteId
      PROVE  Cardinality(DerivedFrom(i)) <= ReplacementMax
  <2>1. DerivedFrom(i) = {}
    BY <1>3 DEF DerivedFrom
  <2>2. Cardinality(DerivedFrom(i)) = 0 /\ ReplacementMax \in Nat
    BY <2>1, FS_EmptySet, InviteAssumption
  <2> QED
    BY <2>2
<1> QED
  BY <1>1, <1>2, <1>3, <1>4 DEF CreationInv, ReplacedOnce, OneActiveUnlessRenewed

LEMMA NextCreation == CreationInv /\ [Next]_vars => CreationInv'
<1> SUFFICES ASSUME CreationInv, [Next]_vars
             PROVE  CreationInv'
  OBVIOUS
<1>1. /\ RowInv /\ RowInv' /\ Typed /\ Effect /\ Typed'
      /\ req \in [Workers -> Request]
  BY NextRow, NextEffect, TypesUsed DEF CreationInv, RowInv, EvidenceInv
<1>2. ASSUME UNCHANGED <<used, req>>,
             \A w \in Workers : req[w].op \in CreateHandlers /\ req[w].user \in cooldown
                                  => req[w].user \in cooldown'
      PROVE  CreationInv'
  <2>1. \A i \in InviteId : ~ Inserts(i)
    BY <1>2 DEF Inserts
  <2>2. \A w \in Workers : Creates(w)'
    BY <1>1, <1>2, <2>1, CreatesKept
  <2>3. Apart'
    BY <1>2, ApartKept DEF CreationInv, Apart
  <2> QED
    BY <1>1, <1>2, <2>1, <2>2, <2>3, NothingInserted DEF CreationInv
<1>3. ASSUME NEW w \in Workers, NEW u \in Users, StartCreate(w, u)
      PROVE  CreationInv'
  <2>1. req' = [req EXCEPT ![w] =
          [Idle EXCEPT !.pc = "cooldown", !.op = "create", !.user = u, !.inv = None, !.seen = NoRow]]
    BY <1>3 DEF StartCreate, Start
  <2>2. /\ req'[w].pc = "cooldown" /\ req'[w].op = "create" /\ req'[w].inv = None
        /\ \A v \in Workers \ {w} : req'[v] = req[v]
    BY <1>1, <2>1 DEF Idle
  <2>3. Fits(w)
    BY <2>2 DEF Fits, Creates, Authorised, Admitted, Budgeted, Clear, Alone, OneCaller,
       Asking, Window, CreateHandlers
  <2> QED
    BY <1>1, <1>3, <2>2, <2>3, FitKeeps DEF StartCreate, tables
<1>4. ASSUME NEW w \in Workers, NEW u \in Users, NEW i \in InviteId, Receive(w, u, i)
      PROVE  CreationInv'
  <2>1. UNCHANGED tables /\ \A v \in Workers \ {w} : req'[v] = req[v]
    BY <1>1, <1>4, ReceiveCalls, ReceiveLetIn DEF RowInv
  <2> QED
    BY <1>1, <1>4, <2>1, ReceiveFits, FitKeeps DEF tables
<1>5. ASSUME NEW w \in Workers, Continue(w)
      PROVE  CreationInv'
  <2>1. CASE InsertInvite(w)
    BY <1>1, <2>1, InsertKeeps
  <2>2. CASE CheckDerived(w) \/ CheckCooldown(w) \/ CheckActive(w)
    BY <1>1, <2>2, AskFits, FitKeeps
  <2>3. CASE ~ (InsertInvite(w) \/ CheckDerived(w) \/ CheckCooldown(w) \/ CheckActive(w))
    <3>1. UNCHANGED <<used, cooldown>>
      BY <1>5, <2>3, Zenon DEF Continue, LazyExpire, Revive, WriteRenewal, WriteCancel, SendReminder,
         TallyReminder, BindFirstInvitee, PersistConsent, FindSheet, InsertSheet, MarkAnswering,
         LoadForSave, SaveInviteDraft, LoadForSubmit, LockSheet, FindSnapshot, UpdateSnapshot,
         InsertSnapshot, CompleteInvite, CountSnapshots, PendReport, FindTask, OpenTask,
         EnqueueReport, tables
    <3>2. Return(w) \/ Advances(w)
      BY <1>1, <1>5, ContinueAdvances
    <3>3. \A v \in Workers \ {w} : req'[v] = req[v]
      BY <1>1, <3>2 DEF Return, Advances
    <3>4. CASE Return(w)
      BY <1>1, <3>1, <3>3, <3>4, EndFits, FitKeeps DEF Return
    <3>5. CASE Advances(w)
      <4>1. req'[w].pc \notin Asking \cup {"derived"}
        BY <1>1, <1>5, <2>3, ContinueAsks
      <4>2. Fits(w)
        BY <1>1, <3>3, <3>5, <4>1, ElsewhereFits DEF Advances
      <4> QED
        BY <1>1, <3>1, <3>3, <4>2, FitKeeps
    <3> QED
      BY <3>2, <3>4, <3>5, SMTT(30)
  <2> QED
    BY <2>1, <2>2, <2>3
<1>6. ASSUME NEW w \in Workers, Fail(w)
      PROVE  CreationInv'
  <2>1. /\ req'[w] = Idle /\ \A v \in Workers \ {w} : req'[v] = req[v]
        /\ UNCHANGED <<used, cooldown>>
    BY <1>1, <1>6 DEF Fail, Return, tables
  <2> QED
    BY <1>1, <2>1, EndFits, FitKeeps
<1>7. ASSUME NEW u \in Users, NEW i \in InviteId, DeletePairing(u, i)
      PROVE  CreationInv'
  BY <1>2, <1>7 DEF DeletePairing
<1>8. ASSUME NEW u \in Users, CooldownElapses(u)
      PROVE  CreationInv'
  BY <1>2, <1>8 DEF CooldownElapses
<1>9. ASSUME NEW i \in InviteId, DeadlinePasses(i)
      PROVE  CreationInv'
  BY <1>2, <1>9 DEF DeadlinePasses
<1>10. ASSUME ExpireScan
       PROVE  CreationInv'
  BY <1>2, <1>10 DEF ExpireScan
<1>11. ASSUME UNCHANGED vars
       PROVE  CreationInv'
  BY <1>2, <1>11 DEF vars, tables
<1> QED
  BY <1>3, <1>4, <1>5, <1>6, <1>7, <1>8, <1>9, <1>10, <1>11 DEF Next

(* The inductive invariant holds in every reachable state.                 *)
THEOREM CreationsAlways == Spec => []CreationInv
<1> QED
  BY InitCreation, NextCreation, PTL DEF Spec

(* C7: however many replace requests of a declined invite run together and *)
(* whatever is deleted meanwhile, no more invites derive from it than the  *)
(* budget allows, though the count and the insert are steps apart.         *)
THEOREM ReplacementsBudgeted == Spec => []ReplacedOnce
<1>1. CreationInv => ReplacedOnce
  BY DEF CreationInv
<1> QED
  BY <1>1, CreationsAlways, PTL

(* create and replace never give an initiator a second invite in progress: *)
(* assertNoActiveInvite is overtaken by renewals only.                     *)
THEOREM OneInProgress == Spec => []OneActiveUnlessRenewed
<1>1. CreationInv => OneActiveUnlessRenewed
  BY DEF CreationInv
<1> QED
  BY <1>1, CreationsAlways, PTL
=============================================================================
