------------------------------- MODULE Invite -------------------------------
(***************************************************************************)
(* The double-test invitation: server/src/modules/invite/invite.service.ts *)
(* with the two tables it drives a pairing through (answer_snapshot,       *)
(* consent_log) and the part of assessment.service.ts it calls for the     *)
(* invite sheet.                                                           *)
(*                                                                         *)
(* Two server processes each run many HTTP handlers at once, so a handler  *)
(* is a sequence of steps, one per await that reaches the database, Redis  *)
(* or WeChat.  A worker w is one handler in flight: req[w] holds where it  *)
(* is and, for the handlers that later write what they computed from it,   *)
(* the InviteEntity they loaded (`seen`).  A handler tests the row when it *)
(* loads it, and the row may have moved on when it writes.  A handler that *)
(* rejects its call changes nothing and is not modelled, except for the    *)
(* lazy expiry that loading an overdue row performs.                       *)
(***************************************************************************)
EXTENDS ReportQueue, FiniteSets

CONSTANTS
  Users,          (* WeChat users.                                          *)
  HasSingle,      (* Users with a submitted single sheet of this version.   *)
  Workers,        (* Handlers that may be in flight together.               *)
  Handlers,       (* The operations clients call in this instance.          *)
  RenewMax,       (* INVITE_RENEW_MAX                                       *)
  RemindMax,      (* INVITE_REMIND_MAX                                      *)
  ReplacementMax, (* INVITE_REPLACEMENT_MAX                                 *)
  MaxSent         (* Bound: reminders delivered per invite in this instance.*)

AllHandlers ==
  {"create", "replace", "renew", "cancel", "delete", "remind", "open",
   "consent", "decline", "openSheet", "saveDraft", "submit", "reuse", "read"}

ASSUME InviteAssumption ==
  /\ None \notin Users
  /\ HasSingle \subseteq Users
  /\ Handlers \subseteq AllHandlers
  /\ RenewMax \in Nat
  /\ RemindMax \in Nat
  /\ ReplacementMax \in Nat
  /\ MaxSent \in Nat

VARIABLES
  invite,     (* Table invite.                                             *)
  used,       (* Invite ids the auto-increment has handed out.             *)
  sheet,      (* The scene='invite' rows of answer_sheet, by id.           *)
  snapshot,   (* Table answer_snapshot, by invite and role.                *)
  consentLog, (* Table consent_log: evidence rows per invite.              *)
  cooldown,   (* Users whose 10 s creation window holds a request.         *)
  delivered,  (* History: reminders WeChat delivered, per invite.          *)
  req         (* req[w]: the handler worker w is running.                  *)

(* Everything but the handlers in flight. *)
tables ==
  <<invite, used, sheet, snapshot, consentLog, cooldown, delivered, queueVars>>

vars == <<tables, req>>

-----------------------------------------------------------------------------
(* Statuses and their sets (invite.constants.ts).                          *)

Expirable == {"invite_created", "invite_opened", "consent_given", "answering"}
Remindable == Expirable
Answerable == {"consent_given", "answering"}
Active     == Expirable \cup {"completed"}
Answered   == {"consent_given", "answering", "completed", "report_unlocked"}
Status     == Active \cup {"report_unlocked", "expired", "declined", "cancelled"}

(* due stands for expire_at < now; status "none" is no row.                *)
Row == [initiator : Users \cup {None},
        invitee   : Users \cup {None},
        status    : Status \cup {"none"},
        renewed   : Nat,
        reminds   : Nat,
        due       : BOOLEAN,
        from      : InviteId \cup {None}]

NoRow == [initiator |-> None, invitee |-> None, status |-> "none",
          renewed |-> 0, reminds |-> 0, due |-> FALSE, from |-> None]

Exists(i) == invite[i].status # "none"

Snapshot == [initiator : BOOLEAN, invitee : Answers \cup {None}]
NoSnapshot == [initiator |-> FALSE, invitee |-> None]

(* Evidence rows: the initiator's, and the invitee's of either answer.     *)
Evidence == [initiator : Nat, agreed : Nat, declined : Nat]

(* A draft without answers, with answers, a locked sheet, a deleted row.   *)
SheetState == {"empty", "saved", "submitted", "deleted"}
Draft == {"empty", "saved"}

Steps == {"idle", "expire", "cooldown", "derived", "checkActive", "insert",
          "revive", "renew", "cancel", "send", "tally", "bind", "persist",
          "findSheet", "insertSheet", "mark", "load", "save", "loadSheet", "lock",
          "findSnapshot", "updateSnapshot", "insertSnapshot", "complete",
          "count", "pend", "findTask", "insertTask", "addJob"}

Request == [pc   : Steps,
            op   : AllHandlers \cup {"none"},
            user : Users \cup {None},
            inv  : InviteId \cup {None},
            seen : Row,
            row  : Nat]

Idle == [pc |-> "idle", op |-> "none", user |-> None, inv |-> None,
         seen |-> NoRow, row |-> 0]

TypeOK ==
  /\ QueueTypeOK
  /\ invite     \in [InviteId -> Row]
  /\ used       \in SUBSET InviteId
  /\ sheet      \in [InviteId -> Seq(SheetState)]
  /\ snapshot   \in [InviteId -> Snapshot]
  /\ consentLog \in [InviteId -> Evidence]
  /\ cooldown   \in SUBSET Users
  /\ delivered  \in [InviteId -> Nat]
  /\ req        \in [Workers -> Request]

Init ==
  /\ QueueInit
  /\ invite     = [i \in InviteId |-> NoRow]
  /\ used       = {}
  /\ sheet      = [i \in InviteId |-> << >>]
  /\ snapshot   = [i \in InviteId |-> NoSnapshot]
  /\ consentLog = [i \in InviteId |-> [initiator |-> 0, agreed |-> 0, declined |-> 0]]
  /\ cooldown   = {}
  /\ delivered  = [i \in InviteId |-> 0]
  /\ req        = [w \in Workers |-> Idle]

-----------------------------------------------------------------------------
(* Steps shared by the handlers.                                           *)

Start(w, pc, op, u, i) ==
  /\ req[w] = Idle
  /\ op \in Handlers
  /\ req' = [req EXCEPT ![w] =
       [Idle EXCEPT !.pc = pc, !.op = op, !.user = u, !.inv = i,
                    !.seen = IF op \in {"renew", "remind"} THEN invite[i] ELSE NoRow]]

At(w, pc) == req[w].pc = pc
Goto(w, pc) == req' = [req EXCEPT ![w].pc = pc]
Return(w) == req' = [req EXCEPT ![w] = Idle]

(* The UPDATE of a status where the row is still in one of `from`.         *)
SetStatus(i, status) == invite' = [invite EXCEPT ![i].status = status]
MoveStatus(i, from, status) ==
  IF invite[i].status \in from THEN SetStatus(i, status) ELSE UNCHANGED invite

(* applyLazyExpire's test, made on the row just loaded.                    *)
Overdue(i) == invite[i].status \in Expirable /\ invite[i].due

(* loadByCode or requireInitiatorById when the row is not to be expired.   *)
Loads(i) == Exists(i) /\ ~Overdue(i)

(* The row is overdue: the handler goes on to expire it.  Only renew has   *)
(* anything left to do with an expired invite; "read" stands for every     *)
(* other handler that loads the row and then rejects or only displays it.  *)
LoadOverdue(w, u, i) ==
  /\ Overdue(i)
  /\ \/ Start(w, "expire", "read", u, i)
     \/ /\ invite[i].initiator = u
        /\ invite[i].renewed < RenewMax
        /\ Start(w, "expire", "renew", u, i)
  /\ UNCHANGED tables

(* renew goes on with the status the expired invite will be revived to.    *)
ReviveFrom(r, row) ==
  IF row.invitee = None
  THEN [r EXCEPT !.pc = "renew", !.seen = [row EXCEPT !.status = "invite_created"]]
  ELSE [r EXCEPT !.pc = "revive", !.seen = row]

(* applyLazyExpire's UPDATE: conditional on the status, not on expire_at.  *)
LazyExpire(w) ==
  LET r == req[w]  i == r.inv  expired == [r.seen EXCEPT !.status = "expired"] IN
  /\ At(w, "expire")
  /\ MoveStatus(i, Expirable, "expired")
  /\ IF r.op = "renew" THEN req' = [req EXCEPT ![w] = ReviveFrom(r, expired)]
                       ELSE Return(w)
  /\ UNCHANGED <<used, sheet, snapshot, consentLog, cooldown, delivered, queueVars>>

(* Mutant: the scan's status list omits the opened invites.                 *)
ExpireScanSkipsOpened ==
  /\ \E i \in InviteId : Overdue(i)
  /\ invite' = [i \in InviteId |->
       IF Overdue(i) /\ invite[i].status # "invite_opened"
       THEN [invite[i] EXCEPT !.status = "expired"] ELSE invite[i]]
  /\ UNCHANGED <<used, sheet, snapshot, consentLog, cooldown, delivered, req, queueVars>>

(* InviteExpireProcessor: one UPDATE over all overdue rows, every hour.    *)
ExpireScan ==
  /\ \E i \in InviteId : Overdue(i)
  /\ invite' = [i \in InviteId |->
       IF Overdue(i) THEN [invite[i] EXCEPT !.status = "expired"] ELSE invite[i]]
  /\ UNCHANGED <<used, sheet, snapshot, consentLog, cooldown, delivered, req, queueVars>>

(* The clock passes expire_at of an invite that can still expire.          *)
DeadlinePasses(i) ==
  /\ invite[i].status \in Expirable
  /\ ~invite[i].due
  /\ invite' = [invite EXCEPT ![i].due = TRUE]
  /\ UNCHANGED <<used, sheet, snapshot, consentLog, cooldown, delivered, req, queueVars>>

(* The handler stops between two awaits: process restart, a database or    *)
(* Redis error, a lost connection.  Nothing it wrote is undone.            *)
Fail(w) ==
  /\ req[w] # Idle
  /\ Return(w)
  /\ UNCHANGED tables

-----------------------------------------------------------------------------
(* create and replace: cooldown, prerequisites, one transaction.           *)

StartCreate(w, u) ==
  /\ u \in HasSingle
  /\ Start(w, "cooldown", "create", u, None)
  /\ UNCHANGED tables

StartReplace(w, u, i) ==
  /\ Loads(i)
  /\ invite[i].initiator = u
  /\ invite[i].status = "declined"
  /\ Start(w, "derived", "replace", u, i)
  /\ UNCHANGED tables

DerivedFrom(i) == {j \in InviteId : Exists(j) /\ invite[j].from = i}

(* Mutant: the budget is compared with <=.                                 *)
CheckDerivedOffByOne(w) ==
  /\ At(w, "derived")
  /\ IF Cardinality(DerivedFrom(req[w].inv)) <= ReplacementMax
     THEN Goto(w, "cooldown") ELSE Return(w)
  /\ UNCHANGED tables

(* C7: the invites already derived from the declined one are counted.      *)
CheckDerived(w) ==
  /\ At(w, "derived")
  /\ IF Cardinality(DerivedFrom(req[w].inv)) < ReplacementMax
     THEN Goto(w, "cooldown") ELSE Return(w)
  /\ UNCHANGED tables

(* Mutant: the window's answer is not looked at.                           *)
CheckCooldownIgnored(w) ==
  /\ At(w, "cooldown")
  /\ Goto(w, "checkActive")
  /\ cooldown' = cooldown \cup {req[w].user}
  /\ UNCHANGED <<invite, used, sheet, snapshot, consentLog, delivered, queueVars>>

(* assertCreateCooldown: at most one request per window and user.          *)
CheckCooldown(w) ==
  /\ At(w, "cooldown")
  /\ IF req[w].user \in cooldown THEN Return(w) ELSE Goto(w, "checkActive")
  /\ cooldown' = cooldown \cup {req[w].user}
  /\ UNCHANGED <<invite, used, sheet, snapshot, consentLog, delivered, queueVars>>

CreateHandlers == {"create", "replace"}

(* The window slides past its entry.  INVITE_CREATE_COOLDOWN_SEC is there  *)
(* to keep one creation of a user in flight at a time: a creation that     *)
(* takes longer than the window is outside this model.                     *)
CooldownElapses(u) ==
  /\ u \in cooldown
  /\ \A w \in Workers : ~(req[w].user = u /\ req[w].op \in CreateHandlers)
  /\ cooldown' = cooldown \ {u}
  /\ UNCHANGED <<invite, used, sheet, snapshot, consentLog, delivered, req, queueVars>>

ActiveOf(u) == {i \in InviteId : invite[i].initiator = u /\ invite[i].status \in Active}

(* assertNoActiveInvite.                                                   *)
CheckActive(w) ==
  /\ At(w, "checkActive")
  /\ IF ActiveOf(req[w].user) = {} THEN Goto(w, "insert") ELSE Return(w)
  /\ UNCHANGED tables

(* createInviteWithSnapshot: the invite, the initiator's snapshot and the  *)
(* initiator's consent evidence commit together or not at all (Fail).      *)
InsertInvite(w) ==
  /\ At(w, "insert")
  /\ \E i \in InviteId \ used :
       /\ used' = used \cup {i}
       /\ invite' = [invite EXCEPT ![i] =
            [NoRow EXCEPT !.initiator = req[w].user, !.status = "invite_created",
                          !.from = req[w].inv]]
       /\ snapshot' = [snapshot EXCEPT ![i].initiator = TRUE]
       /\ consentLog' = [consentLog EXCEPT ![i].initiator = @ + 1]
  /\ Return(w)
  /\ UNCHANGED <<sheet, cooldown, delivered, queueVars>>

-----------------------------------------------------------------------------
(* renew: the row is written back by id, with the status read at the start *)
(* or the one an expired invite is revived to.                             *)

StartRenew(w, u, i) ==
  /\ Loads(i)
  /\ invite[i].initiator = u
  /\ invite[i].renewed < RenewMax
  /\ \/ invite[i].status \in Expirable /\ Start(w, "renew", "renew", u, i)
     \/ /\ invite[i].status = "expired"
        /\ req[w] = Idle
        /\ "renew" \in Handlers
        /\ req' = [req EXCEPT ![w] =
             ReviveFrom([Idle EXCEPT !.op = "renew", !.user = u, !.inv = i], invite[i])]
  /\ UNCHANGED tables

(* The invitee's sheets of the invite.                                     *)
Sheets(i) == {k \in DOMAIN sheet[i] : sheet[i][k] # "deleted"}

(* resolveRevivedStatus: is there an invite sheet of the invitee?          *)
Revive(w) ==
  LET status == IF Sheets(req[w].inv) = {} THEN "invite_opened" ELSE "answering"
      seen   == [req[w].seen EXCEPT !.status = status] IN
  /\ At(w, "revive")
  /\ req' = [req EXCEPT ![w].pc = "renew", ![w].seen = seen]
  /\ UNCHANGED tables

(* expireAt becomes max(now, expireAt read) + 7 days, always in the future.*)
WriteRenewal(w) ==
  LET i == req[w].inv  seen == req[w].seen IN
  /\ At(w, "renew")
  /\ IF Exists(i)
     THEN invite' = [invite EXCEPT ![i].renewed = seen.renewed + 1,
                                   ![i].due = FALSE, ![i].status = seen.status]
     ELSE UNCHANGED invite
  /\ Return(w)
  /\ UNCHANGED <<used, sheet, snapshot, consentLog, cooldown, delivered, queueVars>>

-----------------------------------------------------------------------------
(* cancel, deletePairingData, remind.                                      *)

StartCancel(w, u, i) ==
  /\ Loads(i)
  /\ invite[i].initiator = u
  /\ invite[i].status \in Active
  /\ Start(w, "cancel", "cancel", u, i)
  /\ UNCHANGED tables

(* Mutant: the UPDATE is conditional on the id alone.                      *)
WriteCancelById(w) ==
  /\ At(w, "cancel")
  /\ MoveStatus(req[w].inv, Status, "cancelled")
  /\ Return(w)
  /\ UNCHANGED <<used, sheet, snapshot, consentLog, cooldown, delivered, queueVars>>

WriteCancel(w) ==
  /\ At(w, "cancel")
  /\ MoveStatus(req[w].inv, Active, "cancelled")
  /\ Return(w)
  /\ UNCHANGED <<used, sheet, snapshot, consentLog, cooldown, delivered, queueVars>>

(* One transaction, in any status, by either participant: the row goes and *)
(* with it the sheets, the snapshots and the report; consent_log stays.    *)
DeletePairing(u, i) ==
  /\ "delete" \in Handlers
  /\ Exists(i)
  /\ u \in {invite[i].initiator, invite[i].invitee}
  /\ invite'   = [invite EXCEPT ![i] = NoRow]
  /\ sheet'    = [sheet EXCEPT ![i] = [k \in DOMAIN @ |-> "deleted"]]
  /\ snapshot' = [snapshot EXCEPT ![i] = NoSnapshot]
  /\ report'   = [report EXCEPT ![i] = NoReport]
  /\ UNCHANGED <<used, consentLog, cooldown, delivered, req, task, queue>>

StartRemind(w, u, i) ==
  /\ Loads(i)
  /\ invite[i].initiator = u
  /\ invite[i].status \in Remindable
  /\ invite[i].reminds < RemindMax
  /\ invite[i].invitee # None
  /\ Start(w, "send", "remind", u, i)
  /\ UNCHANGED tables

(* Mutant: a reminder WeChat refused is counted as well.                   *)
SendReminderBlindly(w) ==
  /\ At(w, "send")
  /\ \/ /\ delivered[req[w].inv] < MaxSent
        /\ delivered' = [delivered EXCEPT ![req[w].inv] = @ + 1]
     \/ UNCHANGED delivered
  /\ Goto(w, "tally")
  /\ UNCHANGED <<invite, used, sheet, snapshot, consentLog, cooldown, queueVars>>

(* WeChat delivers the message, or refuses it and nothing is counted.      *)
SendReminder(w) ==
  /\ At(w, "send")
  /\ \/ /\ delivered[req[w].inv] < MaxSent
        /\ delivered' = [delivered EXCEPT ![req[w].inv] = @ + 1]
        /\ Goto(w, "tally")
     \/ /\ Return(w)
        /\ UNCHANGED delivered
  /\ UNCHANGED <<invite, used, sheet, snapshot, consentLog, cooldown, queueVars>>

(* remind_count becomes the count read at the start plus one.              *)
TallyReminder(w) ==
  LET i == req[w].inv IN
  /\ At(w, "tally")
  /\ IF Exists(i)
     THEN invite' = [invite EXCEPT ![i].reminds = req[w].seen.reminds + 1]
     ELSE UNCHANGED invite
  /\ Return(w)
  /\ UNCHANGED <<used, sheet, snapshot, consentLog, cooldown, delivered, queueVars>>

-----------------------------------------------------------------------------
(* open and consent: compare-and-set on the row.                           *)

StartOpen(w, u, i) ==
  /\ Loads(i)
  /\ invite[i].status \notin {"expired", "cancelled"}
  /\ invite[i].initiator # u
  /\ invite[i].invitee = None
  /\ Start(w, "bind", "open", u, i)
  /\ UNCHANGED tables

(* Mutant: whoever opened the link while it was free is bound.             *)
BindAnyInvitee(w) ==
  LET i == req[w].inv IN
  /\ At(w, "bind")
  /\ IF Exists(i)
     THEN invite' = [invite EXCEPT ![i].invitee = req[w].user, ![i].status = "invite_opened"]
     ELSE UNCHANGED invite
  /\ Return(w)
  /\ UNCHANGED <<used, sheet, snapshot, consentLog, cooldown, delivered, queueVars>>

(* bindFirstInvitee: where invitee_uid is null and status is created.      *)
BindFirstInvitee(w) ==
  LET i == req[w].inv IN
  /\ At(w, "bind")
  /\ IF invite[i].invitee = None /\ invite[i].status = "invite_created"
     THEN invite' = [invite EXCEPT ![i].invitee = req[w].user, ![i].status = "invite_opened"]
     ELSE UNCHANGED invite
  /\ Return(w)
  /\ UNCHANGED <<used, sheet, snapshot, consentLog, cooldown, delivered, queueVars>>

StartConsent(w, u, i) ==
  /\ Loads(i)
  /\ invite[i].invitee = u
  /\ invite[i].status = "invite_opened"
  /\ \E answer \in {"consent", "decline"} : Start(w, "persist", answer, u, i)
  /\ UNCHANGED tables

(* ConsentLogService: one more evidence row of the invitee.                *)
RecordAnswer(i, answer) ==
  consentLog' = IF answer = "consent" THEN [consentLog EXCEPT ![i].agreed = @ + 1]
                                      ELSE [consentLog EXCEPT ![i].declined = @ + 1]

(* Mutant: the evidence is written whether or not the UPDATE hit.          *)
PersistConsentTwice(w) ==
  LET i == req[w].inv  answer == req[w].op IN
  /\ At(w, "persist")
  /\ MoveStatus(i, {"invite_opened"}, IF answer = "consent" THEN "consent_given" ELSE "declined")
  /\ RecordAnswer(i, answer)
  /\ Return(w)
  /\ UNCHANGED <<used, sheet, snapshot, cooldown, delivered, queueVars>>

(* persistInviteConsent: one transaction that moves the status where it is *)
(* still invite_opened and writes the evidence only if it did.             *)
PersistConsent(w) ==
  LET i == req[w].inv  answer == req[w].op IN
  /\ At(w, "persist")
  /\ IF invite[i].status = "invite_opened"
     THEN /\ SetStatus(i, IF answer = "consent" THEN "consent_given" ELSE "declined")
          /\ RecordAnswer(i, answer)
     ELSE UNCHANGED <<invite, consentLog>>
  /\ Return(w)
  /\ UNCHANGED <<used, sheet, snapshot, cooldown, delivered, queueVars>>

-----------------------------------------------------------------------------
(* openSheet, saveDraft: the invitee's answer sheet.                       *)

(* Mutant: an opened invite can be answered, the consent skipped.          *)
MayAnswerUnasked(u, i) ==
  Loads(i) /\ invite[i].invitee = u /\ invite[i].status \in Answerable \cup {"invite_opened"}

(* requireParticipant and assertAnswerable.                                *)
MayAnswer(u, i) == Loads(i) /\ invite[i].invitee = u /\ invite[i].status \in Answerable

StartOpenSheet(w, u, i) ==
  /\ MayAnswer(u, i)
  /\ Start(w, "findSheet", "openSheet", u, i)
  /\ UNCHANGED tables

FindSheet(w) ==
  /\ At(w, "findSheet")
  /\ IF Sheets(req[w].inv) = {} THEN Goto(w, "insertSheet") ELSE Return(w)
  /\ UNCHANGED tables

(* No unique key: a second sheet, being newer, hides the first.            *)
InsertSheet(w) ==
  /\ At(w, "insertSheet")
  /\ sheet' = [sheet EXCEPT ![req[w].inv] = Append(@, "empty")]
  /\ Return(w)
  /\ UNCHANGED <<invite, used, snapshot, consentLog, cooldown, delivered, queueVars>>

StartSaveDraft(w, u, i) ==
  /\ MayAnswer(u, i)
  /\ Start(w, IF invite[i].status = "consent_given" THEN "mark" ELSE "load",
           "saveDraft", u, i)
  /\ UNCHANGED tables

MarkAnswering(w) ==
  /\ At(w, "mark")
  /\ MoveStatus(req[w].inv, {"consent_given"}, "answering")
  /\ Goto(w, "load")
  /\ UNCHANGED <<used, sheet, snapshot, consentLog, cooldown, delivered, queueVars>>

(* requireOwnedInviteSheet and assertDraftEditable: the newest sheet, which*)
(* must be a draft.  Draft versions are left out: any load may be refused. *)
LoadDraft(w, pc) ==
  LET i == req[w].inv IN
  \/ \E k \in Sheets(i) :
       /\ \A m \in Sheets(i) : m <= k
       /\ sheet[i][k] \in Draft
       /\ req' = [req EXCEPT ![w].pc = pc, ![w].row = k]
  \/ Return(w)

LoadForSave(w) ==
  /\ At(w, "load")
  /\ LoadDraft(w, "save")
  /\ UNCHANGED tables

(* saveDraftOnSheet updates the row by id and leaves its status alone.     *)
SaveInviteDraft(w) ==
  LET i == req[w].inv  k == req[w].row IN
  /\ At(w, "save")
  /\ sheet' = IF sheet[i][k] = "empty" THEN [sheet EXCEPT ![i][k] = "saved"] ELSE sheet
  /\ Return(w)
  /\ UNCHANGED <<invite, used, snapshot, consentLog, cooldown, delivered, queueVars>>

-----------------------------------------------------------------------------
(* submit and reuse: lock the sheet, freeze the snapshot, complete, enqueue*)

StartSubmit(w, u, i) ==
  /\ MayAnswer(u, i)
  /\ Start(w, "loadSheet", "submit", u, i)
  /\ UNCHANGED tables

LoadForSubmit(w) ==
  /\ At(w, "loadSheet")
  /\ LoadDraft(w, "lock")
  /\ UNCHANGED tables

(* Mutant: the invite is completed before the snapshot is frozen.          *)
LockSheetAndComplete(w) ==
  LET i == req[w].inv  k == req[w].row IN
  /\ At(w, "lock")
  /\ sheet' = IF sheet[i][k] = "deleted" THEN sheet
              ELSE [sheet EXCEPT ![i][k] = "submitted"]
  /\ Goto(w, "complete")
  /\ UNCHANGED <<invite, used, snapshot, consentLog, cooldown, delivered, queueVars>>

(* submitInvite locks the sheet, by id as well (B5).                       *)
LockSheet(w) ==
  LET i == req[w].inv  k == req[w].row IN
  /\ At(w, "lock")
  /\ sheet' = IF sheet[i][k] = "deleted" THEN sheet
              ELSE [sheet EXCEPT ![i][k] = "submitted"]
  /\ Goto(w, "findSnapshot")
  /\ UNCHANGED <<invite, used, snapshot, consentLog, cooldown, delivered, queueVars>>

StartReuse(w, u, i) ==
  /\ MayAnswer(u, i)
  /\ u \in HasSingle
  /\ Start(w, "findSnapshot", "reuse", u, i)
  /\ UNCHANGED tables

(* upsertSnapshot: look the row up, then update or insert it.              *)
FindSnapshot(w) ==
  /\ At(w, "findSnapshot")
  /\ Goto(w, IF snapshot[req[w].inv].invitee = None THEN "insertSnapshot"
                                                    ELSE "updateSnapshot")
  /\ UNCHANGED tables

Payload(w) == IF req[w].op = "reuse" THEN "reused" ELSE "own"

UpdateSnapshot(w) ==
  LET i == req[w].inv IN
  /\ At(w, "updateSnapshot")
  /\ snapshot' = IF snapshot[i].invitee = None THEN snapshot
                 ELSE [snapshot EXCEPT ![i].invitee = Payload(w)]
  /\ Goto(w, "complete")
  /\ UNCHANGED <<invite, used, sheet, consentLog, cooldown, delivered, queueVars>>

(* uk_invite_user makes a lost race an update: the payload is stored.      *)
InsertSnapshot(w) ==
  /\ At(w, "insertSnapshot")
  /\ snapshot' = [snapshot EXCEPT ![req[w].inv].invitee = Payload(w)]
  /\ Goto(w, "complete")
  /\ UNCHANGED <<invite, used, sheet, consentLog, cooldown, delivered, queueVars>>

(* finishInviteeSide's conditional UPDATE; whether it hit is not looked at.*)
CompleteInvite(w) ==
  /\ At(w, "complete")
  /\ MoveStatus(req[w].inv, Answerable, "completed")
  /\ Goto(w, "count")
  /\ UNCHANGED <<used, sheet, snapshot, consentLog, cooldown, delivered, queueVars>>

BothSnapshots(i) == snapshot[i].initiator /\ snapshot[i].invitee # None

(* enqueueReportIfReady: both snapshots, the report row, the ledger row,   *)
(* the job.                                                                *)
CountSnapshots(w) ==
  /\ At(w, "count")
  /\ IF BothSnapshots(req[w].inv) THEN Goto(w, "pend") ELSE Return(w)
  /\ UNCHANGED tables

PendReport(w) ==
  /\ At(w, "pend")
  /\ EnsurePending(req[w].inv)
  /\ Goto(w, "findTask")
  /\ UNCHANGED <<invite, used, sheet, snapshot, consentLog, cooldown, delivered, task, queue>>

FindTask(w) ==
  /\ At(w, "findTask")
  /\ Goto(w, IF OpenTasks(req[w].inv) = {} THEN "insertTask" ELSE "addJob")
  /\ UNCHANGED tables

OpenTask(w) ==
  /\ At(w, "insertTask")
  /\ InsertTask(req[w].inv)
  /\ Goto(w, "addJob")
  /\ UNCHANGED <<invite, used, sheet, snapshot, consentLog, cooldown, delivered, report, queue>>

EnqueueReport(w) ==
  /\ At(w, "addJob")
  /\ AddJob(req[w].inv)
  /\ Return(w)
  /\ UNCHANGED <<invite, used, sheet, snapshot, consentLog, cooldown, delivered, report, task>>

-----------------------------------------------------------------------------

(* What a client, the initiator or whoever holds the link, can ask for.    *)
Receive(w, u, i) ==
  \/ LoadOverdue(w, u, i)   \/ StartReplace(w, u, i)   \/ StartRenew(w, u, i)
  \/ StartCancel(w, u, i)   \/ StartRemind(w, u, i)    \/ StartOpen(w, u, i)
  \/ StartConsent(w, u, i)  \/ StartOpenSheet(w, u, i) \/ StartSaveDraft(w, u, i)
  \/ StartSubmit(w, u, i)   \/ StartReuse(w, u, i)

(* The next await of a handler in flight.                                  *)
Continue(w) ==
  \/ LazyExpire(w)     \/ CheckDerived(w)   \/ CheckCooldown(w)  \/ CheckActive(w)
  \/ InsertInvite(w)   \/ Revive(w)         \/ WriteRenewal(w)   \/ WriteCancel(w)
  \/ SendReminder(w)   \/ TallyReminder(w)  \/ BindFirstInvitee(w)
  \/ PersistConsent(w) \/ FindSheet(w)      \/ InsertSheet(w)    \/ MarkAnswering(w)
  \/ LoadForSave(w)    \/ SaveInviteDraft(w) \/ LoadForSubmit(w) \/ LockSheet(w)
  \/ FindSnapshot(w)
  \/ UpdateSnapshot(w) \/ InsertSnapshot(w) \/ CompleteInvite(w) \/ CountSnapshots(w)
  \/ PendReport(w)     \/ FindTask(w)       \/ OpenTask(w)       \/ EnqueueReport(w)

Next ==
  \/ \E w \in Workers, u \in Users : StartCreate(w, u)
  \/ \E w \in Workers, u \in Users, i \in InviteId : Receive(w, u, i)
  \/ \E w \in Workers : Continue(w)
  \/ \E w \in Workers : Fail(w)
  \/ \E u \in Users, i \in InviteId : DeletePairing(u, i)
  \/ \E u \in Users : CooldownElapses(u)
  \/ \E i \in InviteId : DeadlinePasses(i)
  \/ ExpireScan

Spec == Init /\ [][Next]_vars

(* The hourly scan is a repeating BullMQ job: it keeps coming back.        *)
FairSpec == Spec /\ WF_vars(ExpireScan)
-----------------------------------------------------------------------------
(* What holds.                                                             *)

(* No sheet, snapshot or report of a pairing exists, and no status past    *)
(* the consent is reached, unless consent_log holds the invitee's consent; *)
(* a refusal has its evidence too (persistInviteConsent; ADR-012).         *)
ConsentEvidence ==
  \A i \in InviteId :
    /\ \/ invite[i].status \in Answered
       \/ sheet[i] # << >>
       \/ snapshot[i].invitee # None
       \/ report[i].status # "none"
       => consentLog[i].agreed > 0
    /\ invite[i].status = "declined" => consentLog[i].declined > 0

(* However often and from however many devices the invitee answers the     *)
(* consent question, one answer is recorded, as long as the initiator has  *)
(* not renewed (persistInviteConsent's compare-and-set).                   *)
OneAnswerRecorded ==
  \A i \in InviteId :
    Exists(i) /\ invite[i].renewed = 0 => consentLog[i].agreed + consentLog[i].declined <= 1

(* A completed invite can produce its report: both snapshots are there     *)
(* (submit and reuse write theirs first; "有邀请必有 A 端快照").           *)
CompletedHasSnapshots ==
  \A i \in InviteId :
    /\ Exists(i) => snapshot[i].initiator
    /\ invite[i].status = "completed" => snapshot[i].invitee # None

(* The reminder count never exceeds its budget, nor what was delivered: a  *)
(* message WeChat refused costs the initiator nothing (ADR-005), whatever  *)
(* handlers overtake each other between the send and the count.            *)
RefusedCostsNothing ==
  \A i \in InviteId : invite[i].reminds <= RemindMax /\ invite[i].reminds <= delivered[i]

(* C7: at most one invite derives from a declined one, however many        *)
(* replace requests run together (count, cooldown and active check).       *)
ReplacedOnce ==
  \A i \in InviteId : Cardinality(DerivedFrom(i)) <= ReplacementMax

(* Two invites of one initiator are in progress together only if one of    *)
(* them was renewed: create and replace never bring that about.            *)
OneActiveUnlessRenewed ==
  \A i, j \in InviteId :
    /\ i # j
    /\ {invite[i].status, invite[j].status} \subseteq Active
    /\ invite[i].initiator = invite[j].initiator
    => invite[i].renewed + invite[j].renewed > 0

(* C1: who bound the invite first keeps it, and the initiator is never     *)
(* their own invitee.  A deleted invite does not come back.                *)
InviteeNeverReplaced ==
  [][\A i \in InviteId :
       /\ invite[i].invitee # None => invite'[i].invitee = invite[i].invitee \/ ~Exists(i)'
       /\ i \in used /\ ~Exists(i) => ~Exists(i)'
       /\ Exists(i)' => invite'[i].initiator # invite'[i].invitee]_vars

(* The edges of the status machine the handlers implement.                 *)
Edges ==
  { <<"none", "invite_created">>,        <<"invite_created", "invite_opened">>,
    <<"invite_opened", "consent_given">>, <<"invite_opened", "declined">>,
    <<"consent_given", "answering">>,     <<"consent_given", "completed">>,
    <<"answering", "completed">> }
  \cup (Expirable \X {"expired"}) \cup (Active \X {"cancelled"})
  \cup (Status \X {"none"})

Renewing(i) == \E w \in Workers : At(w, "renew") /\ req[w].inv = i /\ req'[w] = Idle

(* Whatever the interleaving, a status moves along the state machine, and  *)
(* only the write of a renewal leaves it: every other handler's UPDATE     *)
(* repeats the test its handler made on the row it had loaded.             *)
StatusFollowsMachine ==
  [][\A i \in InviteId :
       invite'[i].status # invite[i].status =>
         <<invite[i].status, invite'[i].status>> \in Edges \/ Renewing(i)]_vars

(* The pairing implements the promise of ConsentFirst.                     *)
Promise == INSTANCE ConsentFirst WITH
  Pairing  <- InviteId,
  agreed   <- {i \in InviteId : consentLog[i].agreed > 0},
  kept     <- {i \in InviteId : Sheets(i) # {} \/ snapshot[i].invitee # None},
  complete <- {i \in InviteId : invite[i].status \in {"completed", "report_unlocked"}}

KeepsPromise == Promise!Spec

(* C4: an invite past its deadline does not stay open for answers: it is   *)
(* expired, completed, withdrawn or renewed (InviteExpireProcessor).       *)
OverdueEnds == \A i \in InviteId : Overdue(i) ~> ~Overdue(i)

-----------------------------------------------------------------------------
(* What comments and documents say, and the code does not keep.            *)

(* assertNoActiveInvite: "同一发起方同时最多 1 个进行中邀请".              *)
OneActiveInvite == \A u \in Users : Cardinality(ActiveOf(u)) <= 1
=============================================================================
