---------------------------- MODULE InvitePages ----------------------------
(***************************************************************************)
(* The mini-program's invitation pages (miniprogram/src/pages/invite/*.vue *)
(* and pages/report/double.vue) on one user's device: a stack of pages,    *)
(* the calls they have under way and their timers, against a server where  *)
(* the partner, the worker and the clock act too.                          *)
(*                                                                         *)
(* A page that was closed is gone from the stack but not from memory: its  *)
(* calls still come back and its timers still fire, and what they do with  *)
(* the stack (redirectTo, navigateBack) they do to the page on top, be it  *)
(* theirs or not.  A handler of the server is one step here, but for the   *)
(* consent, which answers what it meant to write; module Invite has them   *)
(* await by await.  The user is logged in and the link's first visitor.    *)
(* Other pages, the questionnaire's included, do nothing.                  *)
(***************************************************************************)
EXTENDS Naturals, FiniteSets, Bags, SequencesExt

CONSTANTS
  Slot,         (* Pages kept in memory at once.                            *)
  MaxCalls,     (* The user asks for no more while so many calls other than
                   polls are under way, but may go back.                    *)
  MaxActs,      (* Taps and gestures of the user.                           *)
  MaxAttempts   (* REPORT_POLL_MAX_ATTEMPTS                                 *)

ASSUME PagesAssumption ==
  /\ IsFiniteSet(Slot) /\ Slot \subseteq Nat /\ Slot # {}
  /\ MaxCalls \in Nat \ {0} /\ MaxActs \in Nat \ {0} /\ MaxAttempts \in Nat \ {0}

VARIABLES
  role,       (* The user's part in the invitation.                         *)
  invite,     (* Its row and its report's status on the server.             *)
  consented,  (* consent_log holds this user's consent.                     *)
  missed,     (* History: an agreement was answered, and none is recorded.  *)
  device,     (* The stack of pages, the pages and the calls under way.     *)
  acts        (* How often the user has acted.                              *)

vars == <<role, invite, consented, missed, device, acts>>

Expirable  == {"invite_created", "invite_opened", "consent_given", "answering"}
Active     == Expirable \cup {"completed"}
Finished   == {"completed", "report_unlocked"}
Answered   == {"consent_given", "answering"} \cup Finished

(* before: what an expired invitation was.  renewed and replaced: once.    *)
Invite == [status : Active \cup {"none", "unseen", "report_unlocked", "expired",
                                 "declined", "cancelled"},
           report : {"none", "pending", "ready", "failed"},
           before : Expirable, renewed : BOOLEAN, replaced : BOOLEAN]

NoInvite == [status |-> "none", report |-> "none", before |-> "invite_created",
             renewed |-> FALSE, replaced |-> FALSE]

Unseen == [NoInvite EXCEPT !.status = "unseen"]

Kind == {"list", "notice", "accept", "detail", "report", "questionnaire", "elsewhere"}

Ops == {"mine", "open", "reopen", "poll", "report", "pollReport", "create", "agree",
        "refuse", "reuse", "remind", "renew", "replace", "cancel", "delete"}

Polls == {"poll", "pollReport"}

(* What a page script keeps: view is its copy of the invitation (of the    *)
(* user's list, of the report), busy the call its buttons wait for, timer  *)
(* the poll timer it knows of and strays those it has forgotten, reuse the *)
(* stage of the accept page, leaving the redirect after a deletion.        *)
Page == [kind : Kind, view : Invite, loading : BOOLEAN, error : BOOLEAN,
         busy : Ops \cup {"none"}, polling : BOOLEAN, timer : BOOLEAN, strays : Nat,
         attempts : 0..MaxAttempts, reuse : BOOLEAN, leaving : BOOLEAN]

(* loaded: the server has let the answer to the consent question in, and   *)
(* has not written it yet.                                                 *)
Call == [slot : Slot, op : Ops, got : {"none", "loaded", "ok", "gone", "refused", "lost"},
         view : Invite]

TypeOK ==
  /\ role \in {"initiator", "invitee"} /\ invite \in Invite /\ consented \in BOOLEAN
  /\ missed \in BOOLEAN
  /\ acts \in 0..MaxActs
  /\ device.stack \in Seq(Slot) /\ IsInjective(device.stack)
  /\ device.page \in [Slot -> Page]
  /\ BagToSet(device.calls) \subseteq Call

-----------------------------------------------------------------------------
(* The poll timer of a detail or report page.                              *)

StopPolling(p) == [p EXCEPT !.timer = FALSE, !.polling = FALSE]

(* A timer that is still known is overwritten, not cleared.                *)
ScheduleNextPoll(p) ==
  [p EXCEPT !.timer = TRUE, !.strays = IF p.timer THEN @ + 1 ELSE @]

StartPolling(p) ==
  IF p.timer \/ p.polling THEN p
  ELSE ScheduleNextPoll([p EXCEPT !.polling = TRUE, !.attempts = 0])

(* Both sides have submitted and the report is not there.                  *)
WaitingReport(v) == v.status = "completed" /\ v.report # "ready"

(* getReport answers pending as long as there is no row.                   *)
WaitingForReport(v) == v.report \in {"none", "pending"}

SyncPolling(p) ==
  IF \/ p.kind = "detail" /\ WaitingReport(p.view)
     \/ p.kind = "report" /\ WaitingForReport(p.view)
  THEN StartPolling(p) ELSE StopPolling(p)

(* Mutant: the limit is forgotten.                                         *)
PollAgainForever(p) == ScheduleNextPoll(p)

(* What follows an answer that was not the end of it.                      *)
PollAgain(p) == IF p.attempts >= MaxAttempts THEN StopPolling(p) ELSE ScheduleNextPoll(p)

-----------------------------------------------------------------------------
(* The device: uni-app's page stack, and calls.                            *)

Fresh(kind) ==
  [kind |-> kind, view |-> Unseen, loading |-> TRUE, error |-> FALSE, busy |-> "none",
   polling |-> FALSE, timer |-> FALSE, strays |-> 0, attempts |-> 0,
   reuse |-> FALSE, leaving |-> FALSE]

Top(d) == Last(d.stack)
Change(d, n, p) == [d EXCEPT !.page[n] = p]

Ask(d, n, op) ==
  [d EXCEPT !.calls =
     @ (+) SetToBag({[slot |-> n, op |-> op, got |-> "none", view |-> Unseen]})]

CallsOf(d, n) == {c \in BagToSet(d.calls) : c.slot = n}

Silent(d, n) ==
  LET p == d.page[n] IN ~p.timer /\ p.strays = 0 /\ ~p.leaving /\ CallsOf(d, n) = {}

Free(d) == {n \in Slot : n \notin Range(d.stack) /\ Silent(d, n)}

(* What nobody can see any more of the pages that are closed is forgotten. *)
Forget(d) ==
  [d EXCEPT !.page = [n \in Slot |->
     CASE n \in Range(d.stack) -> d.page[n]
       [] n \in Free(d) -> Fresh("elsewhere")
       [] OTHER -> [d.page[n] EXCEPT !.view = Unseen, !.loading = FALSE, !.error = FALSE,
                                     !.reuse = FALSE]]]

LoadOp(kind) ==
  CASE kind = "list" -> "mine"
    [] kind = "report" -> "report"
    [] OTHER -> "open"

Loads(kind) == kind \in {"list", "accept", "detail", "report"}

Load(d, n) == Ask(Change(d, n, [d.page[n] EXCEPT !.error = FALSE]), n, LoadOp(d.page[n].kind))

Enter(d, n, kind) ==
  LET e == Change(d, n, Fresh(kind)) IN IF Loads(kind) THEN Load(e, n) ELSE e

(* onUnmounted                                                             *)
Leave(d, n) == Change(d, n, StopPolling(d.page[n]))

(* onShow of the page that comes to light.                                 *)
Show(d) ==
  LET n == Top(d)  p == d.page[n] IN
  IF p.kind = "list" \/ (p.kind = "detail" /\ p.view # Unseen) THEN Load(d, n) ELSE d

NavigateTo(d, kind) ==
  LET n == CHOOSE n \in Free(d) : TRUE IN
  Enter([d EXCEPT !.stack = Append(@, n)], n, kind)

RedirectTo(d, kind) == NavigateTo(Leave([d EXCEPT !.stack = Front(@)], Top(d)), kind)

NavigateBack(d) == Show(Leave([d EXCEPT !.stack = Front(@)], Top(d)))

BackHome(d) == IF Len(d.stack) > 1 THEN NavigateBack(d) ELSE RedirectTo(d, "elsewhere")

-----------------------------------------------------------------------------
(* The server.                                                             *)

(* The statuses each operation goes through in; the list always answers.   *)
Admitted(op) ==
  CASE op = "mine" -> {invite.status}
    [] op = "create" -> IF role = "initiator" THEN {"none"} ELSE {invite.status}
    [] op \in {"open", "reopen", "poll"} ->
         Active \cup {"report_unlocked", "declined"}
    [] op = "agree"   -> {s \in {"invite_opened"} \cup Answered : role = "invitee"}
    [] op = "refuse"  -> {s \in {"invite_opened"} : role = "invitee"}
    [] op = "reuse"   -> {"consent_given", "answering"}
    [] op \in {"report", "pollReport"} ->
         Answered \cup IF invite.report # "none" THEN {"cancelled"} ELSE {}
    [] op = "remind"  -> Expirable \ {"invite_created"}
    [] op = "renew"   -> IF invite.renewed THEN {} ELSE Expirable \cup {"expired"}
    [] op = "replace" -> IF invite.replaced THEN {} ELSE {"declined"}
    [] op = "cancel"  -> Active
    [] op = "delete"  -> {invite.status} \ {"none"}

(* Who is no participant, or opens a cancelled invitation, learns nothing. *)
NotFound(op) ==
  /\ op \notin {"mine", "create"}
  /\ \/ invite.status = "none"
     \/ /\ invite.status = "cancelled"
        /\ op \in {"open", "reopen", "poll", "agree", "refuse"}
     \/ /\ role = "invitee" /\ invite.status = "invite_created"
        /\ op \notin {"open", "reopen", "poll"}

(* resolveRevivedStatus; a sheet without answers counts as none here.      *)
Revived == IF invite.status # "expired" THEN invite.status
           ELSE IF invite.before = "consent_given" THEN "invite_opened"
           ELSE invite.before

After(op) ==
  CASE op \in {"open", "reopen", "poll"} /\ role = "invitee" /\ invite.status = "invite_created"
         -> [invite EXCEPT !.status = "invite_opened"]
    [] op = "reuse"   -> [invite EXCEPT !.status = "completed"]
    [] op = "renew"   -> [invite EXCEPT !.status = Revived, !.before = "invite_created",
                                        !.renewed = TRUE]
    [] op = "replace" -> [invite EXCEPT !.replaced = TRUE]
    [] op = "cancel"  -> [invite EXCEPT !.status = "cancelled"]
    [] op = "delete"  -> NoInvite
    [] op = "create" /\ role = "initiator" -> [NoInvite EXCEPT !.status = "invite_created"]
    [] OTHER -> invite

Replace(c, new) == [device EXCEPT !.calls = (@ (-) SetToBag({c})) (+) SetToBag({new})]

(* What the pages use of an answer.  Who has not opened the link yet does  *)
(* not have the invitation in the list.                                    *)
Answer(op, i) ==
  CASE op = "mine" -> [NoInvite EXCEPT !.status =
                         IF role = "invitee" /\ i.status = "invite_created" THEN @ ELSE i.status]
    [] op \in {"report", "pollReport"} -> [NoInvite EXCEPT !.report = i.report]
    [] op = "agree" -> [NoInvite EXCEPT !.status = i.status]
    [] op \in {"open", "reopen", "poll", "renew", "cancel"} -> [i EXCEPT !.before = "invite_created"]
    [] OTHER -> Unseen

(* consent writes an answer in an await of its own if it found the         *)
(* invitation open; an agreement found given before changes nothing.       *)
Serve(c) ==
  /\ c.got = "none"
  /\ IF NotFound(c.op) \/ invite.status \notin Admitted(c.op)
     THEN /\ device' = Replace(c, [c EXCEPT !.got = IF NotFound(c.op) THEN "gone" ELSE "refused"])
          /\ UNCHANGED invite
     ELSE IF c.op \in {"agree", "refuse"} /\ invite.status = "invite_opened"
     THEN device' = Replace(c, [c EXCEPT !.got = "loaded"]) /\ UNCHANGED invite
     ELSE /\ invite' = After(c.op)
          /\ device' = Replace(c, [c EXCEPT !.got = "ok", !.view = Answer(c.op, invite')])
  /\ UNCHANGED <<role, consented, missed, acts>>

Becomes(status) == invite' = [invite EXCEPT !.status = status]

(* persistInviteConsent: an UPDATE where the status is still invite_opened *)
(* and, if it hit, the record.  The answer is the same if it missed.       *)
PersistConsent(c) ==
  /\ c.got = "loaded"
  /\ IF invite.status = "invite_opened"
     THEN /\ Becomes(IF c.op = "agree" THEN "consent_given" ELSE "declined")
          /\ consented' = (consented \/ c.op = "agree")
          /\ UNCHANGED missed
     ELSE /\ missed' = (missed \/ (c.op = "agree" /\ ~consented))
          /\ UNCHANGED <<invite, consented>>
  /\ device' = Replace(c, [c EXCEPT !.got = "ok", !.view =
                  IF c.op = "agree" THEN [NoInvite EXCEPT !.status = "consent_given"] ELSE Unseen])
  /\ UNCHANGED <<role, acts>>

(* The network fails before or after the server; the page cannot tell.     *)
(* What the handler still writes then is written from elsewhere.           *)
Lose(c) ==
  /\ c.got # "lost"
  /\ device' = Replace(c, [c EXCEPT !.got = "lost", !.view = Unseen])
  /\ UNCHANGED <<role, invite, consented, missed, acts>>

(* The partner, the questionnaire, the worker and the clock; and the same  *)
(* user on another device.                                                 *)
Elsewhere ==
  /\ \/ role = "initiator" /\ invite.status = "invite_created" /\ Becomes("invite_opened")
     \/ /\ invite.status = "invite_opened"
        /\ Becomes("consent_given") \/ Becomes("declined")
     \/ invite.status = "consent_given" /\ Becomes("answering")
     \/ invite.status = "answering" /\ Becomes("completed")
     \/ /\ invite.status = "completed" /\ invite.report = "none"
        /\ invite' = [invite EXCEPT !.report = "pending"]
     \/ /\ invite.report = "pending"
        /\ \E s \in {"ready", "failed"} : invite' = [invite EXCEPT !.report = s]
     \/ invite.status = "completed" /\ invite.report = "ready" /\ Becomes("report_unlocked")
     \/ /\ invite.status = "completed" /\ invite.report = "ready"
        /\ invite' = [invite EXCEPT !.report = "pending"]
     \/ /\ invite.status \in Expirable
        /\ invite' = [invite EXCEPT !.status = "expired", !.before = invite.status]
     \/ role = "invitee" /\ invite.status \in Active /\ Becomes("cancelled")
     \/ /\ role = "invitee" /\ invite.status = "expired" /\ ~invite.renewed
        /\ invite' = [invite EXCEPT !.status = Revived, !.before = "invite_created",
                                        !.renewed = TRUE]
     \/ /\ invite.status \notin {"none", "invite_created"}
        /\ invite' = NoInvite
  /\ consented' = (consented \/ (role = "invitee" /\ invite.status = "invite_opened"
                                                  /\ invite'.status = "consent_given"))
  /\ UNCHANGED <<role, missed, device, acts>>

-----------------------------------------------------------------------------
(* The answer of a call comes back to page n of device d.                  *)

(* load() of the list, detail and report pages; an old error stays.        *)
LoadAnswered(d, n, c) ==
  LET p == [d.page[n] EXCEPT !.loading = FALSE] IN
  Change(d, n, IF c.got # "ok" THEN [p EXCEPT !.error = TRUE]
               ELSE IF p.kind = "list" THEN [p EXCEPT !.view = c.view]
               ELSE SyncPolling([p EXCEPT !.view = c.view]))

(* init() of the accept page.                                              *)
AcceptOpened(d, n, c) ==
  LET p == [d.page[n] EXCEPT !.loading = FALSE]
      seen == Change(d, n, [p EXCEPT !.view = c.view])
  IN  IF c.got # "ok" THEN Change(d, n, [p EXCEPT !.error = TRUE])
      ELSE IF role = "initiator" THEN RedirectTo(Change(d, n, p), "detail")
      ELSE CASE c.view.status \in Finished -> RedirectTo(seen, "detail")
             [] c.view.status \in Answered \ Finished -> RedirectTo(seen, "questionnaire")
             [] OTHER -> seen

(* pollReport of the detail page: no error stops it.                       *)
PollReport(p, c) ==
  LET q == IF c.got = "ok" THEN [p EXCEPT !.view = c.view] ELSE p IN
  IF c.got = "ok" /\ c.view.report = "ready" THEN StopPolling(q) ELSE PollAgain(q)

(* pollOnce of the report page: ApiError's code is never 0, so every error *)
(* stops it.                                                               *)
PollOnce(p, c) ==
  IF c.got # "ok" THEN StopPolling([p EXCEPT !.error = TRUE])
  ELSE IF c.view.report = "ready" THEN StopPolling([p EXCEPT !.view = c.view])
  ELSE PollAgain([p EXCEPT !.view = c.view])

(* Mutant: the questionnaire opens whatever became of the consent.         *)
AgreeAnsweredBlindly(d, n, c) ==
  LET p == [d.page[n] EXCEPT !.busy = "none"] IN {RedirectTo(Change(d, n, p), "questionnaire")}

(* handleAgree: with an old answer sheet to offer, the page stays.         *)
AgreeAnswered(d, n, c) ==
  LET p == [d.page[n] EXCEPT !.busy = "none"]
      q == [p EXCEPT !.view = c.view]
  IN  IF c.got # "ok" THEN {Change(d, n, p)}
      ELSE {Change(d, n, [q EXCEPT !.reuse = TRUE]), RedirectTo(Change(d, n, q), "questionnaire")}

(* handleDecline, handleReuse of the accept page.                          *)
DeclineAnswered(d, n, c) ==
  LET e == Change(d, n, [d.page[n] EXCEPT !.busy = "none"]) IN
  IF c.got = "ok" THEN BackHome(e) ELSE e

ReuseAnswered(d, n, c) ==
  LET e == Change(d, n, [d.page[n] EXCEPT !.busy = "none"]) IN
  IF c.got = "ok" THEN RedirectTo(e, "detail") ELSE e

(* handleCreate of the list: an invitee's own invitation is another one.   *)
CreateAnswered(d, n, c) ==
  LET e == Change(d, n, [d.page[n] EXCEPT !.busy = "none"]) IN
  CASE c.got = "ok" -> NavigateTo(e, IF role = "initiator" THEN "detail" ELSE "elsewhere")
    [] c.got = "refused" -> Load(e, n)
    [] OTHER -> e

(* handleRemind keeps its button until the page has loaded again.          *)
RemindAnswered(d, n, c) ==
  LET p == d.page[n] IN
  IF c.got = "ok" THEN Ask(Change(d, n, [p EXCEPT !.error = FALSE]), n, "reopen")
  ELSE Change(d, n, [p EXCEPT !.busy = "none"])

RenewAnswered(d, n, c) ==
  LET p == [d.page[n] EXCEPT !.busy = "none"] IN
  Change(d, n, IF c.got = "ok" THEN SyncPolling([p EXCEPT !.view = c.view]) ELSE p)

CancelAnswered(d, n, c) ==
  LET p == [d.page[n] EXCEPT !.busy = "none"] IN
  Change(d, n, IF c.got = "ok" THEN StopPolling([p EXCEPT !.view = c.view]) ELSE p)

ReplaceAnswered(d, n, c) ==
  LET e == Change(d, n, [d.page[n] EXCEPT !.busy = "none"]) IN
  IF c.got = "ok" THEN RedirectTo(e, "elsewhere") ELSE e

(* handleDeleteData: not found is as good as deleted.                      *)
DeleteAnswered(d, n, c) ==
  LET p == [d.page[n] EXCEPT !.busy = "none"] IN
  Change(d, n, IF c.got \in {"ok", "gone"} THEN StopPolling([p EXCEPT !.leaving = TRUE]) ELSE p)

Handled(d, n, c) ==
  LET p == d.page[n] IN
  CASE c.op = "open" /\ p.kind = "accept" -> {AcceptOpened(d, n, c)}
    [] c.op \in {"mine", "report"} \/ (c.op = "open" /\ p.kind # "accept") ->
         {LoadAnswered(d, n, c)}
    [] c.op = "reopen" ->
         {LoadAnswered(Change(d, n, [p EXCEPT !.busy = "none"]), n, c)}
    [] c.op = "poll"       -> {Change(d, n, PollReport(p, c))}
    [] c.op = "pollReport" -> {Change(d, n, PollOnce(p, c))}
    [] c.op = "agree"   -> AgreeAnswered(d, n, c)
    [] c.op = "refuse"  -> {DeclineAnswered(d, n, c)}
    [] c.op = "reuse"   -> {ReuseAnswered(d, n, c)}
    [] c.op = "create"  -> {CreateAnswered(d, n, c)}
    [] c.op = "remind"  -> {RemindAnswered(d, n, c)}
    [] c.op = "renew"   -> {RenewAnswered(d, n, c)}
    [] c.op = "replace" -> {ReplaceAnswered(d, n, c)}
    [] c.op = "cancel"  -> {CancelAnswered(d, n, c)}
    [] c.op = "delete"  -> {DeleteAnswered(d, n, c)}

Local == UNCHANGED <<role, invite, consented, missed>>

(* Bound: what may lead to another page waits for room in memory.          *)
Navigates(c) ==
  \/ c.op \in {"agree", "refuse", "reuse", "create", "replace"}
  \/ c.op = "open" /\ device.page[c.slot].kind = "accept"

HasRoom(d) == Free([d EXCEPT !.stack = Front(@)]) # {}

Receive(c) ==
  LET answered == [device EXCEPT !.calls = @ (-) SetToBag({c})] IN
  /\ c.got \notin {"none", "loaded"}
  /\ Navigates(c) => IF c.op = "create" THEN Free(answered) # {} ELSE HasRoom(answered)
  /\ device' \in {Forget(d) : d \in Handled(answered, c.slot, c)}
  /\ Local /\ UNCHANGED acts

-----------------------------------------------------------------------------
(* Timers.                                                                 *)

(* A stray that fires makes the page forget the timer it knows.            *)
PollTimerFires(n) ==
  LET p == device.page[n]
      polled == [p EXCEPT !.timer = FALSE, !.attempts = IF @ < MaxAttempts THEN @ + 1 ELSE @]
      op == IF p.kind = "detail" THEN "poll" ELSE "pollReport"
  IN  /\ \/ p.timer /\ device' = Ask(Change(device, n, polled), n, op)
         \/ /\ p.strays > 0
            /\ device' = Ask(Change(device, n, [polled EXCEPT !.strays =
                                                  IF p.timer THEN @ ELSE @ - 1]), n, op)
      /\ Local /\ UNCHANGED acts

(* finishDelete's redirect, some time after the toast.                     *)
LeaveAfterDelete(n) ==
  LET d == Change(device, n, [device.page[n] EXCEPT !.leaving = FALSE]) IN
  /\ device.page[n].leaving
  /\ HasRoom(d)
  /\ device' = Forget(RedirectTo(d, "list"))
  /\ Local /\ UNCHANGED acts

-----------------------------------------------------------------------------
(* The user, on the page on top.                                           *)

CanAsk == Cardinality({c \in BagToSet(device.calls) : c.op \notin Polls}) < MaxCalls

(* showLoading({mask: true}) keeps every tap off, but not the way back.    *)
Masked == \E n \in Slot : device.page[n].busy \in {"create", "reuse", "replace"}

Shown(p) == ~p.loading /\ ~p.error /\ p.view # Unseen

ActiveInvite(p) == role = "initiator" /\ p.view.status \in Active

CanAnswer(p) == role = "invitee" /\ p.view.status \in {"consent_given", "answering"}
NeedConsent(p) == role = "invitee" /\ p.view.status \in {"invite_created", "invite_opened"}

(* Where a tap leads from page p without a call.                           *)
ListLinks(p) ==
  {IF ActiveInvite(p) THEN "detail" ELSE "notice"}
    \cup {k \in {"detail"} : Shown(p) /\ p.view.status # "none"}

DetailLinks(p) ==
  {k \in Kind : /\ Shown(p)
                /\ \/ k = "elsewhere"
                   \/ k = "report" /\ p.view.report = "ready"
                   \/ k = "accept" /\ NeedConsent(p)
                   \/ k = "questionnaire" /\ CanAnswer(p)}

Links(p) ==
  CASE p.kind = "list" -> ListLinks(p)
    [] p.kind = "detail" -> DetailLinks(p)
    [] p.kind = "accept" -> {k \in {"notice"} : Shown(p) /\ ~p.reuse}
    [] p.kind = "report" -> {k \in {"elsewhere"} : Shown(p) /\ p.view.report = "ready"}
    [] OTHER -> {}

(* Bound: room is left for the page that an answer may lead to.            *)
Visit(n) ==
  /\ ~Masked /\ CanAsk
  /\ Cardinality(Free(device)) > 1
  /\ \E kind \in Links(device.page[n]) : device' = Forget(NavigateTo(device, kind))
  /\ Local

GoBack ==
  /\ Len(device.stack) > 1
  /\ device' = Forget(NavigateBack(device))
  /\ Local

PullDown(n) ==
  /\ device.page[n].kind \in {"list", "detail", "report"}
  /\ ~Masked /\ CanAsk
  /\ device' = Load(device, n)
  /\ Local

Retry(n) ==
  /\ device.page[n].error /\ ~device.page[n].loading
  /\ ~Masked /\ CanAsk
  /\ device' = Load(Change(device, n, [device.page[n] EXCEPT !.loading = TRUE]), n)
  /\ Local

(* handleAgree of the notice, with the box ticked: whoever comes from the  *)
(* accept page ends up here too.                                           *)
AgreeToNotice(n) ==
  /\ device.page[n].kind = "notice"
  /\ ~Masked /\ CanAsk
  /\ Free(device) # {}
  /\ LET d == RedirectTo(device, "list")  m == Top(d) IN
     device' = Forget(Ask(Change(d, m, [d.page[m] EXCEPT !.busy = "create"]), m, "create"))
  /\ Local

(* handleDecline of the notice.                                            *)
DeclineNotice(n) ==
  /\ device.page[n].kind = "notice"
  /\ ~Masked /\ CanAsk
  /\ HasRoom(device)
  /\ device' = Forget(IF Len(device.stack) > 1 THEN NavigateBack(device)
                     ELSE RedirectTo(device, "list"))
  /\ Local

(* The buttons of the consent stage and of the detail page.                *)
AcceptButtons(p) == IF p.reuse THEN {"reuse"} ELSE {"agree", "refuse"}

DetailButtons(p) ==
  {"delete"} \cup {op \in {"remind", "renew", "replace", "cancel"} :
    /\ role = "initiator"
    /\ \/ op = "remind" /\ p.view.status \in Expirable \ {"invite_created"}
       \/ op = "renew" /\ ~p.view.renewed /\ p.view.status \in Expirable \cup {"expired"}
       \/ op = "replace" /\ ~p.view.replaced /\ p.view.status = "declined"
       \/ op = "cancel" /\ p.view.status \in Expirable}

Press(n) ==
  LET p == device.page[n] IN
  /\ Shown(p) /\ p.busy = "none"
  /\ ~Masked /\ CanAsk
  /\ \E op \in CASE p.kind = "accept" -> AcceptButtons(p)
                 [] p.kind = "detail" -> DetailButtons(p)
                 [] OTHER -> {} :
       device' = Ask(Change(device, n, [p EXCEPT !.busy = op]), n, op)
  /\ Local

(* handleAnswerAgain.                                                      *)
AnswerAgain(n) ==
  /\ device.page[n].kind = "accept" /\ device.page[n].reuse
  /\ ~Masked /\ HasRoom(device)
  /\ device' = Forget(RedirectTo(device, "questionnaire"))
  /\ Local

User ==
  /\ acts < MaxActs /\ acts' = acts + 1
  /\ LET n == Top(device) IN
     \/ Visit(n)   \/ GoBack           \/ PullDown(n)      \/ Retry(n)
     \/ Press(n)   \/ AgreeToNotice(n) \/ DeclineNotice(n) \/ AnswerAgain(n)

-----------------------------------------------------------------------------

NoDevice == [stack |-> << >>, page |-> [n \in Slot |-> Fresh("elsewhere")], calls |-> EmptyBag]

(* From the home page to the list; from a shared card; or an invitee whom  *)
(* the questionnaire left on the detail page, having submitted.  Who sent  *)
(* the card or submitted has acted.                                        *)
Init ==
  /\ missed = FALSE
  /\ \/ /\ role = "initiator" /\ invite = NoInvite
        /\ consented = FALSE /\ acts = 0
        /\ device = NavigateTo(NoDevice, "list")
     \/ /\ \/ role = "invitee" /\ acts = 0
           \/ role = "initiator" /\ acts = 1
        /\ invite = [NoInvite EXCEPT !.status = "invite_created"] /\ consented = FALSE
        /\ device = NavigateTo(NoDevice, "accept")
     \/ /\ role = "invitee" /\ invite = [NoInvite EXCEPT !.status = "completed"]
        /\ consented = TRUE /\ acts = 1
        /\ device = NavigateTo(NoDevice, "detail")

Calls == BagToSet(device.calls)

(* What is due: calls under way and timers that are set.                   *)
System ==
  \/ \E c \in Calls : Serve(c) \/ PersistConsent(c)
  \/ \E c \in Calls : Receive(c)
  \/ \E n \in Slot : PollTimerFires(n)
  \/ \E n \in Slot : LeaveAfterDelete(n)

Next ==
  \/ User
  \/ System
  \/ \E c \in Calls : Lose(c)
  \/ Elsewhere

Spec == Init /\ [][Next]_vars

(* A call is served and comes back, or times out and comes back as lost; a *)
(* timer that is set fires.  The user, the partner and the worker owe      *)
(* nothing.                                                                *)
FairSpec == Spec /\ WF_vars(System)

-----------------------------------------------------------------------------
(* What holds.                                                             *)

(* The questionnaire of an invitation is never on the user's screen before *)
(* the server has recorded the consent (R8), whatever was lost, late,      *)
(* renewed or deleted; but for an agreement whose UPDATE missed, which is  *)
(* answered all the same.                                                  *)
QuestionnaireNeedsConsent ==
  \A n \in Range(device.stack) : device.page[n].kind = "questionnaire" => consented \/ missed

(* Polling ends ("超时后停轮询"), closed pages included: once the user lets *)
(* the device alone, no call, poll or redirect of it keeps coming.         *)
PagesFallSilent == <>[](\A n \in Slot : Silent(device, n) /\ ~device.page[n].polling)

-----------------------------------------------------------------------------
(* What a comment says, and the code does not keep.                        *)

(* invite.service.ts:1147: "并发/重试导致 affected = 0 时视为幂等", the     *)
(* record being the first one's.  When the invitation was cancelled,       *)
(* expired, was deleted or was refused on another device in between, there *)
(* is no first: the agreement is answered as given, and the questionnaire  *)
(* opens.  It takes no answers (assertAnswerable; ConsentEvidence).        *)
MissedWasRecorded == ~missed
=============================================================================
