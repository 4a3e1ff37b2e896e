# A TLA+ verification of zhiban

zhiban (知伴) is a relationship self-assessment service: a NestJS server
(`src/server`), a WeChat mini-program (`src/miniprogram`) and an admin web UI
(`src/admin`). Two people answer a questionnaire, one invites the other, and a
worker compares the two sheets. This directory models the parts of the system
that decide something under concurrency or by computation, checks them with TLC
on small instances and proves the main results for every instance with TLAPS.
Server paths below are relative to `server/src/modules` unless said otherwise.

Two server processes share one MySQL, one Redis and BullMQ (a job queue in
Redis). An HTTP handler is an `async` function: between any two of its awaits
other handlers, other processes and background jobs run. Almost no handler
holds a lock across an await, so the unit of atomicity is *one* SQL statement,
*one* transaction, *one* Redis command. On a device the unit is the callback:
what a page does between two awaits. The models are written at that grain.

## 1. Inventory

| Component | State it keeps | Operations | What is hard, and what makes it correct |
|---|---|---|---|
| **Invite handlers** (`invite/invite.service.ts`) | tables `invite`, `answer_snapshot`, `consent_log`; the Redis cooldown | create, replace, renew, cancel, deletePairingData, remind, open, consent, openSheet, saveDraft, submit, reuse; lazy expiry in every read | Each loads a row, tests it, writes later. No data of the invitee without recorded consent; status only along its machine; the first invitee keeps the link; one replacement; reminder budget |
| **Expiry job** (`invite/invite-expire.processor.ts`) | – | one UPDATE per hour | Races everything above; no overdue invite stays open |
| **Report queue and ledger** (`queue/`, `report/report-record.service.ts`) | tables `report`, `job_task`; BullMQ job `report-<id>` | ensurePending, open, markRunning/Ready/Retrying/Failed/Done | Find-then-insert from several processes |
| **Report worker** (`invite/report-generate.processor.ts`, `invite/double-report-generator.service.ts`) | the run in progress | process, generate, markInviteUnlocked | Retries, stalls, a process dying between two writes, two runs of one job; unlocked means there are conclusions |
| **Engines, rendering** (`server/src/engines`, `report/`, `pages/report/*.vue`) | none | scoring, comparison, layers of the report | Thresholds (D6); nothing said of what somebody refused to answer; a layer shows no more than it may |
| **Answer sheets** (`assessment/`) and **answering page** (`pages/assessment/assessment.vue`) | table `answer_sheet`; the page and its local draft | start, saveDraft, submit, supplement; answering, skipping, debounced saves, hide, kill, conflict | Draft version tested on a loaded row, written by id (A3); submitted sheets are locked (B5); answers that arrive out of order |
| **Orders** (`payment/order.service.ts`) | table `order`, a Redis reuse key | create, prepay, handleNotify, recover, refund, closeOverdue, checkWithGateway | Notifications repeated, late, lost; a refund's answer lost, or saying that it is not over; close against payment; Redis down |
| **Entitlements, coupons** (`payment/entitlement.service.ts`, `coupon.service.ts`) | tables `entitlement`, `coupon` | grant, revokeBySourceRef, grantManually, redeem | Look-then-insert in transactions that do not lock the buyer |
| **Gateways** (`payment/gateways/`) | external | prepay, parseNotify, queryOrder, refund | – |
| **Login sessions** (`auth/`, `common/guards`) and **mini-program login** (`miniprogram/src/utils`) | one Redis key per session; token and consent on the device | login, refresh, logout, guard with sliding renewal; silent login and replay after 401 | A logout against requests under way; Redis failing; late 401s |
| **Exclusive cards** (`topic/exclusive-card.service.ts`) | table `exclusive_card`, a Redis lock | read, generate | Lock with a TTL, deleted without owner check; the report becomes ready or the pairing is deleted meanwhile |
| **Topics** (`topic/topic.service.ts`, `pages/topic/detail.vue`) | tables `topic`, `topic_card`, `topic_read_progress`; the page | getDetail, saveProgress, edits, seed | Reports of the place that are throttled, lost, overtaken |
| **Invitation pages** (`pages/invite/*.vue`, `pages/report/double.vue`) | the stack of pages and their timers | every button, poll timers, delayed redirects | Closed pages whose calls and timers live on |
| **Redis primitives** (`redis/redis.service.ts`) | keys | setIfAbsent, allowBySlidingWindow, delByPrefix, JSON cache | An error looks like a taken key |
| **Console: configuration** (`admin/admin-config.service.ts`, `admin/src/views/settings/BrandSiteView.vue`) | table `sys_config`, its entries in `audit_log`; the table, switch and dialog of each tab | list, update, upload; switch, edit, save, reload | Answers that come while a dialog is open; TypeORM's save reads, compares and writes; the trail must lead to the row |
| **Console: signing in** (`admin/admin-auth.service.ts`, `admin/guards`, `admin/src/stores`, `router`, `api/http.ts`) | `admin_user.totp_secret`, the waiting secret and the sessions in Redis; one token in localStorage, a store and a page per tab | login, logout, profile, setup and enable of the second factor, reset script; navigation guard | Several tabs share the token; a secret is offered anew while a code is verified; calls answered after the page is gone |
| **Accounts, admin payment and content, rate limits, content review, other pages, deploy** | read-mostly rows | – | – |

`PROJECT.json` repeats this list with the status of each part, and lists the
hazards of the code at the lines where they bite.

## 2. What is modelled

| Module | Models |
|---|---|
| `ReportQueue` | What handlers and worker share about one pairing's report: the report row, its ledger rows, the BullMQ job |
| `Invite` (EXTENDS `ReportQueue`) | The invite handlers, the expiry job, the invite sheet |
| `ConsentFirst` | The abstract promise: answers are kept only after recorded consent, a pairing counts as complete only while answers are kept |
| `ReportJob` (EXTENDS `ReportQueue`) | The consumers of the report queue |
| `Pairing` (EXTENDS `Invite`, INSTANCE `ReportJob`) | Both together on the same rows |
| `Payment` | Orders, entitlements, coupons, the gateway's view of an order |
| `Assessment` | The answer sheets of one user, and the answering page of each of their devices |
| `Scoring`, `Comparison` | The engines, as operators |
| `CardContent` | What an exclusive card is written from: the choice of dimension and disagreement, prompts, the calls of the model, the fallback |
| `Rendering` (EXTENDS `CardContent`) | From two sheets to what each reader is shown |
| `ShippedContent`, `ShippedTopics` | The shipped questionnaire, type test, rule, templates and topics, as values of the constants above |
| `Access` | One device's login state: mini-program, guard, sessions |
| `ExclusiveCard` | Requests for one topic's exclusive card, the lock and the pairing |
| `TopicReading` (EXTENDS `ExclusiveCard`) | A reader's devices, the progress row, the administrators' edits |
| `InvitePages` | The stack of invitation pages of one device |
| `ConfigEditing` | One row of the configuration, its trail, and the tabs of the console that edit it |
| `ConsoleLogin` | Administrators signing in to the console and binding their second factor |
| `MC*` | Instances for TLC |
| `*Proofs` | Theorems (section 5) |

### How the models correspond to the code

*Handlers.* A worker `w` is one handler in flight. `req[w]` is its position
(`pc`, the await it is at), its parameters and, where the code later writes
what it computed from a loaded row, that row (`seen`). The first action of a
handler (`StartX`) is its load and all its checks; each following action is
one await. In the code every check between two awaits uses values loaded
before, and so it does here. A handler that rejects its request changes
nothing and is left out, with the one exception of the code: loading an
overdue row expires it (`LoadOverdue`, `LazyExpire`). `Fail(w)` stops a handler
between any two awaits: a restart, a database error, a closed connection.
A transaction is one action, or, where it reads before it writes and other
transactions can come between, a read and a commit (`Settle`/`CommitSettle`,
`ClaimCoupon`/`CommitRedeem`); row locks held in between are the guards
`Unlocked` and `Claimed`.

*Rows.* An invite row keeps what the properties tell apart: who, status,
`renewed_count`, `remind_count`, whether `expire_at` has passed (`due`), and
which declined invite it replaces. An UPDATE with a WHERE on the status is
`MoveStatus`; one by id alone writes unconditionally. Invite ids are never
reused (`used`). A sheet is empty, saved, submitted or deleted; answers are
abstracted to which way they came (`own`, `reused`). The draft version is not
in `Invite`, where any load of a draft may be refused instead; it is in
`Assessment`. The Redis cooldown is a set of users; it elapses only when none of
their creations is in flight, which is the assumption the code's ten seconds
stand for, and the one on which `ReplacedOnce` and `OneActiveUnlessRenewed` rest.

*The worker.* A run of a consumer is at one of the awaits of `process()` and
`generate()`. BullMQ is external and modelled by what the code relies on: a job
id already in the queue is not added again, an active job belongs to the
consumer whose lock is on it, a failed attempt is queued again until
`REPORT_GENERATE_ATTEMPTS`, a job whose lock was not renewed is stalled and
given out once more, the second stall drops it. `faults` says what goes
wrong: a computation that throws, a MySQL or Redis error at any await, a crash,
a lock lost while the process is still at work.

*Payment.* All lookups of the code are keyed by user and product together, so a
buyer is such a pair. `bill[o]` is the gateway's state of an order; a
notification can arrive any number of times, at any time after the payment.
A refund that the gateway took up is under way (`reversing`) until the money is
back (`returned`): the gateway's answer has a status, which may be PROCESSING,
ABNORMAL or CLOSED and which `refund` does not read, so no handler knows the one
from the other; and the answer may be lost. A reuse key may expire at any time; `redisFails` lets Redis answer with an error, which
`setIfAbsent` reports as a taken key.

*Pages.* The page of `Assessment`, `TopicReading` and `InvitePages` is the
record of its reactive state; calls under way are records in numbered slots,
answered in any order, late, or never. A server handler that only such a page
reaches is a load and a write by id where the code has an await between
(`Assessment`, `TopicReading`), and one step in `InvitePages`, because `Invite`
has its awaits; only the consent is a load and a conditional UPDATE there too
(`Serve`, `PersistConsent`), as the page is told that it was given even when the
UPDATE missed (`missed`). In `Access` a token is the number it was signed under;
a login names a new session, a refresh signs another token of the same one. The
login page logs in on its own flag, which it takes from the stored consent when
it opens and sets when its own box is ticked, without storing anything (`page`);
`willing` is history, the user's last word on the policy wherever it was given.
`withdrawn` is a login page whose flag outlived a refusal of the policy given
elsewhere, in a dialog over it.

*Console.* In `ConfigEditing` what matters is which object of the page a thing
refers to: the table's row, the one the dialog was opened on (`subject`) and the
one a switch waits for may be one JavaScript object or several, so a page has
numbered `object`s; `items.value[index] = updated` takes a new number (`Replaced`)
and `Object.assign(row, updated)` writes into the old one (`Assigned`). `touched`
and `moved` are history. A PATCH is handled at the awaits of `update`: the load, the two
statements of TypeORM's `save` (it selects the row again and updates the columns that
differ), the INSERT into `audit_log`. In `ConsoleLogin` a dynamic code stands
for the secret of the authenticator it was read from (`scanned`), a session for
its token, and a call in `line` carries which await of its page it belongs to
(`then`), so that a navigation that is overtaken, a page that is left and a tab
that is loaded again each keep what the code keeps of the call.

*Engines.* Scores are counted in tenths of a point, which is what the engines
round to. Where the code compares differences of floating-point numbers (the
choice of a card's dimension) tenths are exact and the code need not be.
`Rendering` has one action per thing that is
computed and stored; a behaviour ends with the one thing that is read.

## 3. What each run checks

| Run | Instance | Properties |
|---|---|---|
| `InviteAnswers` | Two deployments, two handlers in flight: one invite with create, open, consent, openSheet, saveDraft, submit, reuse, cancel, delete; and three ids with create, replace, cancel, open, decline by one creator | `ConsentEvidence`, `CompletedHasSnapshots`, `ReplacedOnce`, `OneActiveUnlessRenewed`, `KeepsPromise`, `StatusFollowsMachine` |
| `InviteLink` | One invite, three users, two handlers, fair scan: create, open, consent, decline, renew, remind, cancel, delete | `OneAnswerRecorded`, `RefusedCostsNothing`, `InviteeNeverReplaced`, `OverdueEnds` |
| `Pairing` | Three deployments with two consumers and two attempts: database errors and crashes against reuse and delete; stalls against reuse, cancel and delete; failing computations with two handlers that finish the invite | `ConclusionsStand`, `FailedHasTicket`, `PendingResolves` |
| `Payment` | Two deployments, two handlers: WeChat Pay with two orders of one buyer and Redis failing; the free gateway with two buyers, one coupon, manual grants | `OneGrantPerOrder`, `RefundTakesBack`, `StatusFollowsGateway`, `PaidHasAccess`, `BackedEntitlement`, `CouponSpentOnce` |
| `Assessment` | One ordinary and one sensitive question, in two deployments: two devices with one request each under way and six acts; one device with two requests under way and five acts | `NothingKeptForSkipped`, `LockedAnswersScored`, `SameVersionSameAnswers`, `LockedChangesOnce` |
| `Rendering` | The shipped content, two families of sheets, edited templates, every result of the type test | `NothingFromSilence`, `EnginesAreExact`, `LayersHold`, `ShippedTemplatesFit` |
| `Access` | Five deployments: two flows and two tokens of the mini-program, without the login page, and with it while tokens do not age and Redis is up; two tabs that edit one row, three edits and two calls under way; two administrators in one tab, four clicks; one administrator in two tabs, three clicks | `LogoutEndsSession`, `ReplayIsAuthorised`, `EndedStaysEnded`, `LoginNeedsConsent`; `OnlyWhatWasTouched`, `EditsTraced`; `NeverLockedOut` |
| `Topic` | Three deployments: two requests for a card; two devices of a reader; one device while the cards are edited | `OneGenerator`, `OwnCardOnly`, `ProgressIsJoin`, `PlaceKept` |
| `InvitePages` | Three pages in memory, one call besides polls, three acts | `QuestionnaireNeedsConsent`, `PagesFallSilent` |
| `CancelKeepsReport`, `ProgressNeverBack`, `RefundedIsPaidBack` | violated | see section 4 |

The properties in one sentence each:

* `ConsentEvidence` – sheets, snapshots, reports and every status past the
  consent exist only with the invitee's consent in `consent_log`, and a declined
  invite has its refusal there.
* `KeepsPromise` – the same, and what "complete" means, as a refinement of
  `ConsentFirst`: `agreed` maps to invites with consent evidence, `kept` to those
  with an invitee sheet or snapshot, `complete` to completed and unlocked ones.
* `StatusFollowsMachine`, `PairingStatusFollowsMachine` – a step moves a status
  along the edges the handlers implement; the only exception is `renew`'s write,
  which is by id and can undo whatever happened since its load.
* `CompletedHasSnapshots` – completed means the report can be produced.
* `OneAnswerRecorded` – without a renewal the invitee answers the consent
  question once, from however many devices. After a renewal they may be asked
  again (`resolveRevivedStatus` goes back to `invite_opened` if there is no sheet).
* `InviteeNeverReplaced` – the first invitee keeps the link, the initiator never
  becomes their own invitee, a deleted invite never comes back.
* `ReplacedOnce`, `OneActiveUnlessRenewed` – the count, the cooldown and the
  active check together keep racing creations apart.
* `RefusedCostsNothing` – the reminder count is at most the budget and at most
  what WeChat delivered.
* `OverdueEnds` – an overdue invite leaves the open statuses or gets a new
  deadline.
* `ConclusionsStand`, `FailedHasTicket`, `JobsDrain`, `PendingResolves` –
  whichever runs of a job overlap, an unlocked pairing has conclusions that rest
  on consented answers; a failed report has a failed ledger row, which is the
  operators' work order; jobs end; while processes stay up a queued pending
  report is resolved.
* `OneGrantPerOrder`, `RefundTakesBack`, `StatusFollowsGateway`, `PaidHasAccess`,
  `BackedEntitlement`, `CouponSpentOnce` – entitlements match money and coupons:
  paid means the gateway took the money, refunded that it took the refund up
  (whether the money came back is not known to the code, see section 4).
* `NothingKeptForSkipped`, `LockedAnswersScored`, `LockedChangesOnce`,
  `SameVersionSameAnswers` – a sheet keeps nothing its owner refused; what is
  locked is complete, scored, and changes once; a page at rest with the sheet's
  version shows nothing the server does not have. `LockedAnswersScored` and
  `LockedChangesOnce` except sheets that a request wrote over without having
  seen them (`stale`), which the code allows: it tests the version of a loaded
  row and writes by id. `SameVersionSameAnswers` is said of pages whose own
  requests did not overlap (`overlapped`): see `PendingUntilSaved` in section 4.
* `EnginesAreExact`, `NothingFromSilence`, `LayersHold`, `ShippedTemplatesFit` –
  scores, levels, lists and the dimension of a card against reference
  definitions; what was not answered is never scored, compared or told the
  model; what a layer may show; the shipped templates leave no hole.
* `LogoutEndsSession`, `EndedStaysEnded`, `ReplayIsAuthorised`,
  `LoginNeedsConsent` – a logout that reports success leaves nothing usable; an
  ended session stays ended; a replay uses its own login; no login starts, on any
  path, unless the user's last word on the privacy policy was yes – in the
  device's storage or on the login page itself – but for a login page that was
  open when the policy was refused elsewhere.
* `OnlyWhatWasTouched` – a dialog's form differs from its row only where the
  administrator touched it, so that a save does not send back what others
  changed, whatever is answered while it is open; except after a switch's answer
  changed that very row or an upload of an earlier dialog that form (`moved`).
* `EditsTraced` – as long as no two edits overlapped and no entry was lost
  (`disturbed`) the audit trail leads, entry by entry, to the row as it is.
* `NeverLockedOut` – the secret an account asks codes of is one an authenticator
  has, although secrets are offered anew while a code is verified.
* `OneGenerator`, `OwnCardOnly` – one request at a time calls the model for a
  scope, and nobody is shown another scope's card.
* `ProgressIsJoin`, `PlaceKept` – the progress row is the join of the reports
  handled one at a time; a reader's furthest place survives closing the page.
* `QuestionnaireNeedsConsent`, `PagesFallSilent` – no questionnaire opens before
  the consent is recorded, but for an agreement whose UPDATE missed; a device the
  user lets alone stops calling.

### Bounds

`RenewMax`, `RemindMax`, `ReplacementMax`, `Attempts`, `MaxAttempts` are the
code's limits, set to 1, 1, 1, 2, 2: a limit of one is reached soonest and a
second attempt is the first that repeats. `MaxSent` bounds the reminders WeChat
delivers (two, one more than the budget, so that a race can exceed it);
`MaxRows` the rows of `entitlement`; `MaxSheets` the sheets of a user; `MaxTokens`
the tokens signed; `MaxCalls`, `Slot` the calls under way and the pages in
memory (two calls of one page are the least that can overtake each other);
`MaxEdits` (of `Access`), `MaxClicks` what administrators do in the console, `Together` and
`Reader` how much less of it where there are two tabs (one of which reads and turns
switches only), `MaxSessions` and `MaxSecrets` what the server creates for them:
three edits are a touch and a save with a switch, a list or another tab's edit
beside them; four clicks are a login, a code, and a new secret, a reload or a
reset in between;
`MaxActs` the user's acts, `Fewer` how many of them the deployment with
overlapping requests is without; `MaxEdits` (of `Topic`) and `Prepared` how edits and
acts share one deployment. Races in this code are between a load and a write of
two handlers, and two workers with `Fail` give every such pair, again and again.
Three ids are a declined invite and two that could derive from it. Ledger rows
need no bound: each is inserted by a handler that found none.

`MCPairing` starts with one invite that Ann created and Bob consented to, a
state the runs of `Invite` reach, to leave room for the worker. Deployments
(`MCInvite`, `Pairing`, `Payment`, `MCTopic`) put several instances into one run:
the first state chooses which operations and faults there are. `MCRendering`
does not enumerate all sheets of 76 questions: in one family the answers to the
refusable dimension vary, with every mean on and next to the thresholds; in the
other everything else does. `CHECK_DEADLOCK FALSE` everywhere: clients may stop
asking and ids are finite.

### Fairness

* `ExpireScan`: weakly fair – a repeating BullMQ job.
* Consumers' awaits, taking a waiting job, and the stalled check on jobs nobody
  works on: weakly fair – consumers poll, and BullMQ repeats the check.
* Handlers: weakly fair in `MCPairing` only, each single await; `Fail` remains
  possible at any time.
* `InvitePages`: the system's steps together – answers come or fail (the
  mini-program's requests time out), timers fire. Nothing of the user.
* Nothing is assumed of clients, of gateways, of clocks elsewhere.

## 4. Where the code departs from what is said of it

Three runs expect a violation, each of one sentence of the repository (quoted in
`PROJECT.json`):

* `CancelKeepsReport`: `cancel` accepts `completed`, which is in
  `ACTIVE_INVITE_STATUSES`; its comment says it must not.
* `ProgressNeverBack`: `saveProgress` writes the maximum with a row it read
  earlier, so of two reports handled at the same time the older may win.
* `RefundedIsPaidBack`: an order is `refunded`, and its entitlement gone, as soon
  as the gateway answers, whatever the status in its answer, which
  `WechatGateway.refund` passes on with PROCESSING as its default; `api.md` says
  only after the refund succeeded. An ABNORMAL or CLOSED refund is never looked
  at again.

Others are stated in the modules without a run of their own; TLC finds each of
them violated: `OneActiveInvite` (`renew` revives an expired invite beside a
newer one), `DivergenceInPrompt` (`pickDivergence` wants labels that scale
questions never have, so no prompt names a disagreement), `MissedWasRecorded` (an
agreement whose UPDATE missed, the invitation having been cancelled, refused,
deleted or overdue by then, is answered as given with nothing in `consent_log`,
and the questionnaire opens; the server takes no answers there),
`RefundedIsProcessed` (a repeated notification settles a refunded
order again), `SubmitsLatest` (a conflict between the tap and the submission
makes the page submit what it reloaded), `InviteeSeesNoScores` (a template
edited for the invitee's layer may show scores), `GuestUntilAgreed` (a login
under way stores its token after the policy was refused), `LoginAsksStorage` and
`AgreementKept` (the login page logs in on a flag of its own: whoever ticks the
box there logs in without the agreement being stored, and is asked again at the
next launch), `PendingUntilSaved`
(the answer to an older save takes back the mark a newer save, which failed, had
set: what was answered last is then only on the device), `GeneratedOnce` and
`DeletedStaysDeleted` (a card is generated again after its lock was freed, and
saved for a pairing deleted meanwhile), `OnlyChangedFields` (a switch's late answer
changes the row under an open dialog, and an image uploaded in one dialog fills
the form of the next, so that the save sends what nobody touched).

Behaviours of the models that no sentence denies are listed as hazards without
a property, each with its line: an expiry that undoes a renewal, reminders
beyond the budget, a snapshot overwritten when reuse and submit race, a
completed invite whose report is never queued because its handler stopped in
between, a daily reconciliation that sees one page of paid orders only. Smaller
things met while modelling: the console may show one administrator's name beside
another's token, because a profile asked for before a new login is answered after
it (`stores/auth.ts:29`), and a late refusal clears a newer token (`http.ts:114`);
overlapping edits of one row leave a trail that tells of a state the row never
had; `last_order_no` is an index of the swiper, not a
card's order; unlocking a card reloads the page and throws the reader back to
the stored place; the redirect after a deletion replaces whatever page is on top
by then; the notice opened from `accept.vue` lets an invitee create an
invitation of her own; `open` refuses an expired invite to its initiator too;
`saveDraft` marks an invite `answering` before a save that may be refused;
seeding again recreates a card that was moved to another order.

## 5. What is proved

Each theorem holds for every value of the constants under the module's named
assumptions: `InviteAssumption`, `NoneIsNoId`, `NoneIsNoAnswer`,
`PairingAssumption`, `PaymentAssumption`, `AssessmentAssumption`,
`AccessAssumption`, `CardAssumption`, `ReadingAssumption`, `PagesAssumption`,
`NoneAssumption`, `ScoringAssumption`, `TypeAssumption`, `ThresholdAssumption`,
`CardContentAssumption`, `NoneIsNoPrompt`, `RenderingAssumption`,
`EditingAssumption`, `ConsoleAssumption`. They say that
NULL is no user, id, code, worker, process, answer, number, dimension or prompt,
that there is a tab, that the page's switch and picture are columns of the row
and stored text is not changed by being stored again, that no question is both
ordinary and sensitive, that limits are numbers
(those of attempts, calls, sheets, pages and acts at least one), that deployments
name existing faults and handlers, that the seed's orders are within the bound
of the admin form, that a questionnaire is finite, and that each pole of the type
test has six questions and each combination a name of its own; TLC evaluates them
in every run that uses them. `EnginesExact` has one hypothesis more,
`ShortOrWhole`, which is assumed of the shipped content and evaluated there.

| Proof module | Theorems (property) | Inductive invariant |
|---|---|---|
| `InviteProofs` | `TypeCorrect`; `ConsentRecorded` (`ConsentEvidence`); `CompletedSnapshots`, `OneAnswer`, `RefusalsCostNothing`, `InviteeKept`, `StatusesFollow`, `KeepsThePromise`; `ReplacementsBudgeted`, `OneInProgress` | `Typed`; `EvidenceInv`; `RowInv`; `CreationInv` |
| `PairingProofs` | `PairingTypeCorrect`, `ConclusionsAlwaysStand`, `PairingStatusesFollow`, `HandlersStandBesideWorker`, `PairingKeepsThePromise`; `FailuresHaveTickets` | `PairingInv`; `TicketInv` |
| `AssessmentProofs` | `TypeCorrect`, `NothingKept`, `ScoresFollowAnswers`, `SameAnswers`, `ChangesOnce` | `AnswersInv` |
| `PaymentProofs` | `TypeCorrect`, `StatusesFollowTheGateway`, `EntitlementsAreBacked`, `RefundsTakeBack`, `PaidHaveAccess`, `OrdersGrantOnce`, `CouponsSpentOnce` | `PaymentInv` |
| `AccessProofs` | `TypeCorrect`, `LogoutEnds`, `ReplayAuthorised`, `EndedStays`, `ConsentForLogin`; `ConfigTypesHold`, `OnlyWhatWasTouchedHolds`; `EditsTracedHolds`; `ConsoleTypesHold`, `NeverLockedOutHolds` | `AccessInv`; `FaithfulDialogs`; `TracedInv`; `ConsoleInv` |
| `TopicProofs` | `OneGeneratorAtATime`, `OwnCards`; `ReadingTypes`, `ProgressJoined`, `PlacesKept` | `CardInv`; `ReadingInv` |
| `PagesProofs` | `PagesTypeCorrect`, `ConsentBeforeQuestionnaire` (`QuestionnaireNeedsConsent`) | `PagesInv` |
| `RenderingProofs` | `EnginesExact` (`EnginesAreExact`), with `ScoresAreMeans` and `PromptsAreExact` for its parts; `SilenceSaysNothing` (`NothingFromSilence`), `LayersKept` (`LayersHold`) | `RenderingInv` |

*Why the properties are not inductive.* They speak of rows, and what makes a row
right is what the handler that wrote it knew when it was let in, several awaits
earlier. So each invariant says what a handler in flight knows at each await,
and the proof shows that no step of another handler makes it false.

* `Typed`: `TypeOK`, and a handler past its load has an existing id, user and
  sheet index of the right type.
* `EvidenceInv`: every handler on the answering path was let in while consent
  was on record, a renewal in flight holds an expirable status or one backed by
  evidence, and `consent_log` only grows. Renewal and deletion need thought.
* `RowInv`: what each handler still knows of the row it loaded (`Aware`). Of a
  deleted invite it knows nothing, but ids are never used again, so its writes
  miss. `Effect` says what any step may do to a row, its evidence and its
  snapshots; each action is looked at once and the theorems follow from it.
  `KeepsThePromise` is the refinement: the initial states map to initial states
  and each step to a step of `ConsentFirst` or to none, the step being found by
  what it does to one invite.
* `CreationInv`: of one user's handlers at most one is past the creation window,
  and one still before it is turned away while that one is in flight; so what a
  creation counted still holds when it inserts. It rests on the modelling of the
  cooldown (section 2): a creation that outlasts ten seconds is outside it.
* `PairingInv`: `RowInv`, and what each run of the report job knows
  (`Informed`): the basis it has collected was consented to, and the report it
  has written is there as long as its invite is, since only a deletion takes a
  report away. A consumer changes an invite in one way (`Unlocks`) and never a
  snapshot, so it keeps `RowInv`, and everything proved of the handlers alone
  carries over to the whole pairing, the refinement of `ConsentFirst` included.
* `TicketInv`: while processes, locks and database stay up, the run that holds a
  job's lock is its only run and its ledger row has not failed; so the row it
  marks in its last attempt is one `markFailed` does mark, and a report that has
  failed has its ticket or a run about to write it. With any of the other faults
  this is not so, and `FailedHasTicket` does not claim it.
* `AnswersInv`: what a request that was let in knows of the row it loaded
  (`Admitted`), what a page knows of the sheet at the version it holds (`Level`),
  and that a row which was seen is at the same version still what is stored
  (`Known`): a write that is not blind raises the version (`Grows`). Of a page
  it says what the one request it waits for carries; two under way at once are
  what it cannot follow, and what `overlapped` records.
* `PaymentInv`: a notification, a query or a refund carries what it found out
  from one await to the next (`Knows`); no step takes back what was paid, who
  placed an order or whose an entitlement is, nor a refund that was taken up (`Kept`); the row locks keep two
  settlements of one order and two redemptions of one coupon apart (`Alone`).
* `AccessInv`: what a flow knows at each await in terms of the tokens that still
  open something, a set that never regains a token signed before; and what the
  stored consent and an open login page say of the user's last word (`Said`),
  which every path that starts a login asks one of the two for.
* `FaithfulDialogs`: an open dialog has a row, and what replaces the table's row
  takes a number that neither it nor a waiting switch refers to (`Unused`), so
  that of all answers only a switch's can change the dialog's row.
* `TracedInv`: until something is disturbed at most one handler is past its load,
  and at each of its awaits the row is what the trail tells (`Told`) or, after the
  UPDATE, what the handler is about to record; what `save` finds different from
  the row it reads again is then what differs from the row it loaded. Once
  disturbed only one thing remains, that no entry tells of a change that is none.
* `ConsoleInv`: only a call that enables the second factor reaches the step that
  stores a secret, and the code it carries was read from an authenticator
  (`Sound`); what it stores is the secret it verified the code with, not the one
  that waits by then.
* `CardInv`: a request holds the lock of its scope from `setIfAbsent` to `del`.
  It rests on the model's `ExpireLock`, which needs a request that is gone: the
  lock's 60 seconds outlast two calls of the model at 20 seconds each.
* `ReadingInv`: what reports on their way, open pages and the row say, ordered
  by the join; the row has the join of what was handled unless two reports were
  handled at once, and what a page still has to tell is on its way or on its timer.

* `PagesInv`: a page acts on its copy of the invitation, which may be old or come
  from a call that was overtaken. But consent is never taken back, so a copy in
  which the invitee is past the consent stays as right about that as it was when
  it was made (`Told`). Copies of the row were right, since the row says so only
  with the record there, the status a renewal restores included (`RowSound`); the
  answer to an agreement is no copy, and stands for a record or for a miss
  (`Agreed`).
* `RenderingInv`: the cached scores are those of the submitted sheets and the
  report is that of the scores. The rest is about the operators. A score rests on
  a fold, which `SumsExist`, `SumsAgree` and `SumsBounded` describe without an
  induction over operators: among the subsets of the finite set folded over for
  which a statement failed there would be a smallest (`SmallestSubset`), and the
  choice of the next element does not matter. `Rounding` then bounds the score's
  distance from the mean, and `TwoFirst` counts what is ahead of a question in a
  finite strict order.
* `LevelIsExact`, the part of `EnginesAreExact` that compares levels, is not true
  of any questionnaire. Two rounded scores differ by a threshold exactly when the
  means do (`AtThreshold`) if both sides answered equally many questions, or eight
  at most; with eight on one side and nine on the other a distance of 14.93 points
  rounds to 15.0, and an agreement would be reported as a difference. The shipped
  questionnaire has dimensions of nine scored questions, and what keeps them safe
  is that only the sensitive dimension, which has eight, may be answered in part
  (`ShortOrWhole`). Making a longer dimension refusable would break it.
* `NothingNamed`, a lemma on the way, shows why `DivergenceInPrompt` (section 4)
  fails for every questionnaire: a listed disagreement never has the labels a prompt asks for.

*Only model-checked.* Liveness (`OverdueEnds`, `PendingResolves`,
`PagesFallSilent`), which is out of TLAPS's reach here; and `ShippedTemplatesFit`,
a property of the shipped content and not of any other. *Only proved:*
`PairingStatusFollowsMachine`, which no run checks beside its theorem.

## 6. What is not modelled, and the plan

Not modelled, with reasons in `PROJECT.json`: read-only views and the cache of
the rendered report, amounts, signatures, append-only logs, coupon generation
and expiry, accounts and the race of two first logins, what the mini-program is
told of the configuration, the rate limit as such, the import of scales and
templates, overlapping edits of topics, quizzes and copying on a card,
the topic list and the other pages, a server that acts on a request after its
client gave up (in `Access`), the choice of a frozen template by id, deployment.

Next: what the mini-program keeps of the configuration it was told; a proof that
the abstract reading of a threshold as a list of finite cases (`AtThreshold`)
extends to other thresholds.
