----------------------------- MODULE Assessment -----------------------------
(***************************************************************************)
(* Answering a questionnaire: the answer sheets of one user and scene on   *)
(* the server (assessment.service.ts) and the answering page on each of    *)
(* the user's devices (assessment.vue) with its local draft                *)
(* (assessment-draft.ts).                                                  *)
(*                                                                         *)
(* The server tests status and draft version on a loaded row and writes    *)
(* the row by id later, so two requests may interleave between the two.    *)
(* The page sends everything it shows with every request, does not wait    *)
(* for one save before the next, and may be hidden, left or killed at any  *)
(* time.  A request may be lost, answered late or never.                   *)
(***************************************************************************)
EXTENDS Integers, FiniteSets

CONSTANTS Device,     \* devices of the user
          Ordinary,   \* questions that must be answered
          Sensitive,  \* questions of the sensitive dimension
          Value,      \* answers
          None,       \* no answer
          MaxCalls,   \* requests a device can have under way
          MaxSheets,  \* sheets that may be created
          MaxActs     \* steps the user takes

Question == Ordinary \cup Sensitive
SheetId  == 1..MaxSheets
Slot     == 1..MaxCalls

ASSUME AssessmentAssumption ==
  /\ Ordinary \cap Sensitive = {}
  /\ None \notin Value
  /\ MaxSheets \in Nat \ {0} /\ MaxCalls \in Nat \ {0} /\ MaxActs \in Nat

VARIABLES sheet,   \* table answer_sheet
          page,    \* the page on each device
          local,   \* the local draft of each sheet on each device
          call,    \* requests under way
          acts,    \* steps taken by the user so far (bounds the run)
          stale    \* history: sheets that were written by a request after
                   \* they had changed since that request loaded them

vars == <<sheet, page, local, call, acts, stale>>
-----------------------------------------------------------------------------
(* What is filled in: answers, the skipped dimension, skipped questions.   *)
Paper == [answers : [Question -> Value \cup {None}],
          dim : BOOLEAN, skips : SUBSET Sensitive]
Blank == [answers |-> [q \in Question |-> None], dim |-> FALSE, skips |-> {}]

Excluded(p) == (IF p.dim THEN Sensitive ELSE {}) \cup p.skips
Over(new, old) == [q \in Question |-> IF new[q] # None THEN new[q] ELSE old[q]]
Masked(p) == [p EXCEPT !.answers =
                [q \in Question |-> IF q \in Excluded(p) THEN None ELSE p.answers[q]]]
(* Mutant: what was stored before the question was refused is kept         *)
MergedUnmasked(old, new) == [new EXCEPT !.answers = Over(Masked(new).answers, old.answers)]
Merged(old, new) == Masked([new EXCEPT !.answers = Over(new.answers, old.answers)])
Complete(p) == \A q \in Question \ Excluded(p) : p.answers[q] # None
Valid(p) == ~ (p.dim /\ p.skips # {})

NoCache == [scored |-> FALSE]
Cache == {NoCache} \cup [scored : {TRUE}, paper : Paper, supplemented : BOOLEAN]
Scores(p, supp) == [scored |-> TRUE, paper |-> p, supplemented |-> supp]

Row == [status : {"none", "draft", "submitted"}, version : Nat,
        paper : Paper, cache : Cache]
NoRow == [status |-> "none", version |-> 0, paper |-> Blank, cache |-> NoCache]
NewRow == [NoRow EXCEPT !.status = "draft"]

NoDraft == [kept |-> FALSE]
Draft == {NoDraft} \cup [kept : {TRUE}, paper : Paper, pending : BOOLEAN]

Stage == {"closed", "loading", "open", "hidden", "error"}
Page == [stage : Stage, s : 0..MaxSheets, version : Nat,
         paper : Paper, decided : BOOLEAN, sync : {"idle", "pending"},
         timer : BOOLEAN, submitting : BOOLEAN,
         tapped : Paper,         \* history: what was shown when submit was tapped
         overlapped : BOOLEAN]   \* history: it sent a request before the last
                                 \* one was answered
Closed == [stage |-> "closed", s |-> 0, version |-> 0, paper |-> Blank,
           decided |-> FALSE, sync |-> "idle", timer |-> FALSE,
           submitting |-> FALSE, tapped |-> Blank, overlapped |-> FALSE]

Op == {"none", "start", "save", "submit", "supplement"}
Answer == {"none", "ok", "conflict", "locked", "refused"}
Call == [op : Op, at : {"sent", "insert", "loaded", "answered"}, s : 0..MaxSheets,
         version : Nat, paper : Paper, seen : Row, answer : Answer,
         heard : BOOLEAN,   \* the page still waits for the answer
         merge : BOOLEAN,   \* start: keep unsynchronised local answers
         then : BOOLEAN]    \* handleSubmit goes on after this request
NoCall == [op |-> "none", at |-> "sent", s |-> 0, version |-> 0, paper |-> Blank,
           seen |-> NoRow, answer |-> "none", heard |-> FALSE, merge |-> FALSE,
           then |-> FALSE]

Init ==
  /\ sheet = [s \in SheetId |-> NoRow]
  /\ page = [d \in Device |-> Closed]
  /\ local = [d \in Device |-> [s \in SheetId |-> NoDraft]]
  /\ call = [d \in Device |-> [k \in Slot |-> NoCall]]
  /\ acts = 0
  /\ stale = {}
-----------------------------------------------------------------------------
(* The server.  A request tests the row it loads and writes it later.      *)

Put(d, k, c) == call' = [call EXCEPT ![d][k] = c]

(* What the answer says: the row, or why the request was refused           *)
Answered(d, k, answer, s, row) ==
  Put(d, k, [call[d][k] EXCEPT !.at = "answered", !.answer = answer, !.s = s,
                               !.seen = row, !.version = 0, !.paper = Blank])

Drafts == {s \in SheetId : sheet[s].status = "draft"}
Unused == {s \in SheetId : sheet[s].status = "none"}

(* start: the newest draft, or a new sheet of the active version           *)
FindDraft(d, k) ==
  /\ call[d][k].op = "start" /\ call[d][k].at = "sent"
  /\ \/ /\ Drafts = {}
        /\ Put(d, k, [call[d][k] EXCEPT !.at = "insert"])
     \/ \E s \in Drafts :
          /\ \A t \in Drafts : t <= s
          /\ Answered(d, k, "ok", s, sheet[s])
  /\ UNCHANGED <<sheet, page, local, acts, stale>>

InsertSheet(d, k) ==
  /\ call[d][k].op = "start" /\ call[d][k].at = "insert"
  /\ \E s \in Unused :
       /\ \A t \in Unused : s <= t
       /\ sheet' = [sheet EXCEPT ![s] = NewRow]
       /\ Answered(d, k, "ok", s, NewRow)
  /\ UNCHANGED <<page, local, acts, stale>>

(* Mutant: supplement forgets that the sheet was supplemented before       *)
RefusalTwice(c, row) ==
  IF c.op = "supplement"
  THEN IF row.status = "submitted" THEN "none" ELSE "refused"
  ELSE IF row.status # "draft" THEN "locked"
  ELSE IF row.version # c.version THEN "conflict"
  ELSE IF \/ ~ Valid(c.paper)
          \/ c.op = "submit" /\ ~ Complete(Merged(row.paper, c.paper))
       THEN "refused" ELSE "none"

(* What saveDraft, submit and supplement find wrong with a loaded row      *)
Refusal(c, row) ==
  IF c.op = "supplement"
  THEN IF row.status = "submitted" /\ Excluded(row.cache.paper) # {} /\
          \A q \in Excluded(row.cache.paper) : c.paper.answers[q] # None
       THEN "none" ELSE "refused"
  ELSE IF row.status # "draft" THEN "locked"
  ELSE IF row.version # c.version THEN "conflict"
  ELSE IF \/ ~ Valid(c.paper)
          \/ c.op = "submit" /\ ~ Complete(Merged(row.paper, c.paper))
       THEN "refused" ELSE "none"

LoadSheet(d, k) ==
  LET c == call[d][k]
      row == sheet[c.s] IN
  /\ c.op \in {"save", "submit", "supplement"} /\ c.at = "sent"
  /\ IF Refusal(c, row) = "none"
     THEN Put(d, k, [c EXCEPT !.at = "loaded", !.seen = row])
     ELSE Answered(d, k, Refusal(c, row), c.s, NoRow)
  /\ UNCHANGED <<sheet, page, local, acts, stale>>

(* The patch each of the three computes from the row it loaded             *)
(* Mutant: a save does not move the draft version                          *)
SavePatchSameVersion(c, row) == [row EXCEPT !.paper = Merged(c.seen.paper, c.paper)]
SavePatch(c, row) ==
  [row EXCEPT !.version = c.seen.version + 1, !.paper = Merged(c.seen.paper, c.paper)]

SubmitPatch(c, row) ==
  LET p == Merged(c.seen.paper, c.paper) IN
  [row EXCEPT !.version = c.seen.version + 1, !.paper = p,
              !.cache = Scores(p, FALSE), !.status = "submitted"]

(* Mutant: the scores are not computed again.                              *)
SupplementPatchOldScores(c, row) ==
  [row EXCEPT !.version = c.seen.version + 1,
              !.paper = [Blank EXCEPT !.answers = Over(c.paper.answers, c.seen.paper.answers)],
              !.cache = Scores(c.seen.cache.paper, TRUE)]
SupplementPatch(c, row) ==
  LET pending == Excluded(c.seen.cache.paper)
      p == [Blank EXCEPT !.answers = [q \in Question |->
              IF q \in pending THEN c.paper.answers[q] ELSE c.seen.paper.answers[q]]] IN
  [row EXCEPT !.version = c.seen.version + 1, !.paper = p, !.cache = Scores(p, TRUE)]

Patched(c, row) == CASE c.op = "save"       -> SavePatch(c, row)
                     [] c.op = "submit"     -> SubmitPatch(c, row)
                     [] c.op = "supplement" -> SupplementPatch(c, row)

WriteSheet(d, k) ==
  LET c == call[d][k] IN
  /\ c.op \in {"save", "submit", "supplement"} /\ c.at = "loaded"
  /\ sheet' = [sheet EXCEPT ![c.s] = Patched(c, @)]
  /\ Answered(d, k, "ok", c.s, Patched(c, c.seen))
  /\ stale' = IF sheet[c.s] = c.seen THEN stale ELSE stale \cup {c.s}
  /\ UNCHANGED <<page, local, acts>>
-----------------------------------------------------------------------------
(* Requests of the page                                                    *)

Start(merge, then) ==
  [NoCall EXCEPT !.op = "start", !.heard = TRUE, !.merge = merge, !.then = then]

Request(op, pg, then) ==
  [NoCall EXCEPT !.op = op, !.heard = TRUE, !.s = pg.s, !.version = pg.version,
                 !.paper = pg.paper, !.then = then]

Free(d) == {k \in Slot : call[d][k].op = "none"}
Send(d, c) == \E k \in Free(d) : (\A j \in Free(d) : k <= j) /\ Put(d, k, c)
Unheard(c) == [c EXCEPT !.heard = FALSE, !.merge = FALSE, !.then = FALSE]
Waiting(d) == \E k \in Slot : call[d][k].heard

(* persistLocal, assessmentDraft.save                                      *)
Persisted(d, pg, pending) ==
  IF pg.s = 0 THEN local[d]
  ELSE [local[d] EXCEPT ![pg.s] = [kept |-> TRUE, paper |-> pg.paper, pending |-> pending]]
PersistLocal(d, pg, pending) == local' = [local EXCEPT ![d] = Persisted(d, pg, pending)]

SetPage(d, pg) == page' = [page EXCEPT ![d] = pg]
SendFrom(d, pg, c) == SetPage(d, [pg EXCEPT !.overlapped = @ \/ Waiting(d)]) /\ Send(d, c)
Untapped(pg) == [pg EXCEPT !.submitting = FALSE, !.tapped = Blank]

(* One more step of the user                                               *)
Act == acts < MaxActs /\ acts' = acts + 1

(* init(); also the retry button of the error view                         *)
Open(d) ==
  /\ Act
  /\ page[d].stage \in {"closed", "error"} /\ ~ Waiting(d)
  /\ SendFrom(d, [Closed EXCEPT !.stage = "loading"], Start(TRUE, FALSE))
  /\ UNCHANGED <<sheet, local, stale>>

(* A change the user makes: shown, kept locally as pending, saved after    *)
(* SAVE_DEBOUNCE_MS                                                        *)
Edit(d, p) ==
  /\ page[d].stage = "open" /\ ~ page[d].submitting
  /\ Act
  /\ SetPage(d, [page[d] EXCEPT !.paper = p, !.timer = TRUE])
  /\ PersistLocal(d, [page[d] EXCEPT !.paper = p], TRUE)
  /\ UNCHANGED <<sheet, call, stale>>

(* A question can be reached: not in the skipped dimension, and consent    *)
(* was asked for first if it is sensitive                                  *)
Reachable(pg, q) == q \in Sensitive => ~ pg.paper.dim /\ pg.decided

HandleSelect(d, q, v) ==
  /\ Reachable(page[d], q) /\ q \notin page[d].paper.skips
  /\ Edit(d, [page[d].paper EXCEPT !.answers[q] = v])

HandleSkipQuestion(d, q) ==
  /\ q \in Sensitive \ page[d].paper.skips /\ Reachable(page[d], q)
  /\ Edit(d, [page[d].paper EXCEPT !.answers[q] = None, !.skips = @ \cup {q}])

HandleUnskipQuestion(d, q) ==
  /\ q \in page[d].paper.skips /\ Reachable(page[d], q)
  /\ Edit(d, [page[d].paper EXCEPT !.skips = @ \ {q}])

HandleConsentAgree(d) ==
  /\ Act
  /\ page[d].stage = "open" /\ ~ page[d].decided /\ ~ page[d].submitting
  /\ SetPage(d, [page[d] EXCEPT !.decided = TRUE])
  /\ UNCHANGED <<sheet, local, call, stale>>

(* Refusing the dimension clears its skipped questions and saves at once   *)
HandleConsentSkip(d) ==
  LET pg == [page[d] EXCEPT !.decided = TRUE, !.paper.dim = TRUE, !.paper.skips = {}] IN
  /\ Act
  /\ page[d].stage = "open" /\ ~ page[d].decided /\ ~ page[d].submitting
  /\ PersistLocal(d, pg, TRUE)
  /\ SendFrom(d, pg, Request("save", pg, FALSE))
  /\ UNCHANGED <<sheet, stale>>

TimerFires(d) ==
  /\ page[d].timer
  /\ SendFrom(d, [page[d] EXCEPT !.timer = FALSE], Request("save", page[d], FALSE))
  /\ UNCHANGED <<sheet, local, acts, stale>>

(* onHide keeps the local draft with the flag of the last answered save    *)
OnHide(d) ==
  /\ Act
  /\ page[d].stage = "open"
  /\ PersistLocal(d, page[d], page[d].sync = "pending")
  /\ SendFrom(d, [page[d] EXCEPT !.stage = "hidden"], Request("save", page[d], FALSE))
  /\ UNCHANGED <<sheet, stale>>

OnShow(d) ==
  /\ Act
  /\ page[d].stage = "hidden"
  /\ LET pg == [page[d] EXCEPT !.stage = "open"] IN
     IF pg.sync = "pending" THEN SendFrom(d, pg, Request("save", pg, FALSE))
                            ELSE SetPage(d, pg) /\ UNCHANGED call
  /\ UNCHANGED <<sheet, local, stale>>

(* onUnload; requests under way are still answered to the page that left   *)
Left(pg) == [pg EXCEPT !.stage = "closed", !.timer = FALSE]

OnUnload(d) ==
  /\ Act
  /\ page[d].stage \in {"open", "error"}
  /\ SetPage(d, Left(page[d]))
  /\ PersistLocal(d, page[d], page[d].sync = "pending")
  /\ UNCHANGED <<sheet, call, stale>>

(* The mini-program is killed: only the local draft and what was sent stay *)
Kill(d) ==
  /\ Act
  /\ page[d].stage # "closed"
  /\ SetPage(d, Closed)
  /\ call' = [call EXCEPT ![d] = [k \in Slot |-> Unheard(call[d][k])]]
  /\ UNCHANGED <<sheet, local, stale>>

(* handleSubmit: a pending draft is saved first                            *)
HandleSubmit(d) ==
  /\ Act
  /\ page[d].stage = "open" /\ ~ page[d].submitting /\ Complete(page[d].paper)
  /\ LET pg == [page[d] EXCEPT !.submitting = TRUE, !.tapped = page[d].paper] IN
     SendFrom(d, pg, IF pg.sync = "pending" THEN Request("save", pg, TRUE)
                                            ELSE Request("submit", pg, FALSE))
  /\ UNCHANGED <<sheet, local, stale>>

(* Answering skipped questions of a submitted sheet                        *)
HandleSupplement(d, s, a) ==
  /\ Act
  /\ sheet[s].status = "submitted" /\ Free(d) # {}
  /\ Send(d, [NoCall EXCEPT !.op = "supplement", !.s = s, !.paper.answers = a])
  /\ UNCHANGED <<sheet, page, local, stale>>
-----------------------------------------------------------------------------
(* Answers to the page.  pg and c are the page and the request.            *)

Heard(d, k, op, answer) ==
  LET c == call[d][k] IN c.heard /\ c.at = "answered" /\ c.op = op /\ c.answer = answer

(* applyDetail, then what handleSubmit or applyDetail itself goes on with  *)
ApplyDetail(d, k) ==
  LET c == call[d][k]
      kept == local[d][c.s]
      useLocal == c.merge /\ kept.kept /\ kept.pending
      p == IF useLocal
           THEN [kept.paper EXCEPT !.answers = Over(kept.paper.answers, c.seen.paper.answers)]
           ELSE c.seen.paper
      pg == [page[d] EXCEPT
               !.stage = IF @ = "loading" THEN "open" ELSE @,
               !.s = c.s, !.version = c.seen.version, !.paper = p,
               !.decided = p.dim \/ \E q \in Sensitive : p.answers[q] # None,
               !.sync = IF useLocal THEN "pending" ELSE "idle"] IN
  /\ Heard(d, k, "start", "ok")
  /\ SetPage(d, pg)
  /\ Put(d, k, IF useLocal THEN Request("save", pg, FALSE)
               ELSE IF c.then THEN Request("submit", pg, FALSE) ELSE NoCall)
  /\ UNCHANGED <<sheet, local, acts, stale>>

DraftSaved(d, k) ==
  LET c == call[d][k]
      pg == [page[d] EXCEPT !.version = c.seen.version, !.sync = "idle"] IN
  /\ Heard(d, k, "save", "ok")
  /\ SetPage(d, pg)
  /\ local' = [local EXCEPT ![d][c.s] = IF @.kept THEN [@ EXCEPT !.pending = FALSE] ELSE @]
  /\ Put(d, k, IF c.then THEN Request("submit", pg, FALSE) ELSE NoCall)
  /\ UNCHANGED <<sheet, acts, stale>>

(* reloadAfterConflict; handleSubmit waits for it only after its own save  *)
ReloadAfterConflict(d, k) ==
  /\ Heard(d, k, "save", "conflict") \/ Heard(d, k, "submit", "conflict")
  /\ SetPage(d, IF call[d][k].op = "submit" THEN Untapped(page[d]) ELSE page[d])
  /\ Put(d, k, Start(FALSE, call[d][k].then))
  /\ UNCHANGED <<sheet, local, acts, stale>>

(* redirectToReport, and the redirect after a submission: the page unloads *)
RedirectToReport(d, k) ==
  /\ \/ Heard(d, k, "save", "locked") \/ Heard(d, k, "submit", "locked")
     \/ Heard(d, k, "submit", "ok")
  /\ SetPage(d, Untapped(Left(page[d])))
  /\ PersistLocal(d, page[d], page[d].sync = "pending")
  /\ Put(d, k, NoCall)
  /\ UNCHANGED <<sheet, acts, stale>>

(* What the page does about a request that failed                          *)
Failed(d, k) ==
  LET c == call[d][k]
      pg == page[d] IN
  \/ /\ c.op = "save"
     /\ SetPage(d, [(IF c.then THEN Untapped(pg) ELSE pg) EXCEPT !.sync = "pending"])
     /\ PersistLocal(d, pg, TRUE)
  \/ /\ c.op = "submit"
     /\ SetPage(d, Untapped(pg))
     /\ UNCHANGED local
  \/ /\ c.op = "start"
     /\ SetPage(d, [(IF c.then THEN Untapped(pg) ELSE pg)
                      EXCEPT !.stage = IF @ = "closed" THEN @ ELSE "error"])
     /\ UNCHANGED local

HandleRefused(d, k) ==
  /\ Heard(d, k, "save", "refused") \/ Heard(d, k, "submit", "refused")
  /\ Failed(d, k)
  /\ Put(d, k, NoCall)
  /\ UNCHANGED <<sheet, acts, stale>>

(* The page gets no answer; the request itself may still reach the server  *)
GiveUp(d, k) ==
  /\ call[d][k].heard
  /\ Failed(d, k)
  /\ Put(d, k, Unheard(call[d][k]))
  /\ UNCHANGED <<sheet, acts, stale>>

(* A request nobody waits for ends, wherever it is                         *)
Forget(d, k) ==
  /\ call[d][k].op # "none" /\ ~ call[d][k].heard
  /\ Put(d, k, NoCall)
  /\ UNCHANGED <<sheet, page, local, acts, stale>>
-----------------------------------------------------------------------------
User(d) ==
  \/ Open(d) \/ HandleConsentAgree(d) \/ HandleConsentSkip(d)
  \/ \E q \in Question, v \in Value : HandleSelect(d, q, v)
  \/ \E q \in Sensitive : HandleSkipQuestion(d, q) \/ HandleUnskipQuestion(d, q)
  \/ OnHide(d) \/ OnShow(d) \/ OnUnload(d) \/ Kill(d)
  \/ HandleSubmit(d)
  \/ \E s \in SheetId, v \in Value :
       HandleSupplement(d, s, [q \in Question |-> IF q \in Sensitive THEN v ELSE None])

Server(d, k) == FindDraft(d, k) \/ InsertSheet(d, k) \/ LoadSheet(d, k) \/ WriteSheet(d, k)

Replies(d, k) ==
  \/ ApplyDetail(d, k) \/ DraftSaved(d, k) \/ ReloadAfterConflict(d, k)
  \/ RedirectToReport(d, k) \/ HandleRefused(d, k) \/ GiveUp(d, k) \/ Forget(d, k)

Next == \E d \in Device :
          \/ User(d) \/ TimerFires(d)
          \/ \E k \in Slot : Server(d, k) \/ Replies(d, k)

Spec == Init /\ [][Next]_vars
-----------------------------------------------------------------------------
(* Type correctness.                                                       *)
TypeOK ==
  /\ sheet \in [SheetId -> Row]
  /\ page \in [Device -> Page]
  /\ local \in [Device -> [SheetId -> Draft]]
  /\ call \in [Device -> [Slot -> Call]]
  /\ acts \in 0..MaxActs
  /\ stale \subseteq SheetId

(* Whatever requests interleave, no sheet keeps an answer to a question    *)
(* its owner refused to answer, alone or with the whole dimension, and the *)
(* two kinds of refusal never overlap (ADR-013).                           *)
NothingKeptForSkipped ==
  \A s \in SheetId :
    /\ \A q \in Excluded(sheet[s].paper) : sheet[s].paper.answers[q] = None
    /\ Valid(sheet[s].paper)

(* Unless a request wrote over changes it had not seen, a submitted sheet  *)
(* is complete and its scores are the scores of the answers it holds: what *)
(* the report shows is what was answered (B5).                             *)
LockedAnswersScored ==
  \A s \in SheetId : sheet[s].status = "submitted" /\ s \notin stale =>
    /\ sheet[s].cache = Scores(sheet[s].paper, sheet[s].cache.supplemented)
    /\ Complete(sheet[s].paper)

(* With the same exception, a submitted sheet changes only once, by being  *)
(* supplemented, and only in the questions skipped at submission (B5, B7). *)
LockedChangesOnce ==
  [][\A s \in SheetId :
       sheet[s].status = "submitted" /\ sheet'[s] # sheet[s] /\ s \notin stale' =>
         /\ ~ sheet[s].cache.supplemented /\ sheet'[s].cache.supplemented
         /\ \A q \in Question \ Excluded(sheet[s].paper) :
              sheet'[s].paper.answers[q] = sheet[s].paper.answers[q]]_vars

(* The draft version does what A3 uses it for: while a page at rest has    *)
(* the version of the sheet, everything it shows as answered or refused is *)
(* on the server, whatever was lost, retried or saved by another device.   *)
(* (The converse fails: a question skipped and unskipped before the save   *)
(* keeps its old answer on the server, which merges.)  It is so of a page  *)
(* whose requests did not overlap.                                         *)
AtRest(d) ==
  /\ page[d].stage \in {"open", "hidden"} /\ page[d].sync = "idle"
  /\ ~ page[d].timer /\ ~ Waiting(d)

OnTheServer(d) ==
  LET row == sheet[page[d].s]
      shown == Masked(page[d].paper) IN
  AtRest(d) /\ page[d].s \notin stale /\ row.version = page[d].version =>
    /\ Excluded(shown) = Excluded(row.paper)
    /\ \A q \in Question : shown.answers[q] \in {None, row.paper.answers[q]}

SameVersionSameAnswers == \A d \in Device : ~ page[d].overlapped => OnTheServer(d)

(* What does not hold: assessment.vue:450 "失败不打断作答：标记 pending 并  *)
(* 保留本地缓存，联网或下次作答时自动补传（B2）".  The answer to an older   *)
(* save takes the mark back that a newer one, which failed, has set.       *)
PendingUntilSaved == \A d \in Device : OnTheServer(d)

(* What a submission locks is what the page showed when the user tapped:   *)
(* handleSubmit saves a pending draft first "so that the server has the    *)
(* latest answers".                                                        *)
SubmitsLatest ==
  [][\A d \in Device, s \in SheetId :
       /\ page[d].submitting /\ Waiting(d)
       /\ sheet[s].status = "draft" /\ sheet'[s].status = "submitted"
       => sheet'[s].paper = Masked(page[d].tapped)]_vars
=============================================================================
