---------------------------- MODULE ConfigEditing ----------------------------
(***************************************************************************)
(* Administrators editing one row of sys_config: the page of the console   *)
(* (BrandSiteView.vue) in several tabs, with its table, the switch in it   *)
(* and the dialog, and the handler that loads the row, saves it through    *)
(* TypeORM and records the change in the audit trail.                      *)
(*                                                                         *)
(* Rows of different keys share only the dialog, which shows one at a      *)
(* time.  The page keeps several objects of one row, numbered here: the    *)
(* one in the table, the one the dialog was opened on, the one a switch    *)
(* waits for.  Text that validateValue refuses changes nothing and is left *)
(* out, and so are the blanks around a text that the page takes away       *)
(* before it compares (of a description, and of a value that is not a      *)
(* string).  A call its page gave up on takes effect before that or not at *)
(* all.                                                                    *)
(***************************************************************************)
EXTENDS Naturals, Sequences

CONSTANTS
  Tab,
  Field,          \* the columns an administrator edits
  Switch,         \* the column with a switch in the table: isPublic
  Picture,        \* the one an uploaded image's address goes into: configValue
  Text,           \* what can be typed
  Normal,         \* what normalizeValue makes of it
  Original,       \* the row as it was seeded
  Object,         \* the numbers of a page's objects, 0 being none
  Slot,           \* bound: calls on their way at one time
  MaxEdits        \* bound: what the administrators do once a table is there

Value == {Normal[t] : t \in Text}
ConfigRow == [Field -> Value]

ASSUME EditingAssumption ==
  /\ Tab # {} /\ {Switch, Picture} \subseteq Field /\ Original \in ConfigRow
  /\ 0 \notin Object /\ MaxEdits \in Nat
  /\ Value \subseteq Text /\ \A v \in Value : Normal[v] = v

VARIABLES
  config,       \* the row
  trail,        \* its entries in audit_log
  view,         \* the page of each tab
  patch,        \* the calls on their way, with their handlers
  edits,
  disturbed     \* history: two edits overlapped, or an entry was lost

editing == <<config, trail, view, patch, edits, disturbed>>
stored == <<config, trail, disturbed>>

(* shown: the object in the table; subject: editingItem.  What was touched *)
(* since the dialog opened, and whether an answer changed the subject or   *)
(* the form under it, is history.                                          *)
View ==
  [object : [Object -> ConfigRow], shown : Object \cup {0},
   open : BOOLEAN, subject : Object \cup {0}, form : [Field -> Text], saving : BOOLEAN,
   touched : SUBSET Field, moved : BOOLEAN]

Mounted ==
  [object |-> [o \in Object |-> Original], shown |-> 0,
   open |-> FALSE, subject |-> 0, form |-> Original, saving |-> FALSE,
   touched |-> {}, moved |-> FALSE]

(* asked: the columns of the PATCH, and text what they are to become.      *)
Patch ==
  [pc : {"free", "sent", "loaded", "compared", "saved", "answered"},
   kind : {"list", "switch", "save", "upload"}, tab : Tab, awaited : BOOLEAN,
   asked : SUBSET Field, text : [Field -> Text],
   object : Object \cup {0}, previous : Value,
   seen : ConfigRow, next : ConfigRow, differing : SUBSET Field, ok : BOOLEAN]

NoPatch ==
  [pc |-> "free", kind |-> "list", tab |-> CHOOSE t \in Tab : TRUE, awaited |-> FALSE,
   asked |-> {}, text |-> Original, object |-> 0, previous |-> Original[Switch],
   seen |-> Original, next |-> Original, differing |-> {}, ok |-> FALSE]

ConfigInit ==
  /\ config = Original /\ trail = <<>>
  /\ view = [t \in Tab |-> Mounted]
  /\ patch = [s \in Slot |-> NoPatch]
  /\ edits = 0 /\ disturbed = FALSE

-----------------------------------------------------------------------------
(* The page.                                                               *)

Becomes(t, v) == view' = [view EXCEPT ![t] = v]

Edit == edits < MaxEdits /\ edits' = edits + 1

(* A call of tab t, and the slot it takes.                                 *)
CallOf(t, kind) == [NoPatch EXCEPT !.pc = "sent", !.kind = kind, !.tab = t, !.awaited = TRUE]

Send(s, p) == patch[s].pc = "free" /\ patch' = [patch EXCEPT ![s] = p]

(* onMounted; then the button, the filter and the pages of the table,      *)
(* which the open dialog covers.                                           *)
LoadList(t, s) ==
  /\ IF view[t].shown = 0 THEN UNCHANGED edits ELSE Edit
  /\ ~view[t].open
  /\ Send(s, CallOf(t, "list"))
  /\ UNCHANGED <<stored, view>>

(* handlePublicChange: the switch shows the new value at once.  It is not  *)
(* locked while the call is under way.                                     *)
TurnSwitch(t, s, value) ==
  LET v == view[t] IN
  /\ Edit
  /\ ~v.open /\ v.shown # 0
  /\ value # v.object[v.shown][Switch]
  /\ Becomes(t, [v EXCEPT !.object[v.shown][Switch] = value])
  /\ Send(s, [CallOf(t, "switch") EXCEPT !.asked = {Switch}, !.text = [Original EXCEPT ![Switch] = value],
                                          !.object = v.shown, !.previous = v.object[v.shown][Switch]])
  /\ UNCHANGED stored

OpenDialog(t) ==
  LET v == view[t] IN
  /\ ~v.open /\ v.shown # 0
  /\ Becomes(t, [v EXCEPT !.open = TRUE, !.subject = v.shown, !.form = v.object[v.shown],
                          !.touched = {}, !.moved = FALSE])
  /\ UNCHANGED <<stored, patch, edits>>

(* v-model of the fields                                                   *)
Type(t, f, text) ==
  /\ Edit
  /\ view[t].open
  /\ f = Switch => text \in Value
  /\ Becomes(t, [view[t] EXCEPT !.form[f] = text, !.touched = @ \cup {f}])
  /\ UNCHANGED <<stored, patch>>

(* handleImageUpload                                                       *)
UploadImage(t, s) ==
  /\ Edit
  /\ view[t].open
  /\ Becomes(t, [view[t] EXCEPT !.touched = @ \cup {Picture}])
  /\ Send(s, CallOf(t, "upload"))
  /\ UNCHANGED stored

(* What the form holds is not looked at again.                             *)
Closed(v) == [v EXCEPT !.open = FALSE, !.subject = 0, !.form = Original, !.touched = {}, !.moved = FALSE]

CloseDialog(t) ==
  /\ view[t].open
  /\ Becomes(t, Closed(view[t]))
  /\ UNCHANGED <<stored, patch, edits>>

(* What differs from the row the dialog was opened on, as that is now.     *)
FormChanges(v) == {f \in Field : v.form[f] # v.object[v.subject][f]}

(* handleSave                                                              *)
SaveForm(t, s) ==
  LET v == view[t] IN
  /\ Edit
  /\ v.open /\ ~v.saving
  /\ IF FormChanges(v) = {}
     THEN Becomes(t, Closed(v)) /\ UNCHANGED patch
     ELSE /\ Becomes(t, [v EXCEPT !.saving = TRUE])
          /\ Send(s, [CallOf(t, "save") EXCEPT !.asked = FormChanges(v), !.text = v.form])
  /\ UNCHANGED stored

(* The page is loaded again; nobody awaits its calls any more.             *)
Reload(t) ==
  /\ Edit
  /\ Becomes(t, Mounted)
  /\ patch' = [s \in Slot |-> IF patch[s].tab # t THEN patch[s]
                              ELSE IF patch[s].pc = "answered" THEN NoPatch
                              ELSE [patch[s] EXCEPT !.awaited = FALSE]]
  /\ UNCHANGED stored

-----------------------------------------------------------------------------
(* list and update of AdminConfigService                                   *)

Writing(s) == patch[s].pc \in {"loaded", "compared", "saved"}

(* The answer, which holds a row unless the handler failed.                *)
Answering(p, ok, row) ==
  IF p.awaited
  THEN [NoPatch EXCEPT !.pc = "answered", !.kind = p.kind, !.tab = p.tab, !.awaited = TRUE,
                       !.object = p.object, !.previous = p.previous, !.ok = ok, !.next = row]
  ELSE NoPatch

Done(s, ok, row) == patch' = [patch EXCEPT ![s] = Answering(patch[s], ok, row)]

ReadList(s) ==
  /\ patch[s].pc = "sent" /\ patch[s].kind = "list"
  /\ Done(s, TRUE, config)
  /\ UNCHANGED <<stored, view, edits>>

(* The image is stored; no row knows its address yet.                      *)
StoreImage(s) ==
  /\ patch[s].pc = "sent" /\ patch[s].kind = "upload"
  /\ Done(s, TRUE, Original)
  /\ UNCHANGED <<stored, view, edits>>

Edited(row, p) == [f \in Field |-> IF f \in p.asked THEN Normal[p.text[f]] ELSE row[f]]

(* findOne; what changes nothing is refused (HandlerFails).                *)
LoadRow(s) ==
  LET p == patch[s] IN
  /\ p.pc = "sent" /\ p.kind \in {"switch", "save"}
  /\ Edited(config, p) # config
  /\ patch' = [patch EXCEPT ![s] = [p EXCEPT !.pc = "loaded", !.seen = config, !.next = Edited(config, p)]]
  /\ disturbed' = (disturbed \/ \E r \in Slot : Writing(r))
  /\ UNCHANGED <<config, trail, view, edits>>

(* save reads the row again and compares ...                               *)
CompareRow(s) ==
  LET p == patch[s] IN
  /\ p.pc = "loaded"
  /\ patch' = [patch EXCEPT ![s] = [p EXCEPT !.pc = "compared",
                                             !.differing = {f \in Field : p.next[f] # config[f]}]]
  /\ UNCHANGED <<stored, view, edits>>

(* ... and updates the columns that differ.                                *)
SaveRow(s) ==
  LET p == patch[s] IN
  /\ p.pc = "compared"
  /\ config' = [f \in Field |-> IF f \in p.differing THEN p.next[f] ELSE config[f]]
  /\ patch' = [patch EXCEPT ![s].pc = "saved"]
  /\ UNCHANGED <<trail, disturbed, view, edits>>

(* Mutant: the change is told from the entity, after the assignments.      *)
ChangeOfEntity(p) == [before |-> p.next, after |-> p.next]

Change(p) == [before |-> p.seen, after |-> p.next]

RecordChange(s) ==
  /\ patch[s].pc = "saved"
  /\ trail' = Append(trail, Change(patch[s]))
  /\ Done(s, TRUE, patch[s].next)
  /\ UNCHANGED <<config, disturbed, view, edits>>

(* record swallows the failure of its INSERT.                              *)
LoseChange(s) ==
  /\ patch[s].pc = "saved"
  /\ disturbed' = TRUE
  /\ Done(s, TRUE, patch[s].next)
  /\ UNCHANGED <<config, trail, view, edits>>

(* The handler refuses or fails, or the request never arrives.             *)
HandlerFails(s) ==
  /\ patch[s].pc \in {"sent", "loaded", "compared"}
  /\ Done(s, FALSE, Original)
  /\ UNCHANGED <<stored, view, edits>>

HandlerDies(s) ==
  /\ patch[s].pc = "saved"
  /\ disturbed' = TRUE
  /\ Done(s, FALSE, Original)
  /\ UNCHANGED <<config, trail, view, edits>>

-----------------------------------------------------------------------------
(* What the page makes of an answer.                                       *)

Received(s, kind) ==
  patch[s].pc = "answered" /\ patch[s].kind = kind /\ patch' = [patch EXCEPT ![s] = NoPatch]

(* The numbers nothing refers to but the table, which takes the new one.   *)
Unused(v, t) ==
  {o \in Object : /\ v.open => o # v.subject
                  /\ \A s \in Slot : ~(patch[s].pc # "free" /\ patch[s].awaited /\ patch[s].tab = t
                                       /\ patch[s].object = o)}

(* Mutant: the object in the table is kept and takes the new row.          *)
ReplacedInPlace(v, o, row) ==
  IF v.shown = 0 THEN [v EXCEPT !.object[o] = row, !.shown = o] ELSE [v EXCEPT !.object[v.shown] = row]

(* The object in the table is replaced by a new one, o.                    *)
Replaced(v, o, row) == [v EXCEPT !.object[o] = row, !.shown = o]

OnList(s) ==
  LET t == patch[s].tab IN
  /\ Received(s, "list")
  /\ patch[s].ok
  /\ Unused(view[t], t) # {}
  /\ Becomes(t, Replaced(view[t], CHOOSE o \in Unused(view[t], t) : TRUE, patch[s].next))
  /\ UNCHANGED <<stored, edits>>

(* A switch's answer goes into the object it was turned on.                *)
Assigned(v, o, row) ==
  [v EXCEPT !.object[o] = row,
            !.moved = @ \/ (v.open /\ v.subject = o /\ v.object[o] # row)]

OnSwitch(s) ==
  LET p == patch[s]
      v == view[p.tab]
  IN
  /\ Received(s, "switch")
  /\ Becomes(p.tab, Assigned(v, p.object, IF p.ok THEN p.next
                                          ELSE [v.object[p.object] EXCEPT ![Switch] = p.previous]))
  /\ UNCHANGED <<stored, edits>>

(* The image's address fills the form, whichever dialog is open by now.    *)
OnUploaded(s, address) ==
  LET t == patch[s].tab IN
  /\ Received(s, "upload")
  /\ patch[s].ok
  /\ IF view[t].open
     THEN Becomes(t, [view[t] EXCEPT !.form[Picture] = address,
                                     !.moved = @ \/ Picture \notin view[t].touched])
     ELSE UNCHANGED view
  /\ UNCHANGED <<stored, edits>>

(* The dialog closes, whichever it is by now.                              *)
OnSaved(s) ==
  LET t == patch[s].tab
      v == [Closed(view[t]) EXCEPT !.saving = FALSE]
  IN
  /\ Received(s, "save")
  /\ patch[s].ok
  /\ IF v.shown = 0 THEN Becomes(t, v)
     ELSE /\ Unused(v, t) # {}
          /\ Becomes(t, Replaced(v, CHOOSE o \in Unused(v, t) : TRUE, patch[s].next))
  /\ UNCHANGED <<stored, edits>>

OnEditFailed(s) ==
  LET t == patch[s].tab IN
  /\ ~patch[s].ok
  /\ \/ (Received(s, "list") \/ Received(s, "upload")) /\ UNCHANGED view
     \/ Received(s, "save") /\ Becomes(t, [view[t] EXCEPT !.saving = FALSE])
  /\ UNCHANGED <<stored, edits>>

(* The answer is lost on its way.                                          *)
LoseAnswer(s) ==
  /\ patch[s].pc = "answered" /\ patch[s].ok
  /\ patch' = [patch EXCEPT ![s].ok = FALSE, ![s].next = Original]
  /\ UNCHANGED <<stored, view, edits>>

-----------------------------------------------------------------------------
ConfigNext ==
  \/ \E t \in Tab :
       \/ OpenDialog(t) \/ CloseDialog(t) \/ Reload(t)
       \/ \E f \in Field, text \in Text : Type(t, f, text)
       \/ \E s \in Slot :
            \/ LoadList(t, s) \/ UploadImage(t, s) \/ SaveForm(t, s)
            \/ \E value \in Value : TurnSwitch(t, s, value)
  \/ \E s \in Slot :
       \/ ReadList(s) \/ StoreImage(s) \/ LoadRow(s) \/ CompareRow(s)
       \/ SaveRow(s) \/ RecordChange(s) \/ LoseChange(s)
       \/ HandlerFails(s) \/ HandlerDies(s)
       \/ \E address \in Value : OnUploaded(s, address)
       \/ OnList(s) \/ OnSwitch(s) \/ OnSaved(s) \/ OnEditFailed(s) \/ LoseAnswer(s)

ConfigSpec == ConfigInit /\ [][ConfigNext]_editing

-----------------------------------------------------------------------------
ConfigTypeOK ==
  /\ config \in ConfigRow
  /\ trail \in Seq([before : ConfigRow, after : ConfigRow])
  /\ view \in [Tab -> View] /\ patch \in [Slot -> Patch]
  /\ edits \in 0..MaxEdits /\ disturbed \in BOOLEAN

(* BrandSiteView.vue:199: a form differs from its row only where the       *)
(* administrator touched it, so that what others saved in other columns is *)
(* not sent back, although lists, saves of earlier dialogs and switches    *)
(* are answered while it is open; unless a switch's answer changed the     *)
(* very object under it, or an upload begun in another dialog the form.    *)
OnlyWhatWasTouched ==
  \A t \in Tab : view[t].open /\ ~view[t].moved => FormChanges(view[t]) \subseteq view[t].touched

(* What does not hold: BrandSiteView.vue:199 "只提交发生变化的字段".       *)
OnlyChangedFields ==
  \A t \in Tab : view[t].open => FormChanges(view[t]) \subseteq view[t].touched

(* admin-config.service.ts:41: from the seeded row the trail leads, entry  *)
(* by entry, to the row as it is, as long as no two edits overlapped and   *)
(* no entry was lost; and no entry tells of a change that is none.         *)
EditsTraced ==
  LET row == IF trail = <<>> THEN Original ELSE trail[Len(trail)].after IN
  /\ \A i \in DOMAIN trail : trail[i].before # trail[i].after
  /\ ~disturbed =>
       /\ \A i \in DOMAIN trail :
            trail[i].before = IF i = 1 THEN Original ELSE trail[i - 1].after
       /\ (\A s \in Slot : ~Writing(s)) => config = row
=============================================================================
