-------------------------- MODULE AssessmentProofs --------------------------
(***************************************************************************)
(* What Assessment promises of answer sheets and of the pages that fill    *)
(* them in, proved for any number of devices, questions, answers, sheets   *)
(* and requests under way.                                                 *)
(*                                                                         *)
(* A request tests the row it loads and writes it later, by id.  So the    *)
(* invariant says what a request that was let in knows of the row it       *)
(* loaded (Admitted), what a page knows of the sheet at the version it     *)
(* holds (Level), and that a row a request has seen is, at the same        *)
(* version, still what is stored (Known).                                  *)
(***************************************************************************)
EXTENDS Assessment, TLAPS

-----------------------------------------------------------------------------
(* Papers: refusing, merging and supplementing.                            *)

LEMMA PaperIs ==
  /\ Blank \in Paper /\ Excluded(Blank) = {} /\ Valid(Blank)
  /\ \A q \in Question : Blank.answers[q] = None
BY DEF Blank, Paper, Excluded, Valid

LEMMA OverType ==
  ASSUME NEW a \in [Question -> Value \cup {None}], NEW b \in [Question -> Value \cup {None}]
  PROVE  Over(a, b) \in [Question -> Value \cup {None}]
BY DEF Over

(* What is excluded is gone, the rest stays.                               *)
LEMMA MaskedIs ==
  ASSUME NEW p \in Paper
  PROVE  /\ Masked(p) \in Paper
         /\ Masked(p).dim = p.dim /\ Masked(p).skips = p.skips
         /\ Excluded(Masked(p)) = Excluded(p)
         /\ Valid(p) => Valid(Masked(p))
         /\ \A q \in Question :
              Masked(p).answers[q] = IF q \in Excluded(p) THEN None ELSE p.answers[q]
<1> DEFINE a == [q \in Question |-> IF q \in Excluded(p) THEN None ELSE p.answers[q]]
<1>1. p = [answers |-> p.answers, dim |-> p.dim, skips |-> p.skips]
      /\ p.answers \in [Question -> Value \cup {None}] /\ p.dim \in BOOLEAN
      /\ p.skips \in SUBSET Sensitive
  BY DEF Paper
<1>2. a \in [Question -> Value \cup {None}]
  BY <1>1
<1>3. Masked(p) = [answers |-> a, dim |-> p.dim, skips |-> p.skips]
  BY <1>1 DEF Masked
<1> HIDE DEF a
<1>4. Masked(p) \in Paper /\ Masked(p).dim = p.dim /\ Masked(p).skips = p.skips
      /\ Masked(p).answers = a
  BY <1>1, <1>2, <1>3 DEF Paper
<1>5. Excluded(Masked(p)) = Excluded(p) /\ (Valid(p) => Valid(Masked(p)))
  BY <1>4 DEF Excluded, Valid
<1> QED
  BY <1>4, <1>5 DEF a

(* Of a question that is not refused the new answer counts, if there is    *)
(* one; nothing refused now keeps an answer given before.                  *)
LEMMA MergedIs ==
  ASSUME NEW old \in Paper, NEW new \in Paper
  PROVE  /\ Merged(old, new) \in Paper
         /\ Excluded(Merged(old, new)) = Excluded(new)
         /\ Valid(new) => Valid(Merged(old, new))
         /\ \A q \in Question :
              Merged(old, new).answers[q] =
                IF q \in Excluded(new) THEN None
                ELSE IF new.answers[q] # None THEN new.answers[q] ELSE old.answers[q]
<1> DEFINE both == [new EXCEPT !.answers = Over(new.answers, old.answers)]
<1>1. /\ new = [answers |-> new.answers, dim |-> new.dim, skips |-> new.skips]
      /\ new.answers \in [Question -> Value \cup {None}] /\ new.dim \in BOOLEAN
      /\ new.skips \in SUBSET Sensitive
      /\ old.answers \in [Question -> Value \cup {None}]
  BY DEF Paper
<1>2. Over(new.answers, old.answers) \in [Question -> Value \cup {None}]
  BY <1>1, OverType
<1>3. both = [answers |-> Over(new.answers, old.answers), dim |-> new.dim, skips |-> new.skips]
  BY <1>1
<1>4. both \in Paper /\ both.dim = new.dim /\ both.skips = new.skips
      /\ both.answers = Over(new.answers, old.answers)
  BY <1>1, <1>2, <1>3 DEF Paper
<1>5. Merged(old, new) = Masked(both)
  BY DEF Merged
<1> HIDE DEF both
<1>6. Excluded(both) = Excluded(new) /\ (Valid(new) => Valid(both))
  BY <1>4 DEF Excluded, Valid
<1>7. \A q \in Question : both.answers[q] =
        IF new.answers[q] # None THEN new.answers[q] ELSE old.answers[q]
  BY <1>4 DEF Over
<1> QED
  BY <1>4, <1>5, <1>6, <1>7, MaskedIs

-----------------------------------------------------------------------------
(* Types.                                                                  *)

Writing == {"save", "submit", "supplement"}
Scored == [scored : {TRUE}, paper : Paper, supplemented : BOOLEAN]

(* A request that writes and a page that shows a sheet name one.           *)
CallNames(d, k) ==
  LET c == call[d][k] IN
  /\ c.heard => c.op # "none"
  /\ c.op \in Writing => c.s \in SheetId
  /\ c.at = "answered" /\ c.answer = "ok" => c.s \in SheetId
  /\ c.heard /\ c.op \in Writing => page[d].s \in SheetId
PageNames(d) == page[d].stage \in {"open", "hidden"} \/ page[d].timer => page[d].s \in SheetId

Typed ==
  /\ TypeOK
  /\ \A d \in Device : PageNames(d) /\ \A k \in Slot : CallNames(d, k)

Naming(c, pg) ==
  /\ c.heard => c.op # "none"
  /\ c.op \in Writing => c.s \in SheetId
  /\ c.at = "answered" /\ c.answer = "ok" => c.s \in SheetId
  /\ c.heard /\ c.op \in Writing => pg.s \in SheetId
Named(pg) == pg.stage \in {"open", "hidden"} \/ pg.timer => pg.s \in SheetId

LEMMA Constants ==
  /\ Closed \in Page /\ NoCall \in Call /\ NoRow \in Row /\ NewRow \in Row /\ NoDraft \in Draft
  /\ MaxSheets \in Nat /\ MaxCalls \in Nat /\ MaxActs \in Nat /\ 0 \notin SheetId
  /\ SheetId = 1..MaxSheets /\ Slot = 1..MaxCalls
<1>1. MaxSheets \in Nat /\ MaxCalls \in Nat /\ MaxActs \in Nat /\ 0 \in 0..MaxSheets
  BY AssessmentAssumption
<1>2. Closed \in Page
  BY <1>1, PaperIs DEF Closed, Page, Stage
<1>3. NoRow \in Row
  BY PaperIs DEF NoRow, Row, NoCache, Cache
<1>4. NewRow \in Row
  BY <1>3, PaperIs DEF NewRow, NoRow, Row, NoCache, Cache
<1>5. NoCall \in Call
  BY <1>1, <1>3, PaperIs DEF NoCall, Call, Op, Answer
<1> QED
  BY <1>1, <1>2, <1>3, <1>4, <1>5 DEF NoDraft, Draft, SheetId, Slot

(* The requests of a page, as records.                                     *)
LEMMA StartIs ==
  ASSUME NEW m \in BOOLEAN, NEW t \in BOOLEAN
  PROVE  /\ Start(m, t) \in Call
         /\ Start(m, t).op = "start" /\ Start(m, t).at = "sent" /\ Start(m, t).heard
         /\ Start(m, t).answer = "none" /\ Start(m, t).s = 0
<1>1. NoCall \in Call
  BY Constants
<1> QED
  BY <1>1 DEF Start, NoCall, Call, Op

LEMMA RequestIs ==
  ASSUME NEW op \in Writing, NEW pg \in Page, NEW t \in BOOLEAN
  PROVE  LET c == Request(op, pg, t) IN
         /\ c \in Call /\ c.op = op /\ c.at = "sent" /\ c.heard /\ c.answer = "none"
         /\ c.s = pg.s /\ c.version = pg.version /\ c.paper = pg.paper
<1>1. NoCall \in Call
  BY Constants
<1> QED
  BY <1>1 DEF Request, NoCall, Call, Op, Page, Writing

LEMMA UnheardIs ==
  ASSUME NEW c \in Call
  PROVE  /\ Unheard(c) \in Call /\ ~ Unheard(c).heard
         /\ Unheard(c).op = c.op /\ Unheard(c).at = c.at /\ Unheard(c).s = c.s
         /\ Unheard(c).version = c.version /\ Unheard(c).paper = c.paper
         /\ Unheard(c).seen = c.seen /\ Unheard(c).answer = c.answer
BY DEF Unheard, Call

(* One call changes.                                                       *)
LEMMA PutIs ==
  ASSUME TypeOK, NEW d \in Device, NEW k \in Slot, NEW c \in Call, Put(d, k, c)
  PROVE  /\ call' \in [Device -> [Slot -> Call]]
         /\ call'[d][k] = c
         /\ \A e \in Device, j \in Slot : e # d \/ j # k => call'[e][j] = call[e][j]
BY DEF TypeOK, Put

LEMMA SetPageIs ==
  ASSUME TypeOK, NEW d \in Device, NEW pg \in Page, SetPage(d, pg)
  PROVE  /\ page' \in [Device -> Page]
         /\ page'[d] = pg
         /\ \A e \in Device \ {d} : page'[e] = page[e]
BY DEF TypeOK, SetPage

-----------------------------------------------------------------------------
(* The invariant.                                                          *)

(* A row keeps nothing refused; a submitted one has its scores, and one    *)
(* that was supplemented leaves nothing out.                               *)
Sound(r) ==
  /\ Valid(r.paper)
  /\ \A q \in Excluded(r.paper) : r.paper.answers[q] = None
  /\ r.status = "submitted" => r.cache \in Scored
  /\ r.cache \in Scored /\ r.cache.supplemented => Excluded(r.cache.paper) = {}

Locked(r) ==
  r.status = "submitted" =>
    r.cache = Scores(r.paper, r.cache.supplemented) /\ Complete(r.paper)

(* A request that is about to write was let in on the row it loaded.       *)
Loaded(c) == c.op \in Writing /\ c.at = "loaded"
Admitted(c) == Loaded(c) => Sound(c.seen) /\ Refusal(c, c.seen) = "none"

(* What a request, or its answer, says of a row nobody wrote blindly.      *)
Known(c) ==
  (Loaded(c) \/ (c.at = "answered" /\ c.answer = "ok")) /\ c.s \notin stale =>
    /\ sheet[c.s].status # "none"
    /\ c.seen.version <= sheet[c.s].version
    /\ c.seen.version = sheet[c.s].version => c.seen.paper = sheet[c.s].paper

(* Everything shown as answered or refused is in the paper stored.         *)
Synced(p, stored) ==
  /\ Excluded(p) = Excluded(stored)
  /\ \A q \in Question : q \in Excluded(p) \/ p.answers[q] \in {None, stored.answers[q]}

Silent(cs) == \A k \in Slot : cs[k].heard => cs[k].op = "submit"

(* The save a page waits for has what the page shows, unless the page has  *)
(* changed since and its timer runs.                                       *)
Carries(c, pg) ==
  c.heard /\ c.op = "save" =>
    /\ c.at \in {"sent", "loaded"} => c.paper = pg.paper
    /\ c.at = "answered" /\ c.answer = "ok" => Synced(pg.paper, c.seen.paper)

(* What a page whose requests cs do not overlap knows of its sheet.        *)
Shows(pg, cs, row) ==
  /\ row.status # "none"
  /\ pg.version <= row.version
  /\ ~ pg.timer =>
       /\ Silent(cs) /\ pg.sync = "idle" /\ pg.version = row.version =>
            Synced(pg.paper, row.paper)
       /\ \A k \in Slot : Carries(cs[k], pg)

Level(pg, cs) ==
  ~ pg.overlapped =>
    /\ \A j, k \in Slot : cs[j].heard /\ cs[k].heard => j = k
    /\ \A k \in Slot : cs[k].heard /\ cs[k].op \in Writing => cs[k].s = pg.s
    /\ pg.stage \in {"open", "hidden"} /\ pg.s \notin stale => Shows(pg, cs, sheet[pg.s])

AnswersInv ==
  /\ Typed
  /\ \A s \in SheetId : Sound(sheet[s]) /\ (s \notin stale => Locked(sheet[s]))
  /\ \A d \in Device, k \in Slot : Admitted(call[d][k]) /\ Known(call[d][k])
  /\ \A d \in Device : Level(page[d], call[d])

-----------------------------------------------------------------------------
(* Steps of a page.                                                        *)

(* A call stays what it is, unless it ends or a new one takes its place.   *)
Tame(c, n) ==
  n.at # "sent" =>
    /\ n.at = c.at /\ n.op = c.op /\ n.s = c.s /\ n.version = c.version
    /\ n.paper = c.paper /\ n.seen = c.seen /\ n.answer = c.answer

Moves(d) ==
  /\ UNCHANGED <<sheet, stale>>
  /\ Typed'
  /\ \A e \in Device \ {d} : page'[e] = page[e] /\ call'[e] = call[e]
  /\ \A k \in Slot : Tame(call[d][k], call'[d][k])

LEMMA OneCallMoves ==
  ASSUME Typed, NEW d \in Device, NEW k \in Slot, NEW pg \in Page, NEW n \in Call,
         SetPage(d, pg), Put(d, k, n), UNCHANGED <<sheet, stale>>, acts' \in 0..MaxActs,
         local' \in [Device -> [SheetId -> Draft]],
         Named(pg), Naming(n, pg), Tame(call[d][k], n),
         page[d].s \in SheetId => pg.s \in SheetId \/ \A j \in Slot : call[d][j].heard => j = k
  PROVE  Moves(d)
<1>1. TypeOK /\ stale \subseteq SheetId
  BY DEF Typed, TypeOK
<1>2. /\ call' \in [Device -> [Slot -> Call]] /\ call'[d][k] = n
      /\ \A e \in Device, j \in Slot : e # d \/ j # k => call'[e][j] = call[e][j]
  BY <1>1, PutIs
<1>3. /\ page' \in [Device -> Page] /\ page'[d] = pg
      /\ \A e \in Device \ {d} : page'[e] = page[e]
  BY <1>1, SetPageIs
<1>4. \A e \in Device \ {d} : call'[e] = call[e]
  BY <1>1 DEF Put, TypeOK
<1>5. TypeOK'
  BY <1>1, <1>2, <1>3 DEF TypeOK
<1>6. \A j \in Slot : Naming(call'[d][j], pg)
  <2> TAKE j \in Slot
  <2>1. CASE j = k
    BY <1>2, <2>1
  <2>2. CASE j # k
    <3>1. call'[d][j] = call[d][j] /\ CallNames(d, j)
      BY <1>2, <2>2 DEF Typed
    <3> QED
      BY <3>1, <2>2 DEF CallNames, Naming
  <2> QED
    BY <2>1, <2>2
<1>7. ASSUME NEW e \in Device
      PROVE  (PageNames(e) /\ \A j \in Slot : CallNames(e, j))'
  <2>1. CASE e = d
    BY <1>3, <1>6, <2>1 DEF PageNames, CallNames, Named, Naming
  <2>2. CASE e # d
    <3>1. page'[e] = page[e] /\ call'[e] = call[e] /\ PageNames(e)
          /\ \A j \in Slot : CallNames(e, j)
      BY <1>3, <1>4, <2>2 DEF Typed
    <3> QED
      BY <3>1 DEF PageNames, CallNames
  <2> QED
    BY <2>1, <2>2
<1>8. Typed'
  BY <1>5, <1>7 DEF Typed
<1>9. \A j \in Slot : Tame(call[d][j], call'[d][j])
  BY <1>2 DEF Tame
<1> QED
  BY <1>3, <1>4, <1>8, <1>9 DEF Moves

LEMMA NoCallMoves ==
  ASSUME Typed, NEW d \in Device, NEW pg \in Page,
         SetPage(d, pg), UNCHANGED <<sheet, stale, call>>, acts' \in 0..MaxActs,
         local' \in [Device -> [SheetId -> Draft]],
         Named(pg), page[d].s \in SheetId => pg.s \in SheetId
  PROVE  Moves(d)
<1>1. TypeOK /\ stale \subseteq SheetId
  BY DEF Typed, TypeOK
<1>2. /\ page' \in [Device -> Page] /\ page'[d] = pg
      /\ \A e \in Device \ {d} : page'[e] = page[e]
  BY <1>1, SetPageIs
<1>3. TypeOK'
  BY <1>1, <1>2 DEF TypeOK
<1>4. ASSUME NEW e \in Device
      PROVE  (PageNames(e) /\ \A j \in Slot : CallNames(e, j))'
  <2>1. PageNames(e) /\ \A j \in Slot : CallNames(e, j)
    BY DEF Typed
  <2>2. CASE e = d
    BY <1>2, <2>1, <2>2 DEF PageNames, CallNames, Named
  <2>3. CASE e # d
    BY <1>2, <2>1, <2>3 DEF PageNames, CallNames
  <2> QED
    BY <2>2, <2>3
<1>5. Typed'
  BY <1>3, <1>4 DEF Typed
<1> QED
  BY <1>2, <1>5 DEF Moves, Tame

(* A page that sends a request: if it waited for another, its requests     *)
(* overlap; if not, it waits for this one, which has what the page shows.  *)
LEMMA SendMoves ==
  ASSUME Typed, NEW d \in Device, NEW pg \in Page, NEW n \in Call, Level(page[d], call[d]),
         SendFrom(d, pg, n), UNCHANGED <<sheet, stale>>, acts' \in 0..MaxActs,
         local' \in [Device -> [SheetId -> Draft]],
         Named(pg), Naming(n, pg), n.at = "sent",
         page[d].s \in SheetId => pg.s \in SheetId \/ ~ Waiting(d),
         n.op \in Writing => n.s = pg.s /\ n.paper = pg.paper,
         pg.stage \in {"open", "hidden"} =>
           /\ page[d].stage \in {"open", "hidden"} /\ pg.overlapped = page[d].overlapped
           /\ pg.s = page[d].s /\ pg.version = page[d].version
           /\ n.heard /\ n.op \in Writing
           /\ n.op = "submit" =>
                pg.paper = page[d].paper /\ pg.timer = page[d].timer /\ pg.sync = page[d].sync
  PROVE  Moves(d) /\ Level(page'[d], call'[d])
<1>1. PICK k \in Slot : Put(d, k, n)
  BY DEF SendFrom, Send, Free
<1>2. PICK new \in Page :
        /\ SetPage(d, new) /\ new.overlapped = (pg.overlapped \/ Waiting(d))
        /\ new.stage = pg.stage /\ new.s = pg.s /\ new.version = pg.version
        /\ new.paper = pg.paper /\ new.sync = pg.sync /\ new.timer = pg.timer
  <2>1. [pg EXCEPT !.overlapped = @ \/ Waiting(d)] \in Page
    BY DEF Page, Waiting
  <2>2. SetPage(d, [pg EXCEPT !.overlapped = @ \/ Waiting(d)])
    BY DEF SendFrom
  <2>3. pg.overlapped \in BOOLEAN
    BY DEF Page
  <2> WITNESS [pg EXCEPT !.overlapped = @ \/ Waiting(d)] \in Page
  <2> QED
    BY <2>2, <2>3 DEF Page
<1>3. Named(new) /\ Naming(n, new) /\ Tame(call[d][k], n)
  BY <1>2 DEF Named, Naming, Tame
<1>4. page[d].s \in SheetId => new.s \in SheetId \/ \A j \in Slot : call[d][j].heard => j = k
  BY <1>2 DEF Waiting
<1>5. Moves(d)
  BY <1>1, <1>2, <1>3, <1>4, OneCallMoves
<1>6. TypeOK
  BY DEF Typed
<1>7. call'[d][k] = n /\ \A j \in Slot \ {k} : call'[d][j] = call[d][j]
  BY <1>1, <1>6, PutIs
<1>8. page'[d] = new
  BY <1>2, <1>6, SetPageIs
<1>9. ASSUME ~ new.overlapped
      PROVE  /\ \A i, j \in Slot : call'[d][i].heard /\ call'[d][j].heard => i = j
             /\ \A j \in Slot : call'[d][j].heard /\ call'[d][j].op \in Writing =>
                  call'[d][j].s = new.s
             /\ new.stage \in {"open", "hidden"} /\ new.s \notin stale =>
                  Shows(new, call'[d], sheet[new.s])
  <2>1. \A j \in Slot : ~ call[d][j].heard
    BY <1>2, <1>9 DEF Waiting
  <2>2. \A j \in Slot : call'[d][j].heard => j = k
    BY <1>7, <2>1
  <2>3. SUFFICES ASSUME new.stage \in {"open", "hidden"}, new.s \notin stale
                 PROVE  Shows(new, call'[d], sheet[new.s])
    BY <1>2, <1>7, <2>2
  <2>4. Shows(page[d], call[d], sheet[page[d].s]) /\ new.s = page[d].s
    BY <1>2, <1>9, <2>3 DEF Level
  <2>5. \A j \in Slot : Carries(call'[d][j], new)
    BY <1>2, <1>7, <2>2 DEF Carries, Writing
  <2>6. Silent(call'[d]) => n.op = "submit"
    BY <1>2, <1>7, <2>3 DEF Silent
  <2>7. Silent(call[d])
    BY <2>1 DEF Silent
  <2> QED
    BY <1>2, <2>3, <2>4, <2>5, <2>6, <2>7 DEF Shows
<1> QED
  BY <1>5, <1>8, <1>9 DEF Level

(* A page that sends nothing.                                              *)
LEMMA QuietMoves ==
  ASSUME Typed, NEW d \in Device, NEW pg \in Page, Level(page[d], call[d]),
         SetPage(d, pg), UNCHANGED <<sheet, stale, call>>, acts' \in 0..MaxActs,
         local' \in [Device -> [SheetId -> Draft]],
         pg.s = page[d].s, pg.version = page[d].version, pg.overlapped = page[d].overlapped,
         pg.sync = page[d].sync,
         pg.stage \in {"open", "hidden"} => page[d].stage \in {"open", "hidden"},
         ~ pg.timer /\ pg.stage \in {"open", "hidden"} =>
           pg.paper = page[d].paper /\ ~ page[d].timer,
         pg.timer => pg.stage = "open" \/ page[d].timer
  PROVE  Moves(d) /\ Level(page'[d], call'[d])
<1>1. Named(pg) /\ TypeOK
  BY DEF Named, Typed, PageNames
<1>2. Moves(d)
  BY <1>1, NoCallMoves
<1>3. page'[d] = pg /\ call'[d] = call[d]
  BY <1>1, SetPageIs
<1>4. ASSUME pg.stage \in {"open", "hidden"}, Shows(page[d], call[d], sheet[pg.s])
      PROVE  Shows(pg, call[d], sheet[pg.s])
  BY <1>4 DEF Shows, Carries
<1> QED
  BY <1>2, <1>3, <1>4 DEF Level

LEMMA PersistIs ==
  ASSUME Typed, NEW d \in Device, NEW pg \in Page, NEW b \in BOOLEAN, PersistLocal(d, pg, b)
  PROVE  local' \in [Device -> [SheetId -> Draft]]
<1>1. local \in [Device -> [SheetId -> Draft]]
  BY DEF Typed, TypeOK
<1>2. pg.s = 0 \/ pg.s \in SheetId
  BY Constants DEF Page
<1>3. [kept |-> TRUE, paper |-> pg.paper, pending |-> b] \in Draft
  BY DEF Page, Draft
<1>4. Persisted(d, pg, b) \in [SheetId -> Draft]
  BY <1>1, <1>2, <1>3 DEF Persisted
<1> QED
  BY <1>1, <1>4 DEF PersistLocal

LEMMA TypesHere ==
  ASSUME Typed, NEW d \in Device
  PROVE  /\ page[d] \in Page /\ PageNames(d)
         /\ local \in [Device -> [SheetId -> Draft]] /\ acts \in 0..MaxActs
         /\ \A k \in Slot : call[d][k] \in Call /\ CallNames(d, k)
         /\ sheet \in [SheetId -> Row]
BY DEF Typed, TypeOK

LEMMA ActIs ==
  ASSUME Typed, Act
  PROVE  acts' \in 0..MaxActs
BY Constants DEF Typed, TypeOK, Act

LEMMA EditMoves ==
  ASSUME Typed, NEW d \in Device, Level(page[d], call[d]), NEW p \in Paper, Edit(d, p)
  PROVE  Moves(d) /\ Level(page'[d], call'[d])
<1>1. page[d] \in Page
  BY TypesHere
<1> DEFINE pg == [page[d] EXCEPT !.paper = p, !.timer = TRUE]
<1>2. /\ pg \in Page /\ pg.s = page[d].s /\ pg.version = page[d].version
      /\ pg.overlapped = page[d].overlapped /\ pg.sync = page[d].sync
      /\ pg.stage = page[d].stage /\ pg.timer
  BY <1>1 DEF Page
<1> DEFINE q == [page[d] EXCEPT !.paper = p]
<1>3. q \in Page
  BY <1>1 DEF Page
<1>4. /\ page[d].stage = "open" /\ acts' \in 0..MaxActs /\ SetPage(d, pg)
      /\ PersistLocal(d, q, TRUE) /\ UNCHANGED <<sheet, stale, call>>
  BY <1>2, <1>3, ActIs DEF Edit
<1>5. local' \in [Device -> [SheetId -> Draft]]
  <2> HIDE DEF q
  <2> QED
    BY <1>3, <1>4, PersistIs
<1> QED
  BY <1>2, <1>4, <1>5, QuietMoves

LEMMA UserMoves ==
  ASSUME Typed, NEW d \in Device, Level(page[d], call[d]), User(d)
  PROVE  Moves(d) /\ Level(page'[d], call'[d])
<1> DEFINE Done == Moves(d) /\ Level(page'[d], call'[d])
           p == page[d]
<1>1. /\ p \in Page /\ PageNames(d) /\ local \in [Device -> [SheetId -> Draft]]
      /\ \A k \in Slot : call[d][k] \in Call /\ CallNames(d, k)
  BY TypesHere
<1>2. /\ p.paper \in Paper
      /\ p.stage \in {"open", "hidden"} => p.s \in SheetId
      /\ p.timer => p.s \in SheetId
  BY <1>1 DEF Page, PageNames
<1>3. ASSUME Open(d) PROVE Done
  <2> DEFINE pg == [Closed EXCEPT !.stage = "loading"]
  <2>1. /\ pg \in Page /\ pg.stage = "loading" /\ ~ pg.timer
    BY Constants DEF Closed, Page, Stage
  <2> DEFINE n == Start(TRUE, FALSE)
  <2>2. /\ n \in Call /\ n.op = "start" /\ n.at = "sent"
    BY StartIs
  <2>3. Named(pg) /\ Naming(n, pg)
    BY <2>1, <2>2 DEF Named, Naming, Writing
  <2>4. /\ SendFrom(d, pg, n) /\ ~ Waiting(d) /\ UNCHANGED <<sheet, stale, local>>
        /\ acts' \in 0..MaxActs
    BY <1>3, <2>1, <2>2, ActIs DEF Open
  <2>5. n.op \notin Writing
    BY <2>2 DEF Writing
  <2> QED
    BY <1>1, <2>1, <2>2, <2>3, <2>4, <2>5, SendMoves
<1>4. ASSUME HandleConsentAgree(d) PROVE Done
  <2> DEFINE pg == [p EXCEPT !.decided = TRUE]
  <2>1. /\ pg \in Page /\ pg.s = p.s /\ pg.version = p.version
        /\ pg.overlapped = p.overlapped /\ pg.sync = p.sync /\ pg.stage = p.stage
        /\ pg.paper = p.paper /\ pg.timer = p.timer
    BY <1>1 DEF Page
  <2>2. SetPage(d, pg) /\ UNCHANGED <<sheet, stale, call, local>> /\ acts' \in 0..MaxActs
    BY <1>4, <2>1, ActIs DEF HandleConsentAgree
  <2> QED
    BY <1>1, <2>1, <2>2, QuietMoves
<1>5. ASSUME HandleConsentSkip(d) PROVE Done
  <2> DEFINE pg == [p EXCEPT !.decided = TRUE, !.paper.dim = TRUE, !.paper.skips = {}]
  <2>1. /\ pg \in Page /\ pg.s = p.s /\ pg.version = p.version
        /\ pg.overlapped = p.overlapped /\ pg.stage = p.stage /\ pg.timer = p.timer
    BY <1>1 DEF Page, Paper
  <2> DEFINE n == Request("save", pg, FALSE)
  <2>2. /\ n \in Call /\ n.op = "save" /\ n.at = "sent" /\ n.heard /\ n.s = pg.s
        /\ n.paper = pg.paper /\ n.answer = "none"
    BY <2>1, RequestIs, ZenonT(60) DEF Writing
  <2>3. /\ SendFrom(d, pg, n) /\ PersistLocal(d, pg, TRUE) /\ UNCHANGED <<sheet, stale>>
        /\ acts' \in 0..MaxActs /\ p.stage = "open"
    BY <1>5, <2>1, <2>2, ActIs DEF HandleConsentSkip
  <2>4. local' \in [Device -> [SheetId -> Draft]]
    <3> HIDE DEF pg
    <3> QED
      BY <2>1, <2>3, PersistIs
  <2>5. Named(pg) /\ Naming(n, pg) /\ n.op \in Writing
    BY <1>2, <2>1, <2>2, <2>3 DEF Named, Naming, Writing
  <2> QED
    BY <2>1, <2>2, <2>3, <2>4, <2>5, SendMoves
<1>6. ASSUME NEW q \in Question, NEW v \in Value, HandleSelect(d, q, v) PROVE Done
  <2>1. [p.paper EXCEPT !.answers[q] = v] \in Paper
    BY <1>2 DEF Paper
  <2> QED
    BY <1>6, <2>1, EditMoves DEF HandleSelect
<1>7. ASSUME NEW q \in Sensitive, HandleSkipQuestion(d, q) PROVE Done
  <2>1. [p.paper EXCEPT !.answers[q] = None, !.skips = @ \cup {q}] \in Paper
    BY <1>2 DEF Paper, Question
  <2> QED
    BY <1>7, <2>1, EditMoves DEF HandleSkipQuestion
<1>8. ASSUME NEW q \in Sensitive, HandleUnskipQuestion(d, q) PROVE Done
  <2>1. [p.paper EXCEPT !.skips = @ \ {q}] \in Paper
    BY <1>2 DEF Paper
  <2> QED
    BY <1>8, <2>1, EditMoves DEF HandleUnskipQuestion
<1>9. ASSUME OnHide(d) PROVE Done
  <2> DEFINE pg == [p EXCEPT !.stage = "hidden"]
  <2>1. /\ pg \in Page /\ pg.s = p.s /\ pg.version = p.version
        /\ pg.overlapped = p.overlapped /\ pg.stage = "hidden" /\ pg.timer = p.timer
        /\ pg.paper = p.paper
    BY <1>1 DEF Page, Stage
  <2> DEFINE n == Request("save", p, FALSE)
  <2>2. /\ n \in Call /\ n.op = "save" /\ n.at = "sent" /\ n.heard /\ n.s = p.s
        /\ n.paper = p.paper /\ n.answer = "none"
    BY <1>1, RequestIs, ZenonT(60) DEF Writing
  <2>3. /\ SendFrom(d, pg, n) /\ PersistLocal(d, p, p.sync = "pending")
        /\ UNCHANGED <<sheet, stale>> /\ acts' \in 0..MaxActs /\ p.stage = "open"
    BY <1>9, <2>1, <2>2, ActIs DEF OnHide
  <2>4. local' \in [Device -> [SheetId -> Draft]]
    BY <1>1, <2>3, PersistIs
  <2>5. Named(pg) /\ Naming(n, pg) /\ n.op \in Writing
    BY <1>2, <2>1, <2>2, <2>3 DEF Named, Naming, Writing
  <2> QED
    BY <1>1, <2>1, <2>2, <2>3, <2>4, <2>5, SendMoves
<1>10. ASSUME OnShow(d) PROVE Done
  <2> DEFINE pg == [p EXCEPT !.stage = "open"]
  <2>1. /\ pg \in Page /\ pg.s = p.s /\ pg.version = p.version
        /\ pg.overlapped = p.overlapped /\ pg.stage = "open" /\ pg.timer = p.timer
        /\ pg.paper = p.paper /\ pg.sync = p.sync
    BY <1>1 DEF Page, Stage
  <2> DEFINE n == Request("save", pg, FALSE)
  <2>2. /\ n \in Call /\ n.op = "save" /\ n.at = "sent" /\ n.heard /\ n.s = pg.s
        /\ n.paper = pg.paper /\ n.answer = "none"
    BY <2>1, RequestIs, ZenonT(60) DEF Writing
  <2>3. UNCHANGED <<sheet, stale, local>> /\ acts' \in 0..MaxActs /\ p.stage = "hidden"
    BY <1>10, ActIs DEF OnShow
  <2>4. SendFrom(d, pg, n) \/ (SetPage(d, pg) /\ UNCHANGED call)
    BY <1>10, <2>1, <2>2 DEF OnShow
  <2>5. Named(pg) /\ Naming(n, pg) /\ n.op \in Writing
    BY <1>2, <2>1, <2>2, <2>3 DEF Named, Naming, Writing
  <2>6. CASE SendFrom(d, pg, n)
    BY <1>1, <2>1, <2>2, <2>3, <2>5, <2>6, SendMoves
  <2>7. CASE SetPage(d, pg) /\ UNCHANGED call
    BY <1>1, <2>1, <2>3, <2>7, QuietMoves
  <2> QED
    BY <2>4, <2>6, <2>7
<1>11. ASSUME OnUnload(d) PROVE Done
  <2> DEFINE pg == Left(p)
  <2>1. /\ pg \in Page /\ pg.s = p.s /\ pg.version = p.version
        /\ pg.overlapped = p.overlapped /\ pg.stage = "closed" /\ ~ pg.timer
        /\ pg.sync = p.sync
    BY <1>1 DEF Page, Stage, Left
  <2>2. /\ SetPage(d, pg) /\ UNCHANGED <<sheet, stale, call>> /\ acts' \in 0..MaxActs
        /\ PersistLocal(d, p, p.sync = "pending")
    BY <1>11, <2>1, ActIs DEF OnUnload
  <2>3. local' \in [Device -> [SheetId -> Draft]]
    BY <1>1, <2>2, PersistIs
  <2> QED
    BY <2>1, <2>2, <2>3, QuietMoves
<1>12. ASSUME Kill(d) PROVE Done
  <2>1. TypeOK /\ stale \subseteq SheetId
    BY DEF Typed, TypeOK
  <2>2. /\ UNCHANGED <<sheet, stale, local>> /\ acts' \in 0..MaxActs /\ SetPage(d, Closed)
        /\ call' = [call EXCEPT ![d] = [k \in Slot |-> Unheard(call[d][k])]]
    BY <1>12, ActIs DEF Kill
  <2>3. /\ page' \in [Device -> Page] /\ page'[d] = Closed
        /\ \A e \in Device \ {d} : page'[e] = page[e]
    BY <2>1, <2>2, SetPageIs, Constants
  <2>4. /\ call' \in [Device -> [Slot -> Call]] /\ \A e \in Device \ {d} : call'[e] = call[e]
        /\ \A k \in Slot : call'[d][k] = Unheard(call[d][k])
    <3>1. \A k \in Slot : Unheard(call[d][k]) \in Call
      BY <1>1, UnheardIs
    <3> QED
      BY <2>1, <2>2, <3>1 DEF TypeOK
  <2>5. \A k \in Slot : Naming(call'[d][k], Closed) /\ Tame(call[d][k], call'[d][k])
                        /\ ~ call'[d][k].heard
    BY <1>1, <2>4, UnheardIs DEF Naming, Tame, CallNames
  <2>6. ASSUME NEW e \in Device
        PROVE  (PageNames(e) /\ \A j \in Slot : CallNames(e, j))'
    <3>1. CASE e = d
      BY <2>3, <2>5, <3>1 DEF PageNames, CallNames, Naming, Closed
    <3>2. CASE e # d
      <4>1. page'[e] = page[e] /\ call'[e] = call[e] /\ PageNames(e)
            /\ \A j \in Slot : CallNames(e, j)
        BY <2>3, <2>4, <3>2 DEF Typed
      <4> QED
        BY <4>1 DEF PageNames, CallNames
    <3> QED
      BY <3>1, <3>2
  <2>7. TypeOK'
    BY <2>1, <2>2, <2>3, <2>4 DEF TypeOK
  <2>8. Moves(d)
    BY <2>2, <2>3, <2>4, <2>5, <2>6, <2>7 DEF Moves, Typed
  <2>9. Level(page'[d], call'[d])
    BY <2>3, <2>5 DEF Level, Closed
  <2> QED
    BY <2>8, <2>9
<1>13. ASSUME HandleSubmit(d) PROVE Done
  <2> DEFINE pg == [p EXCEPT !.submitting = TRUE, !.tapped = p.paper]
  <2>1. /\ pg \in Page /\ pg.s = p.s /\ pg.version = p.version
        /\ pg.overlapped = p.overlapped /\ pg.stage = p.stage /\ pg.timer = p.timer
        /\ pg.paper = p.paper /\ pg.sync = p.sync
    BY <1>1, <1>2 DEF Page
  <2> DEFINE n == IF pg.sync = "pending" THEN Request("save", pg, TRUE)
                                        ELSE Request("submit", pg, FALSE)
  <2>2. /\ n \in Call /\ n.op \in {"save", "submit"} /\ n.at = "sent" /\ n.heard
        /\ n.s = pg.s /\ n.paper = pg.paper /\ n.answer = "none"
    <3> HIDE DEF pg
    <3>1. CASE pg.sync = "pending"
      BY <2>1, <3>1, RequestIs, ZenonT(60) DEF Writing
    <3>2. CASE pg.sync # "pending"
      BY <2>1, <3>2, RequestIs, ZenonT(60) DEF Writing
    <3> QED
      BY <3>1, <3>2
  <2>3. /\ SendFrom(d, pg, n) /\ UNCHANGED <<sheet, stale, local>>
        /\ acts' \in 0..MaxActs /\ p.stage = "open"
    BY <1>13, <2>1, <2>2, ActIs DEF HandleSubmit
  <2>4. Named(pg) /\ Naming(n, pg) /\ n.op \in Writing
    BY <1>2, <2>1, <2>2, <2>3 DEF Named, Naming, Writing
  <2> QED
    BY <1>1, <2>1, <2>2, <2>3, <2>4, SendMoves
<1>14. ASSUME NEW s \in SheetId, NEW v \in Value,
              HandleSupplement(d, s, [q \in Question |-> IF q \in Sensitive THEN v ELSE None])
       PROVE  Done
  <2> DEFINE a == [q \in Question |-> IF q \in Sensitive THEN v ELSE None]
             paper == [Blank EXCEPT !.answers = a]
             n == [NoCall EXCEPT !.op = "supplement", !.s = s, !.paper.answers = a]
  <2>1. paper \in Paper
    BY DEF Blank, Paper
  <2>2. n = [NoCall EXCEPT !.op = "supplement", !.s = s, !.paper = paper]
    BY DEF NoCall
  <2>3. UNCHANGED <<sheet, page, local, stale>> /\ acts' \in 0..MaxActs /\ Send(d, n)
    BY <1>14, ActIs DEF HandleSupplement
  <2> HIDE DEF paper
  <2>4. n \in Call /\ n.op = "supplement" /\ n.s = s /\ ~ n.heard /\ n.at = "sent"
    <3>1. NoCall \in Call /\ s \in 0..MaxSheets
      BY Constants
    <3> QED
      BY <2>1, <2>2, <3>1, ZenonT(60) DEF NoCall, Call, Op
  <2> HIDE DEF n
  <2>5. PICK k \in Slot : Put(d, k, n) /\ call[d][k].op = "none"
    BY <2>3 DEF Send, Free
  <2>6. TypeOK
    BY DEF Typed
  <2>7. SetPage(d, p)
    BY <2>3, <2>6 DEF SetPage, TypeOK
  <2>8. Named(p) /\ Naming(n, p) /\ Tame(call[d][k], n)
    BY <1>1, <2>4 DEF Named, Naming, PageNames, Tame
  <2>9. Moves(d)
    BY <1>1, <2>3, <2>4, <2>5, <2>7, <2>8, OneCallMoves
  <2>10. call'[d][k] = n /\ \A j \in Slot \ {k} : call'[d][j] = call[d][j]
    BY <2>4, <2>5, <2>6, PutIs
  <2>11. \A j \in Slot : call'[d][j].heard => call'[d][j] = call[d][j]
    BY <2>4, <2>10
  <2>12. page'[d] = p
    BY <2>3
  <2>13. Silent(call'[d]) => Silent(call[d])
    BY <1>1, <2>5, <2>10 DEF Silent, CallNames
  <2> QED
    BY <2>9, <2>11, <2>12, <2>13 DEF Level, Shows, Carries, Silent
<1> QED
  BY <1>3, <1>4, <1>5, <1>6, <1>7, <1>8, <1>9, <1>10, <1>11, <1>12, <1>13, <1>14 DEF User

LEMMA TimerMoves ==
  ASSUME Typed, NEW d \in Device, Level(page[d], call[d]), TimerFires(d)
  PROVE  Moves(d) /\ Level(page'[d], call'[d])
<1> DEFINE p == page[d]
           pg == [p EXCEPT !.timer = FALSE]
           n == Request("save", p, FALSE)
<1>1. /\ p \in Page /\ PageNames(d) /\ local \in [Device -> [SheetId -> Draft]]
      /\ acts \in 0..MaxActs
  BY TypesHere
<1>2. /\ pg \in Page /\ pg.s = p.s /\ pg.version = p.version
      /\ pg.overlapped = p.overlapped /\ pg.stage = p.stage /\ ~ pg.timer
      /\ pg.paper = p.paper
  BY <1>1 DEF Page
<1>3. /\ n \in Call /\ n.op = "save" /\ n.at = "sent" /\ n.heard
      /\ n.s = p.s /\ n.paper = p.paper /\ n.answer = "none"
  BY <1>1, RequestIs, ZenonT(60) DEF Writing
<1>4. SendFrom(d, pg, n) /\ UNCHANGED <<sheet, local, acts, stale>> /\ p.s \in SheetId
  BY <1>1 DEF TimerFires, PageNames
<1>5. Named(pg) /\ Naming(n, pg) /\ n.op \in Writing
  BY <1>2, <1>3, <1>4 DEF Named, Naming, Writing
<1> HIDE DEF pg, n
<1> QED
  BY <1>1, <1>2, <1>3, <1>4, <1>5, SendMoves

(* The page gets an answer, or gives up: the call it waited for becomes n. *)
ShowsOne(pg, n, row) ==
  /\ row.status # "none"
  /\ pg.version <= row.version
  /\ ~ pg.timer =>
       /\ (n.heard => n.op = "submit") /\ pg.sync = "idle" /\ pg.version = row.version =>
            Synced(pg.paper, row.paper)
       /\ Carries(n, pg)

LEMMA AnswerMoves ==
  ASSUME Typed, NEW d \in Device, NEW k \in Slot, Level(page[d], call[d]), call[d][k].heard,
         NEW pg \in Page, NEW n \in Call, SetPage(d, pg), Put(d, k, n),
         UNCHANGED <<sheet, acts, stale>>, local' \in [Device -> [SheetId -> Draft]],
         Named(pg), Naming(n, pg), Tame(call[d][k], n),
         page[d].s \in SheetId => pg.s \in SheetId, pg.overlapped = page[d].overlapped,
         ~ pg.overlapped =>
           /\ n.heard /\ n.op \in Writing => n.s = pg.s
           /\ pg.stage \in {"open", "hidden"} /\ pg.s \notin stale =>
                ShowsOne(pg, n, sheet[pg.s])
  PROVE  Moves(d) /\ Level(page'[d], call'[d])
<1>1. acts' \in 0..MaxActs
  BY TypesHere
<1>2. Moves(d)
  BY <1>1, OneCallMoves
<1>3. TypeOK
  BY DEF Typed
<1>4. call'[d][k] = n /\ \A j \in Slot \ {k} : call'[d][j] = call[d][j]
  BY <1>3, PutIs
<1>5. page'[d] = pg
  BY <1>3, SetPageIs
<1>6. ASSUME ~ pg.overlapped
      PROVE  \A j \in Slot : call'[d][j].heard => j = k
  BY <1>4, <1>6 DEF Level
<1> QED
  BY <1>2, <1>4, <1>5, <1>6 DEF Level, Shows, ShowsOne, Silent, Carries

(* Of the two a page waits for at most one, if its requests do not overlap.*)
LEMMA WaitsForOne ==
  ASSUME NEW d \in Device, NEW k \in Slot, Level(page[d], call[d]), call[d][k].heard,
         ~ page[d].overlapped, page[d].stage \in {"open", "hidden"}, page[d].s \notin stale
  PROVE  /\ ShowsOne(page[d], call[d][k], sheet[page[d].s])
         /\ call[d][k].op \in Writing => call[d][k].s = page[d].s
BY DEF Level, Shows, ShowsOne, Silent

LEMMA NoCallIs == NoCall \in Call /\ ~ NoCall.heard /\ NoCall.at = "sent" /\ NoCall.op = "none"
BY Constants DEF NoCall

LEMMA ApplyDetailMoves ==
  ASSUME Typed, NEW d \in Device, NEW k \in Slot, Level(page[d], call[d]),
         Known(call[d][k]), ApplyDetail(d, k)
  PROVE  Moves(d) /\ Level(page'[d], call'[d])
<1> DEFINE c == call[d][k]
           kept == local[d][c.s]
           useLocal == c.merge /\ kept.kept /\ kept.pending
           p == IF useLocal
                THEN [kept.paper EXCEPT !.answers = Over(kept.paper.answers, c.seen.paper.answers)]
                ELSE c.seen.paper
           pg == [page[d] EXCEPT
                    !.stage = IF @ = "loading" THEN "open" ELSE @,
                    !.s = c.s, !.version = c.seen.version, !.paper = p,
                    !.decided = p.dim \/ \E q \in Sensitive : p.answers[q] # None,
                    !.sync = IF useLocal THEN "pending" ELSE "idle"]
           n == IF useLocal THEN Request("save", pg, FALSE)
                ELSE IF c.then THEN Request("submit", pg, FALSE) ELSE NoCall
<1>1. /\ page[d] \in Page /\ local \in [Device -> [SheetId -> Draft]] /\ c \in Call
      /\ CallNames(d, k)
  BY TypesHere, SMTT(30)
<1>2. /\ c.heard /\ c.op = "start" /\ c.at = "answered" /\ c.answer = "ok" /\ c.s \in SheetId
      /\ SetPage(d, pg) /\ Put(d, k, n) /\ UNCHANGED <<sheet, local, acts, stale>>
  BY <1>1, ZenonT(60) DEF ApplyDetail, Heard, CallNames
<1>3. c.seen \in Row /\ c.seen.paper \in Paper /\ c.seen.version \in Nat /\ kept \in Draft
      /\ c.merge \in BOOLEAN /\ c.s \in 0..MaxSheets
  BY <1>1, <1>2, ZenonT(60) DEF Call, Row
<1>4. p \in Paper
  <2>1. CASE useLocal
    <3>1. kept.paper \in Paper
      <4>1. kept.kept = TRUE
        BY <2>1, <1>3 DEF Draft, NoDraft
      <4>2. kept # NoDraft
        BY <4>1 DEF NoDraft
      <4> HIDE DEF kept
      <4> QED
        BY <1>3, <4>2 DEF Draft
    <3>2. Over(kept.paper.answers, c.seen.paper.answers) \in [Question -> Value \cup {None}]
      BY <1>3, <3>1, OverType, SMTT(30) DEF Paper
    <3> QED
      BY <2>1, <3>1, <3>2, Zenon DEF Paper
  <2>2. CASE ~ useLocal
    BY <1>3, <2>2, SMTT(30)
  <2> QED
    BY <2>1, <2>2, Zenon
<1>5. ~ useLocal => p = c.seen.paper
  BY Zenon
<1> HIDE DEF p, useLocal
<1>6. (p.dim \/ \E q \in Sensitive : p.answers[q] # None) \in BOOLEAN
  BY <1>4 DEF Paper
<1>7. /\ pg \in Page /\ pg.s = c.s /\ pg.version = c.seen.version /\ pg.paper = p
      /\ pg.timer = page[d].timer /\ pg.overlapped = page[d].overlapped
      /\ pg.sync = IF useLocal THEN "pending" ELSE "idle"
  BY <1>1, <1>3, <1>4, <1>6, ZenonT(60) DEF Page, Stage
<1> HIDE DEF pg
<1>8. /\ n \in Call /\ n.at = "sent"
      /\ n.heard => n.op \in {"save", "submit"} /\ n.s = pg.s /\ n.paper = pg.paper
                    /\ n.answer = "none"
      /\ n.op \in Writing => n.heard
      /\ useLocal => n.heard /\ n.op = "save"
  <2> DEFINE Sent(m) == /\ m \in Call /\ m.at = "sent" /\ m.heard /\ m.answer = "none"
                        /\ m.s = pg.s /\ m.paper = pg.paper
  <2>1. /\ Sent(Request("save", pg, FALSE)) /\ Request("save", pg, FALSE).op = "save"
        /\ Sent(Request("submit", pg, FALSE)) /\ Request("submit", pg, FALSE).op = "submit"
    <3>1. \A op \in Writing : Sent(Request(op, pg, FALSE)) /\ Request(op, pg, FALSE).op = op
      BY <1>7, RequestIs
    <3>2. "save" \in Writing /\ "submit" \in Writing
      BY DEF Writing
    <3> HIDE DEF Sent
    <3> QED
      BY <3>1, <3>2
  <2>2. n \in {Request("save", pg, FALSE), Request("submit", pg, FALSE), NoCall}
        /\ (useLocal => n = Request("save", pg, FALSE))
    OBVIOUS
  <2> HIDE DEF n
  <2> QED
    BY <2>1, <2>2, NoCallIs DEF Writing
<1> HIDE DEF n
<1>9. Named(pg) /\ Naming(n, pg) /\ Tame(c, n)
  BY <1>2, <1>7, <1>8 DEF Named, Naming, Tame, Writing
<1>10. ASSUME pg.s \notin stale
       PROVE  ShowsOne(pg, n, sheet[pg.s])
  <2>1. /\ sheet[pg.s].status # "none" /\ pg.version <= sheet[pg.s].version
        /\ pg.version = sheet[pg.s].version => c.seen.paper = sheet[pg.s].paper
    BY <1>2, <1>7, <1>10 DEF Known
  <2>2. Carries(n, pg)
    BY <1>8, SMTT(30) DEF Carries
  <2>3. ASSUME pg.sync = "idle", pg.version = sheet[pg.s].version
        PROVE  Synced(pg.paper, sheet[pg.s].paper)
    BY <1>5, <1>7, <2>1, <2>3, Zenon DEF Synced
  <2> QED
    BY <2>1, <2>2, <2>3 DEF ShowsOne
<1>11. n.heard /\ n.op \in Writing => n.s = pg.s
  BY <1>8
<1>12. local' \in [Device -> [SheetId -> Draft]] /\ pg.s \in SheetId
  BY <1>1, <1>2, <1>7, SMTT(30)
<1> HIDE DEF c
<1> QED
  BY <1>1, <1>2, <1>7, <1>8, <1>9, <1>10, <1>11, <1>12, AnswerMoves DEF c

LEMMA DraftSavedMoves ==
  ASSUME Typed, NEW d \in Device, NEW k \in Slot, Level(page[d], call[d]),
         Known(call[d][k]), DraftSaved(d, k)
  PROVE  Moves(d) /\ Level(page'[d], call'[d])
<1> DEFINE c == call[d][k]
           pg == [page[d] EXCEPT !.version = c.seen.version, !.sync = "idle"]
           n == IF c.then THEN Request("submit", pg, FALSE) ELSE NoCall
<1>1. /\ page[d] \in Page /\ local \in [Device -> [SheetId -> Draft]] /\ c \in Call
      /\ CallNames(d, k) /\ PageNames(d)
  BY TypesHere
<1>2. /\ c.heard /\ c.op = "save" /\ c.at = "answered" /\ c.answer = "ok"
      /\ SetPage(d, pg) /\ Put(d, k, n) /\ UNCHANGED <<sheet, acts, stale>>
      /\ local' = [local EXCEPT ![d][c.s] = IF @.kept THEN [@ EXCEPT !.pending = FALSE] ELSE @]
  BY DEF DraftSaved, Heard
<1>3. c.seen \in Row /\ c.seen.version \in Nat /\ c.s \in SheetId /\ page[d].s \in SheetId
  BY <1>1, <1>2 DEF Call, Row, CallNames, Writing
<1>4. /\ pg \in Page /\ pg.s = page[d].s /\ pg.version = c.seen.version
      /\ pg.paper = page[d].paper /\ pg.stage = page[d].stage
      /\ pg.timer = page[d].timer /\ pg.overlapped = page[d].overlapped
  BY <1>1, <1>3 DEF Page
<1> HIDE DEF pg
<1>5. /\ n \in Call /\ n.at = "sent"
      /\ n.heard => n.op = "submit" /\ n.s = pg.s /\ n.answer = "none"
      /\ n.op \in Writing => n.heard
  BY <1>4, RequestIs, NoCallIs DEF Writing
<1> HIDE DEF n
<1>6. Named(pg) /\ Naming(n, pg) /\ Tame(c, n)
  BY <1>3, <1>4, <1>5 DEF Named, Naming, Tame, Writing
<1>7. local' \in [Device -> [SheetId -> Draft]]
  <2>1. local[d][c.s] \in Draft
    BY <1>1, <1>3
  <2>2. (IF local[d][c.s].kept THEN [local[d][c.s] EXCEPT !.pending = FALSE]
                              ELSE local[d][c.s]) \in Draft
    BY <2>1 DEF Draft, NoDraft
  <2> QED
    BY <1>1, <1>2, <1>3, <2>2
<1>8. ASSUME ~ pg.overlapped, pg.stage \in {"open", "hidden"}, pg.s \notin stale
      PROVE  ShowsOne(pg, n, sheet[pg.s])
  <2>1. ShowsOne(page[d], c, sheet[page[d].s]) /\ c.s = page[d].s
    BY <1>2, <1>4, <1>8, WaitsForOne DEF Writing
  <2>2. /\ sheet[pg.s].status # "none" /\ pg.version <= sheet[pg.s].version
        /\ pg.version = sheet[pg.s].version => c.seen.paper = sheet[pg.s].paper
    BY <1>2, <1>4, <1>8, <2>1 DEF Known
  <2>3. Carries(n, pg)
    BY <1>5 DEF Carries
  <2>4. ~ pg.timer => Synced(pg.paper, c.seen.paper)
    BY <1>2, <1>4, <2>1 DEF ShowsOne, Carries
  <2> QED
    BY <2>2, <2>3, <2>4 DEF ShowsOne
<1>9. n.heard /\ n.op \in Writing => n.s = pg.s
  BY <1>5
<1> HIDE DEF c
<1> QED
  BY <1>2, <1>3, <1>4, <1>5, <1>6, <1>7, <1>8, <1>9, AnswerMoves DEF c

LEMMA ReloadMoves ==
  ASSUME Typed, NEW d \in Device, NEW k \in Slot, Level(page[d], call[d]),
         ReloadAfterConflict(d, k)
  PROVE  Moves(d) /\ Level(page'[d], call'[d])
<1> DEFINE c == call[d][k]
           pg == IF c.op = "submit" THEN Untapped(page[d]) ELSE page[d]
           n == Start(FALSE, c.then)
<1>1. /\ page[d] \in Page /\ local \in [Device -> [SheetId -> Draft]] /\ c \in Call
      /\ CallNames(d, k) /\ PageNames(d)
  BY TypesHere
<1>2. /\ c.heard /\ SetPage(d, pg) /\ Put(d, k, n) /\ UNCHANGED <<sheet, local, acts, stale>>
  BY DEF ReloadAfterConflict, Heard
<1>3. /\ pg \in Page /\ pg.s = page[d].s /\ pg.version = page[d].version
      /\ pg.stage = page[d].stage /\ pg.timer = page[d].timer
      /\ pg.overlapped = page[d].overlapped
  BY <1>1, PaperIs DEF Page, Untapped
<1>4. n \in Call /\ n.op = "start" /\ n.at = "sent" /\ n.heard /\ n.answer = "none"
  BY <1>1, StartIs DEF Call
<1> HIDE DEF pg, n
<1>5. Named(pg) /\ Naming(n, pg) /\ Tame(c, n)
  BY <1>1, <1>3, <1>4 DEF Named, Naming, Tame, Writing, PageNames
<1>6. ASSUME ~ pg.overlapped, pg.stage \in {"open", "hidden"}, pg.s \notin stale
      PROVE  ShowsOne(pg, n, sheet[pg.s])
  <2>1. ShowsOne(page[d], c, sheet[page[d].s])
    BY <1>2, <1>3, <1>6, WaitsForOne
  <2> QED
    BY <1>3, <1>4, <2>1 DEF ShowsOne, Carries
<1>7. n.op \notin Writing
  BY <1>4 DEF Writing
<1> HIDE DEF c
<1> QED
  BY <1>1, <1>2, <1>3, <1>4, <1>5, <1>6, <1>7, AnswerMoves DEF c

LEMMA RedirectMoves ==
  ASSUME Typed, NEW d \in Device, NEW k \in Slot, Level(page[d], call[d]),
         RedirectToReport(d, k)
  PROVE  Moves(d) /\ Level(page'[d], call'[d])
<1> DEFINE pg == Untapped(Left(page[d]))
<1>1. page[d] \in Page /\ PageNames(d)
  BY TypesHere
<1>2. /\ call[d][k].heard /\ SetPage(d, pg) /\ Put(d, k, NoCall)
      /\ UNCHANGED <<sheet, acts, stale>> /\ PersistLocal(d, page[d], page[d].sync = "pending")
  BY DEF RedirectToReport, Heard
<1>3. /\ pg \in Page /\ pg.s = page[d].s /\ pg.stage = "closed" /\ ~ pg.timer
      /\ pg.overlapped = page[d].overlapped
  BY <1>1, PaperIs DEF Page, Untapped, Left, Stage
<1> HIDE DEF pg
<1>4. local' \in [Device -> [SheetId -> Draft]]
  BY <1>1, <1>2, PersistIs
<1>5. Named(pg) /\ Naming(NoCall, pg) /\ Tame(call[d][k], NoCall)
  BY <1>3, NoCallIs DEF Named, Naming, Tame, Writing
<1> QED
  BY <1>2, <1>3, <1>4, <1>5, NoCallIs, AnswerMoves

(* A failed save leaves its mark, a failed submission leaves the page as it*)
(* was, and without its sheet the page shows an error.                     *)
LEMMA FailedMoves ==
  ASSUME Typed, NEW d \in Device, NEW k \in Slot, Level(page[d], call[d]),
         NEW n \in Call, ~ n.heard, Naming(n, page[d]), Tame(call[d][k], n),
         call[d][k].heard, Failed(d, k), Put(d, k, n), UNCHANGED <<sheet, acts, stale>>
  PROVE  Moves(d) /\ Level(page'[d], call'[d])
<1> DEFINE c == call[d][k]
           q == IF c.then THEN Untapped(page[d]) ELSE page[d]
           Same(pg) == /\ pg.s = page[d].s /\ pg.version = page[d].version
                       /\ pg.timer = page[d].timer /\ pg.overlapped = page[d].overlapped
                       /\ pg.paper = page[d].paper
<1>1. /\ page[d] \in Page /\ local \in [Device -> [SheetId -> Draft]]
      /\ CallNames(d, k) /\ PageNames(d)
  BY TypesHere
<1>2. q \in Page /\ Same(q) /\ q.stage = page[d].stage
  BY <1>1, PaperIs DEF Page, Untapped
<1>3. ASSUME c.op = "save", SetPage(d, [q EXCEPT !.sync = "pending"]),
             PersistLocal(d, page[d], TRUE)
      PROVE  Moves(d) /\ Level(page'[d], call'[d])
  <2> DEFINE pg == [q EXCEPT !.sync = "pending"]
  <2> HIDE DEF q
  <2>1. pg \in Page /\ Same(pg) /\ pg.stage = page[d].stage /\ pg.sync = "pending"
    BY <1>2 DEF Page
  <2>2. local' \in [Device -> [SheetId -> Draft]]
    BY <1>1, <1>3, PersistIs
  <2>3. SetPage(d, pg)
    BY <1>3
  <2> HIDE DEF pg
  <2>4. Named(pg) /\ Naming(n, pg)
    BY <1>1, <2>1 DEF Named, Naming, PageNames
  <2>5. ASSUME ~ pg.overlapped, pg.stage \in {"open", "hidden"}, pg.s \notin stale
        PROVE  ShowsOne(pg, n, sheet[pg.s])
    <3>1. ShowsOne(page[d], c, sheet[page[d].s])
      BY <2>1, <2>5, WaitsForOne
    <3> QED
      BY <2>1, <3>1 DEF ShowsOne, Carries
  <2> HIDE DEF c
  <2> QED
    BY <1>1, <2>1, <2>2, <2>3, <2>4, <2>5, AnswerMoves
<1>4. ASSUME c.op = "submit", SetPage(d, Untapped(page[d])), UNCHANGED local
      PROVE  Moves(d) /\ Level(page'[d], call'[d])
  <2> DEFINE pg == Untapped(page[d])
  <2>1. pg \in Page /\ Same(pg) /\ pg.stage = page[d].stage /\ pg.sync = page[d].sync
    BY <1>1, PaperIs DEF Page, Untapped
  <2>2. SetPage(d, pg)
    BY <1>4
  <2> HIDE DEF pg
  <2>3. Named(pg) /\ Naming(n, pg)
    BY <1>1, <2>1 DEF Named, Naming, PageNames
  <2>4. ASSUME ~ pg.overlapped, pg.stage \in {"open", "hidden"}, pg.s \notin stale
        PROVE  ShowsOne(pg, n, sheet[pg.s])
    <3>1. ShowsOne(page[d], c, sheet[page[d].s])
      BY <2>1, <2>4, WaitsForOne
    <3> QED
      BY <1>4, <2>1, <3>1 DEF ShowsOne, Carries
  <2> HIDE DEF c
  <2> QED
    BY <1>1, <1>4, <2>1, <2>2, <2>3, <2>4, AnswerMoves
<1>5. ASSUME c.op = "start", UNCHANGED local,
             SetPage(d, [q EXCEPT !.stage = IF @ = "closed" THEN @ ELSE "error"])
      PROVE  Moves(d) /\ Level(page'[d], call'[d])
  <2> DEFINE pg == [q EXCEPT !.stage = IF @ = "closed" THEN @ ELSE "error"]
  <2> HIDE DEF q
  <2>1. pg \in Page /\ Same(pg) /\ pg.stage \in {"closed", "error"}
    BY <1>2 DEF Page, Stage
  <2>2. SetPage(d, pg)
    BY <1>5
  <2> HIDE DEF pg
  <2>3. Named(pg) /\ Naming(n, pg)
    BY <1>1, <2>1 DEF Named, Naming, PageNames
  <2> HIDE DEF c
  <2> QED
    BY <1>1, <1>5, <2>1, <2>2, <2>3, AnswerMoves
<1> QED
  BY <1>3, <1>4, <1>5 DEF Failed

LEMMA ReplyMoves ==
  ASSUME Typed, NEW d \in Device, NEW k \in Slot, Level(page[d], call[d]),
         Known(call[d][k]), Replies(d, k)
  PROVE  Moves(d) /\ Level(page'[d], call'[d])
<1> DEFINE Done == Moves(d) /\ Level(page'[d], call'[d])
           c == call[d][k]
<1>1. page[d] \in Page /\ PageNames(d) /\ c \in Call /\ CallNames(d, k)
  BY TypesHere
<1>2. ASSUME HandleRefused(d, k) PROVE Done
  <2>1. Naming(NoCall, page[d]) /\ Tame(c, NoCall)
    BY NoCallIs DEF Naming, Tame, Writing
  <2> QED
    BY <1>2, <2>1, NoCallIs, FailedMoves DEF HandleRefused, Heard
<1>3. ASSUME GiveUp(d, k) PROVE Done
  <2>1. /\ Unheard(c) \in Call /\ ~ Unheard(c).heard
        /\ Naming(Unheard(c), page[d]) /\ Tame(c, Unheard(c))
    BY <1>1, UnheardIs DEF Naming, CallNames, Tame
  <2> QED
    BY <1>3, <2>1, FailedMoves DEF GiveUp
<1>4. ASSUME Forget(d, k) PROVE Done
  <2>1. ~ c.heard /\ Put(d, k, NoCall) /\ UNCHANGED <<sheet, page, local, acts, stale>>
    BY <1>4 DEF Forget
  <2>2. TypeOK /\ acts \in 0..MaxActs /\ local \in [Device -> [SheetId -> Draft]]
    BY TypesHere DEF Typed
  <2>3. SetPage(d, page[d])
    BY <2>1, <2>2 DEF SetPage, TypeOK
  <2>4. Named(page[d]) /\ Naming(NoCall, page[d]) /\ Tame(c, NoCall)
    BY <1>1, NoCallIs DEF Named, Naming, PageNames, Tame, Writing
  <2>5. Moves(d)
    BY <1>1, <2>1, <2>2, <2>3, <2>4, NoCallIs, OneCallMoves
  <2>6. call'[d][k] = NoCall /\ \A j \in Slot \ {k} : call'[d][j] = call[d][j]
    BY <2>1, <2>2, NoCallIs, PutIs
  <2>7. \A j \in Slot : call'[d][j].heard => call'[d][j] = call[d][j]
    BY <2>6, NoCallIs
  <2>8. Silent(call'[d]) => Silent(call[d])
    BY <2>1, <2>6 DEF Silent
  <2> QED
    BY <2>1, <2>5, <2>7, <2>8 DEF Level, Shows, Carries
<1> QED
  BY <1>2, <1>3, <1>4, ApplyDetailMoves, DraftSavedMoves, ReloadMoves, RedirectMoves DEF Replies

(* A step of a page leaves the rows alone and keeps what requests know.    *)
LEMMA PageStepKeeps ==
  ASSUME AnswersInv, NEW d \in Device, Moves(d), Level(page'[d], call'[d])
  PROVE  AnswersInv'
<1>1. /\ sheet' = sheet /\ stale' = stale /\ Typed'
      /\ \A e \in Device \ {d} : page'[e] = page[e] /\ call'[e] = call[e]
      /\ \A k \in Slot : Tame(call[d][k], call'[d][k])
  BY DEF Moves
<1>2. \A s \in SheetId : (Sound(sheet[s]) /\ (s \notin stale => Locked(sheet[s])))'
  BY <1>1 DEF AnswersInv
<1>3. ASSUME NEW e \in Device, NEW k \in Slot
      PROVE  (Admitted(call[e][k]) /\ Known(call[e][k]))'
  <2>1. Admitted(call[e][k]) /\ Known(call[e][k]) /\ Tame(call[e][k], call'[e][k])
    BY <1>1 DEF AnswersInv, Tame
  <2> DEFINE c == call[e][k]
             n == call'[e][k]
  <2>2. CASE n.at = "sent"
    BY <2>2 DEF Admitted, Known, Loaded
  <2>3. CASE n.at # "sent"
    <3>1. /\ n.at = c.at /\ n.op = c.op /\ n.s = c.s /\ n.version = c.version
          /\ n.paper = c.paper /\ n.seen = c.seen /\ n.answer = c.answer
      BY <2>1, <2>3 DEF Tame
    <3>2. Refusal(n, n.seen) = Refusal(c, c.seen)
      BY <3>1 DEF Refusal
    <3> HIDE DEF n, c
    <3>3. Admitted(c) /\ Known(c)
      BY <2>1 DEF c
    <3> QED
      BY <1>1, <3>1, <3>2, <3>3 DEF Admitted, Known, Loaded, n
  <2> QED
    BY <2>2, <2>3
<1>4. ASSUME NEW e \in Device
      PROVE  Level(page[e], call[e])'
  <2>1. Level(page'[e], call'[e])
    <3>1. CASE e = d
      BY <3>1
    <3>2. CASE e # d
      BY <1>1, <3>2 DEF AnswersInv
    <3> QED
      BY <3>1, <3>2
  <2> QED
    BY <1>1, <2>1 DEF Level, Shows, Silent, Carries
<1> QED
  BY <1>1, <1>2, <1>3, <1>4 DEF AnswersInv
-----------------------------------------------------------------------------
(* The server.                                                             *)

(* A request that was let in is one of three.                              *)
LEMMA AdmittedIs ==
  ASSUME NEW c \in Call, NEW row \in Row, c.op \in Writing, Refusal(c, row) = "none"
  PROVE  /\ c.op \in {"save", "submit"} => row.status = "draft" /\ Valid(c.paper)
         /\ c.op = "submit" => Complete(Merged(row.paper, c.paper))
         /\ c.op = "supplement" =>
              /\ row.status = "submitted" /\ Excluded(row.cache.paper) # {}
              /\ \A q \in Excluded(row.cache.paper) : c.paper.answers[q] # None
<1>1. CASE c.op = "supplement"
  BY <1>1 DEF Refusal
<1>2. CASE c.op # "supplement"
  <2>1. row.status = "draft" /\ row.version = c.version
    BY <1>2 DEF Refusal
  <2>2. Valid(c.paper) /\ (c.op = "submit" => Complete(Merged(row.paper, c.paper)))
    BY <1>2, <2>1 DEF Refusal
  <2> QED
    BY <1>2, <2>1, <2>2 DEF Writing
<1> QED
  BY <1>1, <1>2

(* A supplement leaves nothing out.                                        *)
LEMMA SupplementedIs ==
  ASSUME NEW c \in Call, c.seen \in Row
  PROVE  LET p == SupplementPatch(c, c.seen).paper IN
         /\ p \in Paper /\ Excluded(p) = {} /\ Valid(p)
         /\ \A row \in Row : SupplementPatch(c, row) =
              [row EXCEPT !.version = c.seen.version + 1, !.paper = p, !.cache = Scores(p, TRUE)]
         /\ \A q \in Question : p.answers[q] =
              IF q \in Excluded(c.seen.cache.paper) THEN c.paper.answers[q]
                                                    ELSE c.seen.paper.answers[q]
<1> DEFINE a == [q \in Question |->
                   IF q \in Excluded(c.seen.cache.paper) THEN c.paper.answers[q]
                                                         ELSE c.seen.paper.answers[q]]
           p == [Blank EXCEPT !.answers = a]
<1>1. /\ c.paper.answers \in [Question -> Value \cup {None}]
      /\ c.seen.paper.answers \in [Question -> Value \cup {None}]
  BY DEF Call, Row, Paper
<1>2. a \in [Question -> Value \cup {None}]
  BY <1>1
<1>3. \A row \in Row : SupplementPatch(c, row) =
        [row EXCEPT !.version = c.seen.version + 1, !.paper = p, !.cache = Scores(p, TRUE)]
  BY DEF SupplementPatch
<1>4. \A q \in Question : a[q] =
        IF q \in Excluded(c.seen.cache.paper) THEN c.paper.answers[q]
                                              ELSE c.seen.paper.answers[q]
  OBVIOUS
<1> HIDE DEF a
<1>5. Blank \in Paper /\ ~ Blank.dim /\ Blank.skips = {}
  BY PaperIs DEF Blank
<1>6. p \in Paper /\ ~ p.dim /\ p.skips = {} /\ p.answers = a
  BY <1>2, <1>5 DEF Paper
<1> HIDE DEF p
<1>7. Excluded(p) = {} /\ Valid(p)
  BY <1>6 DEF Excluded, Valid
<1>8. SupplementPatch(c, c.seen).paper = p
  BY <1>3 DEF Row
<1> QED
  BY <1>3, <1>4, <1>6, <1>7, <1>8

(* What a request that was let in makes of a row: the next version of the  *)
(* row it has seen, with nothing kept that is refused.                     *)
LEMMA PatchSound ==
  ASSUME NEW c \in Call, NEW row \in Row, c.op \in Writing, Refusal(c, c.seen) = "none",
         Sound(c.seen), Sound(row)
  PROVE  LET new == Patched(c, row) IN
         /\ new \in Row /\ Sound(new)
         /\ new.version = c.seen.version + 1 /\ new.paper = Patched(c, c.seen).paper
         /\ new.status = IF c.op = "submit" THEN "submitted" ELSE row.status
         /\ c.op = "save" => new.paper = Merged(c.seen.paper, c.paper) /\ new.cache = row.cache
<1>1. c.seen \in Row /\ c.paper \in Paper /\ c.seen.paper \in Paper /\ c.seen.version + 1 \in Nat
  BY DEF Call, Row
<1> DEFINE p == Merged(c.seen.paper, c.paper)
<1>2. p \in Paper /\ Excluded(p) = Excluded(c.paper) /\ (Valid(c.paper) => Valid(p))
      /\ \A q \in Excluded(p) : q \in Question => p.answers[q] = None
  BY <1>1, MergedIs
<1>3. Excluded(p) \subseteq Question
  BY <1>2 DEF Excluded, Paper, Question
<1>4. \A r \in Paper : /\ Scores(r, FALSE) \in Scored /\ Scores(r, TRUE) \in Scored
                      /\ Scores(r, TRUE).paper = r /\ ~ Scores(r, FALSE).supplemented
  BY DEF Scores, Scored
<1> Scored \subseteq Cache
  BY DEF Scored, Cache
<1>5. CASE c.op = "save"
  <2> DEFINE new == [row EXCEPT !.version = c.seen.version + 1, !.paper = p]
  <2>1. Patched(c, row) = new /\ Patched(c, c.seen).paper = p
    BY <1>1, <1>5 DEF Patched, SavePatch, Row
  <2>2. Valid(c.paper)
    BY <1>1, <1>5, AdmittedIs
  <2> HIDE DEF p
  <2>3. /\ new \in Row /\ new.version = c.seen.version + 1 /\ new.paper = p
        /\ new.status = row.status /\ new.cache = row.cache
    BY <1>1, <1>2 DEF Row
  <2> HIDE DEF new
  <2>4. Sound(new)
    BY <1>2, <1>3, <2>2, <2>3 DEF Sound
  <2> QED
    BY <1>5, <2>1, <2>3, <2>4 DEF p
<1>6. CASE c.op = "submit"
  <2> DEFINE new == [row EXCEPT !.version = c.seen.version + 1, !.paper = p,
                                !.cache = Scores(p, FALSE), !.status = "submitted"]
  <2>1. Patched(c, row) = new /\ Patched(c, c.seen).paper = p
    BY <1>1, <1>6 DEF Patched, SubmitPatch, Row
  <2>2. Valid(c.paper)
    BY <1>1, <1>6, AdmittedIs
  <2> HIDE DEF p
  <2>3. /\ new \in Row /\ new.version = c.seen.version + 1 /\ new.paper = p
        /\ new.status = "submitted" /\ new.cache = Scores(p, FALSE)
    BY <1>1, <1>2, <1>4 DEF Row
  <2> HIDE DEF new
  <2>4. Sound(new)
    BY <1>2, <1>3, <1>4, <2>2, <2>3 DEF Sound
  <2> QED
    BY <1>6, <2>1, <2>3, <2>4
<1>7. CASE c.op = "supplement"
  <2> DEFINE r == SupplementPatch(c, c.seen).paper
             new == SupplementPatch(c, row)
  <2>1. Patched(c, row) = new /\ Patched(c, c.seen).paper = r
    BY <1>7 DEF Patched
  <2>2. /\ r \in Paper /\ Excluded(r) = {} /\ Valid(r)
        /\ new = [row EXCEPT !.version = c.seen.version + 1, !.paper = r,
                             !.cache = Scores(r, TRUE)]
    BY <1>1, SupplementedIs
  <2> HIDE DEF r, new
  <2>3. /\ new \in Row /\ new.version = c.seen.version + 1 /\ new.paper = r
        /\ new.status = row.status /\ new.cache = Scores(r, TRUE)
    BY <1>1, <1>4, <2>2 DEF Row
  <2>4. Sound(new)
    BY <1>4, <2>2, <2>3 DEF Sound
  <2> QED
    BY <1>7, <2>1, <2>3, <2>4
<1> QED
  BY <1>5, <1>6, <1>7 DEF Writing

(* Written on the row it has seen, it keeps scores and answers together.   *)
LEMMA PatchLocked ==
  ASSUME NEW c \in Call, c.op \in Writing, Refusal(c, c.seen) = "none",
         Sound(c.seen), Locked(c.seen)
  PROVE  Locked(Patched(c, c.seen))
<1>1. c.seen \in Row /\ c.paper \in Paper /\ c.seen.paper \in Paper
  BY DEF Call, Row
<1>2. /\ \A b, r : Scores(r, b).paper = r
      /\ \A b \in BOOLEAN, r \in Paper : Scores(r, b) = Scores(r, Scores(r, b).supplemented)
  BY DEF Scores
<1>3. CASE c.op = "save"
  <2>1. c.seen.status = "draft"
    BY <1>1, <1>3, AdmittedIs
  <2>2. Patched(c, c.seen).status = "draft"
    BY <1>1, <1>3, <2>1, PatchSound
  <2> QED
    BY <2>2 DEF Locked
<1>4. CASE c.op = "submit"
  <2> DEFINE p == Merged(c.seen.paper, c.paper)
             new == Patched(c, c.seen)
  <2>1. p \in Paper /\ Complete(p)
    BY <1>1, <1>4, AdmittedIs, MergedIs
  <2>2. new = [c.seen EXCEPT !.version = c.seen.version + 1, !.paper = p,
                             !.cache = Scores(p, FALSE), !.status = "submitted"]
    BY <1>4 DEF Patched, SubmitPatch
  <2> HIDE DEF p, new
  <2>3. new.paper = p /\ new.cache = Scores(p, FALSE)
    BY <1>1, <2>2 DEF Row
  <2> QED
    BY <1>2, <2>1, <2>3 DEF Locked, new
<1>5. CASE c.op = "supplement"
  <2> DEFINE r == SupplementPatch(c, c.seen).paper
             new == Patched(c, c.seen)
             left == Excluded(c.seen.cache.paper)
  <2>1. c.seen.status = "submitted" /\ \A q \in left : c.paper.answers[q] # None
    BY <1>1, <1>5, AdmittedIs
  <2>2. /\ r \in Paper /\ Excluded(r) = {}
        /\ new = [c.seen EXCEPT !.version = c.seen.version + 1, !.paper = r,
                                !.cache = Scores(r, TRUE)]
        /\ \A q \in Question : r.answers[q] =
             IF q \in left THEN c.paper.answers[q] ELSE c.seen.paper.answers[q]
    BY <1>1, <1>5, SupplementedIs DEF Patched
  <2> HIDE DEF r, new
  <2>3. new.paper = r /\ new.cache = Scores(r, TRUE)
    BY <1>1, <2>2 DEF Row
  <2>4. left = Excluded(c.seen.paper) /\ Complete(c.seen.paper)
    <3>1. /\ c.seen.cache = Scores(c.seen.paper, c.seen.cache.supplemented)
          /\ c.seen.cache \in Scored
      BY <2>1 DEF Locked, Sound
    <3>2. c.seen.cache.paper = c.seen.paper
      BY <1>2, <3>1
    <3> QED
      BY <2>1, <3>2 DEF Locked
  <2>5. Complete(r)
    BY <2>1, <2>2, <2>4 DEF Complete
  <2> QED
    BY <1>2, <2>2, <2>3, <2>5 DEF Locked, new
<1> QED
  BY <1>3, <1>4, <1>5 DEF Writing
(* The answer to a request, and the request it answers.                    *)
LEMMA AnsweredIs ==
  ASSUME Typed, NEW d \in Device, NEW k \in Slot, NEW answer \in Answer,
         NEW s \in 0..MaxSheets, NEW row \in Row, Answered(d, k, answer, s, row)
  PROVE  \E n \in Call :
           /\ Put(d, k, n) /\ n.at = "answered" /\ n.answer = answer /\ n.s = s
           /\ n.seen = row /\ n.op = call[d][k].op /\ n.heard = call[d][k].heard
<1> DEFINE n == [call[d][k] EXCEPT !.at = "answered", !.answer = answer, !.s = s,
                                   !.seen = row, !.version = 0, !.paper = Blank]
<1>1. call[d][k] \in Call
  BY TypesHere
<1>2. /\ n \in Call /\ n.at = "answered" /\ n.answer = answer /\ n.s = s
      /\ n.seen = row /\ n.op = call[d][k].op /\ n.heard = call[d][k].heard
  BY <1>1, PaperIs DEF Call
<1>3. Put(d, k, n)
  BY DEF Answered
<1> HIDE DEF n
<1> QED
  BY <1>2, <1>3

(* A row that exists stays, and with the same version it is the same row.  *)
Grows(r, t) == r.status # "none" => t.status # "none" /\ (t = r \/ t.version > r.version)

(* A step of the server: one request moves on, and rows written by a       *)
(* request that had seen them grow.                                        *)
LEMMA ServerKeeps ==
  ASSUME AnswersInv, NEW d \in Device, NEW k \in Slot, NEW n \in Call, Put(d, k, n),
         UNCHANGED <<page, local, acts>>, sheet' \in [SheetId -> Row],
         stale \subseteq stale', stale' \subseteq SheetId,
         n.op = call[d][k].op, n.heard = call[d][k].heard,
         n.op \in Writing => n.s = call[d][k].s,
         n.at = "answered" /\ n.answer = "ok" => n.s \in SheetId,
         \A s \in SheetId :
           /\ Sound(sheet'[s])
           /\ s \notin stale' => Locked(sheet'[s]) /\ Grows(sheet[s], sheet'[s]),
         Admitted(n), Known(n)',
         Carries(call[d][k], page[d]) => Carries(n, page[d])
  PROVE  AnswersInv'
<1>1. Typed /\ TypeOK
  BY DEF AnswersInv, Typed
<1>2. /\ call' \in [Device -> [Slot -> Call]] /\ call'[d][k] = n
      /\ \A e \in Device, j \in Slot : e # d \/ j # k => call'[e][j] = call[e][j]
  BY <1>1, PutIs
<1>3. \A e \in Device, j \in Slot :
        /\ call'[e][j].op = call[e][j].op /\ call'[e][j].heard = call[e][j].heard
        /\ call'[e][j].op \in Writing => call'[e][j].s = call[e][j].s
        /\ Carries(call[e][j], page[e]) => Carries(call'[e][j], page[e])
  BY <1>2
<1>4. Typed'
  <2>1. TypeOK'
    BY <1>1, <1>2 DEF TypeOK
  <2>2. ASSUME NEW e \in Device, NEW j \in Slot
        PROVE  (PageNames(e) /\ CallNames(e, j))'
    <3>1. PageNames(e) /\ CallNames(e, j)
      BY <1>1 DEF Typed
    <3>2. CASE e = d /\ j = k
      BY <1>2, <1>3, <3>1, <3>2 DEF PageNames, CallNames
    <3>3. CASE e # d \/ j # k
      BY <1>2, <3>1, <3>3 DEF PageNames, CallNames
    <3> QED
      BY <3>2, <3>3
  <2>3. \A e \in Device : PageNames(e)'
    BY <1>1 DEF Typed, PageNames
  <2> QED
    BY <2>1, <2>2, <2>3 DEF Typed
<1>5. ASSUME NEW e \in Device, NEW j \in Slot
      PROVE  (Admitted(call[e][j]) /\ Known(call[e][j]))'
  <2>1. CASE e = d /\ j = k
    <3>1. Admitted(n)'
      BY SMTT(30) DEF Admitted, Sound, Loaded, Refusal
    <3> QED
      BY <1>2, <2>1, <3>1 DEF Admitted, Known
  <2>2. CASE e # d \/ j # k
    <3> DEFINE c == call[e][j]
    <3>1. call'[e][j] = c /\ Admitted(c) /\ Known(c) /\ CallNames(e, j) /\ c \in Call
      BY <1>1, <1>2, <2>2, TypesHere DEF AnswersInv, Typed
    <3>2. ASSUME Loaded(c) \/ (c.at = "answered" /\ c.answer = "ok"), c.s \notin stale'
          PROVE  /\ sheet'[c.s].status # "none" /\ c.seen.version <= sheet'[c.s].version
                 /\ c.seen.version = sheet'[c.s].version => c.seen.paper = sheet'[c.s].paper
      <4>1. c.s \in SheetId
        BY <3>1, <3>2 DEF CallNames, Loaded
      <4>2. c.seen.version \in Nat /\ sheet[c.s].version \in Nat /\ sheet'[c.s].version \in Nat
        BY <1>1, <3>1, <4>1, TypesHere DEF Call, Row
      <4>3. /\ sheet[c.s].status # "none" /\ c.seen.version <= sheet[c.s].version
            /\ c.seen.version = sheet[c.s].version => c.seen.paper = sheet[c.s].paper
        BY <3>1, <3>2 DEF Known
      <4>4. Grows(sheet[c.s], sheet'[c.s])
        BY <3>2, <4>1
      <4> HIDE DEF c
      <4> QED
        BY <4>2, <4>3, <4>4 DEF Grows
    <3> QED
      BY <3>1, <3>2 DEF Admitted, Known, Loaded, Sound, Refusal
  <2> QED
    BY <2>1, <2>2
<1>6. ASSUME NEW e \in Device
      PROVE  Level(page[e], call[e])'
  <2>1. Level(page[e], call[e]) /\ PageNames(e) /\ page[e] \in Page
    BY <1>1, TypesHere DEF AnswersInv
  <2>2. ASSUME ~ page[e].overlapped, page[e].stage \in {"open", "hidden"},
               page[e].s \notin stale'
        PROVE  Shows(page[e], call'[e], sheet'[page[e].s])
    <3> DEFINE row == sheet[page[e].s]
               new == sheet'[page[e].s]
    <3>1. page[e].s \in SheetId
      BY <2>1, <2>2 DEF PageNames
    <3>2. Shows(page[e], call[e], row) /\ Grows(row, new)
      BY <2>1, <2>2, <3>1 DEF Level
    <3>3. row.version \in Nat /\ new.version \in Nat /\ page[e].version \in Nat
      BY <1>1, <2>1, <3>1, TypesHere DEF Row, Page
    <3>4. Silent(call'[e]) => Silent(call[e])
      BY <1>3 DEF Silent
    <3> HIDE DEF row, new
    <3>5. Shows(page[e], call'[e], new)
      BY <1>3, <3>2, <3>3, <3>4 DEF Shows, Grows
    <3> QED
      BY <3>5 DEF new
  <2>3. /\ page'[e] = page[e]
        /\ \A j \in Slot : /\ call'[e][j].op = call[e][j].op
                           /\ call'[e][j].heard = call[e][j].heard
                           /\ call'[e][j].op \in Writing => call'[e][j].s = call[e][j].s
    BY <1>3
  <2> QED
    BY <2>1, <2>2, <2>3 DEF Level, Shows, Silent, Carries
<1>7. \A s \in SheetId : (Sound(sheet[s]) /\ (s \notin stale => Locked(sheet[s])))'
  BY DEF Sound, Locked
<1> QED
  BY <1>4, <1>5, <1>6, <1>7 DEF AnswersInv
LEMMA FindDraftKeeps ==
  ASSUME AnswersInv, NEW d \in Device, NEW k \in Slot, FindDraft(d, k)
  PROVE  AnswersInv'
<1> DEFINE c == call[d][k]
<1>1. /\ Typed /\ c \in Call /\ sheet \in [SheetId -> Row] /\ stale \subseteq SheetId
      /\ \A s \in SheetId : Sound(sheet[s]) /\ (s \notin stale => Locked(sheet[s]))
  BY TypesHere DEF AnswersInv, Typed, TypeOK
<1>2. c.op = "start" /\ UNCHANGED <<sheet, page, local, acts, stale>>
  BY DEF FindDraft
<1>3. \A s \in SheetId : /\ Sound(sheet'[s])
                         /\ s \notin stale' => Locked(sheet'[s]) /\ Grows(sheet[s], sheet'[s])
  BY <1>1, <1>2 DEF Grows
<1>4. ASSUME Put(d, k, [c EXCEPT !.at = "insert"])
      PROVE  AnswersInv'
  <2>1. PICK n \in Call : /\ Put(d, k, n) /\ n.op = c.op /\ n.heard = c.heard
                          /\ n.at = "insert"
    <3> DEFINE m == [c EXCEPT !.at = "insert"]
    <3>1. m \in Call /\ m.op = c.op /\ m.heard = c.heard /\ m.at = "insert"
      BY <1>1 DEF Call
    <3>2. Put(d, k, m)
      BY <1>4
    <3> HIDE DEF m
    <3> QED
      BY <3>1, <3>2
  <2>2. Admitted(n) /\ Known(n)' /\ Carries(n, page[d]) /\ n.op \notin Writing
    BY <1>2, <2>1 DEF Admitted, Known, Loaded, Writing, Carries
  <2> QED
    BY <1>1, <1>2, <1>3, <2>1, <2>2, ServerKeeps
<1>5. ASSUME NEW s \in Drafts, Answered(d, k, "ok", s, sheet[s])
      PROVE  AnswersInv'
  <2>1. s \in SheetId /\ s \in 0..MaxSheets /\ sheet[s] \in Row /\ sheet[s].status = "draft"
    BY <1>1, Constants DEF Drafts
  <2>2. PICK n \in Call : /\ Put(d, k, n) /\ n.at = "answered" /\ n.s = s /\ n.seen = sheet[s]
                          /\ n.op = c.op /\ n.heard = c.heard
    BY <1>1, <1>5, <2>1, AnsweredIs DEF Answer
  <2>3. Admitted(n) /\ Carries(n, page[d]) /\ n.op \notin Writing
    BY <1>2, <2>2 DEF Admitted, Loaded, Writing, Carries
  <2>4. Known(n)'
    BY <1>2, <2>1, <2>2 DEF Known, Row
  <2> QED
    BY <1>1, <1>2, <1>3, <2>1, <2>2, <2>3, <2>4, ServerKeeps
<1> QED
  BY <1>4, <1>5 DEF FindDraft

LEMMA InsertSheetKeeps ==
  ASSUME AnswersInv, NEW d \in Device, NEW k \in Slot, InsertSheet(d, k)
  PROVE  AnswersInv'
<1> DEFINE c == call[d][k]
<1>1. /\ Typed /\ c \in Call /\ sheet \in [SheetId -> Row] /\ stale \subseteq SheetId
      /\ \A s \in SheetId : Sound(sheet[s]) /\ (s \notin stale => Locked(sheet[s]))
  BY TypesHere DEF AnswersInv, Typed, TypeOK
<1>2. PICK s \in SheetId : /\ sheet[s].status = "none"
                           /\ sheet' = [sheet EXCEPT ![s] = NewRow]
                           /\ Answered(d, k, "ok", s, NewRow)
  BY DEF InsertSheet, Unused
<1>3. c.op = "start" /\ UNCHANGED <<page, local, acts, stale>>
  BY DEF InsertSheet
<1>4. NewRow \in Row /\ NewRow.status = "draft" /\ Sound(NewRow) /\ Locked(NewRow)
  <2>1. /\ NewRow \in Row /\ NewRow.status = "draft" /\ NewRow.paper = Blank
        /\ NewRow.cache = NoCache
    BY Constants DEF NewRow, NoRow, Row
  <2>2. NewRow.cache \notin Scored
    <3>1. NoCache.scored = FALSE /\ \A x \in Scored : x.scored = TRUE
      BY DEF NoCache, Scored
    <3> QED
      BY <2>1, <3>1
  <2>3. Sound(NewRow)
    BY <2>1, <2>2, PaperIs DEF Sound
  <2> QED
    BY <2>1, <2>3 DEF Locked
<1>5. sheet' \in [SheetId -> Row] /\ sheet'[s] = NewRow
      /\ \A t \in SheetId \ {s} : sheet'[t] = sheet[t]
  BY <1>1, <1>2, <1>4
<1>6. \A t \in SheetId : /\ Sound(sheet'[t])
                         /\ t \notin stale' => Locked(sheet'[t]) /\ Grows(sheet[t], sheet'[t])
  BY <1>1, <1>2, <1>3, <1>4, <1>5 DEF Grows
<1>7. s \in 0..MaxSheets
  BY Constants
<1>8. PICK n \in Call : /\ Put(d, k, n) /\ n.at = "answered" /\ n.s = s /\ n.seen = NewRow
                        /\ n.op = c.op /\ n.heard = c.heard
  BY <1>1, <1>2, <1>4, <1>7, AnsweredIs DEF Answer
<1>9. Admitted(n) /\ Carries(n, page[d]) /\ n.op \notin Writing
  BY <1>3, <1>8 DEF Admitted, Loaded, Writing, Carries
<1>10. Known(n)'
  BY <1>4, <1>5, <1>8 DEF Known, Row
<1> QED
  BY <1>1, <1>3, <1>5, <1>6, <1>8, <1>9, <1>10, ServerKeeps

LEMMA LoadSheetKeeps ==
  ASSUME AnswersInv, NEW d \in Device, NEW k \in Slot, LoadSheet(d, k)
  PROVE  AnswersInv'
<1> DEFINE c == call[d][k]
           row == sheet[c.s]
<1>1. /\ Typed /\ c \in Call /\ sheet \in [SheetId -> Row] /\ stale \subseteq SheetId
      /\ \A s \in SheetId : Sound(sheet[s]) /\ (s \notin stale => Locked(sheet[s]))
      /\ CallNames(d, k)
  BY TypesHere DEF AnswersInv, Typed, TypeOK
<1>2. c.op \in Writing /\ c.at = "sent" /\ UNCHANGED <<sheet, page, local, acts, stale>>
  BY DEF LoadSheet, Writing
<1>3. \A s \in SheetId : /\ Sound(sheet'[s])
                         /\ s \notin stale' => Locked(sheet'[s]) /\ Grows(sheet[s], sheet'[s])
  BY <1>1, <1>2 DEF Grows
<1>4. c.s \in SheetId /\ c.s \in 0..MaxSheets /\ row \in Row
  BY <1>1, <1>2, Constants DEF CallNames
<1>5. ASSUME Refusal(c, row) = "none", Put(d, k, [c EXCEPT !.at = "loaded", !.seen = row])
      PROVE  AnswersInv'
  <2>1. PICK n \in Call :
          /\ Put(d, k, n) /\ n.op = c.op /\ n.heard = c.heard /\ n.s = c.s
          /\ n.at = "loaded" /\ n.seen = row /\ n.version = c.version /\ n.paper = c.paper
    <3> DEFINE m == [c EXCEPT !.at = "loaded", !.seen = row]
    <3>1. /\ m \in Call /\ m.op = c.op /\ m.heard = c.heard /\ m.s = c.s
          /\ m.at = "loaded" /\ m.seen = row /\ m.version = c.version /\ m.paper = c.paper
      BY <1>1, <1>4 DEF Call
    <3>2. Put(d, k, m)
      BY <1>5
    <3> HIDE DEF m
    <3> QED
      BY <3>1, <3>2
  <2>3. Refusal(n, n.seen) = "none"
    BY <1>5, <2>1 DEF Refusal
  <2>4. Admitted(n) /\ (Carries(c, page[d]) => Carries(n, page[d]))
    BY <1>1, <1>2, <1>4, <2>1, <2>3 DEF Admitted, Carries
  <2>5. row.status # "none"
    BY <1>1, <1>2, <1>4, <1>5, AdmittedIs DEF Writing
  <2>6. Known(n)'
    BY <1>2, <1>4, <2>1, <2>5 DEF Known, Row
  <2> QED
    BY <1>1, <1>2, <1>3, <2>1, <2>4, <2>6, ServerKeeps
<1>6. ASSUME Refusal(c, row) # "none", Answered(d, k, Refusal(c, row), c.s, NoRow)
      PROVE  AnswersInv'
  <2>1. Refusal(c, row) \in Answer /\ Refusal(c, row) # "ok"
    BY DEF Refusal, Answer
  <2>2. PICK n \in Call : /\ Put(d, k, n) /\ n.at = "answered" /\ n.answer = Refusal(c, row)
                          /\ n.s = c.s /\ n.op = c.op /\ n.heard = c.heard
    BY <1>1, <1>4, <1>6, <2>1, Constants, AnsweredIs
  <2>3. Admitted(n) /\ Carries(n, page[d]) /\ Known(n)'
    BY <2>1, <2>2 DEF Admitted, Known, Loaded, Carries
  <2> QED
    BY <1>1, <1>2, <1>3, <1>4, <2>1, <2>2, <2>3, ServerKeeps
<1> QED
  BY <1>5, <1>6 DEF LoadSheet

LEMMA WriteSheetKeeps ==
  ASSUME AnswersInv, NEW d \in Device, NEW k \in Slot, WriteSheet(d, k)
  PROVE  AnswersInv'
<1> DEFINE c == call[d][k]
           row == sheet[c.s]
           new == Patched(c, row)
           told == Patched(c, c.seen)
<1>1. /\ Typed /\ c \in Call /\ sheet \in [SheetId -> Row] /\ stale \subseteq SheetId
      /\ \A s \in SheetId : Sound(sheet[s]) /\ (s \notin stale => Locked(sheet[s]))
      /\ CallNames(d, k) /\ Admitted(c) /\ Known(c)
  BY TypesHere DEF AnswersInv, Typed, TypeOK
<1>2. /\ Loaded(c) /\ c.op \in Writing /\ c.at = "loaded" /\ UNCHANGED <<page, local, acts>>
      /\ sheet' = [sheet EXCEPT ![c.s] = new]
      /\ Answered(d, k, "ok", c.s, told)
      /\ stale' = IF row = c.seen THEN stale ELSE stale \cup {c.s}
  BY DEF WriteSheet, Writing, Loaded
<1>3. /\ c.s \in SheetId /\ c.s \in 0..MaxSheets /\ row \in Row /\ c.seen \in Row
      /\ c.paper \in Paper /\ c.seen.paper \in Paper /\ c.seen.version \in Nat
  BY <1>1, <1>2, Constants DEF CallNames, Call, Row
<1>4. /\ Sound(row) /\ Sound(c.seen) /\ Refusal(c, c.seen) = "none"
  BY <1>1, <1>2, <1>3 DEF Admitted
<1>5. /\ new \in Row /\ Sound(new) /\ new.version = c.seen.version + 1
      /\ told \in Row /\ told.version = c.seen.version + 1
      /\ new.status = IF c.op = "submit" THEN "submitted" ELSE row.status
      /\ c.op = "save" => told.paper = Merged(c.seen.paper, c.paper)
  BY <1>1, <1>2, <1>3, <1>4, PatchSound
<1>6. c.s \notin stale' => /\ c.s \notin stale /\ row = c.seen /\ new = told
                           /\ row.status # "none"
  BY <1>1, <1>2 DEF Known
<1>7. c.s \notin stale' => Locked(new) /\ Grows(row, new)
  <2>1. ASSUME c.s \notin stale'
        PROVE  Locked(new)
    <3>1. Locked(c.seen)
      BY <1>1, <1>3, <1>6, <2>1
    <3> QED
      BY <1>1, <1>2, <1>3, <1>4, <1>6, <2>1, <3>1, PatchLocked
  <2>2. ASSUME c.s \notin stale'
        PROVE  Grows(row, new)
    BY <1>3, <1>5, <1>6, <2>2 DEF Grows
  <2> QED
    BY <2>1, <2>2
<1> HIDE DEF new, told
<1>8. /\ sheet' \in [SheetId -> Row] /\ sheet'[c.s] = new
      /\ \A t \in SheetId \ {c.s} : sheet'[t] = sheet[t]
  BY <1>1, <1>2, <1>3, <1>5
<1>9. \A t \in SheetId : /\ Sound(sheet'[t])
                         /\ t \notin stale' => Locked(sheet'[t]) /\ Grows(sheet[t], sheet'[t])
  <2> TAKE t \in SheetId
  <2>1. CASE t = c.s
    BY <1>5, <1>7, <1>8, <2>1
  <2>2. CASE t # c.s
    BY <1>1, <1>2, <1>8, <2>2 DEF Grows
  <2> QED
    BY <2>1, <2>2
<1>10. PICK n \in Call : /\ Put(d, k, n) /\ n.at = "answered" /\ n.answer = "ok" /\ n.s = c.s
                         /\ n.seen = told /\ n.op = c.op /\ n.heard = c.heard
  BY <1>1, <1>2, <1>3, <1>5, AnsweredIs DEF Answer
<1>11. Admitted(n)
  BY <1>10 DEF Admitted, Loaded
<1>12. Known(n)'
  <2>1. ASSUME c.s \notin stale'
        PROVE  /\ sheet'[c.s].status # "none" /\ n.seen = sheet'[c.s]
               /\ n.seen.version \in Nat
    BY <1>3, <1>5, <1>6, <1>8, <1>10, <2>1
  <2> QED
    BY <1>10, <2>1 DEF Known
<1>13. Carries(c, page[d]) => Carries(n, page[d])
  <2>1. ASSUME Carries(c, page[d]), c.heard, c.op = "save"
        PROVE  Synced(page[d].paper, told.paper)
    <3>1. c.paper = page[d].paper /\ told.paper = Merged(c.seen.paper, c.paper)
      BY <1>2, <1>5, <2>1 DEF Carries
    <3> DEFINE p == Merged(c.seen.paper, c.paper)
    <3>2. /\ Excluded(p) = Excluded(c.paper)
          /\ \A q \in Question : p.answers[q] =
               IF q \in Excluded(c.paper) THEN None
               ELSE IF c.paper.answers[q] # None THEN c.paper.answers[q]
                                                 ELSE c.seen.paper.answers[q]
      BY <1>3, MergedIs
    <3> HIDE DEF p
    <3>3. Synced(c.paper, p)
      BY <3>2 DEF Synced
    <3> QED
      BY <3>1, <3>3 DEF p
  <2> QED
    BY <1>10, <2>1 DEF Carries
<1>14. stale \subseteq stale' /\ stale' \subseteq SheetId
  BY <1>1, <1>2, <1>3
<1> HIDE DEF c
<1> QED
  BY <1>2, <1>3, <1>8, <1>9, <1>10, <1>11, <1>12, <1>13, <1>14, ServerKeeps DEF c

-----------------------------------------------------------------------------
LEMMA InitAnswers == Init => AnswersInv
<1> SUFFICES ASSUME Init PROVE AnswersInv
  OBVIOUS
<1>1. /\ sheet = [s \in SheetId |-> NoRow] /\ page = [d \in Device |-> Closed]
      /\ local = [d \in Device |-> [s \in SheetId |-> NoDraft]]
      /\ call = [d \in Device |-> [k \in Slot |-> NoCall]] /\ acts = 0 /\ stale = {}
  BY DEF Init
<1>2. TypeOK
  BY <1>1, Constants DEF TypeOK
<1>3. Closed.stage = "closed" /\ ~ Closed.timer
  BY DEF Closed
<1>4. Typed
  BY <1>1, <1>2, <1>3, NoCallIs DEF Typed, PageNames, CallNames, Writing
<1>5. Sound(NoRow) /\ Locked(NoRow)
  <2>1. NoRow.status = "none" /\ NoRow.paper = Blank /\ NoRow.cache \notin Scored
    BY DEF NoRow, NoCache, Scored
  <2> QED
    BY <2>1, PaperIs DEF Sound, Locked
<1>6. Admitted(NoCall) /\ Known(NoCall)
  BY NoCallIs DEF Admitted, Known, Loaded
<1>7. \A d \in Device : Level(page[d], call[d])
  BY <1>1, <1>3, NoCallIs DEF Level
<1> QED
  BY <1>1, <1>4, <1>5, <1>6, <1>7 DEF AnswersInv

LEMMA NextAnswers == AnswersInv /\ [Next]_vars => AnswersInv'
<1> SUFFICES ASSUME AnswersInv, [Next]_vars PROVE AnswersInv'
  OBVIOUS
<1>1. Typed /\ \A d \in Device : /\ Level(page[d], call[d])
                                 /\ \A k \in Slot : Known(call[d][k])
  BY DEF AnswersInv
<1>2. ASSUME NEW d \in Device, User(d) PROVE AnswersInv'
  BY <1>1, <1>2, UserMoves, PageStepKeeps
<1>3. ASSUME NEW d \in Device, TimerFires(d) PROVE AnswersInv'
  BY <1>1, <1>3, TimerMoves, PageStepKeeps
<1>4. ASSUME NEW d \in Device, NEW k \in Slot, Replies(d, k) PROVE AnswersInv'
  BY <1>1, <1>4, ReplyMoves, PageStepKeeps
<1>5. ASSUME NEW d \in Device, NEW k \in Slot, Server(d, k) PROVE AnswersInv'
  BY <1>5, FindDraftKeeps, InsertSheetKeeps, LoadSheetKeeps, WriteSheetKeeps DEF Server
<1>6. CASE UNCHANGED vars
  <2> USE <1>6 DEF vars
  <2>1. Typed'
    BY <1>1 DEF Typed, TypeOK, PageNames, CallNames
  <2>2. \A s \in SheetId : (Sound(sheet[s]) /\ (s \notin stale => Locked(sheet[s])))'
    BY DEF AnswersInv, Sound, Locked
  <2>3. \A d \in Device, k \in Slot : (Admitted(call[d][k]) /\ Known(call[d][k]))'
    BY DEF AnswersInv, Admitted, Known, Loaded, Refusal, Sound
  <2>4. \A d \in Device : Level(page[d], call[d])'
    BY <1>1 DEF Level, Shows, Silent, Carries
  <2> QED
    BY <2>1, <2>2, <2>3, <2>4 DEF AnswersInv
<1> QED
  BY <1>2, <1>3, <1>4, <1>5, <1>6 DEF Next

(* Whatever requests interleave, are lost or answered late: rows keep      *)
(* nothing refused, and requests and pages know what they claim to know of *)
(* the sheet (assessment.service.ts saveDraft, submit, supplement;         *)
(* assessment.vue saveServer, applyDetail, handleSubmit).                  *)
THEOREM AnswersAlways == Spec => []AnswersInv
BY InitAnswers, NextAnswers, PTL DEF Spec
(* Every reachable state is a state of the program.                        *)
THEOREM TypeCorrect == Spec => []TypeOK
<1>1. AnswersInv => TypeOK
  BY DEF AnswersInv, Typed
<1> QED
  BY <1>1, AnswersAlways, PTL

(* No sheet keeps an answer its owner refused to give: saveDraft, submit   *)
(* and supplement mask what they merge (assessment.service.ts), and no     *)
(* write by id brings such an answer back.                                 *)
THEOREM NothingKept == Spec => []NothingKeptForSkipped
<1>1. AnswersInv => NothingKeptForSkipped
  BY DEF AnswersInv, Sound, NothingKeptForSkipped
<1> QED
  BY <1>1, AnswersAlways, PTL

(* The score cache of a submitted sheet, written by submit and supplement  *)
(* (assessment.service.ts), is that of the answers stored with it, unless  *)
(* a write by id covered a change it had not seen.                         *)
THEOREM ScoresFollowAnswers == Spec => []LockedAnswersScored
<1>1. AnswersInv => LockedAnswersScored
  BY DEF AnswersInv, Locked, LockedAnswersScored
<1> QED
  BY <1>1, AnswersAlways, PTL

(* A page at rest with the version of the sheet has nothing the server     *)
(* lacks, if its requests never overlapped (assessment.vue saveServer,     *)
(* applyDetail, reloadAfterConflict).                                      *)
THEOREM SameAnswers == Spec => []SameVersionSameAnswers
<1>1. AnswersInv => SameVersionSameAnswers
  <2> SUFFICES ASSUME AnswersInv, NEW d \in Device, ~ page[d].overlapped, AtRest(d),
                      page[d].s \notin stale, sheet[page[d].s].version = page[d].version
               PROVE  LET row == sheet[page[d].s]
                          shown == Masked(page[d].paper) IN
                      /\ Excluded(shown) = Excluded(row.paper)
                      /\ \A q \in Question : shown.answers[q] \in {None, row.paper.answers[q]}
    BY DEF SameVersionSameAnswers, OnTheServer
  <2> DEFINE row == sheet[page[d].s]
             p == page[d].paper
  <2>1. Level(page[d], call[d]) /\ page[d] \in Page
    BY TypesHere DEF AnswersInv
  <2>2. Shows(page[d], call[d], row) /\ Silent(call[d])
    BY <2>1 DEF Level, AtRest, Waiting, Silent
  <2>3. Synced(p, row.paper)
    BY <2>2 DEF Shows, AtRest
  <2>4. p \in Paper
    BY <2>1 DEF Page
  <2> HIDE DEF p, row
  <2>5. /\ Excluded(Masked(p)) = Excluded(row.paper)
        /\ \A q \in Question : Masked(p).answers[q] \in {None, row.paper.answers[q]}
    BY <2>3, <2>4, MaskedIs DEF Synced
  <2> QED
    BY <2>5 DEF p, row
<1> QED
  BY <1>1, AnswersAlways, PTL

(* Rows change where the server inserts and writes, nowhere else.          *)
LEMMA SheetsChangeByWriting ==
  ASSUME AnswersInv, [Next]_vars, NEW s \in SheetId, sheet'[s] # sheet[s],
         sheet[s].status # "none"
  PROVE  \E d \in Device, k \in Slot : WriteSheet(d, k)
<1>1. Typed /\ \A d \in Device : /\ Level(page[d], call[d])
                                 /\ \A k \in Slot : Known(call[d][k])
  BY DEF AnswersInv
<1>2. sheet' # sheet
  OBVIOUS
<1>3. ASSUME NEW d \in Device
      PROVE  ~ User(d) /\ ~ TimerFires(d) /\ \A k \in Slot : ~ Replies(d, k)
  BY <1>1, <1>2, UserMoves, TimerMoves, ReplyMoves DEF Moves
<1>4. ASSUME NEW d \in Device, NEW k \in Slot
      PROVE  ~ FindDraft(d, k) /\ ~ LoadSheet(d, k)
  BY <1>2 DEF FindDraft, LoadSheet
<1>5. ASSUME NEW d \in Device, NEW k \in Slot, InsertSheet(d, k)
      PROVE  FALSE
  <2>1. PICK t \in SheetId : sheet[t].status = "none" /\ sheet' = [sheet EXCEPT ![t] = NewRow]
    BY <1>5 DEF InsertSheet, Unused
  <2>2. sheet \in [SheetId -> Row]
    BY <1>1 DEF Typed, TypeOK
  <2> QED
    BY <2>1, <2>2
<1>6. ~ UNCHANGED vars
  BY <1>2 DEF vars
<1> QED
  BY <1>3, <1>4, <1>5, <1>6 DEF Next, Server

(* A submitted sheet changes only by a supplement (assessment.service.ts   *)
(* supplement), once, and only where something had been left out.          *)
THEOREM ChangesOnce == Spec => LockedChangesOnce
<1> DEFINE Once == \A s \in SheetId :
             sheet[s].status = "submitted" /\ sheet'[s] # sheet[s] /\ s \notin stale' =>
               /\ ~ sheet[s].cache.supplemented /\ sheet'[s].cache.supplemented
               /\ \A q \in Question \ Excluded(sheet[s].paper) :
                    sheet'[s].paper.answers[q] = sheet[s].paper.answers[q]
<1>1. AnswersInv /\ [Next]_vars => Once
  <2> SUFFICES ASSUME AnswersInv, [Next]_vars, NEW s \in SheetId,
                      sheet[s].status = "submitted", sheet'[s] # sheet[s], s \notin stale'
               PROVE  /\ ~ sheet[s].cache.supplemented /\ sheet'[s].cache.supplemented
                      /\ \A q \in Question \ Excluded(sheet[s].paper) :
                           sheet'[s].paper.answers[q] = sheet[s].paper.answers[q]
    OBVIOUS
  <2>1. PICK d \in Device, k \in Slot : WriteSheet(d, k)
    BY SheetsChangeByWriting
  <2> DEFINE c == call[d][k]
  <2>2. /\ c \in Call /\ sheet \in [SheetId -> Row] /\ Admitted(c) /\ CallNames(d, k)
        /\ Sound(sheet[s]) /\ (s \notin stale => Locked(sheet[s]))
    BY TypesHere DEF AnswersInv, Typed, TypeOK
  <2>3. /\ Loaded(c) /\ c.op \in Writing
        /\ sheet' = [sheet EXCEPT ![c.s] = Patched(c, sheet[c.s])]
        /\ stale' = IF sheet[c.s] = c.seen THEN stale ELSE stale \cup {c.s}
    BY <2>1 DEF WriteSheet, Loaded, Writing
  <2>4. c.s = s /\ c.seen = sheet[s] /\ s \notin stale
    BY <2>2, <2>3
  <2>5. sheet'[s] = Patched(c, c.seen) /\ c.seen \in Row /\ c.paper \in Paper
    BY <2>2, <2>3, <2>4 DEF Call
  <2>6. Refusal(c, c.seen) = "none" /\ Sound(c.seen) /\ Locked(c.seen)
    BY <2>2, <2>3, <2>4 DEF Admitted
  <2> HIDE DEF c
  <2>7. c.op = "supplement" /\ Excluded(c.seen.cache.paper) # {}
    BY <2>2, <2>3, <2>4, <2>5, <2>6, AdmittedIs, SMTT(30) DEF Writing, c
  <2> DEFINE r == SupplementPatch(c, c.seen).paper
             left == Excluded(c.seen.cache.paper)
  <2>8. /\ r \in Paper
        /\ sheet'[s] = [c.seen EXCEPT !.version = c.seen.version + 1, !.paper = r,
                                      !.cache = Scores(r, TRUE)]
        /\ \A q \in Question : r.answers[q] =
             IF q \in left THEN c.paper.answers[q] ELSE c.seen.paper.answers[q]
    BY <2>2, <2>5, <2>7, SupplementedIs, Zenon DEF Patched, c
  <2> HIDE DEF r
  <2>9. sheet'[s].paper = r /\ sheet'[s].cache = Scores(r, TRUE)
    BY <2>5, <2>8 DEF Row
  <2>10. sheet'[s].cache.supplemented
    BY <2>9 DEF Scores
  <2>11. c.seen.cache = Scores(c.seen.paper, c.seen.cache.supplemented)
         /\ c.seen.cache \in Scored
    BY <2>4, <2>6 DEF Locked, Sound
  <2>12. ~ c.seen.cache.supplemented
    BY <2>6, <2>7, <2>11 DEF Sound
  <2>13. c.seen.cache.paper = c.seen.paper
    BY <2>11 DEF Scores
  <2>14. \A q \in Question \ Excluded(c.seen.paper) :
           sheet'[s].paper.answers[q] = c.seen.paper.answers[q]
    BY <2>8, <2>9, <2>13
  <2>15. ~ sheet[s].cache.supplemented
    BY <2>4, <2>12, Zenon
  <2> QED
    BY <2>4, <2>10, <2>14, <2>15
<1> QED
  BY <1>1, AnswersAlways, PTL DEF Spec, LockedChangesOnce
=============================================================================
