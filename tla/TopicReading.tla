---------------------------- MODULE TopicReading ----------------------------
(***************************************************************************)
(* One user reading one topic on several devices: the card pages           *)
(* (pages/topic/detail.vue) with their throttled reports of the place, the *)
(* handlers of topic.service.ts that read a progress row and write it back *)
(* later, and the administrators' edits of the topic and its cards.        *)
(*                                                                         *)
(* A place is an index of the swiper: 0 .. total, total being the          *)
(* exclusive card that follows the cards.  The text of the cards, the      *)
(* copying and the quizzes are left out; what reads and generates the      *)
(* exclusive card is a request of ExclusiveCard, which has no state in     *)
(* common with the reading.                                                *)
(***************************************************************************)
EXTENDS ExclusiveCard, FiniteSets, FiniteSetsExt

CONSTANTS
  Device,
  Slot,         \* bound: reports on their way at one time
  MaxOrder,     \* TOPIC_CARD_MAX_ORDER_NO
  Shipped,      \* the orders of the cards the seed ships
  MaxActs,      \* bound: what the readers do: open, slide, finish, unlock
  MaxEdits      \* bound: edits of administrators and seed runs

ASSUME ReadingAssumption ==
  MaxOrder \in Nat \ {0} /\ Shipped \subseteq 1..MaxOrder /\ MaxActs \in Nat /\ MaxEdits \in Nat

VARIABLES
  topicOn,      \* topic.status
  cards,        \* the status of each order that has a card, by order
  row,          \* topic_read_progress, or None
  page,         \* the card page of each device
  call,         \* the reports on their way
  acts, edits,
  told,         \* history: the join of what all handled reports said
  leftAt,       \* history: the furthest place a reader left a page at
  overlapped,   \* history: two reports were handled at the same time
  dropped       \* history: a report was lost or refused

reading == <<topicOn, cards, row, page, call, acts, edits, told, leftAt, overlapped, dropped>>

Place == 0..MaxOrder
Progress == [last : Place, finished : BOOLEAN]
Nothing == [last |-> 0, finished |-> FALSE]

ASSUME NoneAssumption == None \notin Device /\ None \notin Place /\ None \notin Progress

Page ==
  [at : {"closed", "loading", "error", "cards"},
   view : Progress \cup {None},       \* the detail's answer on its way
   total : Place,                     \* cards.length
   current : Place,
   reported : Place,                  \* lastReportedOrderNo
   pending : Place \cup {None},        \* what waits for reportTimer, if it is set
   finished : BOOLEAN, finishing : BOOLEAN]

Closed == [at |-> "closed", view |-> None, total |-> 0, current |-> 0, reported |-> 0, pending |-> None,
           finished |-> FALSE, finishing |-> FALSE]

(* owner: the device whose page awaits the answer, None once it is closed  *)
Call ==
  [pc : {"free", "sent", "read", "answered"}, owner : Device \cup {None},
   place : Place, finish : BOOLEAN, found : Progress \cup {None}, ack : Progress]

Free == [pc |-> "free", owner |-> None, place |-> 0, finish |-> FALSE, found |-> None, ack |-> Nothing]

OnCards == {o \in DOMAIN cards : cards[o] = "on"}
AtMost(m, n) == IF m < n THEN m ELSE n
Furthest(m, n) == IF m < n THEN n ELSE m

ReadingInit ==
  /\ topicOn = TRUE
  /\ cards = [o \in Shipped |-> "on"]
  /\ row = None
  /\ page = [d \in Device |-> Closed]
  /\ call = [s \in Slot |-> Free]
  /\ acts = 0 /\ edits = 0
  /\ told = Nothing /\ leftAt = 0 /\ overlapped = FALSE /\ dropped = FALSE

server == <<topicOn, cards, row, told, overlapped, edits>>

-----------------------------------------------------------------------------
(* The page of d becomes p.                                                *)

Turn(d, p) == page' = [page EXCEPT ![d] = p]

Act == acts < MaxActs /\ acts' = acts + 1

FreeSlot == CHOOSE s \in Slot : call[s].pc = "free"
HasSlot == \E s \in Slot : call[s].pc = "free"

(* topicApi.saveProgress                                                   *)
Sent(d, place, finish) ==
  [Free EXCEPT !.pc = "sent", !.owner = d, !.place = place, !.finish = finish]

(* onLoad, or the button of an error: load asks for the detail.            *)
Open(d) ==
  /\ Act
  /\ page[d].at \in {"closed", "error"}
  /\ Turn(d, [page[d] EXCEPT !.at = "loading"])
  /\ UNCHANGED <<server, call, leftAt, dropped>>

(* getDetail: 50002 once the topic is off the shelf.                       *)
GetDetail(d) ==
  /\ page[d].at = "loading" /\ page[d].view = None
  /\ IF topicOn
     THEN Turn(d, [page[d] EXCEPT !.view = IF row = None THEN Nothing ELSE row, !.total = Cardinality(OnCards)])
     ELSE Turn(d, [page[d] EXCEPT !.at = "error"])
  /\ UNCHANGED <<server, call, acts, leftAt, dropped>>

(* The detail does not come, or the login before it was refused.           *)
LoadFails(d) ==
  /\ page[d].at = "loading"
  /\ Turn(d, [page[d] EXCEPT !.at = "error", !.view = None])
  /\ UNCHANGED <<server, call, acts, leftAt, dropped>>

(* load goes on.  A report that waits for its timer keeps waiting.         *)
Loaded(d) ==
  LET p == page[d] IN
  /\ p.at = "loading" /\ p.view # None
  /\ Turn(d, [p EXCEPT !.at = "cards", !.view = None, !.finished = p.view.finished,
                       !.reported = p.view.last, !.current = AtMost(p.view.last, p.total)])
  /\ UNCHANGED <<server, call, acts, leftAt, dropped>>

(* handleChange and scheduleProgress: a report that waits is replaced, and *)
(* not withdrawn when the reader is back at the place reported last.       *)
Slide(d, place) ==
  LET p == [page[d] EXCEPT !.current = place] IN
  /\ Act
  /\ p.at = "cards" /\ place \in 0..p.total
  /\ place + 1 = page[d].current \/ place = page[d].current + 1
  /\ Turn(d, IF place = p.reported THEN p ELSE [p EXCEPT !.pending = place])
  /\ UNCHANGED <<server, call, leftAt, dropped>>

(* flushProgress up to its await: the page d becomes p.                    *)
Flush(d, p) ==
  IF p.pending = None \/ p.pending = p.reported
  THEN Turn(d, [p EXCEPT !.pending = None]) /\ UNCHANGED call
  ELSE /\ HasSlot
       /\ Turn(d, [p EXCEPT !.pending = None, !.reported = p.pending])
       /\ call' = [call EXCEPT ![FreeSlot] = Sent(d, p.pending, FALSE)]

ReportTimer(d) ==
  /\ page[d].pending # None
  /\ Flush(d, page[d])
  /\ UNCHANGED <<server, acts, leftAt, dropped>>

HandleFinish(d) ==
  LET p == page[d] IN
  /\ Act
  /\ p.at = "cards" /\ p.current = p.total
  /\ ~p.finishing /\ ~p.finished
  /\ HasSlot
  /\ Turn(d, [p EXCEPT !.finishing = TRUE])
  /\ call' = [call EXCEPT ![FreeSlot] = Sent(d, p.current, TRUE)]
  /\ UNCHANGED <<server, leftAt, dropped>>

(* handleUnlock on the locked exclusive card, whose order was settled      *)
(* while the reader waited: the page loads again.                          *)
HandleUnlock(d) ==
  /\ Act
  /\ page[d].at = "cards" /\ page[d].current = page[d].total
  /\ Turn(d, [page[d] EXCEPT !.at = "loading"])
  /\ UNCHANGED <<server, call, leftAt, dropped>>

(* What becomes of the call c when the page of d is closed: nobody awaits  *)
(* its answer.                                                             *)
Orphaned(d, c) ==
  IF c.owner # d THEN c ELSE IF c.pc = "answered" THEN Free ELSE [c EXCEPT !.owner = None]

(* Mutant: leaving the page clears the timer and nothing else.             *)
UnloadUnreported(d) ==
  /\ page[d].at # "closed"
  /\ page' = [page EXCEPT ![d] = Closed]
  /\ call' = [s \in Slot |-> Orphaned(d, call[s])]
  /\ leftAt' = Furthest(leftAt, page[d].current)
  /\ UNCHANGED <<server, acts, dropped>>

(* onUnload: what still waits is sent at once; nobody awaits the answers.  *)
Unload(d) ==
  LET p == page[d]
      waits == p.pending # None /\ p.pending # p.reported
      left == [s \in Slot |-> Orphaned(d, call[s])]
  IN
  /\ p.at # "closed"
  /\ waits => HasSlot
  /\ page' = [page EXCEPT ![d] = Closed]
  /\ call' = IF waits THEN [left EXCEPT ![FreeSlot] = Sent(None, p.pending, FALSE)] ELSE left
  /\ leftAt' = Furthest(leftAt, p.current)
  /\ UNCHANGED <<server, acts, dropped>>

(* The answers: the report's corrects place and badge, the finish's the    *)
(* badge alone.                                                            *)
Answered(s) ==
  LET c == call[s]
      p == page[c.owner]
  IN
  /\ c.pc = "answered"   \* an answer nobody awaits is dropped in WriteRow
  /\ call' = [call EXCEPT ![s] = Free]
  /\ Turn(c.owner, IF c.finish THEN [p EXCEPT !.finished = c.ack.finished, !.finishing = FALSE]
                   ELSE [p EXCEPT !.reported = c.ack.last, !.finished = c.ack.finished])
  /\ UNCHANGED <<server, acts, leftAt, dropped>>

(* What the page makes of a call that fails: a report is not repeated.     *)
Fail(s) ==
  LET c == call[s] IN
  /\ call' = [call EXCEPT ![s] = Free]
  /\ dropped' = TRUE
  /\ IF c.owner = None \/ ~c.finish THEN UNCHANGED page
     ELSE Turn(c.owner, [page[c.owner] EXCEPT !.finishing = FALSE])

(* A call is lost on its way there or back, or its handler stops.          *)
Lose(s) ==
  /\ call[s].pc # "free" /\ ~dropped
  /\ Fail(s)
  /\ UNCHANGED <<server, acts, leftAt>>

-----------------------------------------------------------------------------
(* saveProgress of topic.service.ts                                        *)

Handling(s) == call[s].pc = "read"

(* requireActiveByCode, and the row as it is now                           *)
ReadRow(s) ==
  /\ call[s].pc = "sent" /\ topicOn
  /\ call' = [call EXCEPT ![s].pc = "read", ![s].found = row]
  /\ overlapped' = (overlapped \/ \E t \in Slot \ {s} : Handling(t))
  /\ UNCHANGED <<topicOn, cards, row, told, edits, page, acts, leftAt, dropped>>

(* 50002, or the unique key refuses a second row                           *)
Refuse(s) ==
  /\ \/ call[s].pc = "sent" /\ ~topicOn
     \/ Handling(s) /\ call[s].found = None /\ row # None
  /\ Fail(s)
  /\ UNCHANGED <<server, acts, leftAt>>

(* Mutant: what the page says is written as it is.                         *)
MergedTrusting(found, c) == [last |-> c.place, finished |-> c.finish]

(* The maximum with what was read, and a finish is not taken back.         *)
Merged(found, c) ==
  LET old == IF found = None THEN Nothing ELSE found IN
  [last |-> Furthest(old.last, c.place), finished |-> old.finished \/ c.finish]

(* The INSERT; or the UPDATE by id, if the read showed something else.     *)
WriteRow(s) ==
  LET c == call[s]
      new == Merged(c.found, c)
  IN
  /\ Handling(s)
  /\ c.found = None => row = None
  /\ row' = IF c.found = new THEN row ELSE new
  /\ told' = [last |-> Furthest(told.last, c.place), finished |-> told.finished \/ c.finish]
  /\ call' = [call EXCEPT ![s] = IF c.owner = None THEN Free
                                 ELSE [c EXCEPT !.pc = "answered", !.found = None, !.ack = new]]
  /\ UNCHANGED <<topicOn, cards, overlapped, edits, page, acts, leftAt, dropped>>

-----------------------------------------------------------------------------
(* Administrators and the seed.  Each edit is a step of its own: two that  *)
(* overlap can give two cards one order, which is not modelled.            *)

Edit ==
  /\ edits < MaxEdits /\ edits' = edits + 1
  /\ UNCHANGED <<row, told, overlapped, page, call, acts, leftAt, dropped>>

(* updateForAdmin: the shelf                                               *)
UpdateTopic(on) == Edit /\ topicOn' = on /\ UNCHANGED cards

(* createCardForAdmin: after the last card, on the shelf or off            *)
CreateCard ==
  LET order == (IF DOMAIN cards = {} THEN 0 ELSE Max(DOMAIN cards)) + 1 IN
  /\ Edit
  /\ order <= MaxOrder
  /\ cards' = [o \in DOMAIN cards \cup {order} |-> IF o = order THEN "on" ELSE cards[o]]
  /\ UNCHANGED topicOn

(* updateCardForAdmin: the order only to one that is not taken             *)
UpdateCard(from, to, status) ==
  /\ Edit
  /\ from \in DOMAIN cards
  /\ to = from \/ to \notin DOMAIN cards
  /\ cards' = [o \in (DOMAIN cards \ {from}) \cup {to} |-> IF o = to THEN status ELSE cards[o]]
  /\ UNCHANGED topicOn

(* TopicSeedService.seed: missing orders are filled, a moved card's too;   *)
(* force puts everything shipped on the shelf again.                       *)
Seed(force) ==
  /\ Edit
  /\ cards' = [o \in DOMAIN cards \cup Shipped |->
                 IF o \in DOMAIN cards /\ ~(force /\ o \in Shipped) THEN cards[o] ELSE "on"]
  /\ topicOn' = (topicOn \/ force)

-----------------------------------------------------------------------------
ReadingNext ==
  \/ \E d \in Device :
       \/ Open(d) \/ GetDetail(d) \/ LoadFails(d) \/ Loaded(d)
       \/ \E place \in Place : Slide(d, place)
       \/ ReportTimer(d) \/ HandleFinish(d) \/ HandleUnlock(d)
       \/ Unload(d)
  \/ \E s \in Slot : Answered(s) \/ Lose(s) \/ ReadRow(s) \/ Refuse(s) \/ WriteRow(s)
  \/ \E on \in BOOLEAN : UpdateTopic(on)
  \/ CreateCard
  \/ \E from, to \in 1..MaxOrder, status \in {"on", "off"} : UpdateCard(from, to, status)
  \/ \E force \in BOOLEAN : Seed(force)

ReadingSpec == ReadingInit /\ [][ReadingNext]_reading

-----------------------------------------------------------------------------
ReadingTypeOK ==
  /\ topicOn \in BOOLEAN /\ overlapped \in BOOLEAN /\ dropped \in BOOLEAN
  /\ DOMAIN cards \subseteq 1..MaxOrder /\ \A o \in DOMAIN cards : cards[o] \in {"on", "off"}
  /\ row \in Progress \cup {None} /\ told \in Progress
  /\ page \in [Device -> Page] /\ \A d \in Device : page[d].current <= MaxOrder
  /\ call \in [Slot -> Call]
  /\ acts \in 0..MaxActs /\ edits \in 0..MaxEdits /\ leftAt \in Place

(* topic.service.ts:185: the row tells the furthest place and the finish   *)
(* of all reports that were handled, in whatever order the devices' came,  *)
(* as long as no two were handled at the same time; and it never tells     *)
(* more than they said.                                                    *)
ProgressIsJoin ==
  LET kept == IF row = None THEN Nothing ELSE row IN
  /\ kept.last <= told.last /\ (kept.finished => told.finished)
  /\ ~overlapped => kept = told

(* detail.vue:80: once the pages are closed and their reports handled, the *)
(* place a reader left a page at is kept, although reports are throttled,  *)
(* replaced while they wait and corrected by late answers.                 *)
PlaceKept ==
  (/\ ~overlapped /\ ~dropped
   /\ \A d \in Device : page[d].at = "closed"
   /\ \A s \in Slot : call[s].pc = "free")
  => leftAt <= (IF row = None THEN 0 ELSE row.last)

(* topic.service.ts:185 "都不应把续看位置退回去 ... finished 一旦打卡不再  *)
(* 取消": does not hold of reports that overlap.                           *)
ProgressNeverBack ==
  [][row # None => row'.last >= row.last /\ (row.finished => row'.finished)]_row
=============================================================================
