----------------------------- MODULE TopicProofs -----------------------------
(***************************************************************************)
(* The exclusive card of ExclusiveCard, for every number of requests, and  *)
(* the reading progress of TopicReading, for every number of devices, of   *)
(* reports on their way, of cards and of edits.                            *)
(***************************************************************************)
EXTENDS TopicReading, FiniteSetTheorems, WellFoundedInduction, TLAPS

-----------------------------------------------------------------------------
(* The exclusive card: the invariant.                                      *)

(* A request holds the lock of its scope from setIfAbsent to del: nobody   *)
(* deletes a lock but its holder, though del does not ask.                 *)
Locked == \A w \in Worker : Busy(w) => lock[req[w].scope] = w

(* A request shows a card of the scope it resolved, and has none before.   *)
Fitting(r) ==
  /\ r.pc \in {"idle", "resolve"} => r.row = None
  /\ r.pc \notin {"idle", "resolve"} => r.scope \in {Own(r.user), Couple}
  /\ r.row # None => r.row.madeFor = r.scope

CardInv ==
  /\ TypeOK
  /\ Locked
  /\ \A w \in Worker : Fitting(req[w])
  /\ \A s \in Scope : card[s] # None => card[s].madeFor = s

LEMMA Scopes ==
  /\ Couple \in Scope
  /\ \A u \in User : Own(u) \in Scope
  /\ \A s \in Scope : [madeFor |-> s] \in Card /\ [madeFor |-> s].madeFor = s
BY DEF Scope, Card

LEMMA IdleFits == Idle \in Request /\ Fitting(Idle) /\ Idle.pc = "idle"
BY Scopes DEF Idle, Request, Fitting, User

LEMMA InitCard == Init => CardInv
<1> SUFFICES ASSUME Init
             PROVE  CardInv
  OBVIOUS
<1>1. TypeOK
  BY IdleFits DEF Init, TypeOK
<1>2. Locked /\ \A w \in Worker : Fitting(req[w])
  BY IdleFits DEF Init, Locked, Busy
<1>3. \A s \in Scope : card[s] = None
  BY DEF Init
<1> QED
  BY <1>1, <1>2, <1>3 DEF CardInv

(* One request goes on, and the lock and the cards fit it.                 *)
LEMMA GoKeeps ==
  ASSUME CardInv, NEW w \in Worker, NEW r \in Request, Go(w, r), Fitting(r),
         UNCHANGED report,
         card' \in [Scope -> Card \cup {None}],
         \A s \in Scope : card'[s] # None => card'[s].madeFor = s,
         lock' \in [Scope -> Worker \cup {None}],
         r.pc \in {"produce", "persist", "save", "unlock"} => lock'[r.scope] = w,
         \A v \in Worker \ {w} : Busy(v) => lock'[req[v].scope] = lock[req[v].scope]
  PROVE  CardInv'
<1>1. /\ req' \in [Worker -> Request] /\ req'[w] = r
      /\ \A v \in Worker \ {w} : req'[v] = req[v]
  BY DEF CardInv, TypeOK, Go
<1>2. TypeOK'
  BY <1>1 DEF CardInv, TypeOK
<1>3. Locked'
  BY <1>1 DEF CardInv, Locked, Busy
<1>4. \A v \in Worker : Fitting(req[v])'
  BY <1>1 DEF CardInv, Fitting
<1> QED
  BY <1>2, <1>3, <1>4 DEF CardInv

LEMMA StepKeeps ==
  ASSUME CardInv, NEW w \in Worker, Step(w)
  PROVE  CardInv'
<1> DEFINE r == req[w]
<1>1. /\ r \in Request /\ Fitting(r) /\ r.scope \in Scope /\ r.user \in User
      /\ r.row \in Card \cup {None}
      /\ card \in [Scope -> Card \cup {None}] /\ lock \in [Scope -> Worker \cup {None}]
      /\ \A s \in Scope : card[s] # None => card[s].madeFor = s
      /\ \A v \in Worker : Busy(v) => lock[req[v].scope] = v /\ req[v].scope \in Scope
  BY DEF CardInv, TypeOK, Locked, Request
<1>2. ASSUME NEW new \in Request, Go(w, new), Fitting(new), UNCHANGED <<report, card, lock>>,
             new.pc \in {"produce", "persist", "save", "unlock"} => Busy(w) /\ new.scope = r.scope
      PROVE  CardInv'
  BY <1>1, <1>2, GoKeeps
<1>3. CASE ResolveScope(w)
  <2> DEFINE new == [r EXCEPT !.pc = "find", !.scope = ScopeOf(r.user)]
  <2>1. ScopeOf(r.user) \in {Own(r.user), Couple} /\ ScopeOf(r.user) \in Scope
    BY <1>1, Scopes DEF ScopeOf
  <2>2. new \in Request /\ Fitting(new) /\ new.pc = "find"
    BY <1>1, <1>3, <2>1 DEF ResolveScope, At, Fitting, Request
  <2> QED
    BY <1>2, <1>3, <2>2 DEF ResolveScope
<1>4. CASE Find(w)
  <2>1. PICK pc \in {"lock", "view"} : Go(w, [r EXCEPT !.row = card[r.scope], !.pc = pc])
    BY <1>4 DEF Find, FindByScope
  <2> DEFINE new == [r EXCEPT !.row = card[r.scope], !.pc = pc]
  <2>2. new \in Request /\ new.pc = pc
    BY <1>1 DEF Request
  <2>3. Fitting(new)
    BY <1>1, <1>4 DEF Find, At, Fitting, Request
  <2> QED
    BY <1>2, <1>4, <2>1, <2>2, <2>3 DEF Find
<1>5. CASE TakeLock(w)
  <2> DEFINE new == [r EXCEPT !.pc = "produce"]
  <2>1. new \in Request /\ Fitting(new) /\ new.scope = r.scope
    BY <1>1, <1>5 DEF TakeLock, At, Fitting, Request
  <2>2. lock' \in [Scope -> Worker \cup {None}] /\ lock'[r.scope] = w
    BY <1>1, <1>5 DEF TakeLock
  <2>3. ASSUME NEW v \in Worker, Busy(v)
        PROVE  lock'[req[v].scope] = lock[req[v].scope]
    <3>1. req[v].scope # r.scope
      BY <1>1, <1>5, <2>3, CardAssumption DEF TakeLock
    <3> QED
      BY <1>1, <1>5, <2>3, <3>1 DEF TakeLock
  <2>4. Go(w, new) /\ UNCHANGED <<report, card>>
    BY <1>5 DEF TakeLock, To
  <2> HIDE DEF new
  <2> QED
    BY <1>1, <2>1, <2>2, <2>3, <2>4, GoKeeps
<1>6. CASE Generating(w) \/ View(w) \/ Drop(w)
  BY <1>2, <1>6, IdleFits DEF Generating, View, Drop
<1>7. CASE Produce(w)
  <2>1. PICK outcome \in {"content", "rejected"} :
          Go(w, [r EXCEPT !.pc = "persist", !.outcome = outcome])
    BY <1>7 DEF Produce
  <2> DEFINE new == [r EXCEPT !.pc = "persist", !.outcome = outcome]
  <2>2. new \in Request /\ Fitting(new) /\ new.scope = r.scope
    BY <1>1, <1>7 DEF Produce, At, Fitting, Request
  <2> QED
    BY <1>2, <1>7, <2>1, <2>2 DEF Produce, At, Busy
<1>8. CASE Persist(w)
  <2>1. PICK pc \in {"unlock", "save"}, found \in BOOLEAN :
          Go(w, [r EXCEPT !.pc = pc, !.outcome = "none", !.found = found])
    <3>1. r = [r EXCEPT !.found = r.found] /\ r.found \in BOOLEAN
      BY <1>1 DEF Request
    <3>2. [r EXCEPT !.pc = "unlock", !.outcome = "none"]
            = [r EXCEPT !.pc = "unlock", !.outcome = "none", !.found = r.found]
      BY <1>1 DEF Request
    <3> QED
      BY <1>8, <3>1, <3>2 DEF Persist
  <2> DEFINE new == [r EXCEPT !.pc = pc, !.outcome = "none", !.found = found]
  <2>2. new \in Request /\ Fitting(new) /\ new.scope = r.scope
    BY <1>1, <1>8 DEF Persist, At, Fitting, Request
  <2> QED
    BY <1>2, <1>8, <2>1, <2>2 DEF Persist, At, Busy
<1>9. Failed(w) \in Request /\ Failed(w).scope = r.scope
      /\ (r.pc \in {"produce", "persist", "save"} => Fitting(Failed(w)))
  BY <1>1 DEF Failed, Idle, Request, Fitting
<1>10. CASE Throw(w)
  BY <1>2, <1>9, <1>10 DEF Throw, Busy
<1>11. CASE Save(w)
  <2>1. CASE Go(w, Failed(w)) /\ UNCHANGED card
    BY <1>2, <1>9, <1>11, <2>1 DEF Save, At, Busy
  <2>2. CASE /\ Go(w, [r EXCEPT !.pc = "unlock", !.row = [madeFor |-> r.scope], !.found = FALSE])
             /\ card' = [card EXCEPT ![r.scope] = [madeFor |-> r.scope]]
    <3> DEFINE new == [r EXCEPT !.pc = "unlock", !.row = [madeFor |-> r.scope], !.found = FALSE]
    <3>1. new \in Request /\ new.scope = r.scope
      BY <1>1, Scopes DEF Request
    <3>2. Fitting(new)
      BY <1>1, <1>11 DEF Save, At, Fitting, Request
    <3>3. /\ card' \in [Scope -> Card \cup {None}]
          /\ \A s \in Scope : card'[s] # None => card'[s].madeFor = s
      BY <1>1, <2>2, Scopes
    <3>4. UNCHANGED <<report, lock>> /\ Busy(w)
      BY <1>11 DEF Save, At, Busy
    <3>5. \A v \in Worker : Busy(v) => lock'[req[v].scope] = lock[req[v].scope]
      BY <3>4
    <3>6. Go(w, new)
      BY <2>2
    <3>7. lock' \in [Scope -> Worker \cup {None}] /\ lock'[new.scope] = w
      BY <1>1, <3>1, <3>4
    <3> HIDE DEF new
    <3> QED
      BY <3>1, <3>2, <3>3, <3>4, <3>5, <3>6, <3>7, GoKeeps
  <2> QED
    BY <1>11, <2>1, <2>2 DEF Save
<1>12. CASE Unlock(w)
  <2>1. PICK new \in Request : Go(w, new) /\ Fitting(new) /\ new.pc \in {"view", "idle"}
    <3>1. [r EXCEPT !.pc = "view"] \in Request /\ Fitting([r EXCEPT !.pc = "view"])
          /\ [r EXCEPT !.pc = "view"].pc = "view"
      BY <1>1, <1>12 DEF Unlock, At, Fitting, Request
    <3> QED
      BY <1>12, <3>1, IdleFits DEF Unlock, To
  <2>2. lock' \in [Scope -> Worker \cup {None}] /\ UNCHANGED <<report, card>>
    BY <1>1, <1>12 DEF Unlock
  <2>3. ASSUME NEW v \in Worker \ {w}, Busy(v)
        PROVE  lock'[req[v].scope] = lock[req[v].scope]
    <3>1. lock[r.scope] = w /\ lock[req[v].scope] = v
      BY <1>1, <1>12, <2>3 DEF Unlock, At, Busy
    <3> QED
      BY <1>1, <1>12, <2>3, <3>1 DEF Unlock
  <2> QED
    BY <1>1, <2>1, <2>2, <2>3, GoKeeps
<1> QED
  BY <1>3, <1>4, <1>5, <1>6, <1>7, <1>8, <1>10, <1>11, <1>12 DEF Step

LEMMA NextCard == CardInv /\ [Next]_vars => CardInv'
<1> SUFFICES ASSUME CardInv, [Next]_vars
             PROVE  CardInv'
  OBVIOUS
<1>1. ASSUME NEW w \in Worker, NEW u \in User, NEW generates \in BOOLEAN, Begin(w, u, generates)
      PROVE  CardInv'
  <2> DEFINE new == [Idle EXCEPT !.pc = "resolve", !.user = u, !.generates = generates]
  <2>1. new \in Request /\ Fitting(new) /\ new.pc = "resolve"
    BY Scopes DEF Idle, Request, Fitting, User
  <2>2. Go(w, new) /\ UNCHANGED <<report, card, lock>>
    BY <1>1 DEF Begin
  <2> HIDE DEF new
  <2> QED
    BY <2>1, <2>2, GoKeeps DEF CardInv, TypeOK
<1>2. ASSUME NEW s \in Scope, ExpireLock(s)
      PROVE  CardInv'
  <2>1. TypeOK'
    BY <1>2 DEF CardInv, TypeOK, ExpireLock
  <2>2. Locked'
    BY <1>2 DEF CardInv, TypeOK, Locked, Busy, ExpireLock, Request
  <2> QED
    BY <1>2, <2>1, <2>2 DEF CardInv, ExpireLock
<1>3. ASSUME ReportReady \/ DeletePairingData \/ UNCHANGED vars
      PROVE  CardInv'
  <2>1. TypeOK'
    BY <1>3, Scopes DEF CardInv, TypeOK, ReportReady, DeletePairingData, vars
  <2>2. Locked' /\ \A w \in Worker : Fitting(req[w])'
    BY <1>3 DEF CardInv, Locked, Busy, Fitting, ReportReady, DeletePairingData, vars
  <2>3. \A s \in Scope : card'[s] # None => card'[s].madeFor = s
    BY <1>3 DEF CardInv, TypeOK, ReportReady, DeletePairingData, vars
  <2> QED
    BY <2>1, <2>2, <2>3 DEF CardInv
<1> QED
  BY <1>1, <1>2, <1>3, StepKeeps DEF Next

(* The inductive invariant holds in every reachable state.                 *)
THEOREM CardsAlways == Spec => []CardInv
<1> QED
  BY InitCard, NextCard, PTL DEF Spec

(* The requests of one scope have the model write its card one at a time,  *)
(* however many there are, although del asks no one whose lock it deletes. *)
THEOREM OneGeneratorAtATime == Spec => []OneGenerator
<1>1. CardInv => OneGenerator
  BY DEF CardInv, Locked, OneGenerator
<1> QED
  BY <1>1, CardsAlways, PTL

(* No request shows a user the card of another scope, and no scope keeps   *)
(* another's, whatever becomes of the report under the requests.           *)
THEOREM OwnCards == Spec => []OwnCardOnly
<1>1. CardInv => OwnCardOnly
  BY DEF CardInv, Fitting, OwnCardOnly
<1> QED
  BY <1>1, CardsAlways, PTL

-----------------------------------------------------------------------------
(* The reading: types.                                                     *)

(* A finite set of numbers that is not empty has its maximum.              *)
LEMMA FiniteMax ==
  ASSUME NEW S \in SUBSET Nat, IsFiniteSet(S), S # {}
  PROVE  Max(S) \in S /\ \A y \in S : Max(S) >= y
<1> DEFINE HasMax(T) == \E x \in T : \A y \in T : x >= y
           Bad == {T \in FiniteSubsetsOf(S) : T # {} /\ ~ HasMax(T)}
<1>1. Bad = {}
  <2> SUFFICES ASSUME Bad # {}
               PROVE  FALSE
    OBVIOUS
  <2>1. PICK T \in Bad : \A U \in Bad : <<U, T>> \notin StrictSubsetOrdering(S)
    <3>1. Bad \subseteq FiniteSubsetsOf(S)
      OBVIOUS
    <3> HIDE DEF Bad
    <3> QED
      BY <3>1, FS_StrictSubsetOrderingWellFounded, WFMin
  <2>2. T \in SUBSET S /\ IsFiniteSet(T) /\ T # {} /\ ~ HasMax(T)
    BY DEF FiniteSubsetsOf
  <2>3. PICK x \in T : TRUE
    BY <2>2
  <2> DEFINE U == T \ {x}
  <2>4. U \in FiniteSubsetsOf(S) /\ <<U, T>> \in StrictSubsetOrdering(S)
    BY <2>2, <2>3, FS_RemoveElement DEF FiniteSubsetsOf, StrictSubsetOrdering
  <2>5. U = {} \/ HasMax(U)
    BY <2>1, <2>4
  <2>6. CASE U = {}
    BY <2>2, <2>3, <2>6
  <2>7. CASE HasMax(U)
    <3>1. PICK m \in U : \A y \in U : m >= y
      BY <2>7
    <3>2. m \in Nat /\ x \in Nat /\ \A y \in T : y \in Nat
      BY <2>2, <2>3
    <3>3. CASE m >= x
      BY <2>2, <3>1, <3>2, <3>3
    <3>4. CASE x >= m
      BY <2>2, <3>1, <3>2, <3>4
    <3> QED
      BY <3>2, <3>3, <3>4
  <2> QED
    BY <2>5, <2>6, <2>7
<1>2. HasMax(S)
  BY <1>1 DEF FiniteSubsetsOf
<1> QED
  BY <1>2 DEF Max

(* An answer that waits is waited for.                                     *)
Awaited == \A s \in Slot : call[s].pc = "answered" => call[s].owner # None

ReadingTyped == ReadingTypeOK /\ Awaited

LEMMA ReadingConstants ==
  /\ MaxOrder \in Nat /\ Place \subseteq Nat /\ 0 \in Place
  /\ Nothing \in Progress /\ Nothing.last = 0 /\ Nothing.finished = FALSE
  /\ Closed \in Page /\ Free \in Call /\ Free.pc = "free"
  /\ \A m, n \in Place : AtMost(m, n) \in Place /\ Furthest(m, n) \in Place
  /\ \A d \in Device \cup {None}, n \in Place, finish \in BOOLEAN :
       /\ Sent(d, n, finish) \in Call
       /\ Sent(d, n, finish).pc = "sent" /\ Sent(d, n, finish).place = n
  /\ \A p \in Progress : p.last \in Place /\ p.finished \in BOOLEAN
<1>1. MaxOrder \in Nat /\ Place \subseteq Nat /\ 0 \in Place
  BY ReadingAssumption DEF Place
<1>2. Nothing \in Progress /\ Nothing.last = 0 /\ Nothing.finished = FALSE
  BY <1>1 DEF Nothing, Progress
<1>3. Closed \in Page
  BY <1>1 DEF Closed, Page
<1>4. Free \in Call /\ Free.pc = "free"
  BY <1>1, <1>2 DEF Free, Call
<1>5. \A m, n \in Place : AtMost(m, n) \in Place /\ Furthest(m, n) \in Place
  BY DEF AtMost, Furthest
<1>6. ASSUME NEW d \in Device \cup {None}, NEW n \in Place, NEW finish \in BOOLEAN
      PROVE  /\ Sent(d, n, finish) \in Call
             /\ Sent(d, n, finish).pc = "sent" /\ Sent(d, n, finish).place = n
  BY <1>4 DEF Sent, Free, Call
<1>7. \A p \in Progress : p.last \in Place /\ p.finished \in BOOLEAN
  BY DEF Progress
<1> QED
  BY <1>1, <1>2, <1>3, <1>4, <1>5, <1>6, <1>7

LEMMA TurnType ==
  ASSUME ReadingTyped, NEW d, NEW p \in Page, Turn(d, p)
  PROVE  page' \in [Device -> Page] /\ \A e \in Device : page'[e].current <= MaxOrder
<1>1. page' \in [Device -> Page]
  BY DEF ReadingTyped, ReadingTypeOK, Turn
<1>2. \A q \in Page : q.current \in 0..MaxOrder
  BY DEF Page, Place
<1> QED
  BY <1>1, <1>2, ReadingAssumption

LEMMA FreeSlotIs == HasSlot => FreeSlot \in Slot /\ call[FreeSlot].pc = "free"
BY DEF HasSlot, FreeSlot

LEMMA CardsCounted ==
  ASSUME ReadingTyped
  PROVE  Cardinality(OnCards) \in Place
<1>1. OnCards \in SUBSET (1..MaxOrder) /\ MaxOrder \in Int /\ MaxOrder >= 1
  BY ReadingAssumption DEF ReadingTyped, ReadingTypeOK, OnCards
<1>2. IsFiniteSet(1..MaxOrder) /\ Cardinality(1..MaxOrder) = MaxOrder
  BY <1>1, FS_Interval
<1>3. /\ IsFiniteSet(OnCards) /\ Cardinality(OnCards) \in Nat
      /\ Cardinality(OnCards) <= MaxOrder
  BY <1>1, <1>2, FS_Subset, FS_CardinalityType
<1> QED
  BY <1>1, <1>3 DEF Place

(* The pages' own steps.                                                   *)
LEMMA PageTypes ==
  ASSUME ReadingTyped, NEW d \in Device,
         \/ Open(d) \/ GetDetail(d) \/ LoadFails(d) \/ Loaded(d)
         \/ \E place \in Place : Slide(d, place)
         \/ ReportTimer(d) \/ HandleFinish(d) \/ HandleUnlock(d) \/ Unload(d)
  PROVE  ReadingTyped'
<1>1. /\ page \in [Device -> Page] /\ page[d] \in Page /\ call \in [Slot -> Call]
      /\ acts \in 0..MaxActs /\ MaxActs \in Nat /\ leftAt \in Place
      /\ row \in Progress \cup {None}
  BY ReadingAssumption DEF ReadingTyped, ReadingTypeOK
<1>2. ASSUME NEW p \in Page, Turn(d, p), UNCHANGED <<server, dropped>>,
             acts' \in 0..MaxActs, leftAt' \in Place,
             call' \in [Slot -> Call],
             \A s \in Slot : call'[s].pc = "answered" => call'[s].owner # None
      PROVE  ReadingTyped'
  BY <1>2, TurnType DEF ReadingTyped, ReadingTypeOK, Awaited, server
<1>3. \A s \in Slot : call[s].pc = "answered" => call[s].owner # None
  BY DEF ReadingTyped, Awaited
<1>4. Act => acts' \in 0..MaxActs
  BY <1>1 DEF Act
<1>5. ASSUME NEW p \in Page, Turn(d, p), UNCHANGED <<server, call, dropped>>,
             Act \/ UNCHANGED acts, leftAt' \in Place
      PROVE  ReadingTyped'
  BY <1>1, <1>2, <1>3, <1>4, <1>5
<1>6. CASE Open(d)
  <2>1. [page[d] EXCEPT !.at = "loading"] \in Page
    BY <1>1 DEF Page
  <2> QED
    BY <1>1, <1>5, <1>6, <2>1 DEF Open
<1>7. CASE GetDetail(d)
  <2>1. ASSUME NEW v \in Progress, NEW n \in Place
        PROVE  [page[d] EXCEPT !.view = v, !.total = n] \in Page
    BY <1>1 DEF Page
  <2>2. [page[d] EXCEPT !.at = "error"] \in Page
    BY <1>1 DEF Page
  <2>3. (IF row = None THEN Nothing ELSE row) \in Progress
    BY <1>1, ReadingConstants
  <2> QED
    BY <1>1, <1>5, <1>7, <2>1, <2>2, <2>3, CardsCounted DEF GetDetail
<1>8. CASE LoadFails(d)
  <2>1. [page[d] EXCEPT !.at = "error", !.view = None] \in Page
    BY <1>1 DEF Page
  <2> QED
    BY <1>1, <1>5, <1>8, <2>1 DEF LoadFails
<1>9. CASE Loaded(d)
  <2>1. /\ page[d].view \in Progress /\ page[d].total \in Place
        /\ page[d].view.last \in Place /\ page[d].view.finished \in BOOLEAN
    BY <1>1, <1>9, ReadingConstants DEF Loaded, Page
  <2>2. AtMost(page[d].view.last, page[d].total) \in Place
    BY <2>1, ReadingConstants
  <2>3. [page[d] EXCEPT !.at = "cards", !.view = None, !.finished = page[d].view.finished,
                        !.reported = page[d].view.last,
                        !.current = AtMost(page[d].view.last, page[d].total)] \in Page
    BY <1>1, <2>1, <2>2 DEF Page
  <2> QED
    BY <1>1, <1>5, <1>9, <2>3 DEF Loaded
<1>10. ASSUME NEW place \in Place, Slide(d, place)
       PROVE  ReadingTyped'
  <2> DEFINE p == [page[d] EXCEPT !.current = place]
  <2>1. p \in Page /\ [p EXCEPT !.pending = place] \in Page
    BY <1>1 DEF Page
  <2> QED
    BY <1>1, <1>5, <1>10, <2>1 DEF Slide
<1>11. CASE ReportTimer(d)
  <2>1. CASE Turn(d, [page[d] EXCEPT !.pending = None]) /\ UNCHANGED call
    <3>1. [page[d] EXCEPT !.pending = None] \in Page
      BY <1>1 DEF Page
    <3> QED
      BY <1>1, <1>5, <1>11, <2>1, <3>1 DEF ReportTimer
  <2>2. CASE /\ HasSlot /\ page[d].pending # None
             /\ Turn(d, [page[d] EXCEPT !.pending = None, !.reported = page[d].pending])
             /\ call' = [call EXCEPT ![FreeSlot] = Sent(d, page[d].pending, FALSE)]
    <3>1. page[d].pending \in Place
      BY <1>1, <2>2 DEF Page
    <3>2. [page[d] EXCEPT !.pending = None, !.reported = page[d].pending] \in Page
      BY <1>1, <3>1 DEF Page
    <3>3. Sent(d, page[d].pending, FALSE) \in Call /\ Sent(d, page[d].pending, FALSE).pc = "sent"
      BY <3>1, ReadingConstants
    <3>4. /\ call' \in [Slot -> Call]
          /\ \A s \in Slot : call'[s].pc = "answered" => call'[s].owner # None
      BY <1>1, <1>3, <2>2, <3>3, FreeSlotIs
    <3> QED
      BY <1>1, <1>2, <1>11, <2>2, <3>2, <3>4 DEF ReportTimer
  <2> QED
    BY <1>11, <2>1, <2>2 DEF ReportTimer, Flush
<1>12. CASE HandleFinish(d)
  <2>1. [page[d] EXCEPT !.finishing = TRUE] \in Page /\ page[d].current \in Place
    BY <1>1 DEF Page
  <2>2. Sent(d, page[d].current, TRUE) \in Call /\ Sent(d, page[d].current, TRUE).pc = "sent"
    BY <2>1, ReadingConstants
  <2>3. /\ call' \in [Slot -> Call]
        /\ \A s \in Slot : call'[s].pc = "answered" => call'[s].owner # None
    BY <1>1, <1>3, <1>12, <2>2, FreeSlotIs DEF HandleFinish
  <2> QED
    BY <1>1, <1>2, <1>4, <1>12, <2>1, <2>3 DEF HandleFinish
<1>13. CASE HandleUnlock(d)
  <2>1. [page[d] EXCEPT !.at = "loading"] \in Page
    BY <1>1 DEF Page
  <2> QED
    BY <1>1, <1>5, <1>13, <2>1 DEF HandleUnlock
<1>14. CASE Unload(d)
  <2> DEFINE left == [s \in Slot |-> Orphaned(d, call[s])]
  <2>1. \A s \in Slot :
          left[s] \in Call /\ (left[s].pc = "answered" => left[s].owner # None)
    <3> SUFFICES ASSUME NEW s \in Slot
                 PROVE  /\ Orphaned(d, call[s]) \in Call
                        /\ Orphaned(d, call[s]).pc = "answered" => Orphaned(d, call[s]).owner # None
      OBVIOUS
    <3>1. call[s] \in Call /\ (call[s].pc = "answered" => call[s].owner # None)
      BY <1>1, <1>3
    <3>2. [call[s] EXCEPT !.owner = None] \in Call
          /\ [call[s] EXCEPT !.owner = None].pc = call[s].pc
      BY <3>1 DEF Call
    <3> QED
      BY <3>1, <3>2, ReadingConstants DEF Orphaned
  <2>2. /\ Closed \in Page /\ Turn(d, Closed) /\ leftAt' \in Place
        /\ acts' \in 0..MaxActs /\ UNCHANGED <<server, dropped>>
    <3>1. page[d].current \in Place
      BY <1>1 DEF Page
    <3> QED
      BY <1>1, <1>14, <3>1, ReadingConstants DEF Unload, Turn
  <2>3. ASSUME call' = left
        PROVE  ReadingTyped'
    <3> HIDE DEF left
    <3>1. left \in [Slot -> Call]
      BY <2>1 DEF left
    <3> QED
      BY <1>2, <2>1, <2>2, <2>3, <3>1
  <2>4. CASE /\ page[d].pending # None /\ HasSlot
             /\ call' = [left EXCEPT ![FreeSlot] = Sent(None, page[d].pending, FALSE)]
    <3>1. page[d].pending \in Place
      BY <1>1, <2>4 DEF Page
    <3>2. Sent(None, page[d].pending, FALSE) \in Call
          /\ Sent(None, page[d].pending, FALSE).pc = "sent"
      BY <3>1, ReadingConstants
    <3> DEFINE sent == Sent(None, page[d].pending, FALSE)
    <3>3. /\ call' \in [Slot -> Call]
          /\ \A s \in Slot : call'[s].pc = "answered" => call'[s].owner # None
      <4> HIDE DEF sent
      <4>1. call' = [left EXCEPT ![FreeSlot] = sent]
        BY <2>4 DEF sent
      <4>2. sent \in Call /\ sent.pc = "sent"
        BY <3>2 DEF sent
      <4> HIDE DEF left
      <4>3. left \in [Slot -> Call]
        BY <2>1 DEF left
      <4> QED
        BY <2>1, <4>1, <4>2, <4>3
    <3> QED
      BY <1>2, <2>2, <3>3
  <2> QED
    BY <1>14, <2>3, <2>4 DEF Unload
<1> QED
  BY <1>6, <1>7, <1>8, <1>9, <1>10, <1>11, <1>12, <1>13, <1>14

(* The reports' steps.                                                     *)
LEMMA CallTypes ==
  ASSUME ReadingTyped, NEW s \in Slot,
         Answered(s) \/ Lose(s) \/ ReadRow(s) \/ Refuse(s) \/ WriteRow(s)
  PROVE  ReadingTyped'
<1>1. /\ page \in [Device -> Page] /\ call \in [Slot -> Call] /\ call[s] \in Call
      /\ row \in Progress \cup {None} /\ told \in Progress
      /\ overlapped \in BOOLEAN /\ dropped \in BOOLEAN
      /\ call[s].owner \in Device \cup {None} /\ call[s].place \in Place
      /\ call[s].finish \in BOOLEAN /\ call[s].ack \in Progress
      /\ call[s].found \in Progress \cup {None}
      /\ \A t \in Slot : call[t].pc = "answered" => call[t].owner # None
      /\ \A d \in Device : page[d].current <= MaxOrder
  BY DEF ReadingTyped, ReadingTypeOK, Awaited, Call
<1>2. ASSUME NEW c \in Call, call' = [call EXCEPT ![s] = c], c.pc = "answered" => c.owner # None
      PROVE  call' \in [Slot -> Call] /\ Awaited'
  BY <1>1, <1>2 DEF Awaited
<1>3. ASSUME call' \in [Slot -> Call] /\ Awaited',
             page' \in [Device -> Page] /\ \A d \in Device : page'[d].current <= MaxOrder,
             row' \in Progress \cup {None}, told' \in Progress,
             overlapped' \in BOOLEAN, dropped' \in BOOLEAN,
             UNCHANGED <<topicOn, cards, edits, acts, leftAt>>
      PROVE  ReadingTyped'
  BY <1>3 DEF ReadingTyped, ReadingTypeOK
<1>4. CASE Answered(s)
  <2> DEFINE c == call[s]
             p == page[c.owner]
  <2>1. c.owner \in Device /\ p \in Page /\ c.ack.last \in Place /\ c.ack.finished \in BOOLEAN
    BY <1>1, <1>4, ReadingConstants DEF Answered
  <2>2. /\ [p EXCEPT !.finished = c.ack.finished, !.finishing = FALSE] \in Page
        /\ [p EXCEPT !.reported = c.ack.last, !.finished = c.ack.finished] \in Page
    BY <2>1 DEF Page
  <2>3. page' \in [Device -> Page] /\ \A d \in Device : page'[d].current <= MaxOrder
    BY <1>4, <2>2, TurnType DEF Answered
  <2>4. call' \in [Slot -> Call] /\ Awaited'
    BY <1>2, <1>4, ReadingConstants DEF Answered
  <2> QED
    BY <1>1, <1>3, <1>4, <2>3, <2>4 DEF Answered, server
<1>5. ASSUME Fail(s)
      PROVE  /\ call' \in [Slot -> Call] /\ Awaited' /\ dropped' = TRUE
             /\ page' \in [Device -> Page] /\ \A d \in Device : page'[d].current <= MaxOrder
  <2>1. call' \in [Slot -> Call] /\ Awaited' /\ dropped' = TRUE
    BY <1>2, <1>5, ReadingConstants DEF Fail
  <2>2. CASE UNCHANGED page
    BY <1>1, <2>1, <2>2
  <2>3. CASE /\ call[s].owner # None
             /\ Turn(call[s].owner, [page[call[s].owner] EXCEPT !.finishing = FALSE])
    <3>1. page[call[s].owner] \in Page
      BY <1>1, <2>3
    <3>2. [page[call[s].owner] EXCEPT !.finishing = FALSE] \in Page
      BY <3>1 DEF Page
    <3> QED
      BY <2>1, <2>3, <3>2, TurnType
  <2> QED
    BY <1>5, <2>2, <2>3 DEF Fail
<1>6. CASE Lose(s) \/ Refuse(s)
  BY <1>1, <1>3, <1>5, <1>6 DEF Lose, Refuse, server
<1>7. CASE ReadRow(s)
  <2>1. [call[s] EXCEPT !.pc = "read", !.found = row] \in Call
        /\ [call[s] EXCEPT !.pc = "read", !.found = row].pc = "read"
    BY <1>1 DEF Call
  <2>2. call' = [call EXCEPT ![s] = [call[s] EXCEPT !.pc = "read", !.found = row]]
    BY <1>1, <1>7 DEF ReadRow
  <2>3. call' \in [Slot -> Call] /\ Awaited'
    BY <1>2, <2>1, <2>2
  <2> QED
    BY <1>1, <1>3, <1>7, <2>3 DEF ReadRow
<1>8. CASE WriteRow(s)
  <2> DEFINE c == call[s]
             new == Merged(c.found, c)
  <2>1. new \in Progress
    <3>1. (IF c.found = None THEN Nothing ELSE c.found) \in Progress
      BY <1>1, ReadingConstants
    <3> QED
      BY <1>1, <3>1, ReadingConstants DEF Merged, Progress
  <2>2. row' \in Progress \cup {None}
    BY <1>1, <1>8, <2>1 DEF WriteRow
  <2>3. told' \in Progress
    BY <1>1, <1>8, ReadingConstants DEF WriteRow, Progress
  <2>4. PICK a \in Progress : a = new
    BY <2>1
  <2> HIDE DEF new
  <2>5. [c EXCEPT !.pc = "answered", !.found = None, !.ack = a] \in Call
        /\ [c EXCEPT !.pc = "answered", !.found = None, !.ack = a].owner = c.owner
    BY <1>1 DEF Call
  <2>6. call' = [call EXCEPT ![s] = IF c.owner = None THEN Free
                   ELSE [c EXCEPT !.pc = "answered", !.found = None, !.ack = a]]
    BY <1>8, <2>4 DEF WriteRow, new
  <2> HIDE DEF c
  <2>7. call' \in [Slot -> Call] /\ Awaited'
    BY <1>2, <2>5, <2>6, ReadingConstants
  <2> QED
    BY <1>1, <1>3, <1>8, <2>2, <2>3, <2>7 DEF WriteRow
<1> QED
  BY <1>4, <1>6, <1>7, <1>8

(* The administrators' steps: the next order is past every card's.         *)
LEMMA EditTypes ==
  ASSUME ReadingTyped,
         \/ \E on \in BOOLEAN : UpdateTopic(on)
         \/ CreateCard
         \/ \E from, to \in 1..MaxOrder, status \in {"on", "off"} : UpdateCard(from, to, status)
         \/ \E force \in BOOLEAN : Seed(force)
  PROVE  ReadingTyped' /\ UNCHANGED <<row, told, overlapped, page, call, leftAt, dropped>>
<1>1. /\ DOMAIN cards \subseteq 1..MaxOrder /\ \A o \in DOMAIN cards : cards[o] \in {"on", "off"}
      /\ MaxOrder \in Nat /\ Shipped \subseteq 1..MaxOrder /\ MaxEdits \in Nat
      /\ edits \in 0..MaxEdits /\ topicOn \in BOOLEAN
  BY ReadingAssumption DEF ReadingTyped, ReadingTypeOK
<1>2. ASSUME Edit, topicOn' \in BOOLEAN,
             DOMAIN cards' \subseteq 1..MaxOrder,
             \A o \in DOMAIN cards' : cards'[o] \in {"on", "off"}
      PROVE  ReadingTyped' /\ UNCHANGED <<row, told, overlapped, page, call, leftAt, dropped>>
  BY <1>1, <1>2 DEF Edit, ReadingTyped, ReadingTypeOK, Awaited
<1>3. ASSUME NEW on \in BOOLEAN, UpdateTopic(on)
      PROVE  ReadingTyped' /\ UNCHANGED <<row, told, overlapped, page, call, leftAt, dropped>>
  BY <1>1, <1>2, <1>3 DEF UpdateTopic
<1>4. ASSUME CreateCard
      PROVE  ReadingTyped' /\ UNCHANGED <<row, told, overlapped, page, call, leftAt, dropped>>
  <2> DEFINE last == IF DOMAIN cards = {} THEN 0 ELSE Max(DOMAIN cards)
  <2>1. IsFiniteSet(DOMAIN cards)
    <3>1. DOMAIN cards \in SUBSET (1..MaxOrder) /\ 1 \in Int /\ MaxOrder \in Int
      BY <1>1
    <3>2. IsFiniteSet(1..MaxOrder)
      BY <3>1, FS_Interval
    <3> QED
      BY <3>1, <3>2, FS_Subset
  <2>2. DOMAIN cards # {} => Max(DOMAIN cards) \in DOMAIN cards
    <3>1. DOMAIN cards \in SUBSET Nat
      BY <1>1
    <3> QED
      BY <2>1, <3>1, FiniteMax
  <2>3. last \in Nat
    <3>1. \A n \in DOMAIN cards : n \in Nat
      BY <1>1
    <3> QED
      BY <2>2, <3>1
  <2> HIDE DEF last
  <2>4. last + 1 \in 1..MaxOrder
    BY <1>1, <1>4, <2>3 DEF CreateCard, last
  <2>5. cards' = [o \in DOMAIN cards \cup {last + 1} |-> IF o = last + 1 THEN "on" ELSE cards[o]]
    BY <1>4 DEF CreateCard, last
  <2> QED
    BY <1>1, <1>2, <1>4, <2>4, <2>5 DEF CreateCard
<1>5. ASSUME NEW from \in 1..MaxOrder, NEW to \in 1..MaxOrder, NEW status \in {"on", "off"},
             UpdateCard(from, to, status)
      PROVE  ReadingTyped' /\ UNCHANGED <<row, told, overlapped, page, call, leftAt, dropped>>
  <2>1. cards' = [o \in (DOMAIN cards \ {from}) \cup {to} |-> IF o = to THEN status ELSE cards[o]]
    BY <1>5 DEF UpdateCard
  <2> QED
    BY <1>1, <1>2, <1>5, <2>1 DEF UpdateCard
<1>6. ASSUME NEW force \in BOOLEAN, Seed(force)
      PROVE  ReadingTyped' /\ UNCHANGED <<row, told, overlapped, page, call, leftAt, dropped>>
  <2>1. cards' = [o \in DOMAIN cards \cup Shipped |->
                    IF o \in DOMAIN cards /\ ~ (force /\ o \in Shipped) THEN cards[o] ELSE "on"]
    BY <1>6 DEF Seed
  <2> QED
    BY <1>1, <1>2, <1>6, <2>1 DEF Seed
<1> QED
  BY <1>3, <1>4, <1>5, <1>6

-----------------------------------------------------------------------------
(* The reading: the invariant.                                             *)

Kept == IF row = None THEN Nothing ELSE row
FoundBy(c) == IF c.found = None THEN Nothing ELSE c.found

(* Reports handled by now said as much.                                    *)
Told(r) == r.last <= told.last /\ (r.finished => told.finished)

(* A report that was handled, or is on its way, says place n or more.      *)
Said(n) ==
  n <= told.last \/ \E s \in Slot : call[s].pc \in {"sent", "read"} /\ n <= call[s].place

(* A handler found nothing that was not told; alone, it found what is      *)
(* still there.                                                            *)
Handled(s) ==
  /\ call[s].pc = "answered" => Told(call[s].ack)
  /\ Handling(s) =>
       /\ Told(FoundBy(call[s]))
       /\ ~ overlapped => call[s].found = row /\ \A t \in Slot \ {s} : ~ Handling(t)

(* What a page takes for reported was said, and where its reader is was    *)
(* said or waits to be.                                                    *)
Shown(p) ==
  /\ p.view # None => p.view.last <= told.last
  /\ ~ dropped =>
       Said(p.reported) /\ (Said(p.current) \/ (p.pending # None /\ p.current <= p.pending))

ReadingInv ==
  /\ ReadingTyped
  /\ Told(Kept) /\ (~ overlapped => Kept = told)
  /\ \A s \in Slot : Handled(s)
  /\ \A d \in Device : Shown(page[d])
  /\ ~ dropped => Said(leftAt)

(* A report goes on only by its handler's steps, which are looked at apart:*)
(* a page sends it, leaves it or takes its answer, or it is lost.          *)
CallMoves(s) ==
  \/ /\ call'[s].pc = call[s].pc /\ call'[s].place = call[s].place
     /\ call'[s].found = call[s].found /\ call'[s].ack = call[s].ack
  \/ call[s].pc \notin {"sent", "read"} /\ call'[s].pc \in {"free", "sent"}
  \/ dropped' /\ call'[s].pc = "free"

LEMMA SaidKept ==
  ASSUME ReadingTyped, ReadingTyped', told.last <= told'.last, NEW n \in Place,
         \A s \in Slot :
           call[s].pc \in {"sent", "read"} /\ n <= call[s].place =>
             \/ call'[s].pc \in {"sent", "read"} /\ call'[s].place = call[s].place
             \/ n <= told'.last,
         Said(n)
  PROVE  Said(n)'
<1>1. n \in Nat /\ told.last \in Nat /\ told'.last \in Nat
  BY ReadingConstants DEF ReadingTyped, ReadingTypeOK
<1>2. n <= told.last => n <= told'.last
  BY <1>1
<1> QED
  BY <1>2 DEF Said

LEMMA ReadingNumbers ==
  ASSUME ReadingTyped
  PROVE  /\ told.last \in Nat /\ told \in Progress /\ Kept \in Progress /\ leftAt \in Place
         /\ page \in [Device -> Page] /\ call \in [Slot -> Call]
         /\ \A s \in Slot : call[s].place \in Place /\ call[s].place \in Nat
                            /\ call[s].ack \in Progress
                            /\ FoundBy(call[s]) \in Progress
                            /\ call[s].found \in Progress \cup {None}
                            /\ call[s].owner \in Device \cup {None}
         /\ \A d \in Device : page[d].reported \in Place /\ page[d].current \in Place
                              /\ page[d].view \in Progress \cup {None}
                              /\ page[d].pending \in Place \cup {None}
                              /\ page[d].total \in Place
<1>1. /\ told.last \in Nat /\ told \in Progress /\ Kept \in Progress /\ leftAt \in Place
      /\ page \in [Device -> Page] /\ call \in [Slot -> Call]
  BY ReadingConstants DEF ReadingTyped, ReadingTypeOK, Kept
<1>2. ASSUME NEW c \in Call
      PROVE  /\ c.place \in Place /\ c.place \in Nat /\ c.ack \in Progress
             /\ c.found \in Progress \cup {None} /\ c.owner \in Device \cup {None}
             /\ FoundBy(c) \in Progress
  BY <1>2, ReadingConstants DEF Call, FoundBy
<1>3. \A p \in Page : /\ p.reported \in Place /\ p.current \in Place
                      /\ p.view \in Progress \cup {None} /\ p.pending \in Place \cup {None}
                      /\ p.total \in Place
  BY DEF Page
<1> QED
  BY <1>1, <1>2, <1>3

LEMMA SaidMoves ==
  ASSUME ReadingTyped, ReadingTyped', UNCHANGED told, ~ dropped',
         \A s \in Slot : CallMoves(s),
         NEW n \in Place, Said(n)
  PROVE  Said(n)'
<1>1. told' = told /\ told.last \in Nat
  BY ReadingNumbers
<1>2. \A s \in Slot : call[s].pc \in {"sent", "read"} =>
                        call'[s].pc = call[s].pc /\ call'[s].place = call[s].place
  BY DEF CallMoves
<1> QED
  BY <1>1, <1>2, SaidKept

LEMMA SaidBelow ==
  ASSUME ReadingTyped, NEW m \in Place, NEW n \in Place, n <= m, Said(m)
  PROVE  Said(n)
<1>1. m \in Nat /\ n \in Nat /\ told.last \in Nat /\ \A s \in Slot : call[s].place \in Nat
  BY ReadingConstants, ReadingNumbers
<1>2. \A k \in Nat : m <= k => n <= k
  BY <1>1
<1> QED
  BY <1>1, <1>2 DEF Said

(* A step that leaves the row alone and turns at most the page of d.       *)
LEMMA QuietKeeps ==
  ASSUME ReadingInv, ReadingTyped', UNCHANGED <<row, told, overlapped>>, dropped => dropped',
         \A s \in Slot : CallMoves(s),
         NEW d, \A e \in Device \ {d} : page'[e] = page[e],
         d \in Device => Shown(page[d])',
         leftAt' # leftAt /\ ~ dropped' => Said(leftAt)'
  PROVE  ReadingInv'
<1>1. ReadingTyped /\ told' = told /\ told.last \in Nat
  BY ReadingNumbers DEF ReadingInv
<1>2. Told(Kept)' /\ (~ overlapped' => Kept' = told')
  BY DEF ReadingInv, Told, Kept
<1>3. ASSUME NEW n \in Place, ~ dropped', Said(n)
      PROVE  Said(n)'
  BY <1>1, <1>3, SaidMoves
<1>4. ASSUME NEW s \in Slot
      PROVE  Handled(s)'
  <2>1. \A t \in Slot : Handling(t)' => Handling(t) /\ call'[t].found = call[t].found
    BY DEF CallMoves, Handling
  <2>2. call'[s].pc = "answered" => call[s].pc = "answered" /\ call'[s].ack = call[s].ack
    BY DEF CallMoves
  <2> QED
    BY <2>1, <2>2 DEF ReadingInv, Handled, Told, FoundBy
<1>5. ASSUME NEW e \in Device \ {d}
      PROVE  Shown(page[e])'
  <2>1. page'[e] = page[e] /\ Shown(page[e])
    BY DEF ReadingInv
  <2>2. page[e].reported \in Place /\ page[e].current \in Place
    BY <1>1, ReadingNumbers
  <2> QED
    BY <1>1, <1>3, <2>1, <2>2 DEF Shown
<1>6. ~ dropped' => Said(leftAt)'
  <2>1. leftAt \in Place
    BY <1>1, ReadingNumbers
  <2> QED
    BY <1>3, <2>1 DEF ReadingInv, Said
<1> QED
  BY <1>2, <1>4, <1>5, <1>6 DEF ReadingInv

(* A page's steps: flushing sends what waits, and what it does not send is *)
(* what it reported last.                                                  *)
LEMMA PageKeeps ==
  ASSUME ReadingInv, NEW d \in Device,
         \/ Open(d) \/ GetDetail(d) \/ LoadFails(d) \/ Loaded(d)
         \/ \E place \in Place : Slide(d, place)
         \/ ReportTimer(d) \/ HandleFinish(d) \/ HandleUnlock(d) \/ Unload(d)
  PROVE  ReadingInv'
<1> DEFINE p == page[d]
<1>1. /\ ReadingTyped /\ ReadingTyped' /\ Shown(p)
      /\ page \in [Device -> Page] /\ p \in Page /\ call \in [Slot -> Call]
      /\ p.reported \in Place /\ p.current \in Place /\ p.view \in Progress \cup {None}
      /\ p.pending \in Place \cup {None} /\ p.total \in Place
      /\ told.last \in Nat /\ leftAt \in Place
      /\ Place \subseteq Nat
  <2>1. ReadingTyped
    BY DEF ReadingInv
  <2>2. ReadingTyped'
    BY <2>1, PageTypes
  <2>3. page \in [Device -> Page] /\ p \in Page /\ call \in [Slot -> Call]
    BY <2>1 DEF ReadingTyped, ReadingTypeOK
  <2> QED
    BY <2>1, <2>2, <2>3, ReadingNumbers, ReadingConstants DEF ReadingInv
<1>2. UNCHANGED <<row, told, overlapped, dropped>>
  BY DEF Open, GetDetail, LoadFails, Loaded, Slide, ReportTimer, HandleFinish, HandleUnlock,
     Unload, server
<1>3. ASSUME NEW new \in Page, Turn(d, new), UNCHANGED leftAt,
             \A s \in Slot : CallMoves(s), Shown(new)'
      PROVE  ReadingInv'
  <2>1. page'[d] = new /\ \A e \in Device \ {d} : page'[e] = page[e]
    BY <1>1, <1>3 DEF Turn
  <2>2. Shown(page[d])'
    BY <1>3, <2>1 DEF Shown
  <2> QED
    BY <1>1, <1>2, <1>3, <2>1, <2>2, QuietKeeps
<1>4. ASSUME UNCHANGED call
      PROVE  (\A s \in Slot : CallMoves(s)) /\ \A n : Said(n)' <=> Said(n)
  BY <1>2, <1>4 DEF CallMoves, Said
<1>5. ASSUME NEW new \in Page, Turn(d, new), UNCHANGED <<leftAt, call>>,
             /\ new.view # None => new.view.last <= told.last
             /\ ~ dropped => /\ Said(new.reported)
                             /\ Said(new.current)
                                \/ (new.pending # None /\ new.current <= new.pending)
      PROVE  ReadingInv'
  <2>1. Shown(new)'
    BY <1>2, <1>4, <1>5 DEF Shown
  <2> QED
    BY <1>3, <1>4, <1>5, <2>1
<1>6. CASE Open(d) \/ HandleUnlock(d)
  <2> DEFINE new == [p EXCEPT !.at = "loading"]
  <2>1. new \in Page /\ new.view = p.view /\ new.reported = p.reported
        /\ new.current = p.current /\ new.pending = p.pending
    BY <1>1 DEF Page
  <2>2. Turn(d, new) /\ UNCHANGED <<leftAt, call>>
    BY <1>6 DEF Open, HandleUnlock
  <2> HIDE DEF new
  <2> QED
    BY <1>1, <1>5, <2>1, <2>2 DEF Shown
<1>7. CASE GetDetail(d)
  <2>1. CASE Turn(d, [p EXCEPT !.at = "error"])
    <3> DEFINE new == [p EXCEPT !.at = "error"]
    <3>1. new \in Page /\ new.view = p.view /\ new.reported = p.reported
          /\ new.current = p.current /\ new.pending = p.pending
      BY <1>1 DEF Page
    <3> HIDE DEF new
    <3> QED
      BY <1>1, <1>5, <1>7, <2>1, <3>1 DEF Shown, GetDetail, new
  <2>2. CASE Turn(d, [p EXCEPT !.view = Kept, !.total = Cardinality(OnCards)])
    <3> DEFINE new == [p EXCEPT !.view = Kept, !.total = Cardinality(OnCards)]
    <3>1. Kept \in Progress /\ Cardinality(OnCards) \in Place /\ Kept.last <= told.last
      BY <1>1, ReadingNumbers, CardsCounted DEF ReadingInv, Told
    <3>2. new \in Page /\ new.view = Kept /\ new.reported = p.reported
          /\ new.current = p.current /\ new.pending = p.pending
      BY <1>1, <3>1 DEF Page
    <3> HIDE DEF new
    <3> QED
      BY <1>1, <1>5, <1>7, <2>2, <3>1, <3>2 DEF Shown, GetDetail, new
  <2> QED
    BY <1>7, <2>1, <2>2 DEF GetDetail, Kept
<1>8. CASE LoadFails(d)
  <2> DEFINE new == [p EXCEPT !.at = "error", !.view = None]
  <2>1. new \in Page /\ new.view = None /\ new.reported = p.reported
        /\ new.current = p.current /\ new.pending = p.pending
    BY <1>1 DEF Page
  <2>2. Turn(d, new) /\ UNCHANGED <<leftAt, call>>
    BY <1>8 DEF LoadFails
  <2> HIDE DEF new
  <2> QED
    BY <1>1, <1>5, <2>1, <2>2 DEF Shown
<1>9. CASE Loaded(d)
  <2> DEFINE least == AtMost(p.view.last, p.total)
             new == [p EXCEPT !.at = "cards", !.view = None, !.finished = p.view.finished,
                              !.reported = p.view.last, !.current = least]
  <2>1. /\ p.view.last \in Place /\ p.view.finished \in BOOLEAN /\ p.view.last <= told.last
        /\ p.view.last \in Nat /\ p.total \in Nat
    BY <1>1, <1>9, ReadingConstants DEF Loaded, Shown
  <2>2. least \in Place /\ least <= p.view.last
    BY <1>1, <2>1, ReadingConstants DEF AtMost
  <2>3. Said(p.view.last)
    BY <2>1 DEF Said
  <2>4. Said(least)
    BY <1>1, <2>1, <2>2, <2>3, SaidBelow
  <2> HIDE DEF least
  <2>5. new \in Page /\ new.view = None /\ new.reported = p.view.last /\ new.current = least
    BY <1>1, <2>1, <2>2 DEF Page
  <2>6. Turn(d, new) /\ UNCHANGED <<leftAt, call>>
    BY <1>9 DEF Loaded, least
  <2> HIDE DEF new
  <2> QED
    BY <1>5, <2>3, <2>4, <2>5, <2>6
<1>10. ASSUME NEW place \in Place, Slide(d, place)
       PROVE  ReadingInv'
  <2> DEFINE moved == [p EXCEPT !.current = place]
             new == [moved EXCEPT !.pending = place]
  <2>1. /\ moved \in Page /\ moved.view = p.view /\ moved.reported = p.reported
        /\ moved.current = place
    BY <1>1 DEF Page
  <2>2. /\ new \in Page /\ new.view = p.view /\ new.reported = p.reported
        /\ new.current = place /\ new.pending = place
    BY <1>1 DEF Page
  <2>3. (IF place = p.reported THEN Turn(d, moved) ELSE Turn(d, new)) /\ UNCHANGED <<leftAt, call>>
    BY <1>10, <2>1 DEF Slide
  <2> HIDE DEF moved, new
  <2>4. CASE place = p.reported
    BY <1>1, <1>5, <2>1, <2>3, <2>4 DEF Shown
  <2>5. CASE place # p.reported
    BY <1>1, <1>5, <2>2, <2>3, <2>5, NoneAssumption DEF Shown
  <2> QED
    BY <2>4, <2>5
<1>11. p.pending # None /\ ~ dropped /\ p.pending = p.reported => Said(p.current)
  BY <1>1, SaidBelow DEF Shown
<1>12. ASSUME NEW c \in Call, c.pc = "sent", HasSlot, call' = [call EXCEPT ![FreeSlot] = c]
       PROVE  (\A s \in Slot : CallMoves(s)) /\ (\A n : n <= c.place => Said(n)')
  <2>1. PICK s \in Slot : s = FreeSlot /\ call[s].pc = "free"
    BY <1>12, FreeSlotIs
  <2>2. call'[s] = c /\ \A t \in Slot \ {s} : call'[t] = call[t]
    BY <1>1, <1>12, <2>1
  <2> QED
    BY <1>12, <2>1, <2>2 DEF CallMoves, Said
<1>13. CASE ReportTimer(d)
  <2>1. CASE Turn(d, [p EXCEPT !.pending = None]) /\ UNCHANGED call /\ p.pending = p.reported
    <3> DEFINE new == [p EXCEPT !.pending = None]
    <3>1. new \in Page /\ new.view = p.view /\ new.reported = p.reported /\ new.current = p.current
      BY <1>1 DEF Page
    <3>2. Turn(d, new) /\ UNCHANGED <<leftAt, call>> /\ p.pending # None
      BY <1>13, <2>1 DEF ReportTimer
    <3> HIDE DEF new
    <3> QED
      BY <1>1, <1>5, <1>11, <2>1, <3>1, <3>2 DEF Shown
  <2>2. CASE /\ HasSlot /\ p.pending # None
             /\ Turn(d, [p EXCEPT !.pending = None, !.reported = p.pending])
             /\ call' = [call EXCEPT ![FreeSlot] = Sent(d, p.pending, FALSE)]
    <3>1. PICK m \in Place : m = p.pending
      BY <1>1, <2>2
    <3>2. PICK new \in Page : /\ new.view = p.view /\ new.reported = m /\ new.current = p.current
                              /\ Turn(d, new)
      <4>1. [p EXCEPT !.pending = None, !.reported = m] \in Page
        BY <1>1, <3>1 DEF Page
      <4> QED
        BY <1>1, <2>2, <3>1, <4>1 DEF Page
    <3>3. PICK sent \in Call : sent.pc = "sent" /\ sent.place = m
                               /\ call' = [call EXCEPT ![FreeSlot] = sent]
      <4>1. LET sent == Sent(d, m, FALSE) IN sent \in Call /\ sent.pc = "sent" /\ sent.place = m
        BY <3>1, ReadingConstants, ZenonT(60)
      <4> QED
        BY <2>2, <3>1, <4>1
    <3>4. (\A s \in Slot : CallMoves(s)) /\ \A n : n <= m => Said(n)'
      BY <1>12, <2>2, <3>3
    <3>5. ~ dropped' => Said(new.current)'
      <4>1. new.current <= m => Said(new.current)'
        BY <3>4
      <4>2. new.current \in Place
        BY <1>1, <3>2
      <4>3. ASSUME ~ dropped', Said(new.current)
            PROVE  Said(new.current)'
        BY <1>1, <1>2, <3>4, <4>2, <4>3, SaidMoves
      <4> QED
        BY <1>1, <1>2, <3>1, <3>2, <4>1, <4>3 DEF Shown
    <3>6. m <= m
      BY <1>1
    <3>7. Shown(new)'
      BY <1>1, <1>2, <3>2, <3>4, <3>5, <3>6 DEF Shown
    <3> QED
      BY <1>3, <1>13, <3>2, <3>4, <3>7 DEF ReportTimer
  <2> QED
    BY <1>13, <2>1, <2>2 DEF ReportTimer, Flush
<1>14. CASE HandleFinish(d)
  <2>1. PICK new \in Page : /\ new.view = p.view /\ new.reported = p.reported
                            /\ new.current = p.current /\ new.pending = p.pending
                            /\ Turn(d, new)
    <3>1. [p EXCEPT !.finishing = TRUE] \in Page
      BY <1>1 DEF Page
    <3> QED
      BY <1>1, <1>14, <3>1 DEF Page, HandleFinish
  <2>2. PICK sent \in Call : sent.pc = "sent" /\ call' = [call EXCEPT ![FreeSlot] = sent]
    BY <1>1, <1>14, ReadingConstants DEF HandleFinish
  <2>3. \A s \in Slot : CallMoves(s)
    BY <1>12, <1>14, <2>2 DEF HandleFinish
  <2>4. ASSUME NEW n \in Place, ~ dropped', Said(n)
        PROVE  Said(n)'
    BY <1>1, <1>2, <2>3, <2>4, SaidMoves
  <2>5. new.reported \in Place /\ new.current \in Place
    BY <1>1, <2>1
  <2>6. Shown(new)'
    BY <1>1, <1>2, <2>1, <2>4, <2>5 DEF Shown
  <2> QED
    BY <1>3, <1>14, <2>1, <2>3, <2>6 DEF HandleFinish
<1>15. CASE Unload(d)
  <2> DEFINE left == [s \in Slot |-> Orphaned(d, call[s])]
             waits == p.pending # None /\ p.pending # p.reported
  <2>1. page'[d] = Closed /\ \A e \in Device \ {d} : page'[e] = page[e]
    BY <1>1, <1>15 DEF Unload
  <2>2. Shown(page[d])'
    <3>1. told'.last \in Nat /\ 0 <= told'.last
      BY <1>1, <1>2
    <3>2. Closed.view = None /\ Closed.reported = 0 /\ Closed.current = 0
      BY DEF Closed
    <3> QED
      BY <2>1, <3>1, <3>2 DEF Shown, Said
  <2>3. \A s \in Slot :
          /\ \/ /\ left[s].pc = call[s].pc /\ left[s].place = call[s].place
                /\ left[s].found = call[s].found /\ left[s].ack = call[s].ack
             \/ call[s].pc = "answered" /\ left[s].pc = "free"
          /\ call[s].pc = "free" => left[s].pc = "free"
    <3> SUFFICES ASSUME NEW s \in Slot, NEW c \in Call, c = call[s]
                 PROVE  \/ /\ Orphaned(d, c).pc = c.pc /\ Orphaned(d, c).place = c.place
                           /\ Orphaned(d, c).found = c.found /\ Orphaned(d, c).ack = c.ack
                        \/ c.pc = "answered" /\ Orphaned(d, c).pc = "free"
      BY <1>1
    <3> QED
      BY DEF Orphaned, Call, Free
  <2>4. (\A s \in Slot : CallMoves(s)) /\ (waits => \A n : n <= p.pending => Said(n)')
    <3>1. CASE ~ waits
      <4>1. call' = left
        BY <1>15, <3>1 DEF Unload
      <4> HIDE DEF left
      <4> QED
        BY <2>3, <3>1, <4>1 DEF CallMoves
    <3>2. CASE waits
      <4>1. PICK sent \in Call : sent.pc = "sent" /\ sent.place = p.pending
                                 /\ call' = [left EXCEPT ![FreeSlot] = sent]
        <5>1. p.pending \in Place
          BY <1>1, <3>2
        <5>2. LET sent == Sent(None, p.pending, FALSE)
              IN  sent \in Call /\ sent.pc = "sent" /\ sent.place = p.pending
          BY <5>1, ReadingConstants
        <5>3. call' = [left EXCEPT ![FreeSlot] = Sent(None, p.pending, FALSE)]
          BY <1>15, <3>2 DEF Unload
        <5> QED
          BY <5>2, <5>3
      <4>2. PICK s \in Slot : s = FreeSlot /\ call[s].pc = "free"
        BY <1>15, <3>2, FreeSlotIs DEF Unload
      <4>3. DOMAIN left = Slot
        OBVIOUS
      <4> HIDE DEF left
      <4>4. call'[s] = sent /\ \A t \in Slot \ {s} : call'[t] = left[t]
        BY <4>1, <4>2, <4>3
      <4>5. \A t \in Slot : CallMoves(t)
        BY <2>3, <4>1, <4>2, <4>4 DEF CallMoves
      <4>6. \A n : n <= p.pending => Said(n)'
        BY <4>1, <4>4 DEF Said
      <4> QED
        BY <4>5, <4>6
    <3> QED
      BY <3>1, <3>2
  <2>5. ASSUME leftAt' # leftAt, ~ dropped'
        PROVE  Said(leftAt)'
    <3>1. PICK n \in Place : n = p.current
      BY <1>1
    <3>2. leftAt' = n
      BY <1>15, <2>5, <3>1 DEF Unload, Furthest
    <3>3. CASE Said(n)
      <4>1. Said(n)'
        BY <1>1, <1>2, <2>4, <2>5, <3>3, SaidMoves
      <4> QED
        BY <3>2, <4>1 DEF Said
    <3>4. CASE ~ Said(n)
      <4>1. p.pending # None /\ n <= p.pending /\ p.pending # p.reported
        BY <1>1, <1>2, <1>11, <2>5, <3>1, <3>4 DEF Shown
      <4>2. Said(n)'
        BY <2>4, <4>1
      <4> QED
        BY <3>2, <4>2 DEF Said
    <3> QED
      BY <3>3, <3>4
  <2> HIDE DEF p, left, waits
  <2> QED
    BY <1>1, <1>2, <2>1, <2>2, <2>4, <2>5, QuietKeeps
<1> QED
  BY <1>6, <1>7, <1>8, <1>9, <1>10, <1>13, <1>14, <1>15

(* The steps of a report: its answer, its end, and its handler's two.      *)
LEMMA AnswerKeeps ==
  ASSUME ReadingInv, ReadingTyped', NEW s \in Slot, Answered(s)
  PROVE  ReadingInv'
<1>1. ReadingTyped /\ call[s].pc = "answered" /\ call[s].owner # None
  BY DEF ReadingInv, ReadingTyped, Awaited, Answered
<1>2. PICK d \in Device, ack \in Progress, p \in Page :
        d = call[s].owner /\ ack = call[s].ack /\ p = page[d]
  BY <1>1, ReadingNumbers
<1>3. /\ told.last \in Nat /\ Place \subseteq Nat /\ page \in [Device -> Page]
      /\ call \in [Slot -> Call] /\ ack.last \in Place
  BY <1>1, ReadingNumbers, ReadingConstants
<1>4. UNCHANGED <<row, told, overlapped, leftAt, dropped>> /\ call' = [call EXCEPT ![s] = Free]
  BY DEF Answered, server
<1>5. \A t \in Slot : CallMoves(t)
  BY <1>1, <1>3, <1>4, ReadingConstants DEF CallMoves
<1>6. Shown(p) /\ ack.last <= told.last
  BY <1>1, <1>2 DEF ReadingInv, Handled, Told
<1>7. PICK new \in Page : /\ new.view = p.view /\ new.reported \in {p.reported, ack.last}
                          /\ new.current = p.current /\ new.pending = p.pending
                          /\ Turn(d, new)
  <2>1. ack.finished \in BOOLEAN
    BY ReadingConstants
  <2>2. /\ [p EXCEPT !.finished = ack.finished, !.finishing = FALSE] \in Page
        /\ [p EXCEPT !.reported = ack.last, !.finished = ack.finished] \in Page
    BY <1>3, <2>1 DEF Page
  <2>3. Turn(d, IF call[s].finish THEN [p EXCEPT !.finished = ack.finished, !.finishing = FALSE]
                ELSE [p EXCEPT !.reported = ack.last, !.finished = ack.finished])
    BY <1>2 DEF Answered
  <2> QED
    BY <2>2, <2>3 DEF Page
<1>8. page'[d] = new /\ \A e \in Device \ {d} : page'[e] = page[e]
  BY <1>3, <1>7 DEF Turn
<1>9. ASSUME NEW n \in Place, ~ dropped', Said(n)
      PROVE  Said(n)'
  BY <1>1, <1>4, <1>5, <1>9, SaidMoves
<1>10. Shown(new)'
  <2>1. p.reported \in Place /\ p.current \in Place
    BY DEF Page
  <2>2. Said(ack.last)'
    BY <1>4, <1>6 DEF Said
  <2> QED
    BY <1>4, <1>6, <1>7, <1>9, <2>1, <2>2 DEF Shown
<1>11. Shown(page[d])'
  BY <1>8, <1>10 DEF Shown
<1> QED
  BY <1>4, <1>5, <1>8, <1>11, QuietKeeps

LEMMA FailKeeps ==
  ASSUME ReadingInv, ReadingTyped', NEW s \in Slot, Fail(s),
         UNCHANGED <<row, told, overlapped, leftAt>>
  PROVE  ReadingInv'
<1>1. ReadingTyped /\ page \in [Device -> Page] /\ call \in [Slot -> Call]
      /\ call[s].owner \in Device \cup {None}
  BY ReadingNumbers DEF ReadingInv
<1>2. dropped' /\ call' = [call EXCEPT ![s] = Free]
  BY DEF Fail
<1>3. \A t \in Slot : CallMoves(t)
  BY <1>1, <1>2, ReadingConstants DEF CallMoves
<1>4. CASE UNCHANGED page
  BY <1>2, <1>3, <1>4, QuietKeeps, NoneAssumption
<1>5. CASE call[s].owner # None
           /\ Turn(call[s].owner, [page[call[s].owner] EXCEPT !.finishing = FALSE])
  <2>1. PICK d \in Device : d = call[s].owner
    BY <1>1, <1>5
  <2>2. page'[d].view = page[d].view /\ \A e \in Device \ {d} : page'[e] = page[e]
    BY <1>1, <1>5, <2>1 DEF Turn, Page
  <2>3. Shown(page[d])'
    BY <1>2, <2>2 DEF Shown, ReadingInv
  <2> QED
    BY <1>2, <1>3, <2>2, <2>3, QuietKeeps
<1> QED
  BY <1>4, <1>5 DEF Fail

(* The handler that reads the row is alone, or marks that it is not.       *)
LEMMA ReadKeeps ==
  ASSUME ReadingInv, ReadingTyped', NEW s \in Slot, ReadRow(s)
  PROVE  ReadingInv'
<1>1. ReadingTyped /\ call \in [Slot -> Call] /\ told.last \in Nat
  BY ReadingNumbers DEF ReadingInv
<1>2. /\ UNCHANGED <<row, told, page, leftAt, dropped>>
      /\ overlapped' = (overlapped \/ \E t \in Slot \ {s} : Handling(t))
      /\ overlapped \in BOOLEAN /\ overlapped' \in BOOLEAN
      /\ call[s].pc = "sent"
  BY <1>1 DEF ReadRow, ReadingTyped, ReadingTypeOK
<1>3. /\ call'[s].pc = "read" /\ call'[s].found = row /\ call'[s].place = call[s].place
      /\ \A t \in Slot \ {s} : call'[t] = call[t]
  BY <1>1 DEF ReadRow, Call
<1>4. Told(Kept)' /\ (~ overlapped' => Kept' = told')
  BY <1>2 DEF ReadingInv, Told, Kept
<1>5. ASSUME NEW n \in Place, Said(n)
      PROVE  Said(n)'
  BY <1>2, <1>3, <1>5 DEF Said
<1>6. ASSUME NEW t \in Slot
      PROVE  Handled(t)'
  <2>1. CASE t = s
    <3>1. Told(FoundBy(call[s]))'
      BY <1>2, <1>3 DEF ReadingInv, Told, Kept, FoundBy
    <3>2. ~ overlapped' => \A u \in Slot \ {s} : ~ Handling(u)'
      BY <1>2, <1>3 DEF Handling
    <3> QED
      BY <1>2, <1>3, <2>1, <3>1, <3>2 DEF Handled
  <2>2. CASE t # s
    <3>1. call'[t] = call[t] /\ Handled(t)
      BY <1>3, <2>2 DEF ReadingInv
    <3>2. ASSUME Handling(t)'
          PROVE  overlapped'
      BY <1>2, <2>2, <3>1, <3>2 DEF Handling
    <3> QED
      BY <1>2, <3>1, <3>2 DEF Handled, Told, FoundBy, Handling
  <2> QED
    BY <2>1, <2>2
<1>7. ASSUME NEW d \in Device
      PROVE  Shown(page[d])'
  <2>1. page'[d] = page[d] /\ Shown(page[d]) /\ page[d].reported \in Place
        /\ page[d].current \in Place
    BY <1>1, <1>2, ReadingNumbers DEF ReadingInv
  <2> QED
    BY <1>2, <1>5, <2>1 DEF Shown
<1>8. ~ dropped' => Said(leftAt)'
  <2>1. leftAt \in Place
    BY <1>1, ReadingNumbers
  <2> QED
    BY <1>2, <1>5, <2>1 DEF ReadingInv, Said
<1> QED
  BY <1>4, <1>6, <1>7, <1>8 DEF ReadingInv

LEMMA FurthestIs ==
  ASSUME NEW m \in Place, NEW n \in Place
  PROVE  /\ Furthest(m, n) \in Place /\ m <= Furthest(m, n) /\ n <= Furthest(m, n)
         /\ \A k \in Place : k <= m => k <= Furthest(m, n) /\ Furthest(k, n) <= Furthest(m, n)
         /\ \A k \in Place : k <= n => k <= Furthest(m, n)
<1>1. m \in Nat /\ n \in Nat /\ Place \subseteq Nat
  BY ReadingConstants
<1> QED
  BY <1>1 DEF Furthest

(* The handler that writes joins what it found with what it was told; alone*)
(* it found all that was told before.                                      *)
LEMMA WriteKeeps ==
  ASSUME ReadingInv, ReadingTyped', NEW s \in Slot, WriteRow(s)
  PROVE  ReadingInv'
<1> DEFINE found == FoundBy(call[s])
           new == Merged(call[s].found, call[s])
<1>1. /\ ReadingTyped /\ call \in [Slot -> Call] /\ told.last \in Nat /\ told \in Progress
      /\ found \in Progress /\ found.last \in Place /\ found.finished \in BOOLEAN
      /\ call[s].place \in Place /\ call[s].finish \in BOOLEAN /\ call[s] \in Call
      /\ told.finished \in BOOLEAN /\ told.last \in Place /\ Place \subseteq Nat
  BY ReadingNumbers, ReadingConstants DEF ReadingInv, Call
<1>2. /\ Handling(s) /\ Told(found) /\ UNCHANGED <<overlapped, page, leftAt, dropped>>
      /\ overlapped \in BOOLEAN
      /\ ~ overlapped => call[s].found = row /\ \A t \in Slot \ {s} : ~ Handling(t)
  BY DEF WriteRow, ReadingInv, Handled, ReadingTyped, ReadingTypeOK
<1>3. /\ new.last = Furthest(found.last, call[s].place)
      /\ new.finished = (found.finished \/ call[s].finish)
      /\ new \in Progress
  <2>1. new = [last |-> Furthest(found.last, call[s].place),
               finished |-> found.finished \/ call[s].finish]
    BY DEF Merged, FoundBy
  <2> HIDE DEF new, found
  <2> QED
    BY <1>1, <2>1, ReadingConstants DEF Progress
<1>4. /\ told'.last = Furthest(told.last, call[s].place)
      /\ told'.finished = (told.finished \/ call[s].finish)
      /\ told' \in Progress
  <2>1. told' = [last |-> Furthest(told.last, call[s].place),
                 finished |-> told.finished \/ call[s].finish]
    BY DEF WriteRow
  <2> QED
    BY <1>1, <2>1, ReadingConstants DEF Progress
<1>5. /\ told'.last \in Place /\ told.last <= told'.last /\ call[s].place <= told'.last
      /\ \A k \in Place : k <= told.last \/ k <= call[s].place => k <= told'.last
      /\ (told.finished => told'.finished)
  BY <1>1, <1>4, FurthestIs, ZenonT(60)
<1>6. ASSUME NEW r \in Progress, Told(r)
      PROVE  Told(r)'
  <2>1. r.last \in Place
    BY ReadingConstants
  <2> QED
    BY <1>5, <1>6, <2>1 DEF Told
<1>7. PICK written \in Progress : written = new /\ Told(written)'
  <2>1. PICK w \in Progress : w = new
    BY <1>3
  <2>2. Told(w)'
    <3>1. w.last <= told'.last
      <4>1. PICK f, t, n \in Place : f = found.last /\ t = told.last /\ n = call[s].place
        BY <1>1
      <4>2. f <= t
        BY <1>2, <4>1 DEF Told
      <4>3. Furthest(f, n) <= Furthest(t, n)
        BY <4>2, FurthestIs
      <4>4. w.last = Furthest(f, n) /\ told'.last = Furthest(t, n)
        BY <1>3, <1>4, <2>1, <4>1
      <4> QED
        BY <4>3, <4>4
    <3>2. w.finished => told'.finished
      BY <1>2, <1>3, <1>4, <2>1 DEF Told
    <3> QED
      BY <3>1, <3>2 DEF Told
  <2> QED
    BY <2>1, <2>2
<1>8. ~ overlapped /\ found = told => written = told'
  BY <1>1, <1>3, <1>4, <1>7 DEF Progress
<1>9. Kept' = IF call[s].found = written THEN Kept ELSE written
  BY <1>7, NoneAssumption DEF WriteRow, Kept
<1>10. Told(Kept)' /\ (~ overlapped' => Kept' = told')
  <2>1. PICK k \in Progress : k = Kept /\ Told(k)'
    BY <1>1, <1>6, ReadingNumbers DEF ReadingInv, Told
  <2>2. Told(Kept)'
    BY <1>7, <1>9, <2>1 DEF Told
  <2>3. ASSUME ~ overlapped
        PROVE  Kept' = told'
    <3>1. found = Kept /\ Kept = told /\ written = told'
      BY <1>2, <1>8, <2>3 DEF ReadingInv, FoundBy, Kept
    <3>2. call[s].found = written => found = written
      BY NoneAssumption DEF FoundBy
    <3> QED
      BY <1>9, <3>1, <3>2
  <2> QED
    BY <1>2, <2>2, <2>3
<1>11. /\ call'[s].pc \in {"free", "answered"}
       /\ call'[s].pc = "answered" => call'[s].ack = written
       /\ \A t \in Slot \ {s} : call'[t] = call[t]
  <2>1. call' = [call EXCEPT ![s] = IF call[s].owner = None THEN Free
                   ELSE [call[s] EXCEPT !.pc = "answered", !.found = None, !.ack = written]]
    BY <1>7 DEF WriteRow
  <2> HIDE DEF new, found
  <2> QED
    BY <1>1, <2>1, ReadingConstants DEF Call
<1>12. ASSUME NEW n \in Place, Said(n)
       PROVE  Said(n)'
  <2>1. \A t \in Slot : call[t].pc \in {"sent", "read"} /\ n <= call[t].place =>
          \/ call'[t].pc \in {"sent", "read"} /\ call'[t].place = call[t].place
          \/ n <= told'.last
    BY <1>5, <1>11
  <2> QED
    BY <1>1, <1>5, <1>12, <2>1, SaidKept
<1>13. ASSUME NEW t \in Slot
       PROVE  Handled(t)'
  <2>1. CASE t = s
    BY <1>7, <1>11, <2>1 DEF Handled, Handling, Told
  <2>2. CASE t # s
    <3>1. call'[t] = call[t] /\ Handled(t)
      BY <1>11, <2>2 DEF ReadingInv
    <3>2. PICK a, f \in Progress : a = call[t].ack /\ f = FoundBy(call[t])
      BY <1>1, ReadingNumbers
    <3>3. (Told(a) => Told(a)') /\ (Told(f) => Told(f)')
      BY <1>6
    <3>4. Handling(t)' => Handling(t) /\ overlapped'
      BY <1>2, <2>2, <3>1 DEF Handling
    <3> QED
      BY <3>1, <3>2, <3>3, <3>4 DEF Handled, Told, FoundBy
  <2> QED
    BY <2>1, <2>2
<1>14. ASSUME NEW d \in Device
       PROVE  Shown(page[d])'
  <2>1. PICK p \in Page : p = page[d] /\ page'[d] = p /\ Shown(p)
    BY <1>1, <1>2, ReadingNumbers DEF ReadingInv
  <2>2. p.reported \in Place /\ p.current \in Place
        /\ (p.view # None => p.view.last \in Place)
    BY ReadingConstants DEF Page
  <2>3. p.view # None => p.view.last <= told'.last
    BY <1>5, <2>1, <2>2 DEF Shown
  <2>4. ~ dropped' =>
          Said(p.reported)' /\ (Said(p.current)' \/ (p.pending # None /\ p.current <= p.pending))
    BY <1>2, <1>12, <2>1, <2>2 DEF Shown
  <2> QED
    BY <2>1, <2>3, <2>4 DEF Shown
<1>15. ~ dropped' => Said(leftAt)'
  <2>1. leftAt \in Place
    BY <1>1, ReadingNumbers
  <2> QED
    BY <1>2, <1>12, <2>1 DEF ReadingInv, Said
<1> QED
  BY <1>10, <1>13, <1>14, <1>15 DEF ReadingInv

(* The administrators leave the rows, the pages and the reports alone.     *)
LEMMA EditKeeps ==
  ASSUME ReadingInv, ReadingTyped',
         UNCHANGED <<row, told, overlapped, page, call, leftAt, dropped>>
  PROVE  ReadingInv'
<1>1. \A s \in Slot : CallMoves(s)
  BY DEF CallMoves
<1> QED
  BY <1>1, QuietKeeps, NoneAssumption

LEMMA InitReading == ReadingInit => ReadingInv
<1> SUFFICES ASSUME ReadingInit
             PROVE  ReadingInv
  OBVIOUS
<1>1. ReadingTyped
  <2>1. /\ Closed.current = 0 /\ 0 <= MaxOrder /\ 0 \in 0..MaxActs /\ 0 \in 0..MaxEdits
        /\ Free.pc = "free"
    BY ReadingAssumption DEF Closed, Free
  <2>2. DOMAIN cards \subseteq 1..MaxOrder /\ \A o \in DOMAIN cards : cards[o] \in {"on", "off"}
    BY ReadingAssumption DEF ReadingInit
  <2>3. /\ page \in [Device -> Page] /\ call \in [Slot -> Call]
        /\ told \in Progress /\ leftAt \in Place
    BY ReadingConstants DEF ReadingInit
  <2> QED
    BY <2>1, <2>2, <2>3 DEF ReadingInit, ReadingTyped, ReadingTypeOK, Awaited
<1>2. Kept = Nothing /\ told = Nothing /\ leftAt = 0 /\ Nothing.last = 0
  BY ReadingConstants DEF ReadingInit, Kept
<1>3. Said(0)
  BY <1>2 DEF Said
<1>4. ASSUME NEW d \in Device
      PROVE  Shown(page[d])
  BY <1>3 DEF ReadingInit, Shown, Closed
<1>5. \A s \in Slot : Handled(s)
  BY DEF ReadingInit, Handled, Handling, Free
<1> QED
  BY <1>1, <1>2, <1>3, <1>4, <1>5 DEF ReadingInv, Told

LEMMA NextReading == ReadingInv /\ [ReadingNext]_reading => ReadingInv'
<1> SUFFICES ASSUME ReadingInv, [ReadingNext]_reading
             PROVE  ReadingInv'
  OBVIOUS
<1>1. ReadingTyped
  BY DEF ReadingInv
<1>2. CASE UNCHANGED reading
  <2>1. ReadingTyped'
    BY <1>1, <1>2 DEF reading, ReadingTyped, ReadingTypeOK, Awaited
  <2> QED
    BY <1>2, <2>1, EditKeeps DEF reading
<1>3. ASSUME NEW d \in Device,
             \/ Open(d) \/ GetDetail(d) \/ LoadFails(d) \/ Loaded(d)
             \/ \E place \in Place : Slide(d, place)
             \/ ReportTimer(d) \/ HandleFinish(d) \/ HandleUnlock(d) \/ Unload(d)
      PROVE  ReadingInv'
  BY <1>3, PageKeeps
<1>4. ASSUME NEW s \in Slot,
             Answered(s) \/ Lose(s) \/ ReadRow(s) \/ Refuse(s) \/ WriteRow(s)
      PROVE  ReadingInv'
  <2>1. ReadingTyped'
    BY <1>1, <1>4, CallTypes
  <2>2. CASE Lose(s) \/ Refuse(s)
    BY <2>1, <2>2, FailKeeps DEF Lose, Refuse, server
  <2> QED
    BY <1>4, <2>1, <2>2, AnswerKeeps, ReadKeeps, WriteKeeps
<1>5. ASSUME \/ \E on \in BOOLEAN : UpdateTopic(on)
             \/ CreateCard
             \/ \E from, to \in 1..MaxOrder, status \in {"on", "off"} : UpdateCard(from, to, status)
             \/ \E force \in BOOLEAN : Seed(force)
      PROVE  ReadingInv'
  BY <1>1, <1>5, EditTypes, EditKeeps
<1> QED
  BY <1>2, <1>3, <1>4, <1>5 DEF ReadingNext

(* A row, a report and a page never tell of a place that nobody said, and  *)
(* what a reader left is said until a call is lost (topic.service.ts:185,  *)
(* detail.vue:80).                                                         *)
THEOREM ReadingAlways == ReadingSpec => []ReadingInv
BY InitReading, NextReading, PTL DEF ReadingSpec

(* The state of the reading has its types: a page's place among its cards, *)
(* the orders of the cards within the bound (topic-admin.service.ts).      *)
THEOREM ReadingTypes == ReadingSpec => []ReadingTypeOK
<1>1. ReadingInv => ReadingTypeOK
  BY DEF ReadingInv, ReadingTyped
<1> QED
  BY <1>1, ReadingAlways, PTL

(* The progress row is the join of the reports handled one at a time, and  *)
(* never more than they said (topic.service.ts:185).                       *)
THEOREM ProgressJoined == ReadingSpec => []ProgressIsJoin
<1>1. ReadingInv => ProgressIsJoin
  BY DEF ReadingInv, Told, Kept, ProgressIsJoin
<1> QED
  BY <1>1, ReadingAlways, PTL

(* With every page closed and every report handled, the row keeps the place*)
(* at which the reader left (detail.vue:80, onUnload).                     *)
THEOREM PlacesKept == ReadingSpec => []PlaceKept
<1>1. ASSUME ReadingInv
      PROVE  PlaceKept
  <2> SUFFICES ASSUME ~ overlapped, ~ dropped, \A s \in Slot : call[s].pc = "free"
               PROVE  leftAt <= (IF row = None THEN 0 ELSE row.last)
    BY DEF PlaceKept
  <2>1. leftAt <= told.last /\ Kept = told
    BY <1>1 DEF ReadingInv, Said
  <2> QED
    BY <2>1, ReadingConstants DEF Kept
<1> QED
  BY <1>1, ReadingAlways, PTL
=============================================================================
