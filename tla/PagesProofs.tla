----------------------------- MODULE PagesProofs -----------------------------
(***************************************************************************)
(* The invitation pages of InvitePages, proved for any number of pages in  *)
(* memory, calls under way and acts of the user: the questionnaire never   *)
(* opens before the consent is recorded, unless an agreement was answered  *)
(* whose UPDATE had missed.                                                *)
(*                                                                         *)
(* What a page does follows from its copy of the invitation, which may be  *)
(* old, or was read by a call that comes back late.  But consent is never  *)
(* taken back, so a copy in which the invitee has consented stays as right *)
(* about that as it was when it was made (Told): copies of the row were    *)
(* right, as the row only says so when the record is there (RowSound), and *)
(* the one answer that is no copy, that of an agreement, was given for a   *)
(* record or else for a miss (Agreed).                                     *)
(***************************************************************************)
EXTENDS InvitePages, FiniteSetTheorems, TLAPS

-----------------------------------------------------------------------------
(* The invariant.                                                          *)

(* What an answered agreement stands for.                                  *)
Agreed == consented \/ missed

(* A copy in which this user, the invitee, is past the consent.            *)
Told(v) == role = "invitee" /\ v.status \in Answered => Agreed

(* The row says so of recorded consent only, and so does what it will be   *)
(* again after a renewal.                                                  *)
RowSound ==
  /\ invite \in Invite
  /\ role = "invitee" /\ invite.status \in Answered => consented
  /\ role = "invitee" /\ invite.before \in Answered => consented

PageSound(p) ==
  /\ p \in Page /\ Told(p.view)
  /\ p.reuse \/ p.kind = "questionnaire" => Agreed

CallSound(c) ==
  /\ c \in Call /\ Told(c.view)
  /\ c.op = "agree" /\ c.got = "ok" => Agreed

DeviceSound(d) ==
  /\ d = [stack |-> d.stack, page |-> d.page, calls |-> d.calls]
  /\ d.stack \in Seq(Slot) /\ IsInjective(d.stack)
  /\ d.page \in [Slot -> Page] /\ \A n \in Slot : PageSound(d.page[n])
  /\ \A c \in BagToSet(d.calls) : CallSound(c)

PagesInv ==
  /\ role \in {"initiator", "invitee"} /\ acts \in 0..MaxActs
  /\ consented \in BOOLEAN /\ missed \in BOOLEAN
  /\ RowSound
  /\ DeviceSound(device) /\ device.stack # << >>

-----------------------------------------------------------------------------
(* The stack and the calls.                                                *)

LEMMA PushIs ==
  ASSUME NEW s \in Seq(Slot), IsInjective(s), NEW n \in Slot, n \notin Range(s)
  PROVE  /\ Append(s, n) \in Seq(Slot) /\ IsInjective(Append(s, n))
         /\ Append(s, n) # << >> /\ Last(Append(s, n)) = n
<1>1. /\ Append(s, n) \in Seq(Slot) /\ Len(Append(s, n)) = Len(s) + 1
      /\ Append(s, n)[Len(s) + 1] = n /\ \A k \in 1..Len(s) : Append(s, n)[k] = s[k]
  OBVIOUS
<1>2. Len(s) \in Nat /\ DOMAIN s = 1..Len(s) /\ DOMAIN Append(s, n) = 1..(Len(s) + 1)
  BY <1>1
<1>3. \A k \in 1..Len(s) : s[k] # n
  BY <1>2 DEF Range
<1>4. IsInjective(Append(s, n))
  BY <1>1, <1>2, <1>3 DEF IsInjective
<1>5. Last(Append(s, n)) = n
  BY <1>1 DEF Last
<1>6. Append(s, n) # << >>
  <2>1. Len(Append(s, n)) # 0
    BY <1>1, <1>2
  <2>2. Len(<< >>) = 0
    OBVIOUS
  <2> QED
    BY <2>1, <2>2
<1> QED
  BY <1>1, <1>4, <1>5, <1>6

LEMMA PopIs ==
  ASSUME NEW s \in Seq(Slot), IsInjective(s), s # << >>
  PROVE  /\ Front(s) \in Seq(Slot) /\ IsInjective(Front(s))
         /\ Len(s) > 1 => Front(s) # << >>
         /\ Range(Front(s)) \subseteq Range(s)
         /\ Last(s) \in Slot /\ Last(s) \in Range(s)
<1>1. Len(s) \in Nat \ {0} /\ DOMAIN s = 1..Len(s)
  OBVIOUS
<1>2. /\ Front(s) \in Seq(Slot) /\ Len(Front(s)) = Len(s) - 1
      /\ \A k \in 1..(Len(s) - 1) : Front(s)[k] = s[k]
  BY <1>1 DEF Front
<1>3. DOMAIN Front(s) = 1..(Len(s) - 1)
  BY <1>1, <1>2
<1>4. IsInjective(Front(s))
  BY <1>1, <1>2, <1>3 DEF IsInjective
<1>5. Range(Front(s)) \subseteq Range(s)
  BY <1>1, <1>2, <1>3 DEF Range
<1>6. Last(s) \in Slot /\ Last(s) \in Range(s)
  BY <1>1 DEF Last, Range
<1> QED
  BY <1>1, <1>2, <1>4, <1>5, <1>6

LEMMA UnseenIs ==
  /\ NoInvite \in Invite /\ Unseen \in Invite /\ Told(Unseen) /\ Told(NoInvite)
BY DEF NoInvite, Unseen, Invite, Told, Answered, Finished, Active, Expirable

LEMMA FreshIs ==
  ASSUME NEW kind \in Kind, kind = "questionnaire" => Agreed
  PROVE  PageSound(Fresh(kind)) /\ Fresh(kind).kind = kind
<1>1. 0 \in 0..MaxAttempts /\ 0 \in Nat
  BY PagesAssumption
<1> QED
  BY <1>1, UnseenIs DEF Fresh, Page, PageSound

-----------------------------------------------------------------------------
(* What the pages' operators keep.                                         *)

LEMMA ChangeIs ==
  ASSUME NEW d, DeviceSound(d), NEW n \in Slot, NEW p, PageSound(p)
  PROVE  /\ DeviceSound(Change(d, n, p))
         /\ Change(d, n, p).stack = d.stack /\ Change(d, n, p).calls = d.calls
         /\ Change(d, n, p).page = [d.page EXCEPT ![n] = p]
         /\ Change(d, n, p).page[n] = p
<1>1. Change(d, n, p) = [stack |-> d.stack, page |-> [d.page EXCEPT ![n] = p], calls |-> d.calls]
  BY DEF Change, DeviceSound
<1>2. [d.page EXCEPT ![n] = p] \in [Slot -> Page] /\ p \in Page
  BY DEF DeviceSound, PageSound
<1>3. \A m \in Slot : PageSound([d.page EXCEPT ![n] = p][m])
  BY DEF DeviceSound
<1>4. [d.page EXCEPT ![n] = p][n] = p
  BY DEF DeviceSound
<1> QED
  BY <1>1, <1>2, <1>3, <1>4 DEF DeviceSound

LEMMA AskIs ==
  ASSUME NEW d, DeviceSound(d), NEW n \in Slot, NEW op \in Ops
  PROVE  /\ DeviceSound(Ask(d, n, op))
         /\ Ask(d, n, op).stack = d.stack /\ Ask(d, n, op).page = d.page
<1> DEFINE c == [slot |-> n, op |-> op, got |-> "none", view |-> Unseen]
           b == d.calls (+) SetToBag({c})
<1>1. CallSound(c)
  BY UnseenIs DEF CallSound, Call
<1>2. BagToSet(b) = BagToSet(d.calls) \cup {c}
  BY DEF BagToSet, SetToBag, (+)
<1>3. Ask(d, n, op) = [stack |-> d.stack, page |-> d.page, calls |-> b]
  BY DEF Ask, DeviceSound
<1> HIDE DEF b, c
<1> QED
  BY <1>1, <1>2, <1>3 DEF DeviceSound

(* Closing the page on top leaves it in memory.                            *)
LEMMA PoppedIs ==
  ASSUME NEW d, DeviceSound(d), d.stack # << >>
  PROVE  LET e == [d EXCEPT !.stack = Front(@)] IN
         /\ DeviceSound(e) /\ e.stack = Front(d.stack) /\ e.page = d.page /\ e.calls = d.calls
         /\ Top(d) \in Slot
<1>1. [d EXCEPT !.stack = Front(@)]
        = [stack |-> Front(d.stack), page |-> d.page, calls |-> d.calls]
  BY DEF DeviceSound
<1>2. Front(d.stack) \in Seq(Slot) /\ IsInjective(Front(d.stack)) /\ Last(d.stack) \in Slot
  BY PopIs DEF DeviceSound
<1> QED
  BY <1>1, <1>2 DEF DeviceSound, Top

(* A page that has no timer or redirect more, and no call, is as silent.   *)
LEMMA FreeKept ==
  ASSUME NEW d, NEW e, e.calls = d.calls, e.stack = d.stack,
         \A n \in Slot : /\ ~ d.page[n].timer => ~ e.page[n].timer
                         /\ ~ d.page[n].leaving => ~ e.page[n].leaving
                         /\ e.page[n].strays = d.page[n].strays
  PROVE  Free(d) \subseteq Free(e)
BY DEF Free, Silent, CallsOf

LEMMA LeaveIs ==
  ASSUME NEW d, DeviceSound(d), NEW n \in Slot
  PROVE  /\ DeviceSound(Leave(d, n)) /\ Leave(d, n).stack = d.stack
         /\ Free(d) \subseteq Free(Leave(d, n))
<1> DEFINE p == StopPolling(d.page[n])
<1>1. PageSound(d.page[n]) /\ d.page[n] \in Page
  BY DEF DeviceSound
<1>2. /\ p \in Page /\ p.view = d.page[n].view /\ p.reuse = d.page[n].reuse
      /\ p.kind = d.page[n].kind /\ ~ p.timer /\ p.leaving = d.page[n].leaving
      /\ p.strays = d.page[n].strays
  BY <1>1 DEF StopPolling, Page
<1> HIDE DEF p
<1>3. PageSound(p)
  BY <1>1, <1>2 DEF PageSound
<1>4. Leave(d, n) = Change(d, n, p)
  BY DEF Leave, p
<1>5. /\ DeviceSound(Leave(d, n)) /\ Leave(d, n).stack = d.stack
      /\ Leave(d, n).calls = d.calls /\ Leave(d, n).page = [d.page EXCEPT ![n] = p]
  BY <1>3, <1>4, ChangeIs
<1>6. d.page \in [Slot -> Page]
  BY DEF DeviceSound
<1>7. Free(d) \subseteq Free(Leave(d, n))
  <2>1. \A m \in Slot : Leave(d, n).page[m] = IF m = n THEN p ELSE d.page[m]
    BY <1>5, <1>6
  <2> QED
    BY <1>2, <1>5, <2>1, FreeKept
<1> QED
  BY <1>5, <1>7

LEMMA LoadIs ==
  ASSUME NEW d, DeviceSound(d), NEW n \in Slot
  PROVE  DeviceSound(Load(d, n)) /\ Load(d, n).stack = d.stack
<1> DEFINE p == [d.page[n] EXCEPT !.error = FALSE]
<1>1. PageSound(d.page[n]) /\ d.page[n] \in Page
  BY DEF DeviceSound
<1>2. /\ p \in Page /\ p.view = d.page[n].view /\ p.reuse = d.page[n].reuse
      /\ p.kind = d.page[n].kind
  BY <1>1 DEF Page
<1> HIDE DEF p
<1>3. PageSound(p)
  BY <1>1, <1>2 DEF PageSound
<1>4. LoadOp(d.page[n].kind) \in Ops
  BY DEF LoadOp, Ops
<1>5. /\ DeviceSound(Change(d, n, p)) /\ Change(d, n, p).stack = d.stack
      /\ Change(d, n, p).calls = d.calls /\ Change(d, n, p).page = [d.page EXCEPT ![n] = p]
  BY <1>3, ChangeIs
<1>6. Load(d, n) = Ask(Change(d, n, p), n, LoadOp(d.page[n].kind))
  BY DEF Load, p
<1> QED
  BY <1>4, <1>5, <1>6, AskIs

LEMMA EnterIs ==
  ASSUME NEW d, DeviceSound(d), NEW n \in Slot, NEW kind \in Kind,
         kind = "questionnaire" => Agreed
  PROVE  DeviceSound(Enter(d, n, kind)) /\ Enter(d, n, kind).stack = d.stack
<1> DEFINE p == Fresh(kind)
<1>1. PageSound(p)
  BY FreshIs
<1> HIDE DEF p
<1>2. /\ DeviceSound(Change(d, n, p)) /\ Change(d, n, p).stack = d.stack
      /\ Change(d, n, p).calls = d.calls /\ Change(d, n, p).page = [d.page EXCEPT ![n] = p]
  BY <1>1, ChangeIs
<1> DEFINE e == Change(d, n, p)
<1>3. Enter(d, n, kind) = IF Loads(kind) THEN Load(e, n) ELSE e
  BY DEF Enter, p
<1> HIDE DEF e
<1>4. DeviceSound(e) /\ e.stack = d.stack
  BY <1>2 DEF e
<1> QED
  BY <1>3, <1>4, LoadIs

LEMMA NavigateIs ==
  ASSUME NEW d, DeviceSound(d), Free(d) # {}, NEW kind \in Kind,
         kind = "questionnaire" => Agreed
  PROVE  DeviceSound(NavigateTo(d, kind)) /\ NavigateTo(d, kind).stack # << >>
<1> DEFINE n == CHOOSE n \in Free(d) : TRUE
           e == [d EXCEPT !.stack = Append(@, n)]
<1>1. n \in Free(d)
  OBVIOUS
<1>2. n \in Slot /\ n \notin Range(d.stack)
  BY <1>1 DEF Free
<1>3. NavigateTo(d, kind) = Enter(e, n, kind)
  BY DEF NavigateTo
<1> HIDE DEF n
<1>4. e = [stack |-> Append(d.stack, n), page |-> d.page, calls |-> d.calls]
  <2>1. d = [stack |-> d.stack, page |-> d.page, calls |-> d.calls]
    BY DEF DeviceSound
  <2> QED
    BY <2>1, SMTT(30)
<1> HIDE DEF e
<1>5. /\ Append(d.stack, n) \in Seq(Slot) /\ IsInjective(Append(d.stack, n))
      /\ Append(d.stack, n) # << >>
  BY <1>2, PushIs DEF DeviceSound
<1>6. DeviceSound(e) /\ e.stack # << >>
  BY <1>4, <1>5 DEF DeviceSound
<1> QED
  BY <1>2, <1>3, <1>6, EnterIs

LEMMA RedirectIs ==
  ASSUME NEW d, DeviceSound(d), d.stack # << >>, HasRoom(d), NEW kind \in Kind,
         kind = "questionnaire" => Agreed
  PROVE  DeviceSound(RedirectTo(d, kind)) /\ RedirectTo(d, kind).stack # << >>
<1> DEFINE e == [d EXCEPT !.stack = Front(@)]
<1>1. DeviceSound(e) /\ Top(d) \in Slot
  BY PoppedIs
<1>2. Free(e) # {}
  BY DEF HasRoom
<1>3. RedirectTo(d, kind) = NavigateTo(Leave(e, Top(d)), kind)
  BY DEF RedirectTo
<1> HIDE DEF e
<1>4. DeviceSound(Leave(e, Top(d))) /\ Free(Leave(e, Top(d))) # {}
  BY <1>1, <1>2, LeaveIs
<1> QED
  BY <1>3, <1>4, NavigateIs

LEMMA ShowIs ==
  ASSUME NEW d, DeviceSound(d), d.stack # << >>
  PROVE  DeviceSound(Show(d)) /\ Show(d).stack = d.stack
<1>1. Top(d) \in Slot
  BY PoppedIs
<1> QED
  BY <1>1, LoadIs DEF Show

LEMMA BackIs ==
  ASSUME NEW d, DeviceSound(d), Len(d.stack) > 1
  PROVE  DeviceSound(NavigateBack(d)) /\ NavigateBack(d).stack # << >>
<1> DEFINE e == [d EXCEPT !.stack = Front(@)]
<1>1. d.stack \in Seq(Slot) /\ IsInjective(d.stack) /\ d.stack # << >>
  BY DEF DeviceSound
<1>2. DeviceSound(e) /\ Top(d) \in Slot /\ e.stack = Front(d.stack)
  BY <1>1, PoppedIs
<1>3. e.stack # << >>
  BY <1>1, <1>2, PopIs
<1>4. NavigateBack(d) = Show(Leave(e, Top(d)))
  BY DEF NavigateBack
<1> HIDE DEF e
<1> QED
  BY <1>2, <1>3, <1>4, LeaveIs, ShowIs

LEMMA HomeIs ==
  ASSUME NEW d, DeviceSound(d), d.stack # << >>, HasRoom(d)
  PROVE  DeviceSound(BackHome(d)) /\ BackHome(d).stack # << >>
BY BackIs, RedirectIs DEF BackHome, Kind

LEMMA ForgetIs ==
  ASSUME NEW d, DeviceSound(d)
  PROVE  DeviceSound(Forget(d)) /\ Forget(d).stack = d.stack
<1> DEFINE faded(n) == [d.page[n] EXCEPT !.view = Unseen, !.loading = FALSE, !.error = FALSE,
                                         !.reuse = FALSE]
           left(n) == CASE n \in Range(d.stack) -> d.page[n]
                        [] n \in Free(d) -> Fresh("elsewhere")
                        [] OTHER -> faded(n)
           f == [n \in Slot |-> left(n)]
<1>1. Forget(d) = [d EXCEPT !.page = f]
  BY DEF Forget
<1>2. \A n \in Slot : PageSound(left(n)) /\ left(n) \in Page
  <2> SUFFICES ASSUME NEW n \in Slot PROVE PageSound(left(n))
    BY DEF PageSound
  <2>1. PageSound(d.page[n]) /\ d.page[n] \in Page
    BY DEF DeviceSound
  <2>2. PageSound(Fresh("elsewhere"))
    BY FreshIs DEF Kind
  <2>3. /\ faded(n) \in Page /\ faded(n).view = Unseen /\ ~ faded(n).reuse
        /\ faded(n).kind = d.page[n].kind
    BY <2>1, UnseenIs DEF Page
  <2>4. PageSound(faded(n))
    BY <2>1, <2>3, UnseenIs DEF PageSound
  <2> HIDE DEF faded
  <2>5. left(n) \in {d.page[n], Fresh("elsewhere"), faded(n)}
    BY DEF Free
  <2> QED
    BY <2>1, <2>2, <2>4, <2>5
<1> HIDE DEF left
<1>3. f \in [Slot -> Page] /\ \A n \in Slot : PageSound(f[n])
  BY <1>2
<1> HIDE DEF f
<1>4. Forget(d) = [stack |-> d.stack, page |-> f, calls |-> d.calls]
  BY <1>1 DEF DeviceSound
<1> QED
  BY <1>3, <1>4 DEF DeviceSound

(* An answer that changes what a page keeps, but no timer of it.           *)
Still(p, q) == q.timer = p.timer /\ q.strays = p.strays /\ q.leaving = p.leaving

LEMMA StaysIs ==
  ASSUME NEW d, DeviceSound(d), d.stack # << >>, NEW n \in Slot, NEW q, PageSound(q)
  PROVE  /\ DeviceSound(Change(d, n, q)) /\ Change(d, n, q).stack # << >>
         /\ Still(d.page[n], q) =>
              /\ Free(d) # {} => Free(Change(d, n, q)) # {}
              /\ HasRoom(d) => HasRoom(Change(d, n, q))
<1> DEFINE e == Change(d, n, q)
<1>1. /\ DeviceSound(Change(d, n, q)) /\ Change(d, n, q).stack = d.stack
      /\ Change(d, n, q).calls = d.calls /\ Change(d, n, q).page = [d.page EXCEPT ![n] = q]
  BY ChangeIs
<1> HIDE DEF e
<1>2. /\ DeviceSound(e) /\ e.stack = d.stack
      /\ e.calls = d.calls /\ e.page = [d.page EXCEPT ![n] = q]
  BY <1>1 DEF e
<1>3. d.page \in [Slot -> Page]
  BY DEF DeviceSound
<1>4. \A m \in Slot : e.page[m] = IF m = n THEN q ELSE d.page[m]
  BY <1>2, <1>3
<1>5. ASSUME Still(d.page[n], q)
      PROVE  /\ Free(d) # {} => Free(e) # {}
             /\ HasRoom(d) => HasRoom(e)
  <2> DEFINE d1 == [d EXCEPT !.stack = Front(@)]
             e1 == [e EXCEPT !.stack = Front(@)]
  <2>1. /\ d1.page = d.page /\ d1.calls = d.calls /\ d1.stack = Front(d.stack)
        /\ e1.page = e.page /\ e1.calls = e.calls /\ e1.stack = Front(e.stack)
    BY <1>2, PoppedIs
  <2> HIDE DEF d1, e1
  <2>2. Free(d) \subseteq Free(e)
    BY <1>2, <1>4, <1>5, FreeKept DEF Still
  <2>3. Free(d1) \subseteq Free(e1)
    <3>1. e1.calls = d1.calls /\ e1.stack = d1.stack
      BY <1>2, <2>1
    <3>2. \A m \in Slot : e1.page[m] = IF m = n THEN q ELSE d1.page[m]
      BY <1>4, <2>1
    <3>3. Still(d1.page[n], q)
      BY <1>5, <2>1
    <3> QED
      BY <3>1, <3>2, <3>3, FreeKept DEF Still
  <2>4. HasRoom(d) => HasRoom(e)
    BY <2>3 DEF HasRoom, d1, e1
  <2> QED
    BY <2>2, <2>4
<1> QED
  BY <1>2, <1>5 DEF e

LEMMA PollIs ==
  ASSUME NEW p, PageSound(p)
  PROVE  /\ PageSound(StopPolling(p)) /\ PageSound(ScheduleNextPoll(p))
         /\ PageSound(SyncPolling(p)) /\ PageSound(PollAgain(p))
<1>1. p \in Page
  BY DEF PageSound
<1>2. PageSound(StopPolling(p))
  BY <1>1 DEF StopPolling, PageSound, Page
<1>3. ASSUME NEW r, PageSound(r) PROVE PageSound(ScheduleNextPoll(r))
  <2> DEFINE t == ScheduleNextPoll(r)
             k == IF r.timer THEN r.strays + 1 ELSE r.strays
  <2>1. r \in Page /\ r.strays \in Nat
    BY <1>3 DEF PageSound, Page
  <2>2. k \in Nat
    BY <2>1
  <2>3. t = [r EXCEPT !.timer = TRUE, !.strays = k]
    BY DEF ScheduleNextPoll
  <2> HIDE DEF k, t
  <2>4. t \in Page /\ t.view = r.view /\ t.reuse = r.reuse /\ t.kind = r.kind
    BY <2>1, <2>2, <2>3 DEF Page
  <2>5. PageSound(t)
    BY <1>3, <2>4 DEF PageSound
  <2> QED
    BY <2>5 DEF t
<1>4. PageSound([p EXCEPT !.polling = TRUE, !.attempts = 0])
  <2>1. 0 \in 0..MaxAttempts
    BY PagesAssumption
  <2> QED
    BY <1>1, <2>1 DEF PageSound, Page
<1>5. PageSound(StartPolling(p))
  BY <1>3, <1>4 DEF StartPolling
<1> QED
  BY <1>2, <1>3, <1>5 DEF SyncPolling, PollAgain

(* What a page may write down.                                             *)
LEMMA WriteIs ==
  ASSUME NEW p, PageSound(p), NEW v \in Invite, Told(v),
         NEW b \in Ops \cup {"none"}, NEW t \in BOOLEAN
  PROVE  /\ PageSound([p EXCEPT !.view = v]) /\ Still(p, [p EXCEPT !.view = v])
         /\ PageSound([p EXCEPT !.busy = b]) /\ Still(p, [p EXCEPT !.busy = b])
         /\ PageSound([p EXCEPT !.loading = t]) /\ Still(p, [p EXCEPT !.loading = t])
         /\ PageSound([p EXCEPT !.error = t]) /\ Still(p, [p EXCEPT !.error = t])
         /\ PageSound([p EXCEPT !.leaving = t])
         /\ Agreed => PageSound([p EXCEPT !.reuse = TRUE])
<1>1. p \in Page
  BY DEF PageSound
<1>2. PageSound([p EXCEPT !.view = v]) /\ Still(p, [p EXCEPT !.view = v])
  BY <1>1 DEF PageSound, Page, Still
<1>3. PageSound([p EXCEPT !.busy = b]) /\ Still(p, [p EXCEPT !.busy = b])
  BY <1>1 DEF PageSound, Page, Still
<1>4. PageSound([p EXCEPT !.loading = t]) /\ Still(p, [p EXCEPT !.loading = t])
  BY <1>1 DEF PageSound, Page, Still
<1>5. PageSound([p EXCEPT !.error = t]) /\ Still(p, [p EXCEPT !.error = t])
  BY <1>1 DEF PageSound, Page, Still
<1>6. PageSound([p EXCEPT !.leaving = t])
  BY <1>1 DEF PageSound, Page
<1>7. Agreed => PageSound([p EXCEPT !.reuse = TRUE])
  BY <1>1 DEF PageSound, Page
<1> QED
  BY <1>2, <1>3, <1>4, <1>5, <1>6, <1>7

-----------------------------------------------------------------------------
(* Answers.                                                                *)

Alive(d) == DeviceSound(d) /\ d.stack # << >>

LEMMA Alters ==
  ASSUME NEW d, Alive(d), NEW n \in Slot, NEW q, PageSound(q)
  PROVE  Alive(Change(d, n, q))
BY StaysIs DEF Alive

LEMMA CallHas ==
  ASSUME NEW c, CallSound(c)
  PROVE  /\ c.slot \in Slot /\ c.op \in Ops /\ c.view \in Invite /\ Told(c.view)
         /\ c.op = "agree" /\ c.got = "ok" => Agreed
BY DEF CallSound, Call

LEMMA PageHas ==
  ASSUME NEW d, Alive(d), NEW n \in Slot
  PROVE  PageSound(d.page[n])
BY DEF Alive, DeviceSound

LEMMA LoadAnsweredIs ==
  ASSUME NEW d, Alive(d), NEW n \in Slot, NEW c, CallSound(c)
  PROVE  Alive(LoadAnswered(d, n, c))
<1> DEFINE p == [d.page[n] EXCEPT !.loading = FALSE]
           q == [p EXCEPT !.view = c.view]
           f == [p EXCEPT !.error = TRUE]
<1>1. PageSound(p)
  BY PageHas, WriteIs, UnseenIs
<1> HIDE DEF p
<1>2. PageSound(q) /\ PageSound(f)
  BY <1>1, WriteIs, CallHas
<1> HIDE DEF q, f
<1>3. PageSound(SyncPolling(q))
  BY <1>2, PollIs
<1>4. LoadAnswered(d, n, c) \in {Change(d, n, f), Change(d, n, q), Change(d, n, SyncPolling(q))}
  BY DEF LoadAnswered, p, q, f
<1> QED
  BY <1>2, <1>3, <1>4, Alters

LEMMA AcceptOpenedIs ==
  ASSUME NEW d, Alive(d), NEW n \in Slot, NEW c, CallSound(c), HasRoom(d),
         role \in {"initiator", "invitee"}
  PROVE  Alive(AcceptOpened(d, n, c))
<1> DEFINE p == [d.page[n] EXCEPT !.loading = FALSE]
           q == [p EXCEPT !.view = c.view]
           f == [p EXCEPT !.error = TRUE]
<1>1. PageSound(p) /\ Still(d.page[n], p)
  BY PageHas, WriteIs, UnseenIs
<1> HIDE DEF p
<1>2. PageSound(q) /\ PageSound(f) /\ Still(p, q)
  BY <1>1, WriteIs, CallHas
<1> HIDE DEF q, f
<1>3. Still(d.page[n], q)
  BY <1>1, <1>2 DEF Still
<1>4. /\ Alive(Change(d, n, p)) /\ HasRoom(Change(d, n, p))
      /\ Alive(Change(d, n, q)) /\ HasRoom(Change(d, n, q))
      /\ Alive(Change(d, n, f))
  BY <1>1, <1>2, <1>3, StaysIs DEF Alive
<1>5. /\ Alive(RedirectTo(Change(d, n, p), "detail"))
      /\ Alive(RedirectTo(Change(d, n, q), "detail"))
      /\ Agreed => Alive(RedirectTo(Change(d, n, q), "questionnaire"))
  BY <1>4, RedirectIs DEF Alive, Kind
<1>6. role # "initiator" /\ c.view.status \in Answered => Agreed
  BY CallHas DEF Told
<1>7. CASE c.got # "ok"
  <2>1. AcceptOpened(d, n, c) = Change(d, n, f)
    BY <1>7 DEF AcceptOpened, p, q, f
  <2> QED
    BY <1>4, <2>1
<1>8. CASE c.got = "ok" /\ role = "initiator"
  <2>1. AcceptOpened(d, n, c) = RedirectTo(Change(d, n, p), "detail")
    BY <1>8 DEF AcceptOpened, p, q, f
  <2> QED
    BY <1>5, <2>1
<1>9. CASE c.got = "ok" /\ role # "initiator"
  <2>1. \/ AcceptOpened(d, n, c) \in {RedirectTo(Change(d, n, q), "detail"), Change(d, n, q)}
        \/ /\ c.view.status \in Answered
           /\ AcceptOpened(d, n, c) = RedirectTo(Change(d, n, q), "questionnaire")
    BY <1>9 DEF AcceptOpened, p, q, f
  <2> QED
    BY <1>4, <1>5, <1>6, <1>9, <2>1
<1> QED
  BY <1>7, <1>8, <1>9

LEMMA PolledIs ==
  ASSUME NEW p, PageSound(p), NEW c, CallSound(c)
  PROVE  PageSound(PollReport(p, c)) /\ PageSound(PollOnce(p, c))
<1> DEFINE q == [p EXCEPT !.view = c.view]
           f == [p EXCEPT !.error = TRUE]
<1>1. PageSound(q) /\ PageSound(f)
  BY WriteIs, CallHas
<1> HIDE DEF q, f
<1>2. /\ PageSound(StopPolling(p)) /\ PageSound(PollAgain(p)) /\ PageSound(StopPolling(q))
      /\ PageSound(PollAgain(q)) /\ PageSound(StopPolling(f))
  BY <1>1, PollIs
<1>3. PollReport(p, c) \in {StopPolling(q), PollAgain(q), PollAgain(p)}
  BY DEF PollReport, q
<1>4. PollOnce(p, c) \in {StopPolling(f), StopPolling(q), PollAgain(q)}
  BY DEF PollOnce, q, f
<1> QED
  BY <1>2, <1>3, <1>4

(* The page lets go of its button.                                         *)
Released(d, n) == Change(d, n, [d.page[n] EXCEPT !.busy = "none"])

LEMMA ReleasedIs ==
  ASSUME NEW d, Alive(d), NEW n \in Slot
  PROVE  /\ Alive(Released(d, n))
         /\ HasRoom(d) => HasRoom(Released(d, n))
         /\ Free(d) # {} => Free(Released(d, n)) # {}
<1> DEFINE p == [d.page[n] EXCEPT !.busy = "none"]
<1>1. PageSound(p) /\ Still(d.page[n], p)
  BY PageHas, WriteIs, UnseenIs
<1>2. Released(d, n) = Change(d, n, p)
  BY DEF Released
<1> HIDE DEF p
<1> QED
  BY <1>1, <1>2, StaysIs DEF Alive

LEMMA AgreeAnsweredIs ==
  ASSUME NEW d, Alive(d), NEW n \in Slot, NEW c, CallSound(c), c.op = "agree", HasRoom(d),
         NEW e \in AgreeAnswered(d, n, c)
  PROVE  Alive(e)
<1> DEFINE p == [d.page[n] EXCEPT !.busy = "none"]
           q == [p EXCEPT !.view = c.view]
           r == [q EXCEPT !.reuse = TRUE]
<1>1. PageSound(p) /\ Still(d.page[n], p)
  BY PageHas, WriteIs, UnseenIs
<1> HIDE DEF p
<1>2. PageSound(q) /\ Still(p, q)
  BY <1>1, WriteIs, CallHas
<1>3. Agreed => PageSound(r)
  BY <1>2, WriteIs, UnseenIs
<1> HIDE DEF q, r
<1>4. Still(d.page[n], q)
  BY <1>1, <1>2 DEF Still
<1>5. /\ Alive(Change(d, n, p)) /\ Alive(Change(d, n, q)) /\ HasRoom(Change(d, n, q))
      /\ Agreed => Alive(Change(d, n, r))
  BY <1>1, <1>2, <1>3, <1>4, StaysIs DEF Alive
<1>6. Agreed => Alive(RedirectTo(Change(d, n, q), "questionnaire"))
  BY <1>5, RedirectIs DEF Alive, Kind
<1>7. AgreeAnswered(d, n, c) = IF c.got # "ok" THEN {Change(d, n, p)}
                               ELSE {Change(d, n, r), RedirectTo(Change(d, n, q), "questionnaire")}
  BY DEF AgreeAnswered, p, q, r
<1> QED
  BY <1>5, <1>6, <1>7, CallHas

(* The other answers to a button.                                          *)
LEMMA LeavingAnswers ==
  ASSUME NEW d, Alive(d), NEW n \in Slot, NEW c, HasRoom(d)
  PROVE  Alive(DeclineAnswered(d, n, c)) /\ Alive(ReuseAnswered(d, n, c))
         /\ Alive(ReplaceAnswered(d, n, c))
<1> DEFINE e == Released(d, n)
<1>1. Alive(e) /\ HasRoom(e)
  BY ReleasedIs
<1>2. /\ DeclineAnswered(d, n, c) \in {e, BackHome(e)}
      /\ ReuseAnswered(d, n, c) \in {e, RedirectTo(e, "detail")}
      /\ ReplaceAnswered(d, n, c) \in {e, RedirectTo(e, "elsewhere")}
  BY DEF DeclineAnswered, ReuseAnswered, ReplaceAnswered, Released
<1> HIDE DEF e
<1>3. Alive(BackHome(e)) /\ Alive(RedirectTo(e, "detail")) /\ Alive(RedirectTo(e, "elsewhere"))
  BY <1>1, HomeIs, RedirectIs DEF Alive, Kind
<1> QED
  BY <1>1, <1>2, <1>3

LEMMA CreateAnsweredIs ==
  ASSUME NEW d, Alive(d), NEW n \in Slot, NEW c, Free(d) # {}
  PROVE  Alive(CreateAnswered(d, n, c))
<1> DEFINE e == Released(d, n)
<1>1. Alive(e) /\ Free(e) # {}
  BY ReleasedIs
<1>2. CreateAnswered(d, n, c)
        \in {e, Load(e, n), NavigateTo(e, "detail"), NavigateTo(e, "elsewhere")}
  BY DEF CreateAnswered, Released
<1> HIDE DEF e
<1>3. Alive(NavigateTo(e, "detail")) /\ Alive(NavigateTo(e, "elsewhere"))
  BY <1>1, NavigateIs DEF Alive, Kind
<1>4. Alive(Load(e, n))
  BY <1>1, LoadIs DEF Alive
<1> QED
  BY <1>1, <1>2, <1>3, <1>4

LEMMA RemindAnsweredIs ==
  ASSUME NEW d, Alive(d), NEW n \in Slot, NEW c
  PROVE  Alive(RemindAnswered(d, n, c))
<1> DEFINE p == [d.page[n] EXCEPT !.error = FALSE]
           e == Change(d, n, p)
<1>1. PageSound(p)
  BY PageHas, WriteIs, UnseenIs
<1>2. RemindAnswered(d, n, c) \in {Ask(e, n, "reopen"), Released(d, n)}
  BY DEF RemindAnswered, Released
<1> HIDE DEF p
<1>3. Alive(e)
  BY <1>1, Alters
<1> HIDE DEF e
<1>4. Alive(Ask(e, n, "reopen"))
  BY <1>3, AskIs DEF Alive, Ops
<1> QED
  BY <1>2, <1>4, ReleasedIs

LEMMA StayingAnswers ==
  ASSUME NEW d, Alive(d), NEW n \in Slot, NEW c, CallSound(c)
  PROVE  Alive(RenewAnswered(d, n, c)) /\ Alive(CancelAnswered(d, n, c))
         /\ Alive(DeleteAnswered(d, n, c))
<1> DEFINE p == [d.page[n] EXCEPT !.busy = "none"]
           q == [p EXCEPT !.view = c.view]
           l == [p EXCEPT !.leaving = TRUE]
<1>1. PageSound(p)
  BY PageHas, WriteIs, UnseenIs
<1> HIDE DEF p
<1>2. PageSound(q) /\ PageSound(l)
  BY <1>1, WriteIs, CallHas
<1> HIDE DEF q, l
<1>3. PageSound(SyncPolling(q)) /\ PageSound(StopPolling(q)) /\ PageSound(StopPolling(l))
  BY <1>2, PollIs
<1>4. /\ RenewAnswered(d, n, c) \in {Change(d, n, p), Change(d, n, SyncPolling(q))}
      /\ CancelAnswered(d, n, c) \in {Change(d, n, p), Change(d, n, StopPolling(q))}
      /\ DeleteAnswered(d, n, c) \in {Change(d, n, p), Change(d, n, StopPolling(l))}
  BY DEF RenewAnswered, CancelAnswered, DeleteAnswered, p, q, l
<1> QED
  BY <1>1, <1>3, <1>4, Alters

Leads(d, c) ==
  \/ c.op \in {"agree", "refuse", "reuse", "create", "replace"}
  \/ c.op = "open" /\ d.page[c.slot].kind = "accept"

LEMMA HandledIs ==
  ASSUME NEW d, Alive(d), NEW c, CallSound(c), role \in {"initiator", "invitee"},
         Leads(d, c) => IF c.op = "create" THEN Free(d) # {} ELSE HasRoom(d),
         NEW e \in Handled(d, c.slot, c)
  PROVE  Alive(e)
<1> DEFINE n == c.slot
<1>1. n \in Slot /\ c.op \in Ops
  BY CallHas
<1>2. CASE c.op = "open" /\ d.page[n].kind = "accept"
  <2>1. e = AcceptOpened(d, n, c)
    BY <1>2 DEF Handled
  <2> QED
    BY <1>1, <1>2, <2>1, AcceptOpenedIs DEF Leads
<1>3. CASE c.op \in {"mine", "report"} \/ (c.op = "open" /\ d.page[n].kind # "accept")
  <2>1. e = LoadAnswered(d, n, c)
    BY <1>3 DEF Handled
  <2> QED
    BY <1>1, <2>1, LoadAnsweredIs
<1>4. CASE c.op = "reopen"
  <2>1. e = LoadAnswered(Released(d, n), n, c)
    BY <1>4 DEF Handled, Released
  <2> QED
    BY <1>1, <2>1, ReleasedIs, LoadAnsweredIs
<1>5. CASE c.op \in {"poll", "pollReport"}
  <2>1. e \in {Change(d, n, PollReport(d.page[n], c)), Change(d, n, PollOnce(d.page[n], c))}
    BY <1>5 DEF Handled
  <2>2. PageSound(PollReport(d.page[n], c)) /\ PageSound(PollOnce(d.page[n], c))
    BY <1>1, PageHas, PolledIs
  <2> QED
    BY <1>1, <2>1, <2>2, Alters
<1>6. CASE c.op = "agree"
  <2>1. e \in AgreeAnswered(d, n, c)
    BY <1>6 DEF Handled
  <2> QED
    BY <1>1, <1>6, <2>1, AgreeAnsweredIs DEF Leads
<1>7. CASE c.op \in {"refuse", "reuse", "replace"}
  <2>1. e \in {DeclineAnswered(d, n, c), ReuseAnswered(d, n, c), ReplaceAnswered(d, n, c)}
    BY <1>7 DEF Handled
  <2>2. HasRoom(d)
    BY <1>7 DEF Leads
  <2> QED
    BY <1>1, <2>1, <2>2, LeavingAnswers
<1>8. CASE c.op = "create"
  <2>1. e = CreateAnswered(d, n, c)
    BY <1>8 DEF Handled
  <2>2. Free(d) # {}
    BY <1>8 DEF Leads
  <2> QED
    BY <1>1, <2>1, <2>2, CreateAnsweredIs
<1>9. CASE c.op = "remind"
  <2>1. e = RemindAnswered(d, n, c)
    BY <1>9 DEF Handled
  <2> QED
    BY <1>1, <2>1, RemindAnsweredIs
<1>10. CASE c.op \in {"renew", "cancel", "delete"}
  <2>1. e \in {RenewAnswered(d, n, c), CancelAnswered(d, n, c), DeleteAnswered(d, n, c)}
    BY <1>10 DEF Handled
  <2> QED
    BY <1>1, <2>1, StayingAnswers
<1> QED
  BY <1>1, <1>2, <1>3, <1>4, <1>5, <1>6, <1>7, <1>8, <1>9, <1>10 DEF Ops

-----------------------------------------------------------------------------
(* Steps of the device alone.                                              *)

LEMMA LocalKeeps ==
  ASSUME PagesInv, Local, acts' \in 0..MaxActs, Alive(device')
  PROVE  PagesInv'
BY DEF PagesInv, Local, Alive, RowSound, DeviceSound, PageSound, CallSound, Told, Agreed

LEMMA ForgetKeeps ==
  ASSUME NEW d, Alive(d)
  PROVE  Alive(Forget(d))
BY ForgetIs DEF Alive

LEMMA ReceiveKeeps ==
  ASSUME PagesInv, NEW c \in Calls, Receive(c)
  PROVE  PagesInv'
<1> DEFINE b == device.calls (-) SetToBag({c})
           d == [device EXCEPT !.calls = @ (-) SetToBag({c})]
<1>1. d = [stack |-> device.stack, page |-> device.page, calls |-> b]
  BY DEF PagesInv, DeviceSound
<1>2. BagToSet(b) \subseteq BagToSet(device.calls)
  BY DEF BagToSet, SetToBag, (-)
<1>3. CallSound(c)
  BY DEF Calls, PagesInv, DeviceSound
<1>4. /\ Navigates(c) => IF c.op = "create" THEN Free(d) # {} ELSE HasRoom(d)
      /\ device' \in {Forget(e) : e \in Handled(d, c.slot, c)}
      /\ Local /\ acts' = acts
  BY DEF Receive
<1> HIDE DEF b, d
<1>5. Alive(d)
  BY <1>1, <1>2 DEF Alive, PagesInv, DeviceSound
<1>6. d.page = device.page
  BY <1>1
<1>7. Leads(d, c) => Navigates(c)
  BY <1>6 DEF Leads, Navigates
<1>8. PICK e \in Handled(d, c.slot, c) : device' = Forget(e)
  BY <1>4
<1>9. Alive(e)
  BY <1>3, <1>4, <1>5, <1>7, HandledIs DEF PagesInv
<1> QED
  BY <1>4, <1>8, <1>9, ForgetKeeps, LocalKeeps DEF PagesInv

LEMMA TimersKeep ==
  ASSUME PagesInv, NEW n \in Slot, PollTimerFires(n) \/ LeaveAfterDelete(n)
  PROVE  PagesInv'
<1>1. /\ Alive(device) /\ PageSound(device.page[n]) /\ device.page[n] \in Page
      /\ acts \in 0..MaxActs
  BY PageHas DEF PagesInv, Alive, PageSound
<1>2. CASE PollTimerFires(n)
  <2> DEFINE p == device.page[n]
             polled == [p EXCEPT !.timer = FALSE,
                                 !.attempts = IF @ < MaxAttempts THEN @ + 1 ELSE @]
             k == IF p.timer THEN p.strays ELSE p.strays - 1
             stray == [polled EXCEPT !.strays = k]
             op == IF p.kind = "detail" THEN "poll" ELSE "pollReport"
  <2>1. /\ \/ device' = Ask(Change(device, n, polled), n, op)
           \/ p.strays > 0 /\ device' = Ask(Change(device, n, stray), n, op)
        /\ Local /\ acts' = acts
    BY <1>2 DEF PollTimerFires
  <2>2. MaxAttempts \in Nat /\ p.attempts \in 0..MaxAttempts /\ p.strays \in Nat
    BY <1>1, PagesAssumption DEF Page
  <2>3. /\ polled \in Page /\ polled.view = p.view /\ polled.reuse = p.reuse
        /\ polled.kind = p.kind
    <3> DEFINE a == IF p.attempts < MaxAttempts THEN p.attempts + 1 ELSE p.attempts
    <3>1. a \in 0..MaxAttempts
      BY <2>2
    <3>2. polled = [p EXCEPT !.timer = FALSE, !.attempts = a]
      OBVIOUS
    <3> HIDE DEF a, polled
    <3> QED
      BY <1>1, <3>1, <3>2 DEF Page
  <2>4. op \in Ops
    BY DEF Ops
  <2> HIDE DEF polled, op
  <2>5. PageSound(polled)
    BY <1>1, <2>3 DEF PageSound
  <2>6. ASSUME p.strays > 0 PROVE PageSound(stray)
    <3>1. k \in Nat
      BY <2>2, <2>6
    <3> HIDE DEF k
    <3> QED
      BY <2>3, <2>5, <3>1 DEF PageSound, Page
  <2> HIDE DEF stray
  <2>7. ASSUME NEW q, PageSound(q) PROVE Alive(Ask(Change(device, n, q), n, op))
    <3> DEFINE e == Change(device, n, q)
    <3>1. Alive(e)
      BY <1>1, <2>7, Alters
    <3> HIDE DEF e
    <3>2. Alive(Ask(e, n, op))
      BY <2>4, <3>1, AskIs DEF Alive
    <3> QED
      BY <3>2 DEF e
  <2>8. Alive(device')
    BY <2>1, <2>5, <2>6, <2>7
  <2> QED
    BY <1>1, <2>1, <2>8, LocalKeeps
<1>3. CASE LeaveAfterDelete(n)
  <2> DEFINE d == Change(device, n, [device.page[n] EXCEPT !.leaving = FALSE])
  <2>1. PageSound([device.page[n] EXCEPT !.leaving = FALSE])
    BY <1>1, WriteIs, UnseenIs
  <2>2. Alive(d)
    BY <1>1, <2>1, Alters
  <2>3. HasRoom(d) /\ device' = Forget(RedirectTo(d, "list")) /\ Local /\ acts' = acts
    BY <1>3 DEF LeaveAfterDelete
  <2> HIDE DEF d
  <2>4. Alive(RedirectTo(d, "list"))
    BY <2>2, <2>3, RedirectIs DEF Alive, Kind
  <2> QED
    BY <1>1, <2>3, <2>4, ForgetKeeps, LocalKeeps
<1> QED
  BY <1>2, <1>3

(* What the user does on the page on top.                                  *)
LEMMA VisitAlive ==
  ASSUME PagesInv, NEW n \in Slot, Visit(n)
  PROVE  Alive(device')
<1>1. PICK kind \in Links(device.page[n]) : device' = Forget(NavigateTo(device, kind))
  BY DEF Visit
<1>2. Alive(device) /\ PageSound(device.page[n])
  BY PageHas DEF PagesInv, Alive
<1>3. kind \in Kind /\ (kind = "questionnaire" => CanAnswer(device.page[n]))
  BY <1>1 DEF Links, ListLinks, DetailLinks, Kind
<1>4. kind = "questionnaire" => Agreed
  BY <1>2, <1>3 DEF CanAnswer, PageSound, Told, Answered
<1>5. Free(device) # {}
  BY FS_EmptySet DEF Visit
<1>6. Alive(NavigateTo(device, kind))
  BY <1>2, <1>3, <1>4, <1>5, NavigateIs DEF Alive
<1> QED
  BY <1>1, <1>6, ForgetKeeps

LEMMA GoBackAlive ==
  ASSUME PagesInv, GoBack
  PROVE  Alive(device')
<1>1. DeviceSound(device) /\ Len(device.stack) > 1 /\ device' = Forget(NavigateBack(device))
  BY DEF GoBack, PagesInv
<1>2. Alive(NavigateBack(device))
  BY <1>1, BackIs DEF Alive
<1> QED
  BY <1>1, <1>2, ForgetKeeps

LEMMA LoadAlive ==
  ASSUME PagesInv, NEW n \in Slot, PullDown(n) \/ Retry(n)
  PROVE  Alive(device')
<1> DEFINE p == [device.page[n] EXCEPT !.loading = TRUE]
           d == Change(device, n, p)
<1>1. Alive(device) /\ PageSound(device.page[n])
  BY PageHas DEF PagesInv, Alive
<1>2. PageSound(p)
  BY <1>1, WriteIs, UnseenIs
<1>3. device' = Load(device, n) \/ device' = Load(d, n)
  BY DEF PullDown, Retry
<1> HIDE DEF p
<1>4. Alive(d)
  BY <1>1, <1>2, Alters
<1> HIDE DEF d
<1> QED
  BY <1>1, <1>3, <1>4, LoadIs DEF Alive

LEMMA PressAlive ==
  ASSUME PagesInv, NEW n \in Slot, Press(n)
  PROVE  Alive(device')
<1>1. Alive(device) /\ PageSound(device.page[n])
  BY PageHas DEF PagesInv, Alive
<1>2. PICK op \in AcceptButtons(device.page[n]) \cup DetailButtons(device.page[n]) :
        device' = Ask(Change(device, n, [device.page[n] EXCEPT !.busy = op]), n, op)
  BY DEF Press
<1>3. op \in Ops
  BY <1>2 DEF AcceptButtons, DetailButtons, Ops
<1> DEFINE p == [device.page[n] EXCEPT !.busy = op]
           d == Change(device, n, p)
<1>4. PageSound(p)
  BY <1>1, <1>3, WriteIs, UnseenIs
<1>5. device' = Ask(d, n, op)
  BY <1>2
<1> HIDE DEF p
<1>6. Alive(d)
  BY <1>1, <1>4, Alters
<1> HIDE DEF d
<1> QED
  BY <1>3, <1>5, <1>6, AskIs DEF Alive

LEMMA NoticeAlive ==
  ASSUME PagesInv, NEW n \in Slot, AgreeToNotice(n) \/ DeclineNotice(n)
  PROVE  Alive(device')
<1>1. DeviceSound(device) /\ device.stack # << >>
  BY DEF PagesInv
<1>2. CASE AgreeToNotice(n)
  <2> DEFINE d == RedirectTo(device, "list")
             m == Top(d)
             p == [d.page[m] EXCEPT !.busy = "create"]
             e == Change(d, m, p)
  <2>1. Free(device) # {} /\ device' = Forget(Ask(e, m, "create"))
    BY <1>2 DEF AgreeToNotice
  <2>2. HasRoom(device)
    <3> DEFINE f == [device EXCEPT !.stack = Front(@)]
    <3>1. f.stack = Front(device.stack) /\ f.page = device.page /\ f.calls = device.calls
      BY <1>1, PoppedIs
    <3> HIDE DEF f
    <3>2. Range(Front(device.stack)) \subseteq Range(device.stack)
      BY <1>1, PopIs DEF DeviceSound
    <3>3. Free(device) \subseteq Free(f)
      BY <3>1, <3>2 DEF Free, Silent, CallsOf
    <3> QED
      BY <2>1, <3>3 DEF HasRoom, f
  <2>3. Alive(d)
    BY <1>1, <2>2, RedirectIs DEF Alive, Kind
  <2> HIDE DEF d
  <2>4. m \in Slot
    BY <2>3, PoppedIs DEF Alive
  <2> HIDE DEF m
  <2>5. PageSound(p)
    BY <2>3, <2>4, PageHas, WriteIs, UnseenIs DEF Ops
  <2> HIDE DEF p
  <2>6. Alive(e)
    BY <2>3, <2>4, <2>5, Alters
  <2> HIDE DEF e
  <2>7. Alive(Ask(e, m, "create"))
    BY <2>4, <2>6, AskIs DEF Alive, Ops
  <2> QED
    BY <2>1, <2>7, ForgetKeeps
<1>3. CASE DeclineNotice(n)
  <2>1. \/ Len(device.stack) > 1 /\ device' = Forget(NavigateBack(device))
        \/ HasRoom(device) /\ device' = Forget(RedirectTo(device, "list"))
    BY <1>3 DEF DeclineNotice
  <2>2. Len(device.stack) > 1 => Alive(NavigateBack(device))
    BY <1>1, BackIs DEF Alive
  <2>3. HasRoom(device) => Alive(RedirectTo(device, "list"))
    BY <1>1, RedirectIs DEF Alive, Kind
  <2> QED
    BY <2>1, <2>2, <2>3, ForgetKeeps
<1> QED
  BY <1>2, <1>3

LEMMA AnswerAgainAlive ==
  ASSUME PagesInv, NEW n \in Slot, AnswerAgain(n)
  PROVE  Alive(device')
<1>1. DeviceSound(device) /\ device.stack # << >> /\ PageSound(device.page[n])
  BY PageHas DEF PagesInv, Alive
<1>2. HasRoom(device) /\ Agreed /\ device' = Forget(RedirectTo(device, "questionnaire"))
  BY <1>1 DEF AnswerAgain, PageSound
<1>3. Alive(RedirectTo(device, "questionnaire"))
  BY <1>1, <1>2, RedirectIs DEF Alive, Kind
<1> QED
  BY <1>2, <1>3, ForgetKeeps

LEMMA UserKeeps ==
  ASSUME PagesInv, User
  PROVE  PagesInv'
<1> DEFINE n == Top(device)
<1>1. n \in Slot
  BY PoppedIs DEF PagesInv
<1>2. \/ Visit(n) \/ GoBack \/ PullDown(n) \/ Retry(n)
      \/ Press(n) \/ AgreeToNotice(n) \/ DeclineNotice(n) \/ AnswerAgain(n)
  BY DEF User
<1>3. acts' \in 0..MaxActs
  BY PagesAssumption DEF User, PagesInv
<1>4. Local
  BY <1>2 DEF Visit, GoBack, PullDown, Retry, Press, AgreeToNotice, DeclineNotice, AnswerAgain
<1> HIDE DEF n
<1>5. Alive(device')
  BY <1>1, <1>2, VisitAlive, GoBackAlive, LoadAlive, PressAlive, NoticeAlive, AnswerAgainAlive
<1> QED
  BY <1>3, <1>4, <1>5, LocalKeeps

-----------------------------------------------------------------------------
(* Steps of the server, the network and the others.                        *)

(* What an operation makes of the row, and tells about it.                 *)
LEMMA RowAfter ==
  ASSUME PagesInv, NEW op \in Ops, invite.status \in Admitted(op),
         op \in {"agree", "refuse"} => invite.status # "invite_opened",
         role' = role, invite' = After(op), consented' = consented
  PROVE  /\ RowSound' /\ Answer(op, invite') \in Invite
         /\ role' = "invitee" /\ Answer(op, invite').status \in Answered => consented'
         /\ op = "agree" => consented'
<1>1. /\ role \in {"initiator", "invitee"} /\ consented \in BOOLEAN /\ invite \in Invite
      /\ role = "invitee" /\ invite.status \in Answered => consented
      /\ role = "invitee" /\ invite.before \in Answered => consented
      /\ NoInvite \in Invite /\ NoInvite.status \notin Answered /\ NoInvite.before \notin Answered
      /\ "invite_created" \notin Answered /\ "invite_opened" \notin Answered
  BY UnseenIs DEF PagesInv, RowSound, Told, NoInvite, Answered, Finished
<1>2. /\ invite' \in Invite
      /\ role = "invitee" /\ invite'.status \in Answered => consented'
      /\ role = "invitee" /\ invite'.before \in Answered => consented'
  <2>1. CASE op \in {"open", "reopen", "poll"}
    BY <1>1, <2>1 DEF After, Invite, Active, Expirable
  <2>2. CASE op \in {"agree", "refuse"}
    BY <1>1, <2>2 DEF After
  <2>3. CASE op \in {"replace", "cancel"}
    BY <1>1, <2>3, ZenonT(60) DEF After, Invite, Active, Expirable, Answered, Finished
  <2>4. CASE op = "renew"
    BY <1>1, <2>4, ZenonT(60) DEF After, Revived, Invite, Active, Expirable, Answered, Finished
  <2>5. CASE op = "reuse"
    BY <1>1, <2>5 DEF After, Admitted, Invite, Active, Expirable, Answered, Finished
  <2>6. CASE op \in {"delete", "create"}
    BY <1>1, <2>6, ZenonT(60) DEF After, NoInvite, Invite, Active, Expirable, Answered, Finished
  <2>7. CASE op \in {"mine", "report", "pollReport", "remind"}
    BY <1>1, <2>7 DEF After
  <2> QED
    BY <2>1, <2>4, <2>5, <2>6, <2>7, <2>2, <2>3 DEF Ops
<1>3. RowSound'
  BY <1>2 DEF RowSound, Told
<1>4. Answer(op, invite') \in Invite /\ Answer(op, invite').status \in {invite'.status, "none", "unseen"}
  BY <1>2, UnseenIs DEF Answer, NoInvite, Unseen, Invite, Active, Expirable
<1>5. "none" \notin Answered /\ "unseen" \notin Answered
  BY DEF Answered, Finished
<1>6. role' = "invitee" /\ Answer(op, invite').status \in Answered => consented'
  BY <1>2, <1>4, <1>5
<1>7. ASSUME op = "agree" PROVE consented'
  <2>1. Admitted(op) = {s \in {"invite_opened"} \cup Answered : role = "invitee"}
    BY <1>7 DEF Admitted
  <2>2. invite.status \in {"invite_opened"} \cup Answered /\ role = "invitee"
    BY <2>1
  <2> QED
    BY <1>1, <1>7, <2>2
<1> QED
  BY <1>3, <1>4, <1>6, <1>7

(* A call that is sound after the step.                                    *)
SoundThen(c) ==
  /\ c \in Call
  /\ role' = "invitee" /\ c.view.status \in Answered => Agreed'
  /\ c.op = "agree" /\ c.got = "ok" => Agreed'

(* Neither consent nor a miss is ever taken back, so what was told before  *)
(* stays right.                                                            *)
LEMMA AnotherCall ==
  ASSUME PagesInv, NEW c \in Calls, NEW new, device' = Replace(c, new),
         role' = role, Agreed => Agreed', SoundThen(new)
  PROVE  DeviceSound(device)' /\ device'.stack # << >>
<1> DEFINE b == (device.calls (-) SetToBag({c})) (+) SetToBag({new})
<1>1. device' = [stack |-> device.stack, page |-> device.page, calls |-> b]
  BY DEF Replace, PagesInv, DeviceSound
<1>2. BagToSet(b) \subseteq BagToSet(device.calls) \cup {new}
  BY DEF BagToSet, SetToBag, (-), (+)
<1> HIDE DEF b
<1>3. \A n \in Slot : PageSound(device.page[n])'
  <2> SUFFICES ASSUME NEW n \in Slot PROVE PageSound(device.page[n])'
    OBVIOUS
  <2>1. PageSound(device.page[n]) /\ device'.page = device.page
    BY <1>1 DEF PagesInv, DeviceSound
  <2> QED
    BY <2>1 DEF PageSound, Told
<1>4. \A k \in BagToSet(device'.calls) : CallSound(k)'
  <2> SUFFICES ASSUME NEW k \in BagToSet(b) PROVE CallSound(k)'
    BY <1>1
  <2>1. CASE k = new
    BY <2>1 DEF CallSound, SoundThen, Told
  <2>2. CASE k \in BagToSet(device.calls)
    <3>1. CallSound(k)
      BY <2>2 DEF PagesInv, DeviceSound
    <3> QED
      BY <3>1 DEF CallSound, Told
  <2> QED
    BY <1>2, <2>1, <2>2
<1> QED
  BY <1>1, <1>3, <1>4 DEF PagesInv, DeviceSound

LEMMA ServeKeeps ==
  ASSUME PagesInv, NEW c \in Calls, Serve(c)
  PROVE  PagesInv'
<1>1. /\ c \in Call /\ c.op \in Ops /\ CallSound(c)
      /\ role' = role /\ acts' = acts /\ consented' = consented /\ missed' = missed
      /\ Agreed' = Agreed
  BY DEF Serve, Calls, PagesInv, DeviceSound, CallSound, Call, Agreed
<1>2. ASSUME NEW g \in {"gone", "refused", "loaded"}, invite' = invite,
             device' = Replace(c, [c EXCEPT !.got = g])
      PROVE  PagesInv'
  <2> DEFINE new == [c EXCEPT !.got = g]
  <2>1. new \in Call /\ new.view = c.view /\ new.got # "ok"
    BY <1>1, <1>2 DEF Call
  <2>2. device' = Replace(c, new)
    BY <1>2
  <2> HIDE DEF new
  <2>3. SoundThen(new)
    BY <1>1, <2>1 DEF CallSound, SoundThen, Told
  <2>4. DeviceSound(device)' /\ device'.stack # << >>
    BY <1>1, <2>2, <2>3, AnotherCall
  <2> QED
    BY <1>1, <1>2, <2>4 DEF PagesInv, RowSound
<1>3. CASE NotFound(c.op) \/ invite.status \notin Admitted(c.op)
  BY <1>2, <1>3 DEF Serve
<1>4. CASE /\ ~ (NotFound(c.op) \/ invite.status \notin Admitted(c.op))
           /\ c.op \in {"agree", "refuse"} /\ invite.status = "invite_opened"
  BY <1>2, <1>4 DEF Serve
<1>5. CASE /\ ~ (NotFound(c.op) \/ invite.status \notin Admitted(c.op))
           /\ ~ (c.op \in {"agree", "refuse"} /\ invite.status = "invite_opened")
  <2> DEFINE new == [c EXCEPT !.got = "ok", !.view = Answer(c.op, invite')]
  <2>1. device' = Replace(c, new) /\ invite' = After(c.op)
    BY <1>5 DEF Serve
  <2>2. /\ RowSound' /\ Answer(c.op, invite') \in Invite
        /\ role' = "invitee" /\ Answer(c.op, invite').status \in Answered => consented'
        /\ c.op = "agree" => consented'
    BY <1>1, <1>5, <2>1, RowAfter
  <2>3. /\ new \in Call /\ new.view = Answer(c.op, invite') /\ new.op = c.op
    BY <1>1, <2>2 DEF Call
  <2> HIDE DEF new
  <2>4. SoundThen(new)
    BY <2>2, <2>3 DEF SoundThen, Agreed
  <2>5. DeviceSound(device)' /\ device'.stack # << >>
    BY <1>1, <2>1, <2>4, AnotherCall
  <2> QED
    BY <1>1, <2>2, <2>5 DEF PagesInv
<1> QED
  BY <1>3, <1>4, <1>5

(* The UPDATE hits and the record is written, or it misses and the page    *)
(* is told the same.                                                       *)
LEMMA PersistConsentKeeps ==
  ASSUME PagesInv, NEW c \in Calls, PersistConsent(c)
  PROVE  PagesInv'
<1> DEFINE seen == IF c.op = "agree" THEN [NoInvite EXCEPT !.status = "consent_given"] ELSE Unseen
           new == [c EXCEPT !.got = "ok", !.view = seen]
<1>1. /\ c \in Call /\ device' = Replace(c, new) /\ role' = role /\ acts' = acts
      /\ consented \in BOOLEAN /\ missed \in BOOLEAN
      /\ role \in {"initiator", "invitee"} /\ invite \in Invite
      /\ role = "invitee" /\ invite.status \in Answered => consented
      /\ role = "invitee" /\ invite.before \in Answered => consented
  BY DEF PersistConsent, Calls, PagesInv, DeviceSound, CallSound, RowSound
<1>2. /\ seen \in Invite
      /\ c.op # "agree" => seen.status \notin Answered
  BY UnseenIs DEF NoInvite, Unseen, Invite, Active, Expirable, Answered, Finished
<1> DEFINE Good == /\ RowSound' /\ consented' \in BOOLEAN /\ missed' \in BOOLEAN
                   /\ Agreed => Agreed'
                   /\ c.op = "agree" => Agreed'
<1>3. ASSUME invite.status = "invite_opened" PROVE Good
  <2>1. /\ Becomes(IF c.op = "agree" THEN "consent_given" ELSE "declined")
        /\ consented' = (consented \/ c.op = "agree") /\ missed' = missed
    BY <1>3 DEF PersistConsent
  <2>2. /\ invite' \in Invite
        /\ c.op # "agree" => invite'.status \notin Answered
        /\ invite'.before = invite.before
    BY <1>1, <2>1 DEF Becomes, Invite, Active, Expirable, Answered, Finished
  <2>3. RowSound'
    BY <1>1, <2>1, <2>2 DEF RowSound
  <2>4. consented' \in BOOLEAN /\ missed' \in BOOLEAN
    BY <1>1, <2>1
  <2>5. (Agreed => Agreed') /\ (c.op = "agree" => Agreed')
    BY <2>1 DEF Agreed
  <2> QED
    BY <2>3, <2>4, <2>5
<1>4. ASSUME invite.status # "invite_opened" PROVE Good
  <2>1. /\ missed' = (missed \/ (c.op = "agree" /\ ~ consented))
        /\ invite' = invite /\ consented' = consented
    BY <1>4 DEF PersistConsent
  <2>2. RowSound'
    BY <1>1, <2>1 DEF RowSound
  <2>3. consented' \in BOOLEAN /\ missed' \in BOOLEAN
    BY <1>1, <2>1
  <2>4. (Agreed => Agreed') /\ (c.op = "agree" => Agreed')
    BY <2>1 DEF Agreed
  <2> QED
    BY <2>2, <2>3, <2>4
<1>5. Good
  BY <1>3, <1>4
<1> HIDE DEF seen
<1>6. new \in Call /\ new.view = seen /\ new.op = c.op
  BY <1>1, <1>2 DEF Call
<1> HIDE DEF new
<1>7. SoundThen(new)
  BY <1>2, <1>5, <1>6 DEF SoundThen
<1>8. DeviceSound(device)' /\ device'.stack # << >>
  BY <1>1, <1>5, <1>7, AnotherCall
<1> QED
  BY <1>1, <1>5, <1>8 DEF PagesInv

LEMMA LoseKeeps ==
  ASSUME PagesInv, NEW c \in Calls, Lose(c)
  PROVE  PagesInv'
<1> DEFINE new == [c EXCEPT !.got = "lost", !.view = Unseen]
<1>1. /\ c \in Call /\ device' = Replace(c, new) /\ role' = role /\ invite' = invite
      /\ consented' = consented /\ missed' = missed /\ acts' = acts /\ Agreed' = Agreed
  BY DEF Lose, Calls, PagesInv, DeviceSound, CallSound, Agreed
<1>2. new \in Call /\ new.view = Unseen /\ new.got = "lost"
  BY <1>1, UnseenIs DEF Call
<1> HIDE DEF new
<1>3. SoundThen(new)
  BY <1>1, <1>2 DEF SoundThen, Unseen, NoInvite, Answered, Finished
<1>4. DeviceSound(device)' /\ device'.stack # << >>
  BY <1>1, <1>3, AnotherCall
<1> QED
  BY <1>1, <1>4 DEF PagesInv, RowSound

LEMMA ElsewhereKeeps ==
  ASSUME PagesInv, Elsewhere
  PROVE  PagesInv'
<1>1. /\ role' = role /\ missed' = missed /\ device' = device /\ acts' = acts
      /\ consented' = (consented \/ (role = "invitee" /\ invite.status = "invite_opened"
                                                     /\ invite'.status = "consent_given"))
      /\ role \in {"initiator", "invitee"} /\ invite \in Invite
      /\ consented \in BOOLEAN /\ missed \in BOOLEAN
      /\ role = "invitee" /\ invite.status \in Answered => consented
      /\ role = "invitee" /\ invite.before \in Answered => consented
  BY DEF Elsewhere, PagesInv, RowSound
<1>2. \/ invite' = NoInvite
      \/ \E r \in {"pending", "ready", "failed"} : invite' = [invite EXCEPT !.report = r]
      \/ \E t \in {"invite_opened", "declined", "cancelled"} : Becomes(t)
      \/ invite.status = "invite_opened" /\ Becomes("consent_given")
      \/ invite.status \in Answered /\ \E t \in Answered : Becomes(t)
      \/ /\ invite.status \in Expirable
         /\ invite' = [invite EXCEPT !.status = "expired", !.before = invite.status]
      \/ invite' = [invite EXCEPT !.status = Revived, !.before = "invite_created",
                                  !.renewed = TRUE]
  BY DEF Elsewhere, Answered, Finished
<1> DEFINE Sound == /\ invite' \in Invite
                    /\ role = "invitee" /\ invite'.status \in Answered => consented'
                    /\ role = "invitee" /\ invite'.before \in Answered => consented'
<1>3. invite' = NoInvite => Sound
  BY UnseenIs DEF NoInvite, Answered, Finished
<1>4. ASSUME NEW r \in {"pending", "ready", "failed"}, invite' = [invite EXCEPT !.report = r]
      PROVE  Sound
  BY <1>1, <1>4 DEF Invite
<1>5. ASSUME NEW t \in {"invite_opened", "declined", "cancelled"}, Becomes(t)
      PROVE  Sound
  BY <1>1, <1>5 DEF Becomes, Invite, Active, Expirable, Answered, Finished
<1>6. ASSUME invite.status = "invite_opened", Becomes("consent_given")
      PROVE  Sound
  BY <1>1, <1>6 DEF Becomes, Invite, Active, Expirable
<1>7. ASSUME invite.status \in Answered, NEW t \in Answered, Becomes(t)
      PROVE  Sound
  BY <1>1, <1>7 DEF Becomes, Invite, Active, Expirable, Answered, Finished
<1>8. ASSUME invite.status \in Expirable,
             invite' = [invite EXCEPT !.status = "expired", !.before = invite.status]
      PROVE  Sound
  BY <1>1, <1>8 DEF Invite, Active, Answered, Finished
<1>9. ASSUME invite' = [invite EXCEPT !.status = Revived, !.before = "invite_created",
                                      !.renewed = TRUE]
       PROVE  Sound
  BY <1>1, <1>9 DEF Revived, Invite, Active, Expirable, Answered, Finished
<1>10. Sound
  BY <1>2, <1>3, <1>4, <1>5, <1>6, <1>7, <1>8, <1>9
<1>11. RowSound' /\ consented' \in BOOLEAN
  BY <1>1, <1>10 DEF RowSound
<1>12. Agreed => Agreed'
  BY <1>1 DEF Agreed
<1>13. DeviceSound(device)'
  BY <1>1, <1>12 DEF PagesInv, DeviceSound, PageSound, CallSound, Told
<1> QED
  BY <1>1, <1>11, <1>13 DEF PagesInv

LEMMA InitPages == Init => PagesInv
<1> SUFFICES ASSUME Init PROVE PagesInv
  OBVIOUS
<1>1. /\ role \in {"initiator", "invitee"} /\ consented \in BOOLEAN /\ missed \in BOOLEAN
      /\ role = "invitee" /\ invite.status = "completed" => consented
      /\ \E kind \in {"list", "accept", "detail"} : device = NavigateTo(NoDevice, kind)
  BY DEF Init, NoInvite
<1>2. RowSound
  BY <1>1, UnseenIs DEF Init, RowSound, NoInvite, Invite, Answered, Finished, Active, Expirable
<1>3. DeviceSound(NoDevice)
  <2>1. /\ << >> \in Seq(Slot) /\ IsInjective(<< >>)
    BY DEF IsInjective
  <2>2. BagToSet(EmptyBag) = {}
    BY DEF BagToSet, EmptyBag, SetToBag
  <2>3. PageSound(Fresh("elsewhere")) /\ Fresh("elsewhere") \in Page
    BY FreshIs DEF Kind, PageSound
  <2> DEFINE f == [n \in Slot |-> Fresh("elsewhere")]
  <2>4. f \in [Slot -> Page] /\ \A n \in Slot : PageSound(f[n])
    BY <2>3
  <2> HIDE DEF f
  <2>5. NoDevice = [stack |-> << >>, page |-> f, calls |-> EmptyBag]
    BY DEF NoDevice, f
  <2> QED
    BY <2>1, <2>2, <2>4, <2>5 DEF DeviceSound
<1>4. Free(NoDevice) # {}
  BY PagesAssumption DEF Free, Silent, CallsOf, NoDevice, Fresh, Range, BagToSet, EmptyBag, SetToBag
<1>5. DeviceSound(device) /\ device.stack # << >>
  BY <1>1, <1>3, <1>4, NavigateIs DEF Kind
<1>6. acts \in 0..MaxActs
  BY PagesAssumption DEF Init
<1> QED
  BY <1>1, <1>2, <1>5, <1>6 DEF PagesInv

LEMMA NextPages == PagesInv /\ [Next]_vars => PagesInv'
<1> SUFFICES ASSUME PagesInv, [Next]_vars PROVE PagesInv'
  OBVIOUS
<1>1. CASE UNCHANGED vars
  BY <1>1 DEF vars, PagesInv, RowSound, DeviceSound, PageSound, CallSound, Told, Agreed
<1> QED
  BY <1>1, UserKeeps, ServeKeeps, PersistConsentKeeps, ReceiveKeeps, TimersKeep, LoseKeeps, ElsewhereKeeps
  DEF Next, System

(* The invariant of the pages: what they show, and what is on its way to   *)
(* them, says of no consent that was neither recorded nor answered by a    *)
(* missed UPDATE; the row itself says so of recorded consent only.         *)
THEOREM PagesAlways == Spec => []PagesInv
<1> QED
  BY InitPages, NextPages, PTL DEF Spec

(* The variables of the device and of the row keep their types: no page is *)
(* on the stack twice, and every call is of a page there is memory for.    *)
THEOREM PagesTypeCorrect == Spec => []TypeOK
<1>1. PagesInv => TypeOK
  BY DEF PagesInv, TypeOK, RowSound, DeviceSound, CallSound
<1> QED
  BY <1>1, PagesAlways, PTL

(* R8: no questionnaire of an invitation is on the screen before the       *)
(* consent is recorded, whatever was lost, late, renewed or deleted, but   *)
(* for an agreement whose UPDATE missed and was answered all the same.     *)
THEOREM ConsentBeforeQuestionnaire == Spec => []QuestionnaireNeedsConsent
<1>1. PagesInv => QuestionnaireNeedsConsent
  <2> SUFFICES ASSUME PagesInv, NEW n \in Range(device.stack),
                      device.page[n].kind = "questionnaire"
               PROVE  Agreed
    BY DEF Agreed, QuestionnaireNeedsConsent
  <2>1. n \in Slot
    BY DEF Range, PagesInv, DeviceSound
  <2> QED
    BY <2>1 DEF PagesInv, DeviceSound, PageSound
<1> QED
  BY <1>1, PagesAlways, PTL
=============================================================================
