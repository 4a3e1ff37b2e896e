--------------------------- MODULE ExclusiveCard ---------------------------
(***************************************************************************)
(* The exclusive card of one topic (topic/exclusive-card.service.ts) for a *)
(* couple: read and generate with their lock in Redis, against the report  *)
(* becoming ready and the deletion of the pairing.                         *)
(*                                                                         *)
(* A card belongs to a scope: the couple's, kept under the initiator, once *)
(* their report is ready; before that each user's own, under invite 0.     *)
(* Of a card the model keeps the scope whose data it was made from: the    *)
(* prompt, the content, whether a model or the degraded version wrote it,  *)
(* and the audit record are left out.                                      *)
(***************************************************************************)
EXTENDS Naturals

CONSTANTS
  Initiator, Invitee,
  Worker,     \* requests under way
  None

ASSUME CardAssumption == Initiator # Invitee /\ None \notin Worker

User == {Initiator, Invitee}

Own(u) == [owner |-> u, invite |-> 0]
Couple == [owner |-> Initiator, invite |-> 1]
Scope == {Own(u) : u \in User} \cup {Couple}

VARIABLES
  report,     \* the couple's report: "none", "ready" or "deleted"
  card,       \* the card of each scope, or None
  lock,       \* who took the lock of each scope, or None
  req         \* what each request is at

vars == <<report, card, lock, req>>

Card == [madeFor : Scope]

Request ==
  [pc : {"idle", "resolve", "find", "lock", "produce", "persist", "save", "unlock", "view"},
   user : User, generates : BOOLEAN, scope : Scope,
   outcome : {"none", "content", "rejected"},
   found : BOOLEAN,            \* persist found a card
   row : Card \cup {None}]     \* what the view is made from

Idle == [pc |-> "idle", user |-> Initiator, generates |-> FALSE, scope |-> Couple,
         outcome |-> "none", found |-> FALSE, row |-> None]

Init ==
  /\ report = "none"
  /\ card = [s \in Scope |-> None] /\ lock = [s \in Scope |-> None]
  /\ req = [w \in Worker |-> Idle]

(* Request w, which is at pc from, goes on with the record r.              *)
At(w, from) == req[w].pc = from
Go(w, r) == req' = [req EXCEPT ![w] = r]
To(w, pc) == Go(w, [req[w] EXCEPT !.pc = pc])

-----------------------------------------------------------------------------
(* resolveScope and findByScope, which read and generate share.            *)

ScopeOf(u) == IF report = "ready" THEN Couple ELSE Own(u)

(* Mutant: the owner is missing from the where condition.                  *)
FindUnderAnyOwner(s) ==
  LET hits == {t \in Scope : t.invite = s.invite /\ card[t] # None}
  IN  IF hits = {} THEN None ELSE card[CHOOSE t \in hits : TRUE]

FindByScope(s) == card[s]

(* read, or generate of a user who has the topic by now; who has it is     *)
(* the entitlements' affair.                                               *)
Begin(w, u, generates) ==
  /\ At(w, "idle")
  /\ Go(w, [Idle EXCEPT !.pc = "resolve", !.user = u, !.generates = generates])
  /\ UNCHANGED <<report, card, lock>>

ResolveScope(w) ==
  /\ At(w, "resolve")
  /\ Go(w, [req[w] EXCEPT !.pc = "find", !.scope = ScopeOf(req[w].user)])
  /\ UNCHANGED <<report, card, lock>>

Find(w) ==
  LET row == FindByScope(req[w].scope) IN
  /\ At(w, "find")
  /\ Go(w, [req[w] EXCEPT !.row = row,
                          !.pc = IF req[w].generates /\ row = None THEN "lock" ELSE "view"])
  /\ UNCHANGED <<report, card, lock>>

-----------------------------------------------------------------------------
(* generate                                                                *)

(* Mutant: the answer of setIfAbsent is not looked at.                     *)
TakeLockAnyway(w) ==
  /\ At(w, "lock")
  /\ lock' = [lock EXCEPT ![req[w].scope] = w]
  /\ To(w, "produce")
  /\ UNCHANGED <<report, card>>

(* setIfAbsent.  The card is not looked for again.                         *)
TakeLock(w) ==
  /\ At(w, "lock")
  /\ lock[req[w].scope] = None
  /\ lock' = [lock EXCEPT ![req[w].scope] = w]
  /\ To(w, "produce")
  /\ UNCHANGED <<report, card>>

(* 50004: the key is taken, or Redis fails.                                *)
Generating(w) ==
  /\ At(w, "lock")
  /\ Go(w, Idle)
  /\ UNCHANGED <<report, card, lock>>

(* buildInput and produce: what the model wrote within two attempts, or,   *)
(* failing that, the topic's own cards, if it has any.                     *)
Produce(w) ==
  /\ At(w, "produce")
  /\ \E outcome \in {"content", "rejected"} :
       Go(w, [req[w] EXCEPT !.pc = "persist", !.outcome = outcome])
  /\ UNCHANGED <<report, card, lock>>

Persist(w) ==
  /\ At(w, "persist")
  /\ IF req[w].outcome = "rejected" THEN Go(w, [req[w] EXCEPT !.pc = "unlock", !.outcome = "none"])
     ELSE Go(w, [req[w] EXCEPT !.pc = "save", !.outcome = "none",
                               !.found = FindByScope(req[w].scope) # None])
  /\ UNCHANGED <<report, card, lock>>

(* The finally block is left to run, then the error goes to the caller.    *)
Failed(w) == [Idle EXCEPT !.pc = "unlock", !.user = req[w].user, !.scope = req[w].scope]

(* save: an INSERT where no card was found, which the unique key refuses   *)
(* if there is one by now; otherwise the row is written, gone or not.      *)
Save(w) ==
  LET r == req[w]
      row == [madeFor |-> r.scope]
  IN
  /\ At(w, "save")
  /\ IF ~r.found /\ card[r.scope] # None
     THEN Go(w, Failed(w)) /\ UNCHANGED card
     ELSE Go(w, [r EXCEPT !.pc = "unlock", !.row = row, !.found = FALSE]) /\ card' = [card EXCEPT ![r.scope] = row]
  /\ UNCHANGED <<report, lock>>

(* An await of the try block throws.                                       *)
Throw(w) ==
  /\ req[w].pc \in {"produce", "persist", "save"}
  /\ Go(w, Failed(w))
  /\ UNCHANGED <<report, card, lock>>

(* del, whoever holds the key.                                             *)
Unlock(w) ==
  /\ At(w, "unlock")
  /\ lock' = [lock EXCEPT ![req[w].scope] = None]
  /\ IF req[w].generates THEN To(w, "view") ELSE Go(w, Idle)
  /\ UNCHANGED <<report, card>>

(* toView answers; the content only to a user who has the topic by now.    *)
View(w) ==
  /\ At(w, "view")
  /\ Go(w, Idle)
  /\ UNCHANGED <<report, card, lock>>

(* The process stops, or an await outside the try block throws, del's own  *)
(* among them: the lock stays.                                             *)
Drop(w) ==
  /\ req[w].pc # "idle"
  /\ Go(w, Idle)
  /\ UNCHANGED <<report, card, lock>>

-----------------------------------------------------------------------------
(* The lock's 60 seconds are longer than two model calls of 20: it expires *)
(* only under a request that is no longer there.                           *)
Busy(w) == req[w].pc \in {"produce", "persist", "save", "unlock"}

ExpireLock(s) ==
  /\ lock[s] # None
  /\ ~(Busy(lock[s]) /\ req[lock[s]].scope = s)
  /\ lock' = [lock EXCEPT ![s] = None]
  /\ UNCHANGED <<report, card, req>>

ReportReady == report = "none" /\ report' = "ready" /\ UNCHANGED <<card, lock, req>>

(* deletePairingData: the couple's report and their card.                  *)
DeletePairingData ==
  /\ report = "ready" /\ report' = "deleted"
  /\ card' = [card EXCEPT ![Couple] = None]
  /\ UNCHANGED <<lock, req>>

Step(w) ==
  \/ ResolveScope(w) \/ Find(w) \/ TakeLock(w) \/ Generating(w) \/ Produce(w)
  \/ Persist(w) \/ Save(w) \/ Throw(w) \/ Unlock(w) \/ View(w) \/ Drop(w)

Next ==
  \/ \E w \in Worker, u \in User, generates \in BOOLEAN : Begin(w, u, generates)
  \/ \E w \in Worker : Step(w)
  \/ \E s \in Scope : ExpireLock(s)
  \/ ReportReady \/ DeletePairingData

Spec == Init /\ [][Next]_vars

-----------------------------------------------------------------------------
TypeOK ==
  /\ report \in {"none", "ready", "deleted"}
  /\ card \in [Scope -> Card \cup {None}]
  /\ lock \in [Scope -> Worker \cup {None}]
  /\ req \in [Worker -> Request]

(* exclusive-card.service.ts:131: requests of one scope do not have the    *)
(* model write its card at the same time, although del asks no one whose   *)
(* lock it deletes.                                                        *)
OneGenerator ==
  \A v, w \in Worker : v # w /\ Busy(v) /\ Busy(w) => req[v].scope # req[w].scope

(* exclusive-card.service.ts:60: what a user is shown, and what is kept    *)
(* for a scope, was made from that scope's data, also when the report      *)
(* becomes ready or the pairing is deleted under the request.              *)
OwnCardOnly ==
  /\ \A w \in Worker : req[w].row # None =>
       req[w].row.madeFor = req[w].scope /\ req[w].scope \in {Own(req[w].user), Couple}
  /\ \A s \in Scope : card[s] # None => card[s].madeFor = s

(* What does not hold: topic.controller.ts:75 "同一归属同一议题只生成一    *)
(* 次".  A request that looked before the card was there takes the lock    *)
(* after it was released and has the model write another.                  *)
GeneratedOnce ==
  \A w \in Worker : req[w].pc = "produce" => card[req[w].scope] = None

(* What does not hold: ADR-011's deletion.  A request that resolved the    *)
(* couple's scope before the deletion saves their card after it.           *)
DeletedStaysDeleted == report = "deleted" => card[Couple] = None
=============================================================================
