---------------------------- MODULE PairingProofs ----------------------------
(***************************************************************************)
(* The whole pairing, proved for any number of users, invites, handlers,   *)
(* consumers and attempts, whatever fails.                                 *)
(*                                                                         *)
(* The handlers keep RowInv among themselves; a consumer moves an invite   *)
(* along one edge only, so it keeps RowInv too.  What is new is what a run *)
(* of the job knows: that the basis it has collected was consented to, and *)
(* that the report it has written is there as long as its invite is, since *)
(* only a deletion removes a report and a deleted invite never comes back. *)
(***************************************************************************)
EXTENDS Pairing, InviteProofs

-----------------------------------------------------------------------------
(* The invariant.                                                          *)

(* A run works for an invite that was created; with the answers it has     *)
(* collected, and from then on with the report it has written.             *)
Informed(p) ==
  LET r == proc[p]  i == r.inv IN
  /\ i # None => i \in used
  /\ r.stage # "idle" => i # None
  /\ r.stage \in {"compute", "pend", "ready"} => r.basis # None /\ Consented(i)
  /\ r.stage = "ready" /\ Exists(i) => report[i].status # "none"
  /\ r.stage \in {"uncache", "unlock"} /\ Exists(i) => report[i].basis # None

(* What is stored has a basis, the basis a consent; jobs are of invites.   *)
Founded(i) ==
  /\ report[i].basis # None => report[i].status # "none" /\ Consented(i)
  /\ report[i].status = "ready" \/ invite[i].status = "report_unlocked" => report[i].basis # None
  /\ queue[i].state # "absent" => i \in used

PairingInv ==
  /\ RowInv /\ PairingTypeOK
  /\ \A p \in Procs : Informed(p)
  /\ \A i \in InviteId : Founded(i)

(* While processes and database stay up a job has one run, which has its   *)
(* lock and a ledger row that has not failed; and a report that has failed *)
(* has its ticket, or a run that is about to write it.                     *)
AtLedger == {"running", "read", "collect", "compute", "pend", "ready", "uncache", "unlock",
             "done", "catch", "ledger"}

OneRun(p) ==
  LET r == proc[p]  i == r.inv IN
  /\ i # None => lock[i] = p /\ queue[i].state = "active"
  /\ r.stage \in AtLedger => r.task \in DOMAIN task[i] /\ task[i][r.task] # "failed"

HasTicket(i) == \E k \in DOMAIN task[i] : task[i][k] = "failed"

Ticketed(i) ==
  /\ queue[i].state = "active" => Job!AtWork(i)
  /\ report[i].status = "failed" =>
       \/ HasTicket(i)
       \/ \E p \in Procs : proc[p].inv = i /\ proc[p].stage = "ledger" /\ Job!LastAttempt(p)

TicketInv ==
  AllUp => (\A p \in Procs : OneRun(p)) /\ \A i \in InviteId : Ticketed(i)

-----------------------------------------------------------------------------
(* What a consumer's step may do to one pairing.                           *)

ReportMoves(i) ==
  \/ report'[i] = report[i]
  \/ /\ report[i].status = "none" /\ Consented(i)
     /\ report'[i].status = "pending" /\ report'[i].basis = None
  \/ /\ report[i].status # "none"
     /\ report'[i].status \in {"pending", "failed"} /\ report'[i].basis = report[i].basis
  \/ /\ report[i].status # "none" /\ Consented(i)
     /\ report'[i].status = "ready" /\ report'[i].basis # None

Unlocks(i) ==
  /\ invite[i].status = "completed" /\ report[i].basis # None
  /\ invite'[i] = [invite[i] EXCEPT !.status = "report_unlocked"]

Consumed ==
  /\ UNCHANGED <<snapshot, handlerVars>>
  /\ \A i \in InviteId :
       /\ ReportMoves(i)
       /\ invite'[i] = invite[i] \/ Unlocks(i)
       /\ queue'[i].state # "absent" => i \in used

(* What a step of anybody leaves of what the runs know.                    *)
ReportKept(i) ==
  /\ report[i].status # "none" => report'[i].status # "none"
  /\ report[i].basis # None => report'[i].basis # None

Preserves ==
  /\ used \subseteq used'
  /\ \A i \in InviteId :
       /\ Consented(i) => Consented(i)'
       /\ i \in used /\ Exists(i)' => Exists(i)
       /\ ReportKept(i) \/ ~ Exists(i)'

(* Consumer p moves, the others do not.                                    *)
Others(p) == \A q \in Procs \ {p} : proc'[q] = proc[q]

Goes(p, stage) ==
  /\ proc' \in [Procs -> Job!Run]
  /\ proc'[p].stage = stage
  /\ proc'[p].inv = proc[p].inv /\ proc'[p].basis = proc[p].basis
  /\ proc'[p].task = proc[p].task /\ proc'[p].attempt = proc[p].attempt
  /\ Others(p)

-----------------------------------------------------------------------------
(* What follows for the invariant.                                         *)

LEMMA PairingTypes ==
  ASSUME PairingInv
  PROVE  /\ Typed /\ TypeOK /\ proc \in [Procs -> Job!Run] /\ lock \in [InviteId -> Procs \cup {None}]
         /\ invite \in [InviteId -> Row] /\ report \in [InviteId -> Report]
         /\ task \in [InviteId -> Seq(TaskStatus)] /\ queue \in [InviteId -> BullJob]
         /\ deployment \in Deployments
         /\ \A p \in Procs : /\ proc[p].inv \in InviteId \cup {None}
                             /\ proc[p].stage \in Job!Stages
                             /\ proc[p].task \in Nat /\ proc[p].attempt \in Nat
                             /\ proc[p].basis \in Answers \cup {None}
BY DEF PairingInv, RowInv, EvidenceInv, Typed, PairingTypeOK, TypeOK, QueueTypeOK,
       Job!JobTypeOK, Job!Run, Job!Answers, Answers

LEMMA InformedKept ==
  ASSUME PairingInv, Preserves, NEW q \in Procs, proc'[q] = proc[q]
  PROVE  Informed(q)'
<1>1. Informed(q) /\ proc[q].inv \in InviteId \cup {None}
  BY PairingTypes DEF PairingInv
<1>2. CASE proc[q].inv = None
  BY <1>1, <1>2 DEF Informed
<1>3. CASE proc[q].inv \in InviteId
  BY <1>1, <1>3, NoneIsNoId DEF Informed, Preserves, ReportKept
<1> QED
  BY <1>1, <1>2, <1>3

LEMMA ConsumedPreserves ==
  ASSUME PairingInv, Consumed
  PROVE  Preserves
<1>1. \A i \in InviteId : Exists(i)' => Exists(i)
  BY DEF Consumed, Unlocks, Exists
<1>2. \A i \in InviteId : ReportKept(i)
  BY DEF PairingInv, Founded, Consumed, ReportMoves, ReportKept
<1>3. used' = used /\ \A i \in InviteId : Consented(i) => Consented(i)'
  BY DEF Consumed, handlerVars, Consented
<1> QED
  BY <1>1, <1>2, <1>3 DEF Preserves

LEMMA FoundedConsumed ==
  ASSUME PairingInv, Consumed, NEW i \in InviteId
  PROVE  Founded(i)'
<1>1. Founded(i) /\ ReportMoves(i) /\ invite[i] \in Row
  BY PairingTypes DEF PairingInv, Consumed
<1>2. (Consented(i)' <=> Consented(i)) /\ used' = used
  BY DEF Consumed, handlerVars, Consented
<1>3. invite'[i].status = "report_unlocked" =>
        invite[i].status = "report_unlocked" \/ report[i].basis # None
  BY DEF Consumed, Unlocks
<1> QED
  BY <1>1, <1>2, <1>3 DEF Founded, ReportMoves, Consumed

(* The one edge a consumer moves an invite along keeps all the handlers    *)
(* rely on.                                                                *)
LEMMA RowsConsumed ==
  ASSUME PairingInv, Consumed, TypeOK'
  PROVE  RowInv'
<1>1. /\ UNCHANGED <<used, sheet, consentLog, snapshot, delivered, req>>
      /\ RowInv /\ EvidenceInv /\ Typed /\ ConsentEvidence /\ HandlersLetIn
  BY DEF Consumed, handlerVars, PairingInv, RowInv, EvidenceInv
<1>2. Typed'
  BY <1>1 DEF Typed, Called
<1>3. ASSUME NEW i \in InviteId
      PROVE  /\ invite'[i].initiator = invite[i].initiator /\ invite'[i].invitee = invite[i].invitee
             /\ invite'[i].renewed = invite[i].renewed /\ invite'[i].reminds = invite[i].reminds
             /\ \/ invite'[i].status = invite[i].status
                \/ invite[i].status = "completed" /\ invite'[i].status = "report_unlocked"
  <2>1. invite[i] \in Row
    BY PairingTypes
  <2> QED
    BY <2>1 DEF Consumed, Unlocks, Row
<1>4. ASSUME NEW i \in InviteId
      PROVE  (Consented(i)' <=> Consented(i)) /\ (Exists(i)' <=> Exists(i))
  BY <1>1, <1>3 DEF Consented, Exists
<1>5. ConsentEvidence'
  <2>1. ASSUME NEW i \in InviteId
        PROVE  /\ report'[i].status # "none" => report[i].status # "none" \/ consentLog[i].agreed > 0
               /\ invite'[i].status \in Answered => invite[i].status \in Answered
               /\ invite'[i].status = "declined" => invite[i].status = "declined"
    BY <1>3 DEF Consumed, ReportMoves, Consented, Answered
  <2> QED
    BY <1>1, <2>1 DEF ConsentEvidence
<1>6. HandlersLetIn'
  BY <1>1 DEF HandlersLetIn, Let, Consented
<1>7. ASSUME NEW i \in InviteId
      PROVE  RowSound(i)'
  <2>1. RowSound(i)
    BY <1>1 DEF RowInv
  <2> QED
    BY <1>1, <1>3, <2>1 DEF RowSound, Exists, Unanswered
<1>8. ASSUME NEW w \in Workers
      PROVE  Aware(w)'
  <2>1. Aware(w) /\ (req[w].pc \notin Creation => req[w].inv \in InviteId)
    BY <1>1 DEF RowInv, Typed, Called, Creation
  <2> QED
    BY <1>1, <1>3, <2>1 DEF Aware, Exists, Creation
<1> QED
  BY <1>2, <1>5, <1>6, <1>7, <1>8 DEF RowInv, EvidenceInv

LEMMA ConsumedKeeps ==
  ASSUME PairingInv, Consumed, PairingTypeOK',
         \A q \in Procs : proc'[q] = proc[q] \/ Informed(q)'
  PROVE  PairingInv'
BY ConsumedPreserves, InformedKept, FoundedConsumed, RowsConsumed DEF PairingInv, PairingTypeOK

-----------------------------------------------------------------------------
(* The consumer's steps.                                                   *)

LEMMA GotoGoes ==
  ASSUME PairingInv, NEW p \in Procs, NEW stage \in Job!Stages, Job!Goto(p, stage)
  PROVE  Goes(p, stage)
BY PairingTypes DEF Job!Goto, Goes, Others, Job!Run

LEMMA ReleaseRun ==
  ASSUME PairingInv, NEW p \in Procs, Job!Release(p)
  PROVE  /\ proc' \in [Procs -> Job!Run] /\ Others(p)
         /\ proc'[p].inv = None /\ proc'[p].stage = "idle"
<1>1. Job!NoRun \in Job!Run /\ Job!NoRun.inv = None /\ Job!NoRun.stage = "idle"
  BY DEF Job!NoRun, Job!Run, Job!Stages
<1> QED
  BY <1>1, PairingTypes DEF Job!Release, Others

LEMMA RowGoes ==
  ASSUME PairingInv, NEW p \in Procs, NEW k \in Nat,
         proc' = [proc EXCEPT ![p].stage = "running", ![p].task = k]
  PROVE  /\ proc' \in [Procs -> Job!Run] /\ Others(p)
         /\ proc'[p].stage = "running" /\ proc'[p].inv = proc[p].inv /\ proc'[p].task = k
         /\ proc'[p].attempt = proc[p].attempt
<1> DEFINE r == [proc[p] EXCEPT !.stage = "running", !.task = k]
<1>1. proc \in [Procs -> Job!Run] /\ proc' = [proc EXCEPT ![p] = r]
  BY PairingTypes
<1>2. r \in Job!Run /\ r.stage = "running" /\ r.inv = proc[p].inv /\ r.task = k
      /\ r.attempt = proc[p].attempt
  BY <1>1 DEF Job!Run, Job!Stages
<1> HIDE DEF r
<1> QED
  BY <1>1, <1>2 DEF Others

(* A run past its start has an invite that was created.                    *)
LEMMA RunInvite ==
  ASSUME PairingInv, NEW p \in Procs, proc[p].stage # "idle"
  PROVE  proc[p].inv \in InviteId /\ proc[p].inv \in used /\ Informed(p)
BY PairingTypes DEF PairingInv, Informed

LEMMA NothingConsumed ==
  ASSUME PairingInv, UNCHANGED <<report, queue, invite, snapshot>>, UNCHANGED handlerVars
  PROVE  Consumed
BY DEF Consumed, ReportMoves, PairingInv, Founded

(* The rows, the queue and the ledger keep their types, so that a step     *)
(* only has to account for what it writes.                                 *)
LEMMA TypesConsumed ==
  ASSUME PairingInv, UNCHANGED <<snapshot, handlerVars>>,
         proc' \in [Procs -> Job!Run], lock' \in [InviteId -> Procs \cup {None}],
         invite' \in [InviteId -> Row], report' \in [InviteId -> Report],
         task' \in [InviteId -> Seq(TaskStatus)], queue' \in [InviteId -> BullJob]
  PROVE  PairingTypeOK'
BY PairingTypes DEF PairingTypeOK, TypeOK, QueueTypeOK, Job!JobTypeOK, handlerVars

(* What Take, the ledger and the reads do.                                 *)
LEMMA TakeKeeps ==
  ASSUME PairingInv, NEW p \in Procs, NEW i \in InviteId, Job!Take(p, i), UNCHANGED handlerVars
  PROVE  PairingInv'
<1> DEFINE r == [Job!NoRun EXCEPT !.stage = "find", !.inv = i, !.attempt = queue[i].made + 1]
<1>1. queue[i].made + 1 \in Nat
  BY PairingTypes DEF BullJob
<1>2. r \in Job!Run /\ r.stage = "find" /\ r.inv = i
  <2>1. Job!NoRun \in Job!Run
    BY DEF Job!NoRun, Job!Run, Job!Stages
  <2> QED
    BY <1>1, <2>1 DEF Job!Run, Job!Stages
<1>3. /\ proc' = [proc EXCEPT ![p] = r] /\ queue' = [queue EXCEPT ![i].state = "active"]
      /\ lock' = [lock EXCEPT ![i] = p] /\ UNCHANGED <<invite, snapshot, report, task>>
      /\ queue[i].state = "waiting"
  BY DEF Job!Take
<1> HIDE DEF r
<1>4. i \in used
  BY <1>3 DEF PairingInv, Founded
<1>5. proc' \in [Procs -> Job!Run] /\ proc'[p] = r /\ Others(p)
  BY <1>2, <1>3, PairingTypes DEF Others
<1>6. /\ queue' \in [InviteId -> BullJob]
      /\ \A j \in InviteId \ {i} : queue'[j] = queue[j]
  BY <1>3, PairingTypes DEF BullJob
<1>7. lock' \in [InviteId -> Procs \cup {None}]
  BY <1>3, PairingTypes
<1>8. PairingTypeOK'
  BY <1>3, <1>5, <1>6, <1>7, PairingTypes, TypesConsumed
<1>9. Consumed
  BY <1>3, <1>4, <1>6 DEF Consumed, ReportMoves, PairingInv, Founded
<1>10. Informed(p)'
  <2>1. i # None /\ i \in used' /\ proc'[p].stage = "find" /\ proc'[p].inv = i
    BY <1>2, <1>4, <1>5, NoneIsNoId DEF handlerVars
  <2> QED
    BY <2>1 DEF Informed
<1> QED
  BY <1>5, <1>8, <1>9, <1>10, ConsumedKeeps DEF Others

(* A step that only takes the run further.                                 *)
LEMMA GoingKeeps ==
  ASSUME PairingInv, NEW p \in Procs, NEW stage \in Job!Stages \ {"pend", "ready", "uncache", "unlock"},
         proc[p].stage # "idle", stage # "compute",
         proc' \in [Procs -> Job!Run], Others(p), proc'[p].stage = stage, proc'[p].inv = proc[p].inv,
         UNCHANGED <<report, queue, invite, snapshot, lock>>, UNCHANGED handlerVars,
         task' \in [InviteId -> Seq(TaskStatus)]
  PROVE  PairingInv'
<1>1. PairingTypeOK'
  BY PairingTypes, TypesConsumed
<1>2. Informed(p)'
  BY RunInvite DEF Informed, handlerVars
<1> QED
  BY <1>1, <1>2, NothingConsumed, ConsumedKeeps DEF Others

LEMMA LedgerKeeps ==
  ASSUME PairingInv, NEW p \in Procs, UNCHANGED handlerVars
  PROVE  /\ Job!FindLedger(p) => PairingInv'
         /\ Job!InsertLedger(p) => PairingInv'
         /\ Job!MarkRunning(p) => PairingInv'
         /\ Job!MarkDone(p) => PairingInv'
         /\ Job!RecordLedger(p) => PairingInv'
<1> DEFINE i == proc[p].inv
<1>1. proc[p].stage # "idle" => i \in InviteId
  BY RunInvite
<1>2. ASSUME NEW s \in TaskStatus, task' = [task EXCEPT ![i][proc[p].task] = s]
      PROVE  task' \in [InviteId -> Seq(TaskStatus)]
  <2>1. \A j \in InviteId : [task[j] EXCEPT ![proc[p].task] = s] \in Seq(TaskStatus)
    BY ExceptType, PairingTypes
  <2> QED
    BY <1>2, <2>1, PairingTypes
<1>3. ASSUME Job!FindLedger(p) PROVE PairingInv'
  <2>1. proc[p].stage = "find" /\ UNCHANGED <<report, task, queue, invite, snapshot, lock>>
    BY <1>3 DEF Job!FindLedger, Job!At, Job!queueVars
  <2>2. CASE Job!Goto(p, "insert")
    BY <2>1, <2>2, GotoGoes, GoingKeeps, PairingTypes DEF Goes, Job!Stages
  <2>3. ASSUME NEW k \in DOMAIN task[i], proc' = [proc EXCEPT ![p].stage = "running", ![p].task = k]
        PROVE  PairingInv'
    <3>1. k \in Nat
      BY <1>1, <2>1, <2>3, PairingTypes
    <3>2. /\ proc' \in [Procs -> Job!Run] /\ Others(p)
          /\ proc'[p].stage = "running" /\ proc'[p].inv = proc[p].inv
      BY <2>3, <3>1, RowGoes
    <3> QED
      BY <2>1, <3>2, GoingKeeps, PairingTypes DEF Job!Stages
  <2> QED
    BY <1>3, <2>2, <2>3 DEF Job!FindLedger, Job!OpenTasks, Job!Job
<1>4. ASSUME Job!InsertLedger(p) PROVE PairingInv'
  <2>1. /\ proc[p].stage = "insert" /\ UNCHANGED <<report, queue, invite, snapshot, lock>>
        /\ task' = [task EXCEPT ![i] = Append(@, "pending")]
        /\ proc' = [proc EXCEPT ![p].stage = "running", ![p].task = Len(task[i]) + 1]
    BY <1>4 DEF Job!InsertLedger, Job!At, Job!InsertTask, Job!Job
  <2>2. Len(task[i]) + 1 \in Nat /\ Append(task[i], "pending") \in Seq(TaskStatus)
    BY <1>1, <2>1, PairingTypes DEF TaskStatus
  <2>3. task' \in [InviteId -> Seq(TaskStatus)]
    BY <2>1, <2>2, PairingTypes
  <2>4. /\ proc' \in [Procs -> Job!Run] /\ Others(p)
        /\ proc'[p].stage = "running" /\ proc'[p].inv = proc[p].inv
    BY <2>1, <2>2, RowGoes
  <2> QED
    BY <2>1, <2>3, <2>4, GoingKeeps DEF Job!Stages
<1>5. ASSUME Job!MarkRunning(p) PROVE PairingInv'
  <2>1. /\ proc[p].stage = "running" /\ UNCHANGED <<report, queue, invite, snapshot, lock>>
        /\ task' = [task EXCEPT ![i][proc[p].task] = "running"] /\ Job!Goto(p, "read")
    BY <1>5 DEF Job!MarkRunning, Job!At, Job!SetTask, Job!Job
  <2> QED
    BY <1>2, <2>1, GotoGoes, GoingKeeps DEF Goes, Job!Stages, TaskStatus
<1>6. ASSUME Job!MarkDone(p) PROVE PairingInv'
  <2>1. /\ proc[p].stage = "done" /\ UNCHANGED <<report, queue, invite, snapshot, lock>>
        /\ task' = [task EXCEPT ![i][proc[p].task] = "done"] /\ Job!Goto(p, "finish")
    BY <1>6 DEF Job!MarkDone, Job!At, Job!SetTask, Job!Job
  <2> QED
    BY <1>2, <2>1, GotoGoes, GoingKeeps DEF Goes, Job!Stages, TaskStatus
<1>7. ASSUME Job!RecordLedger(p) PROVE PairingInv'
  <2> DEFINE s == IF Job!LastAttempt(p) THEN "failed" ELSE "running"
  <2>1. /\ proc[p].stage = "ledger" /\ UNCHANGED <<report, queue, invite, snapshot, lock>>
        /\ task' = [task EXCEPT ![i][proc[p].task] = s] /\ Job!Goto(p, "rethrow")
    BY <1>7 DEF Job!RecordLedger, Job!At, Job!SetTask, Job!Job
  <2>2. s \in TaskStatus
    BY DEF TaskStatus
  <2> HIDE DEF s
  <2> QED
    BY <1>2, <2>1, <2>2, GotoGoes, GoingKeeps DEF Goes, Job!Stages
<1> QED
  BY <1>3, <1>4, <1>5, <1>6, <1>7

(* What generate does: a run gets as far as its answers and its report.    *)
LEMMA ReadKeeps ==
  ASSUME PairingInv, NEW p \in Procs, UNCHANGED handlerVars
  PROVE  /\ Job!ReadReport(p) => PairingInv'
         /\ Job!Collect(p) => PairingInv'
         /\ Job!Compute(p) => PairingInv'
         /\ Job!InvalidateViewCache(p) => PairingInv'
<1> DEFINE i == proc[p].inv
<1>1. ASSUME NEW stage \in Job!Stages, UNCHANGED <<report, task, queue, invite, snapshot, lock>>,
             proc' \in [Procs -> Job!Run], Others(p), Informed(p)'
      PROVE  PairingInv'
  <2>1. PairingTypeOK'
    BY <1>1, PairingTypes, TypesConsumed
  <2> QED
    BY <1>1, <2>1, NothingConsumed, ConsumedKeeps DEF Others
<1>2. proc[p].stage # "idle" => i \in InviteId /\ i \in used /\ i # None /\ Informed(p)
  BY RunInvite, NoneIsNoId
<1>3. ASSUME Job!ReadReport(p) PROVE PairingInv'
  <2> DEFINE stage == IF report[i].status = "ready" THEN "unlock" ELSE "collect"
  <2>1. /\ proc[p].stage = "read" /\ UNCHANGED <<report, task, queue, invite, snapshot, lock>>
        /\ Job!Goto(p, stage)
    BY <1>3 DEF Job!ReadReport, Job!At, Job!queueVars, Job!Job
  <2>2. /\ stage \in {"unlock", "collect"} /\ stage \in Job!Stages
        /\ stage = "unlock" => report[i].basis # None
    BY <1>2, <2>1 DEF Job!Stages, PairingInv, Founded
  <2> HIDE DEF stage
  <2>3. Goes(p, stage)
    BY <2>1, <2>2, GotoGoes
  <2>4. Informed(p)'
    BY <1>2, <2>1, <2>2, <2>3 DEF Goes, Informed, handlerVars
  <2> QED
    BY <1>1, <2>1, <2>2, <2>3, <2>4 DEF Goes
<1>4. ASSUME Job!Collect(p) PROVE PairingInv'
  <2>1. /\ proc[p].stage = "collect" /\ UNCHANGED <<report, task, queue, invite, snapshot, lock>>
    BY <1>4 DEF Job!Collect, Job!At, Job!queueVars, Job!Job
  <2>2. CASE Job!Goto(p, "catch")
    <3>1. Goes(p, "catch")
      BY <2>2, GotoGoes DEF Job!Stages
    <3>2. Informed(p)'
      BY <1>2, <2>1, <3>1 DEF Goes, Informed, handlerVars
    <3> QED
      BY <1>1, <2>1, <3>1, <3>2 DEF Goes, Job!Stages
  <2>3. ASSUME snapshot[i].invitee # None,
               proc' = [proc EXCEPT ![p].stage = "compute", ![p].basis = snapshot[i].invitee]
        PROVE  PairingInv'
    <3> DEFINE r == [proc[p] EXCEPT !.stage = "compute", !.basis = snapshot[i].invitee]
    <3>1. snapshot[i].invitee \in Job!Answers /\ Consented(i)
      BY <1>2, <2>1, <2>3, PairingTypes
      DEF TypeOK, Snapshot, Answers, Job!Answers, PairingInv, RowInv, EvidenceInv, ConsentEvidence, Consented
    <3>2. /\ r \in Job!Run /\ r.stage = "compute" /\ r.inv = i /\ r.basis # None
          /\ proc' = [proc EXCEPT ![p] = r]
      BY <2>3, <3>1, PairingTypes DEF Job!Run, Job!Stages
    <3> HIDE DEF r
    <3>3. proc' \in [Procs -> Job!Run] /\ Others(p) /\ proc'[p] = r
      BY <3>2, PairingTypes DEF Others
    <3>4. Informed(p)'
      BY <1>2, <2>1, <3>1, <3>2, <3>3 DEF Informed, handlerVars, Consented
    <3> QED
      BY <1>1, <2>1, <3>3, <3>4 DEF Job!Stages
  <2> QED
    BY <1>4, <2>2, <2>3 DEF Job!Collect, Job!Job
<1>5. ASSUME Job!Compute(p) PROVE PairingInv'
  <2>1. PICK stage \in {"pend", "catch"} :
          /\ proc[p].stage = "compute" /\ UNCHANGED <<report, task, queue, invite, snapshot, lock>>
          /\ Job!Goto(p, stage)
    BY <1>5 DEF Job!Compute, Job!At, Job!queueVars
  <2>2. Goes(p, stage) /\ stage \in Job!Stages
    BY <2>1, GotoGoes DEF Job!Stages
  <2>3. Informed(p)'
    BY <1>2, <2>1, <2>2 DEF Goes, Informed, handlerVars, Consented
  <2> QED
    BY <1>1, <2>1, <2>2, <2>3 DEF Goes
<1>6. ASSUME Job!InvalidateViewCache(p) PROVE PairingInv'
  <2>1. /\ proc[p].stage = "uncache" /\ UNCHANGED <<report, task, queue, invite, snapshot, lock>>
        /\ Job!Goto(p, "unlock")
    BY <1>6 DEF Job!InvalidateViewCache, Job!At, Job!queueVars
  <2>2. Goes(p, "unlock")
    BY <2>1, GotoGoes DEF Job!Stages
  <2>3. Informed(p)'
    BY <1>2, <2>1, <2>2 DEF Goes, Informed, handlerVars, Exists
  <2> QED
    BY <1>1, <2>1, <2>2, <2>3 DEF Goes, Job!Stages
<1> QED
  BY <1>3, <1>4, <1>5, <1>6

(* What it writes.                                                         *)
LEMMA WriteKeeps ==
  ASSUME PairingInv, NEW p \in Procs, UNCHANGED handlerVars
  PROVE  /\ Job!Pend(p) => PairingInv'
         /\ Job!MarkReady(p) => PairingInv'
         /\ Job!RecordFailure(p) => PairingInv'
         /\ Job!MarkInviteUnlocked(p) => PairingInv'
<1> DEFINE i == proc[p].inv
<1>1. ASSUME NEW stage \in Job!Stages, UNCHANGED <<task, queue, invite, snapshot, lock>>,
             report' \in [InviteId -> Report], \A j \in InviteId : ReportMoves(j),
             Goes(p, stage), Informed(p)'
      PROVE  PairingInv'
  <2>1. PairingTypeOK'
    BY <1>1, PairingTypes, TypesConsumed DEF Goes
  <2>2. Consumed
    BY <1>1 DEF Consumed, PairingInv, Founded
  <2> QED
    BY <1>1, <2>1, <2>2, ConsumedKeeps DEF Goes, Others
<1>2. proc[p].stage # "idle" => i \in InviteId /\ i \in used /\ i # None /\ Informed(p)
  BY RunInvite, NoneIsNoId
<1>3. ASSUME NEW r \in Report, i \in InviteId, Job!SetReport(p, r)
      PROVE  /\ report' \in [InviteId -> Report]
             /\ \A j \in InviteId \ {i} : report'[j] = report[j]
             /\ report[i].status = "none" => report'[i] = report[i]
             /\ report[i].status # "none" => report'[i] = r
  BY <1>3, PairingTypes DEF Job!SetReport, Job!Job
<1>4. ASSUME Job!Pend(p) PROVE PairingInv'
  <2> DEFINE r == [status |-> "pending", basis |-> None]
  <2>1. /\ proc[p].stage = "pend" /\ UNCHANGED <<task, queue, invite, snapshot, lock>>
        /\ Job!Goto(p, "ready")
        /\ report' = IF report[i].status = "none" THEN [report EXCEPT ![i] = r] ELSE report
    BY <1>4 DEF Job!Pend, Job!At, Job!Job, Job!EnsurePending
  <2>2. r \in Report /\ r.status = "pending" /\ r.basis = None
    BY DEF Report
  <2> HIDE DEF r
  <2>3. Goes(p, "ready")
    BY <2>1, GotoGoes DEF Job!Stages
  <2>4. /\ report' \in [InviteId -> Report] /\ report'[i].status # "none"
        /\ \A j \in InviteId : \/ report'[j] = report[j]
                               \/ j = i /\ report[i].status = "none" /\ report'[i] = r
    BY <1>2, <2>1, <2>2, PairingTypes
  <2>5. Consented(i)
    BY <1>2, <2>1 DEF Informed
  <2>6. Informed(p)'
    BY <1>2, <2>1, <2>3, <2>4 DEF Goes, Informed, handlerVars, Consented
  <2>7. \A j \in InviteId : ReportMoves(j)
    BY <2>2, <2>4, <2>5 DEF ReportMoves
  <2> QED
    BY <1>1, <2>1, <2>3, <2>4, <2>6, <2>7 DEF Job!Stages
<1>5. ASSUME Job!MarkReady(p) PROVE PairingInv'
  <2> DEFINE r == [status |-> "ready", basis |-> proc[p].basis]
  <2>1. /\ proc[p].stage = "ready" /\ UNCHANGED <<task, queue, invite, snapshot, lock>>
        /\ Job!Goto(p, "uncache") /\ Job!SetReport(p, r)
    BY <1>5 DEF Job!MarkReady, Job!At
  <2>2. /\ proc[p].basis # None /\ Consented(i)
        /\ Exists(i) => report[i].status # "none"
    BY <1>2, <2>1 DEF Informed
  <2>3. r \in Report /\ r.status = "ready" /\ r.basis # None
    BY <2>2, PairingTypes DEF Report
  <2> HIDE DEF r
  <2>4. Goes(p, "uncache")
    BY <2>1, GotoGoes DEF Job!Stages
  <2>5. \A j \in InviteId : ReportMoves(j)
    BY <1>2, <1>3, <2>1, <2>2, <2>3 DEF ReportMoves
  <2>6. invite'[i].status # "none" => report'[i].basis # None
    <3>1. report[i].status # "none" => report'[i] = r
      BY <1>2, <1>3, <2>1, <2>3
    <3>2. invite'[i].status # "none" => Exists(i)
      BY <2>1 DEF Exists
    <3> QED
      BY <2>2, <2>3, <3>1, <3>2
  <2>7. Informed(p)'
    BY <1>2, <2>1, <2>4, <2>6 DEF Goes, Informed, handlerVars, Exists
  <2> QED
    BY <1>1, <1>2, <1>3, <2>1, <2>3, <2>4, <2>5, <2>7 DEF Job!Stages
<1>6. ASSUME Job!RecordFailure(p) PROVE PairingInv'
  <2> DEFINE r == [status |-> IF Job!LastAttempt(p) THEN "failed" ELSE "pending",
                   basis  |-> report[i].basis]
  <2>1. /\ proc[p].stage = "catch" /\ UNCHANGED <<task, queue, invite, snapshot, lock>>
        /\ Job!Goto(p, "ledger") /\ Job!SetReport(p, r)
    BY <1>6 DEF Job!RecordFailure, Job!At, Job!Job
  <2>2. report[i] \in Report
    BY <1>2, <2>1, PairingTypes
  <2>3. r \in Report /\ r.status \in {"failed", "pending"} /\ r.basis = report[i].basis
    BY <2>2 DEF Report
  <2> HIDE DEF r
  <2>4. Goes(p, "ledger")
    BY <2>1, GotoGoes DEF Job!Stages
  <2>5. \A j \in InviteId : ReportMoves(j)
    BY <1>2, <1>3, <2>1, <2>3 DEF ReportMoves
  <2>6. Informed(p)'
    BY <1>2, <2>1, <2>4 DEF Goes, Informed, handlerVars
  <2> QED
    BY <1>1, <1>2, <1>3, <2>1, <2>3, <2>4, <2>5, <2>6 DEF Job!Stages
<1>7. ASSUME Job!MarkInviteUnlocked(p) PROVE PairingInv'
  <2>1. /\ proc[p].stage = "unlock" /\ UNCHANGED <<report, task, queue, snapshot, lock>>
        /\ Job!Goto(p, "done")
        /\ invite' = IF invite[i].status = "completed"
                     THEN [invite EXCEPT ![i].status = "report_unlocked"] ELSE invite
    BY <1>7 DEF Job!MarkInviteUnlocked, Job!At, Job!Job, Job!queueVars
  <2>2. Goes(p, "done")
    BY <2>1, GotoGoes DEF Job!Stages
  <2>3. invite[i].status = "completed" => report[i].basis # None
    BY <1>2, <2>1 DEF Informed, Exists
  <2>4. invite' \in [InviteId -> Row]
    <3>1. MoveStatus(i, {"completed"}, "report_unlocked")
      BY <2>1 DEF MoveStatus, SetStatus
    <3> QED
      BY <3>1, MoveStatusType, PairingTypes DEF Status
  <2>5. \A j \in InviteId : invite'[j] = invite[j] \/ Unlocks(j)
    BY <1>2, <2>1, <2>3, PairingTypes DEF Unlocks
  <2>6. Consumed
    BY <2>1, <2>5 DEF Consumed, ReportMoves, PairingInv, Founded
  <2>7. PairingTypeOK'
    BY <2>1, <2>2, <2>4, PairingTypes, TypesConsumed DEF Goes
  <2>8. Informed(p)'
    BY <1>2, <2>1, <2>2 DEF Goes, Informed, handlerVars
  <2> QED
    BY <2>2, <2>6, <2>7, <2>8, ConsumedKeeps DEF Goes, Others
<1> QED
  BY <1>4, <1>5, <1>6, <1>7

(* What ends a run, and what goes wrong.                                   *)
LEMMA EndKeeps ==
  ASSUME PairingInv, NEW p \in Procs, UNCHANGED handlerVars
  PROVE  /\ Job!Finish(p) => PairingInv'
         /\ Job!Rethrow(p) => PairingInv'
         /\ Job!Throw(p) => PairingInv'
         /\ Job!Crash(p) => PairingInv'
<1>1. ASSUME UNCHANGED <<report, task, invite, snapshot>>, Job!Release(p) \/ UNCHANGED proc,
             lock' \in [InviteId -> Procs \cup {None}], queue' \in [InviteId -> BullJob],
             \A i \in InviteId : queue'[i].state # "absent" => i \in used
      PROVE  PairingInv'
  <2>1. proc' \in [Procs -> Job!Run] /\ Others(p)
    BY <1>1, ReleaseRun, PairingTypes DEF Others
  <2>2. PairingTypeOK'
    BY <1>1, <2>1, PairingTypes, TypesConsumed
  <2>3. Consumed
    BY <1>1 DEF Consumed, ReportMoves
  <2>4. proc'[p] = proc[p] \/ Informed(p)'
    <3>1. CASE Job!Release(p)
      BY <3>1, ReleaseRun DEF Informed
    <3> QED
      BY <1>1, <3>1
  <2> QED
    BY <2>1, <2>2, <2>3, <2>4, ConsumedKeeps DEF Others
<1>2. \A i \in InviteId : queue[i].state # "absent" => i \in used
  BY DEF PairingInv, Founded
<1>3. ASSUME NEW i \in InviteId
      PROVE  lock' = [lock EXCEPT ![i] = None] => lock' \in [InviteId -> Procs \cup {None}]
  BY PairingTypes
<1>4. ASSUME NEW i \in InviteId, NEW job \in BullJob, queue' = [queue EXCEPT ![i] = job]
      PROVE  /\ queue' \in [InviteId -> BullJob]
             /\ \A j \in InviteId : queue'[j] = IF j = i THEN job ELSE queue[j]
  BY <1>4, PairingTypes
<1>5. Job!NoJob \in BullJob /\ Job!NoJob.state = "absent"
  BY DEF Job!NoJob, BullJob
<1>6. ASSUME Job!Finish(p) PROVE PairingInv'
  <2>1. PICK i \in InviteId : i = proc[p].inv /\ i \in used
    BY <1>6, RunInvite DEF Job!Finish, Job!At
  <2>2. /\ UNCHANGED <<report, task, invite, snapshot>> /\ Job!Release(p)
        /\ \/ queue' = [queue EXCEPT ![i] = Job!NoJob] /\ lock' = [lock EXCEPT ![i] = None]
           \/ UNCHANGED <<queue, lock>>
    BY <1>6, <2>1 DEF Job!Finish, Job!Job
  <2> QED
    BY <1>1, <1>2, <1>3, <1>4, <1>5, <2>1, <2>2, PairingTypes
<1>7. ASSUME Job!Rethrow(p) PROVE PairingInv'
  <2>1. PICK i \in InviteId : i = proc[p].inv /\ i \in used
    BY <1>7, RunInvite DEF Job!Rethrow, Job!At
  <2> DEFINE made == queue[i].made + 1
             job == IF made >= Attempts THEN Job!NoJob
                    ELSE [queue[i] EXCEPT !.state = "waiting", !.made = made]
  <2>2. /\ UNCHANGED <<report, task, invite, snapshot>> /\ Job!Release(p)
        /\ \/ queue' = [queue EXCEPT ![i] = job] /\ lock' = [lock EXCEPT ![i] = None]
           \/ UNCHANGED <<queue, lock>>
    BY <1>7, <2>1 DEF Job!Rethrow, Job!Job
  <2>3. made \in Nat
    BY PairingTypes DEF BullJob
  <2>4. job \in BullJob
    BY <1>5, <2>3, PairingTypes DEF BullJob
  <2> HIDE DEF job
  <2> QED
    BY <1>1, <1>2, <1>3, <1>4, <2>1, <2>2, <2>4, PairingTypes
<1>8. ASSUME Job!Throw(p) PROVE PairingInv'
  <2> DEFINE stage == IF proc[p].stage \in Job!Guarded THEN "catch" ELSE "rethrow"
  <2>1. /\ proc[p].stage # "idle" /\ UNCHANGED <<report, task, queue, invite, snapshot, lock>>
        /\ Job!Goto(p, stage)
    BY <1>8 DEF Job!Throw, Job!queueVars
  <2>2. stage \in {"catch", "rethrow"} /\ stage \in Job!Stages
    BY DEF Job!Stages
  <2> HIDE DEF stage
  <2> QED
    BY <2>1, <2>2, GotoGoes, GoingKeeps, PairingTypes DEF Goes
<1>9. ASSUME Job!Crash(p) PROVE PairingInv'
  BY <1>1, <1>2, <1>9, PairingTypes DEF Job!Crash, Job!queueVars
<1> QED
  BY <1>6, <1>7, <1>8, <1>9

LEMMA StallKeeps ==
  ASSUME PairingInv, NEW i \in InviteId, Job!Stall(i), UNCHANGED handlerVars
  PROVE  PairingInv'
<1> DEFINE job == IF queue[i].stalls > 0 THEN Job!NoJob
                  ELSE [queue[i] EXCEPT !.state = "waiting", !.stalls = 1]
<1>1. /\ UNCHANGED <<report, task, invite, snapshot, proc>> /\ queue[i].state = "active"
      /\ queue' = [queue EXCEPT ![i] = job] /\ lock' = [lock EXCEPT ![i] = None]
  BY DEF Job!Stall
<1>2. job \in BullJob
  BY PairingTypes DEF BullJob, Job!NoJob
<1> HIDE DEF job
<1>3. /\ queue' \in [InviteId -> BullJob] /\ lock' \in [InviteId -> Procs \cup {None}]
      /\ \A j \in InviteId : queue'[j].state # "absent" => queue[j].state # "absent"
  BY <1>1, <1>2, PairingTypes
<1>4. Consumed
  BY <1>1, <1>3 DEF Consumed, ReportMoves, PairingInv, Founded
<1>5. PairingTypeOK'
  BY <1>1, <1>3, PairingTypes, TypesConsumed
<1> QED
  BY <1>1, <1>4, <1>5, ConsumedKeeps

LEMMA ConsumeKeeps ==
  ASSUME PairingInv, Consume
  PROVE  PairingInv'
<1>1. ASSUME NEW p \in Procs, Job!Work(p), UNCHANGED handlerVars
      PROVE  PairingInv'
  BY <1>1, LedgerKeeps, ReadKeeps, WriteKeeps, EndKeeps DEF Job!Work
<1>2. ASSUME NEW p \in Procs, Job!Throw(p) \/ Job!Crash(p), UNCHANGED handlerVars
      PROVE  PairingInv'
  BY <1>2, EndKeeps
<1>3. ASSUME NEW i \in InviteId, Job!Stall(i), UNCHANGED handlerVars
      PROVE  PairingInv'
  BY <1>3, StallKeeps
<1>4. ASSUME NEW p \in Procs, NEW i \in InviteId, Job!Take(p, i), UNCHANGED handlerVars
      PROVE  PairingInv'
  BY <1>4, TakeKeeps
<1> QED
  BY <1>1, <1>2, <1>3, <1>4 DEF Consume, Job!JobNext

-----------------------------------------------------------------------------
(* The handlers' steps.                                                    *)

(* What they do to the report, the ledger and the queue.                   *)
Enqueues(i) ==
  /\ \/ report'[i] = report[i]
     \/ /\ report[i].status = "none" /\ Consented(i)
        /\ report'[i].status = "pending" /\ report'[i].basis = None
     \/ report'[i] = NoReport /\ invite'[i] = NoRow
  /\ task'[i] = task[i] \/ task'[i] = Append(task[i], "pending")
  /\ \/ queue'[i] = queue[i]
     \/ queue[i].state = "absent" /\ queue'[i].state = "waiting" /\ i \in used

LEMMA QueueStepsEnqueue ==
  ASSUME RowInv, NEW w \in Workers
  PROVE  /\ PendReport(w) => \A i \in InviteId : Enqueues(i)
         /\ OpenTask(w) => \A i \in InviteId : Enqueues(i)
         /\ EnqueueReport(w) => \A i \in InviteId : Enqueues(i)
<1> DEFINE i == req[w].inv
<1>1. /\ report \in [InviteId -> Report] /\ task \in [InviteId -> Seq(TaskStatus)]
      /\ queue \in [InviteId -> BullJob]
      /\ req[w].pc \in {"pend", "insertTask", "addJob"} =>
           i \in InviteId /\ i \in used /\ Consented(i)
  BY DEF RowInv, EvidenceInv, Typed, TypeOK, QueueTypeOK, Called, Creation, Aware, HandlersLetIn, Let,
     AnswerSteps
<1>2. ASSUME PendReport(w), NEW j \in InviteId PROVE Enqueues(j)
  <2> DEFINE r == [status |-> "pending", basis |-> None]
  <2>1. /\ req[w].pc = "pend" /\ UNCHANGED <<task, queue>>
        /\ report' = IF report[i].status = "none" THEN [report EXCEPT ![i] = r] ELSE report
    BY <1>2 DEF PendReport, At, EnsurePending
  <2>2. r.status = "pending" /\ r.basis = None
    OBVIOUS
  <2> HIDE DEF r
  <2> QED
    BY <1>1, <2>1, <2>2 DEF Enqueues
<1>3. ASSUME OpenTask(w), NEW j \in InviteId PROVE Enqueues(j)
  BY <1>1, <1>3 DEF OpenTask, At, InsertTask, Enqueues
<1>4. ASSUME EnqueueReport(w), NEW j \in InviteId PROVE Enqueues(j)
  <2> DEFINE job == [state |-> "waiting", made |-> 0, stalls |-> 0]
  <2>1. /\ req[w].pc = "addJob" /\ UNCHANGED <<report, task>>
        /\ queue' = IF queue[i].state = "absent" THEN [queue EXCEPT ![i] = job] ELSE queue
    BY <1>4 DEF EnqueueReport, At, AddJob
  <2>2. job.state = "waiting"
    OBVIOUS
  <2> HIDE DEF job
  <2> QED
    BY <1>1, <2>1, <2>2 DEF Enqueues
<1> QED
  BY <1>2, <1>3, <1>4

LEMMA NextEnqueues ==
  ASSUME RowInv, [Next]_vars, NEW i \in InviteId
  PROVE  Enqueues(i)
<1>1. UNCHANGED queueVars => Enqueues(i)
  BY DEF queueVars, Enqueues
<1>2. ASSUME NEW w \in Workers, Continue(w) PROVE Enqueues(i)
  <2>1. CASE PendReport(w) \/ OpenTask(w) \/ EnqueueReport(w)
    BY <2>1, QueueStepsEnqueue
  <2>2. CheckDerived(w) \/ CheckActive(w) \/ Revive(w) \/ FindSheet(w) \/ LoadForSave(w)
        \/ LoadForSubmit(w) \/ FindSnapshot(w) \/ CountSnapshots(w) \/ FindTask(w)
        => UNCHANGED queueVars
    BY SMTT(30) DEF CheckDerived, CheckActive, Revive, FindSheet, LoadForSave, LoadForSubmit, FindSnapshot,
       CountSnapshots, FindTask, tables
  <2>3. LazyExpire(w) \/ CheckCooldown(w) \/ InsertInvite(w) \/ WriteRenewal(w) \/ WriteCancel(w)
        \/ SendReminder(w) \/ TallyReminder(w) \/ BindFirstInvitee(w) \/ PersistConsent(w)
        => UNCHANGED queueVars
    BY DEF LazyExpire, CheckCooldown, InsertInvite, WriteRenewal, WriteCancel, SendReminder,
       TallyReminder, BindFirstInvitee, PersistConsent
  <2>4. InsertSheet(w) \/ MarkAnswering(w) \/ SaveInviteDraft(w) \/ LockSheet(w)
        \/ UpdateSnapshot(w) \/ InsertSnapshot(w) \/ CompleteInvite(w)
        => UNCHANGED queueVars
    BY DEF InsertSheet, MarkAnswering, SaveInviteDraft, LockSheet, UpdateSnapshot, InsertSnapshot,
       CompleteInvite
  <2> QED
    BY <1>1, <1>2, <2>1, <2>2, <2>3, <2>4 DEF Continue
<1>3. ASSUME NEW u \in Users, NEW d \in InviteId, DeletePairing(u, d) PROVE Enqueues(i)
  <2>1. invite \in [InviteId -> Row] /\ report \in [InviteId -> Report]
    BY DEF RowInv, EvidenceInv, Typed, TypeOK, QueueTypeOK
  <2> QED
    BY <1>3, <2>1 DEF DeletePairing, Enqueues
<1>4. ASSUME NEW w \in Workers, NEW u \in Users, NEW d \in InviteId, Receive(w, u, d)
      PROVE  Enqueues(i)
  BY <1>1, <1>4, ReceiveLetIn DEF RowInv, tables
<1>5. ASSUME NEW w \in Workers, NEW u \in Users, StartCreate(w, u) PROVE Enqueues(i)
  BY <1>1, <1>5 DEF StartCreate, tables
<1>6. ASSUME NEW w \in Workers, Fail(w) PROVE Enqueues(i)
  BY <1>1, <1>6 DEF Fail, tables
<1>7. ASSUME \/ \E u \in Users : CooldownElapses(u)
             \/ \E d \in InviteId : DeadlinePasses(d)
             \/ ExpireScan
             \/ UNCHANGED vars
      PROVE  Enqueues(i)
  BY <1>1, <1>7 DEF CooldownElapses, DeadlinePasses, ExpireScan, vars, tables
<1> QED
  BY <1>2, <1>3, <1>4, <1>5, <1>6, <1>7 DEF Next

(* A consent stays on record.                                              *)
LEMMA ConsentsStay ==
  ASSUME EvidenceInv, [Next]_vars, NEW i \in InviteId, Consented(i)
  PROVE  Consented(i)'
<1>1. UNCHANGED consentLog => Consented(i)'
  BY DEF Consented
<1>2. ASSUME NEW w \in Workers, Continue(w) PROVE Consented(i)'
  BY <1>2, ContinueBacked DEF Backed, EvidenceStays, Consented
<1>3. ASSUME NEW w \in Workers, NEW u \in Users, NEW d \in InviteId, Receive(w, u, d)
      PROVE  Consented(i)'
  BY <1>1, <1>3, ReceiveLetIn DEF tables
<1>4. ASSUME NEW w \in Workers, Fail(w) \/ \E u \in Users : StartCreate(w, u)
      PROVE  Consented(i)'
  BY <1>1, <1>4 DEF Fail, StartCreate, tables
<1>5. ASSUME \/ \E u \in Users, d \in InviteId : DeletePairing(u, d)
             \/ \E u \in Users : CooldownElapses(u)
             \/ \E d \in InviteId : DeadlinePasses(d)
             \/ ExpireScan
             \/ UNCHANGED vars
      PROVE  Consented(i)'
  BY <1>1, <1>5 DEF DeletePairing, CooldownElapses, DeadlinePasses, ExpireScan, vars, tables
<1> QED
  BY <1>2, <1>3, <1>4, <1>5 DEF Next

(* They leave a run what it knows, unless its invite is deleted.           *)
LEMMA HandlePreserves ==
  ASSUME PairingInv, [Next]_vars
  PROVE  Preserves
<1>1. RowInv /\ Effect /\ EvidenceInv
  BY NextEffect DEF PairingInv, RowInv
<1>2. used \subseteq used'
  BY <1>1 DEF Effect
<1>3. ASSUME NEW i \in InviteId
      PROVE  Consented(i) => Consented(i)'
  BY <1>1, ConsentsStay
<1>4. ASSUME NEW i \in InviteId, i \in used, Exists(i)'
      PROVE  Exists(i)
  BY <1>1, <1>4, UsedRows
<1>5. ASSUME NEW i \in InviteId
      PROVE  ReportKept(i) \/ ~ Exists(i)'
  BY <1>1, NextEnqueues, NoRowIs DEF Enqueues, ReportKept, Exists, PairingInv, Founded
<1> QED
  BY <1>2, <1>3, <1>4, <1>5 DEF Preserves

(* No handler unlocks a report.                                            *)
LEMMA NextUnlocksNothing ==
  ASSUME RowInv, [Next]_vars, NEW i \in InviteId, invite'[i].status = "report_unlocked"
  PROVE  invite[i].status = "report_unlocked" /\ invite'[i] # NoRow
<1>1. Moves(i)
  BY NextEffect DEF Effect
<1>2. ~ Renews(i)
  BY DEF Renews, RowInv, EvidenceInv, HandlersLetIn, Let, At, Expirable
<1>3. ~ Inserts(i)
  BY InsertedRow
<1> QED
  BY <1>1, <1>2, <1>3, NoRowIs DEF Moves, Stays, Forward, Replies, Completes, Binds, Deletes

LEMMA HandleKeeps ==
  ASSUME PairingInv, Handle
  PROVE  PairingInv'
<1>1. /\ [Next]_vars /\ UNCHANGED <<proc, lock, deployment>>
      /\ RowInv /\ EvidenceInv
  BY DEF Handle, PairingInv, RowInv
<1>2. RowInv'
  BY <1>1, NextRow
<1>3. PairingTypeOK'
  BY <1>1, <1>2 DEF PairingInv, PairingTypeOK, Job!JobTypeOK, RowInv, EvidenceInv, Typed
<1>4. Preserves
  BY <1>1, HandlePreserves
<1>5. ASSUME NEW q \in Procs PROVE Informed(q)'
  BY <1>1, <1>4, InformedKept
<1>6. ASSUME NEW i \in InviteId PROVE Founded(i)'
  <2>1. Founded(i) /\ Enqueues(i) /\ (Consented(i) => Consented(i)') /\ used \subseteq used'
    BY <1>1, <1>4, NextEnqueues DEF PairingInv, Preserves
  <2>2. NoReport.status = "none" /\ NoReport.basis = None
    BY DEF NoReport
  <2>3. invite'[i].status = "report_unlocked" =>
          invite[i].status = "report_unlocked" /\ invite'[i] # NoRow
    BY <1>1, NextUnlocksNothing
  <2>4. report'[i].basis # None => report'[i].status # "none" /\ Consented(i)'
    BY <2>1, <2>2 DEF Founded, Enqueues
  <2>5. report'[i].status = "ready" \/ invite'[i].status = "report_unlocked" => report'[i].basis # None
    BY <2>1, <2>2, <2>3 DEF Founded, Enqueues
  <2>6. queue'[i].state # "absent" => i \in used'
    BY <2>1 DEF Founded, Enqueues
  <2> QED
    BY <2>4, <2>5, <2>6 DEF Founded
<1> QED
  BY <1>2, <1>3, <1>5, <1>6 DEF PairingInv

LEMMA InitPairing == PairingInit => PairingInv
<1> SUFFICES ASSUME PairingInit
             PROVE  PairingInv
  OBVIOUS
<1>1. RowInv
  BY InitRow DEF PairingInit
<1>2. Job!NoRun \in Job!Run /\ Job!NoRun.inv = None /\ Job!NoRun.stage = "idle"
  BY DEF Job!NoRun, Job!Run, Job!Stages
<1>3. PairingTypeOK
  BY <1>1, <1>2 DEF PairingInit, Job!JobInit, PairingTypeOK, Job!JobTypeOK, RowInv, EvidenceInv, Typed
<1>4. \A p \in Procs : Informed(p)
  BY <1>2 DEF PairingInit, Job!JobInit, Informed
<1>5. \A i \in InviteId : Founded(i)
  <2>1. \A i \in InviteId : /\ report[i].status = "none" /\ report[i].basis = None
                            /\ invite[i].status = "none" /\ queue[i].state = "absent"
    BY NoRowIs DEF PairingInit, Init, QueueInit, NoReport, NoJob
  <2> QED
    BY <2>1 DEF Founded
<1> QED
  BY <1>1, <1>3, <1>4, <1>5 DEF PairingInv

LEMMA NextPairing == PairingInv /\ [PairingNext]_pairingVars => PairingInv'
<1> SUFFICES ASSUME PairingInv, [PairingNext]_pairingVars
             PROVE  PairingInv'
  OBVIOUS
<1>1. CASE UNCHANGED pairingVars
  <2>1. Consumed
    BY <1>1, NothingConsumed DEF pairingVars, vars, tables, queueVars, handlerVars
  <2>2. PairingTypeOK'
    BY <1>1, PairingTypes, TypesConsumed DEF pairingVars, vars, tables, queueVars, handlerVars
  <2> QED
    BY <1>1, <2>1, <2>2, ConsumedKeeps DEF pairingVars
<1> QED
  BY <1>1, HandleKeeps, ConsumeKeeps DEF PairingNext

(* The inductive invariant holds in every reachable state.                 *)
THEOREM PairingAlways == PairingSpec => []PairingInv
<1> QED
  BY InitPairing, NextPairing, PTL DEF PairingSpec

-----------------------------------------------------------------------------
(* What follows from it.                                                   *)

(* The worker's one edge.                                                  *)
LEMMA ConsumeUnlocks ==
  ASSUME PairingInv, Consume, NEW i \in InviteId
  PROVE  \/ invite'[i].status = invite[i].status
         \/ invite[i].status = "completed" /\ invite'[i].status = "report_unlocked"
<1>1. Job!JobNext => invite' = invite \/ \E p \in Procs : Job!MarkInviteUnlocked(p)
  BY DEF Job!JobNext, Job!Work, Job!Take, Job!FindLedger, Job!InsertLedger, Job!MarkRunning,
     Job!ReadReport, Job!Collect, Job!Compute, Job!Pend, Job!MarkReady,
     Job!InvalidateViewCache, Job!MarkDone, Job!RecordFailure, Job!RecordLedger,
     Job!Finish, Job!Rethrow, Job!Throw, Job!Crash, Job!Stall
<1>2. ASSUME NEW p \in Procs, Job!MarkInviteUnlocked(p)
      PROVE  \/ invite'[i].status = invite[i].status
             \/ invite[i].status = "completed" /\ invite'[i].status = "report_unlocked"
  <2>1. MoveStatus(proc[p].inv, {"completed"}, "report_unlocked")
    BY <1>2 DEF Job!MarkInviteUnlocked, Job!Job, MoveStatus, SetStatus
  <2>2. proc[p].inv \in InviteId /\ Typed
    BY <1>2, RunInvite, PairingTypes DEF Job!MarkInviteUnlocked, Job!At
  <2> QED
    BY <2>1, <2>2, MoveStatusRow
<1> QED
  BY <1>1, <1>2 DEF Consume

(* The rows, the queue, the ledger, the runs and the locks keep their      *)
(* shapes with handlers and consumers on the same tables.                  *)
THEOREM PairingTypeCorrect == PairingSpec => []PairingTypeOK
<1>1. PairingInv => PairingTypeOK
  BY DEF PairingInv
<1> QED
  BY <1>1, PairingAlways, PTL

(* A ready report, and a report of an unlocked pairing, holds conclusions  *)
(* computed from consented answers: whatever runs of the job overlap, and  *)
(* whatever call to the database, process or lock is lost between the      *)
(* awaits of generate, markFailed and markInviteUnlocked.                  *)
THEOREM ConclusionsAlwaysStand == PairingSpec => []ConclusionsStand
<1>1. PairingInv => ConclusionsStand
  BY DEF PairingInv, Founded, Consented, ConclusionsStand
<1> QED
  BY <1>1, PairingAlways, PTL

(* With the worker on the same rows a status still moves along the         *)
(* machine; the worker adds one edge and lifts nothing back.               *)
THEOREM PairingStatusesFollow == PairingSpec => PairingStatusFollowsMachine
<1>1. ASSUME PairingInv, [PairingNext]_pairingVars, NEW i \in InviteId,
             invite'[i].status # invite[i].status
      PROVE  \/ <<invite[i].status, invite'[i].status>> \in
                   Edges \cup {<<"completed", "report_unlocked">>}
             \/ Renewing(i)
  <2>1. CASE Handle
    BY <1>1, <2>1, StatusMoves DEF Handle, PairingInv
  <2>2. CASE Consume
    BY <1>1, <2>2, ConsumeUnlocks
  <2> QED
    BY <1>1, <2>1, <2>2 DEF PairingNext, pairingVars, vars, tables
<1>2. PairingInv /\ [PairingNext]_pairingVars =>
        [\A i \in InviteId :
           invite'[i].status # invite[i].status =>
             \/ <<invite[i].status, invite'[i].status>> \in
                  Edges \cup {<<"completed", "report_unlocked">>}
             \/ Renewing(i)]_pairingVars
  BY <1>1
<1> QED
  BY <1>2, PairingAlways, PTL DEF PairingSpec, PairingStatusFollowsMachine

(* What is proved of the handlers by themselves survives the worker: the   *)
(* consent evidence, the snapshots of completed invites, the one answer    *)
(* and the reminder budget.                                                *)
THEOREM HandlersStandBesideWorker ==
  PairingSpec => [](/\ ConsentEvidence /\ CompletedHasSnapshots
                    /\ OneAnswerRecorded /\ RefusedCostsNothing)
<1>1. PairingInv => /\ ConsentEvidence /\ CompletedHasSnapshots
                    /\ OneAnswerRecorded /\ RefusedCostsNothing
  BY DEF PairingInv, RowInv, RowSound, EvidenceInv, CompletedHasSnapshots, OneAnswerRecorded,
     RefusedCostsNothing
<1> QED
  BY <1>1, PairingAlways, PTL

(* The whole pairing implements ConsentFirst: the handlers' steps are its  *)
(* steps, and it does not see the worker, whose only invites are complete  *)
(* before and after.                                                       *)
THEOREM PairingKeepsThePromise == PairingSpec => KeepsPromise
<1>1. PairingInv /\ [PairingNext]_pairingVars => [Promise!Next]_(Promise!promise)
  <2> SUFFICES ASSUME PairingInv, [PairingNext]_pairingVars
               PROVE  [Promise!Next]_(Promise!promise)
    OBVIOUS
  <2>1. CASE Handle
    BY <2>1, NextSeen DEF Handle, PairingInv
  <2>2. CASE UNCHANGED pairingVars
    BY <2>2, NextSeen DEF pairingVars, PairingInv
  <2>3. CASE Consume
    <3>1. UNCHANGED <<sheet, snapshot, consentLog>>
      BY <2>3 DEF Consume, handlerVars, Job!JobNext, Job!Work, Job!Take, Job!FindLedger,
         Job!InsertLedger, Job!MarkRunning, Job!ReadReport, Job!Collect, Job!Compute, Job!Pend,
         Job!MarkReady, Job!InvalidateViewCache, Job!MarkInviteUnlocked, Job!MarkDone,
         Job!RecordFailure, Job!RecordLedger, Job!Finish, Job!Rethrow, Job!Throw, Job!Crash,
         Job!Stall
    <3>2. ASSUME NEW i \in InviteId PROVE CompleteAt(i)' = CompleteAt(i)
      BY <2>3, ConsumeUnlocks DEF CompleteAt
    <3> QED
      BY <3>1, <3>2, UnseenStep, SMTT(30) DEF Unseen, Consented, KeptAt, Sheets
  <2> QED
    BY <2>1, <2>2, <2>3 DEF PairingNext
<1>2. PairingInit => Promise!Init
  BY InitSeen DEF PairingInit
<1> QED
  BY <1>1, <1>2, PairingAlways, PTL DEF PairingSpec, KeepsPromise, Promise!Spec

-----------------------------------------------------------------------------
(* A failed report has its ticket.                                         *)
(*                                                                         *)
(* While processes, locks and the database stay up, the run that has a     *)
(* job's lock is the only one, so nobody else touches its ledger row, and  *)
(* the last failed attempt leaves that row failed.                         *)

Runs == \A p \in Procs : OneRun(p)
Tickets == \A i \in InviteId : Ticketed(i)

(* Two consumers never work for one invite.                                *)
LEMMA OnlyRun ==
  ASSUME PairingInv, Runs, NEW p \in Procs, NEW q \in Procs,
         NEW i \in InviteId, proc[p].inv = i, proc[q].inv = i
  PROVE  p = q
BY NoneIsNoId DEF Runs, OneRun

(* While a run is not yet at the ledger row, a failed report is an earlier *)
(* job's and has its ticket.                                               *)
LEMMA TicketBefore ==
  ASSUME PairingInv, Runs, Tickets, NEW p \in Procs, NEW i \in InviteId, proc[p].inv = i,
         report[i].status = "failed",
         proc[p].stage # "ledger" \/ ~ Job!LastAttempt(p)
  PROVE  HasTicket(i)
<1>1. ASSUME NEW q \in Procs, proc[q].inv = i, proc[q].stage = "ledger", Job!LastAttempt(q)
      PROVE  FALSE
  BY <1>1, OnlyRun
<1> QED
  BY <1>1 DEF Tickets, Ticketed

(* What a step of run p for invite i has to account for.                   *)
LEMMA TicketStep ==
  ASSUME PairingInv, Runs, Tickets,
         NEW p \in Procs, NEW i \in InviteId, proc[p].inv \in {i, None},
         Others(p),
         \A j \in InviteId \ {i} :
           /\ lock'[j] = lock[j] /\ queue'[j] = queue[j]
           /\ task'[j] = task[j] /\ report'[j] = report[j],
         \A q \in Procs \ {p} : proc[q].inv # i,
         OneRun(p)', proc'[p].inv \in {i, None},
         queue'[i].state = "active" => lock'[i] = p /\ proc'[p].inv = i,
         report'[i].status = "failed" =>
           HasTicket(i)' \/ (proc'[p].inv = i /\ proc'[p].stage = "ledger" /\ Job!LastAttempt(p)')
  PROVE  Runs' /\ Tickets'
<1>1. proc[p].inv # i => proc[p].inv = None
  OBVIOUS
<1>2. ASSUME NEW q \in Procs \ {p}
      PROVE  OneRun(q)'
  <2>1. proc'[q] = proc[q] /\ proc[q].inv \in InviteId \cup {None} /\ proc[q].inv # i
        /\ OneRun(q) /\ Informed(q)
    BY PairingTypes DEF Others, Runs, PairingInv
  <2>2. CASE proc[q].inv = None
    BY <2>1, <2>2 DEF OneRun, AtLedger, Informed
  <2>3. CASE proc[q].inv \in InviteId \ {i}
    BY <2>1, <2>3 DEF OneRun
  <2> QED
    BY <2>1, <2>2, <2>3
<1>3. ASSUME NEW j \in InviteId \ {i}
      PROVE  Ticketed(j)'
  <2>1. Ticketed(j) /\ lock'[j] = lock[j] /\ queue'[j] = queue[j] /\ task'[j] = task[j]
        /\ report'[j] = report[j]
    BY DEF Tickets
  <2>2. proc[p].inv # j
    BY NoneIsNoId
  <2>3. Job!AtWork(j) => Job!AtWork(j)'
    <3>1. CASE Job!AtWork(j)
      <4>1. lock[j] \in Procs /\ proc[lock[j]].inv = j
        BY <3>1, PairingTypes DEF Job!AtWork
      <4>2. proc'[lock[j]] = proc[lock[j]]
        BY <2>2, <4>1 DEF Others
      <4> QED
        BY <2>1, <3>1, <4>1, <4>2 DEF Job!AtWork
    <3> QED
      BY <3>1
  <2>4. HasTicket(j) => HasTicket(j)'
    BY <2>1 DEF HasTicket
  <2>5. ASSUME NEW q \in Procs, proc[q].inv = j, proc[q].stage = "ledger", Job!LastAttempt(q)
        PROVE  proc'[q].inv = j /\ proc'[q].stage = "ledger" /\ Job!LastAttempt(q)'
    BY <2>2, <2>5 DEF Others, Job!LastAttempt
  <2> QED
    BY <2>1, <2>3, <2>4, <2>5 DEF Ticketed
<1>4. Ticketed(i)'
  <2>1. queue'[i].state = "active" => Job!AtWork(i)'
    BY PairingAssumption DEF Job!AtWork
  <2> QED
    BY <2>1 DEF Ticketed
<1> QED
  BY <1>2, <1>3, <1>4 DEF Runs, Tickets

LEMMA TicketHandle ==
  ASSUME PairingInv, TicketInv, Handle
  PROVE  TicketInv'
<1>1. [Next]_vars /\ UNCHANGED <<proc, lock, deployment>> /\ (AllUp' <=> AllUp)
  BY DEF Handle, AllUp
<1> SUFFICES ASSUME AllUp
             PROVE  Runs' /\ Tickets'
  BY <1>1 DEF TicketInv, Runs, Tickets
<1>2. Runs /\ Tickets /\ \A i \in InviteId : Enqueues(i)
  BY <1>1, NextEnqueues DEF TicketInv, Runs, Tickets, PairingInv
<1>3. ASSUME NEW i \in InviteId, NEW k \in DOMAIN task[i]
      PROVE  k \in DOMAIN task'[i] /\ task'[i][k] = task[i][k]
  <2>1. task[i] \in Seq(TaskStatus) /\ "pending" \in TaskStatus
    BY PairingTypes DEF TaskStatus
  <2>2. k \in 1 .. Len(task[i])
    BY <2>1
  <2>3. CASE task'[i] = Append(task[i], "pending")
    BY <2>1, <2>2, <2>3
  <2> QED
    BY <1>2, <2>3 DEF Enqueues
<1>4. ASSUME NEW p \in Procs PROVE OneRun(p)'
  <2>1. OneRun(p) /\ Informed(p) /\ proc[p].inv \in InviteId \cup {None}
    BY <1>2, PairingTypes DEF Runs, PairingInv
  <2>2. CASE proc[p].inv = None
    BY <1>1, <2>1, <2>2 DEF OneRun, AtLedger, Informed
  <2>3. ASSUME NEW i \in InviteId, proc[p].inv = i
        PROVE  OneRun(p)'
    <3>1. i # None /\ lock[i] = p /\ queue[i].state = "active"
      BY <2>1, <2>3, NoneIsNoId DEF OneRun
    <3>2. queue'[i] = queue[i]
      BY <1>2, <3>1 DEF Enqueues
    <3> QED
      BY <1>1, <1>3, <2>1, <2>3, <3>1, <3>2 DEF OneRun
  <2> QED
    BY <2>1, <2>2, <2>3
<1>5. ASSUME NEW i \in InviteId PROVE Ticketed(i)'
  <2>1. Ticketed(i) /\ Enqueues(i)
    BY <1>2 DEF Tickets
  <2>2. Job!AtWork(i)' <=> Job!AtWork(i)
    BY <1>1 DEF Job!AtWork
  <2>3. HasTicket(i) => HasTicket(i)'
    BY <1>3 DEF HasTicket
  <2>4. report'[i].status = "failed" => report[i].status = "failed"
    BY <2>1 DEF Enqueues, NoReport
  <2>5. queue'[i].state = "active" => queue[i].state = "active"
    BY <2>1 DEF Enqueues
  <2> QED
    BY <1>1, <2>1, <2>2, <2>3, <2>4, <2>5 DEF Ticketed, Job!LastAttempt
<1> QED
  BY <1>4, <1>5 DEF Runs, Tickets

(* A run that goes on.                                                     *)
LEMMA TicketGoes ==
  ASSUME PairingInv, Runs, Tickets,
         NEW p \in Procs, NEW i \in InviteId, proc[p].inv = i, NEW stage,
         Others(p), proc'[p].inv = i, proc'[p].stage = stage, proc'[p].attempt = proc[p].attempt,
         UNCHANGED <<queue, lock>>,
         \A j \in InviteId \ {i} : task'[j] = task[j] /\ report'[j] = report[j],
         stage \in AtLedger =>
           proc'[p].task \in DOMAIN task'[i] /\ task'[i][proc'[p].task] # "failed",
         report'[i].status = "failed" =>
           HasTicket(i)' \/ (stage = "ledger" /\ Job!LastAttempt(p))
  PROVE  Runs' /\ Tickets'
<1>1. lock[i] = p /\ queue[i].state = "active"
  BY NoneIsNoId DEF Runs, OneRun
<1>2. \A q \in Procs \ {p} : proc[q].inv # i
  BY OnlyRun
<1>3. OneRun(p)'
  BY <1>1 DEF OneRun
<1>4. Job!LastAttempt(p) => Job!LastAttempt(p)'
  BY DEF Job!LastAttempt
<1> QED
  BY <1>1, <1>2, <1>3, <1>4, TicketStep

(* One that goes on without a write.                                       *)
LEMMA TicketQuiet ==
  ASSUME PairingInv, Runs, Tickets,
         NEW p \in Procs, NEW i \in InviteId, proc[p].inv = i, NEW stage \in Job!Stages,
         proc[p].stage # "ledger",
         Others(p), proc'[p].inv = i, proc'[p].stage = stage, proc'[p].attempt = proc[p].attempt,
         UNCHANGED <<queue, lock, task, report>>,
         stage \in AtLedger =>
           proc'[p].task \in DOMAIN task[i] /\ task[i][proc'[p].task] # "failed"
  PROVE  Runs' /\ Tickets'
<1>1. report[i].status = "failed" => HasTicket(i)'
  BY TicketBefore DEF HasTicket
<1> QED
  BY <1>1, TicketGoes

(* One that ends.                                                          *)
LEMMA TicketEnds ==
  ASSUME PairingInv, Runs, Tickets,
         NEW p \in Procs, NEW i \in InviteId, proc[p].inv = i, proc[p].stage # "ledger",
         Job!Release(p), UNCHANGED <<task, report>>, NEW job, job.state # "active",
         queue' = [queue EXCEPT ![i] = job], lock' = [lock EXCEPT ![i] = None]
  PROVE  Runs' /\ Tickets'
<1>1. Others(p) /\ proc'[p].inv = None /\ proc'[p].stage = "idle"
  BY ReleaseRun
<1>2. /\ queue'[i].state # "active"
      /\ \A j \in InviteId \ {i} : queue'[j] = queue[j] /\ lock'[j] = lock[j]
  BY PairingTypes
<1>3. \A q \in Procs \ {p} : proc[q].inv # i
  BY OnlyRun
<1>4. OneRun(p)'
  BY <1>1 DEF OneRun, AtLedger
<1>5. report[i].status = "failed" => HasTicket(i)'
  BY TicketBefore DEF HasTicket
<1> QED
  BY <1>1, <1>2, <1>3, <1>4, <1>5, TicketStep

LEMMA TicketTake ==
  ASSUME PairingInv, Runs, Tickets, NEW p \in Procs, NEW i \in InviteId, Job!Take(p, i)
  PROVE  Runs' /\ Tickets'
<1> DEFINE r == [Job!NoRun EXCEPT !.stage = "find", !.inv = i, !.attempt = queue[i].made + 1]
<1>1. /\ proc' = [proc EXCEPT ![p] = r] /\ queue' = [queue EXCEPT ![i].state = "active"]
      /\ lock' = [lock EXCEPT ![i] = p] /\ UNCHANGED <<report, task>>
      /\ queue[i].state = "waiting" /\ proc[p] = Job!NoRun
  BY DEF Job!Take
<1>2. r.stage = "find" /\ r.inv = i /\ proc[p].inv = None
  BY <1>1 DEF Job!NoRun
<1> HIDE DEF r
<1>3. proc'[p] = r /\ Others(p)
  BY <1>1, PairingTypes DEF Others
<1>4. /\ lock'[i] = p /\ queue'[i].state = "active"
      /\ \A j \in InviteId \ {i} : queue'[j] = queue[j] /\ lock'[j] = lock[j]
  BY <1>1, PairingTypes DEF BullJob
<1>5. \A q \in Procs : proc[q].inv # i
  BY <1>1, NoneIsNoId DEF Runs, OneRun
<1>6. OneRun(p)'
  BY <1>2, <1>3, <1>4 DEF OneRun, AtLedger
<1>7. report[i].status = "failed" => HasTicket(i)'
  BY <1>1, <1>5 DEF Tickets, Ticketed, HasTicket
<1> QED
  BY <1>1, <1>2, <1>3, <1>4, <1>5, <1>6, <1>7, TicketStep

LEMMA TicketReads ==
  ASSUME PairingInv, Runs, Tickets, NEW p \in Procs
  PROVE  /\ Job!FindLedger(p) => Runs' /\ Tickets'
         /\ Job!ReadReport(p) => Runs' /\ Tickets'
         /\ Job!Collect(p) => Runs' /\ Tickets'
         /\ Job!Compute(p) => Runs' /\ Tickets'
         /\ Job!InvalidateViewCache(p) => Runs' /\ Tickets'
         /\ Job!MarkInviteUnlocked(p) => Runs' /\ Tickets'
<1>1. proc[p].stage # "idle" => proc[p].inv \in InviteId
  BY RunInvite
<1>2. ASSUME proc[p].stage \in AtLedger \ {"ledger"}, NEW stage \in Job!Stages, Goes(p, stage),
             UNCHANGED <<queue, lock, task, report>>
      PROVE  Runs' /\ Tickets'
  <2>1. PICK i \in InviteId : proc[p].inv = i
    BY <1>1, <1>2 DEF AtLedger
  <2>2. proc[p].task \in DOMAIN task[i] /\ task[i][proc[p].task] # "failed"
    BY <1>2, <2>1 DEF Runs, OneRun
  <2> QED
    BY <1>2, <2>1, <2>2, TicketQuiet DEF Goes
<1>3. ASSUME Job!FindLedger(p) PROVE Runs' /\ Tickets'
  <2>1. proc[p].stage = "find" /\ UNCHANGED <<report, task, queue, lock>>
    BY <1>3 DEF Job!FindLedger, Job!At, Job!queueVars
  <2>2. PICK i \in InviteId : proc[p].inv = i
    BY <1>1, <2>1
  <2>3. CASE Job!Goto(p, "insert")
    <3>1. Goes(p, "insert") /\ "insert" \in Job!Stages /\ "insert" \notin AtLedger
      BY <2>3, GotoGoes, SMTT(30) DEF Job!Stages, AtLedger
    <3> QED
      BY <2>1, <2>2, <3>1, TicketQuiet DEF Goes
  <2>4. ASSUME NEW k \in DOMAIN task[i], task[i][k] \in {"pending", "running"},
               proc' = [proc EXCEPT ![p].stage = "running", ![p].task = k]
        PROVE  Runs' /\ Tickets'
    <3>1. k \in Nat
      BY <2>4, PairingTypes
    <3>2. /\ Others(p) /\ proc'[p].stage = "running" /\ proc'[p].inv = i /\ proc'[p].task = k
          /\ proc'[p].attempt = proc[p].attempt
      BY <2>2, <2>4, <3>1, RowGoes
    <3> QED
      BY <2>1, <2>2, <2>4, <3>2, TicketQuiet DEF Job!Stages
  <2> QED
    BY <1>3, <2>2, <2>3, <2>4 DEF Job!FindLedger, Job!OpenTasks, Job!Job
<1>4. ASSUME Job!ReadReport(p) PROVE Runs' /\ Tickets'
  <2>1. PICK stage \in {"unlock", "collect"} :
          /\ proc[p].stage = "read" /\ Job!Goto(p, stage) /\ UNCHANGED <<report, task, queue, lock>>
    BY <1>4 DEF Job!ReadReport, Job!At, Job!queueVars
  <2> QED
    BY <1>2, <2>1, GotoGoes DEF Job!Stages, AtLedger
<1>5. ASSUME Job!Collect(p) PROVE Runs' /\ Tickets'
  <2>1. proc[p].stage = "collect" /\ UNCHANGED <<report, task, queue, lock>>
    BY <1>5 DEF Job!Collect, Job!At, Job!queueVars
  <2>2. CASE Job!Goto(p, "catch")
    BY <1>2, <2>1, <2>2, GotoGoes DEF Job!Stages, AtLedger
  <2>3. ASSUME NEW b, proc' = [proc EXCEPT ![p].stage = "compute", ![p].basis = b]
        PROVE  Runs' /\ Tickets'
    <3>1. /\ Others(p) /\ proc'[p].stage = "compute" /\ proc'[p].inv = proc[p].inv
          /\ proc'[p].task = proc[p].task /\ proc'[p].attempt = proc[p].attempt
      BY <2>3, PairingTypes DEF Others, Job!Run
    <3>2. PICK i \in InviteId : proc[p].inv = i
      BY <1>1, <2>1
    <3>3. proc[p].task \in DOMAIN task[i] /\ task[i][proc[p].task] # "failed"
      BY <2>1, <3>2 DEF Runs, OneRun, AtLedger
    <3> QED
      BY <2>1, <3>1, <3>2, <3>3, TicketQuiet DEF Job!Stages
  <2> QED
    BY <1>5, <2>2, <2>3 DEF Job!Collect, Job!Job
<1>6. ASSUME Job!Compute(p) PROVE Runs' /\ Tickets'
  <2>1. PICK stage \in {"pend", "catch"} :
          /\ proc[p].stage = "compute" /\ Job!Goto(p, stage) /\ UNCHANGED <<report, task, queue, lock>>
    BY <1>6 DEF Job!Compute, Job!At, Job!queueVars
  <2> QED
    BY <1>2, <2>1, GotoGoes DEF Job!Stages, AtLedger
<1>7. ASSUME Job!InvalidateViewCache(p) PROVE Runs' /\ Tickets'
  BY <1>2, <1>7, GotoGoes DEF Job!InvalidateViewCache, Job!At, Job!queueVars, Job!Stages, AtLedger
<1>8. ASSUME Job!MarkInviteUnlocked(p) PROVE Runs' /\ Tickets'
  BY <1>2, <1>8, GotoGoes DEF Job!MarkInviteUnlocked, Job!At, Job!queueVars, Job!Stages, AtLedger
<1> QED
  BY <1>3, <1>4, <1>5, <1>6, <1>7, <1>8

(* The ledger row, and the report.                                         *)
LEMMA TicketWrites ==
  ASSUME PairingInv, Runs, Tickets, NEW p \in Procs
  PROVE  /\ Job!InsertLedger(p) => Runs' /\ Tickets'
         /\ Job!MarkRunning(p) => Runs' /\ Tickets'
         /\ Job!MarkDone(p) => Runs' /\ Tickets'
         /\ Job!RecordLedger(p) => Runs' /\ Tickets'
         /\ Job!Pend(p) => Runs' /\ Tickets'
         /\ Job!MarkReady(p) => Runs' /\ Tickets'
         /\ Job!RecordFailure(p) => Runs' /\ Tickets'
<1> SUFFICES ASSUME proc[p].stage # "idle"
             PROVE  /\ Job!InsertLedger(p) => Runs' /\ Tickets'
                    /\ Job!MarkRunning(p) => Runs' /\ Tickets'
                    /\ Job!MarkDone(p) => Runs' /\ Tickets'
                    /\ Job!RecordLedger(p) => Runs' /\ Tickets'
                    /\ Job!Pend(p) => Runs' /\ Tickets'
                    /\ Job!MarkReady(p) => Runs' /\ Tickets'
                    /\ Job!RecordFailure(p) => Runs' /\ Tickets'
  BY DEF Job!InsertLedger, Job!MarkRunning, Job!MarkDone, Job!RecordLedger, Job!Pend,
         Job!MarkReady, Job!RecordFailure, Job!At
<1>1. PICK i \in InviteId : proc[p].inv = i
  BY RunInvite
<1> DEFINE t == task[i]  row == proc[p].task
<1>2. t \in Seq(TaskStatus) /\ task \in [InviteId -> Seq(TaskStatus)] /\ row \in Nat
  BY PairingTypes
<1>3. ASSUME NEW s, task' = [task EXCEPT ![i][row] = s]
      PROVE  /\ \A j \in InviteId \ {i} : task'[j] = task[j]
             /\ DOMAIN task'[i] = DOMAIN t
             /\ \A k \in DOMAIN t : task'[i][k] = IF k = row THEN s ELSE t[k]
  <2>1. \A j \in InviteId \ {i} : task'[j] = task[j]
    BY <1>2, <1>3
  <2>2. task'[i] = [t EXCEPT ![row] = s]
    BY <1>2, <1>3
  <2> HIDE DEF t
  <2> QED
    BY <1>2, <2>1, <2>2
<1>4. proc[p].stage \in AtLedger => row \in DOMAIN t /\ t[row] # "failed"
  BY <1>1 DEF Runs, OneRun
<1>5. ASSUME proc[p].stage # "ledger" \/ ~ Job!LastAttempt(p), report[i].status = "failed"
      PROVE  \E k \in DOMAIN t : t[k] = "failed"
  BY <1>1, <1>5, TicketBefore DEF HasTicket
<1>6. ASSUME Job!InsertLedger(p) PROVE Runs' /\ Tickets'
  <2>1. /\ proc[p].stage = "insert" /\ UNCHANGED <<report, queue, lock>>
        /\ task' = [task EXCEPT ![i] = Append(@, "pending")]
        /\ proc' = [proc EXCEPT ![p].stage = "running", ![p].task = Len(t) + 1]
    BY <1>1, <1>6 DEF Job!InsertLedger, Job!At, Job!InsertTask, Job!Job
  <2>2. Len(t) + 1 \in Nat
    BY <1>2
  <2>3. /\ \A j \in InviteId \ {i} : task'[j] = task[j]
        /\ task'[i] = Append(t, "pending")
    BY <1>2, <2>1
  <2>4. /\ Len(t) + 1 \in DOMAIN task'[i] /\ task'[i][Len(t) + 1] = "pending"
        /\ \A k \in DOMAIN t : k \in DOMAIN task'[i] /\ task'[i][k] = t[k]
    BY <1>2, <2>3
  <2>5. report[i].status = "failed" => HasTicket(i)'
    BY <1>5, <2>1, <2>4 DEF HasTicket
  <2>6. /\ Others(p) /\ proc'[p].stage = "running" /\ proc'[p].inv = i
        /\ proc'[p].task = Len(t) + 1 /\ proc'[p].attempt = proc[p].attempt
    BY <1>1, <2>1, <2>2, RowGoes
  <2> QED
    BY <1>1, <2>1, <2>3, <2>4, <2>5, <2>6, TicketGoes
<1>7. ASSUME NEW s \in TaskStatus \ {"failed"}, NEW stage, proc[p].stage \in AtLedger \ {"ledger"},
             task' = [task EXCEPT ![i][row] = s], Goes(p, stage), UNCHANGED <<report, queue, lock>>
      PROVE  Runs' /\ Tickets'
  <2>1. report[i].status = "failed" => HasTicket(i)'
    BY <1>3, <1>4, <1>5, <1>7 DEF HasTicket
  <2> QED
    BY <1>1, <1>3, <1>4, <1>7, <2>1, TicketGoes DEF Goes
<1>8. ASSUME Job!MarkRunning(p) PROVE Runs' /\ Tickets'
  <2>1. /\ proc[p].stage = "running" /\ UNCHANGED <<report, queue, lock>>
        /\ task' = [task EXCEPT ![i][row] = "running"] /\ Job!Goto(p, "read")
    BY <1>1, <1>8 DEF Job!MarkRunning, Job!At, Job!SetTask, Job!Job
  <2> QED
    BY <1>7, <2>1, GotoGoes DEF Job!Stages, TaskStatus, AtLedger
<1>9. ASSUME Job!MarkDone(p) PROVE Runs' /\ Tickets'
  <2>1. /\ proc[p].stage = "done" /\ UNCHANGED <<report, queue, lock>>
        /\ task' = [task EXCEPT ![i][row] = "done"] /\ Job!Goto(p, "finish")
    BY <1>1, <1>9 DEF Job!MarkDone, Job!At, Job!SetTask, Job!Job
  <2> QED
    BY <1>7, <2>1, GotoGoes DEF Job!Stages, TaskStatus, AtLedger
<1>10. ASSUME Job!RecordLedger(p) PROVE Runs' /\ Tickets'
  <2> DEFINE s == IF Job!LastAttempt(p) THEN "failed" ELSE "running"
  <2>1. /\ proc[p].stage = "ledger" /\ UNCHANGED <<report, queue, lock>>
        /\ task' = [task EXCEPT ![i][row] = s] /\ Job!Goto(p, "rethrow")
    BY <1>1, <1>10 DEF Job!RecordLedger, Job!At, Job!SetTask, Job!Job
  <2>2. Goes(p, "rethrow") /\ "rethrow" \notin AtLedger
    BY <2>1, GotoGoes DEF Job!Stages, AtLedger
  <2>3. row \in DOMAIN t /\ t[row] # "failed"
    BY <1>4, <2>1 DEF AtLedger
  <2>4. (s = "failed" /\ Job!LastAttempt(p)) \/ (s = "running" /\ ~ Job!LastAttempt(p))
    OBVIOUS
  <2> HIDE DEF s
  <2>5. report[i].status = "failed" => HasTicket(i)'
    <3>1. CASE s = "failed"
      <4>1. row \in DOMAIN task'[i] /\ task'[i][row] = "failed"
        BY <1>3, <2>1, <2>3, <3>1, ZenonT(60)
      <4> QED
        BY <4>1 DEF HasTicket
    <3>2. CASE ~ Job!LastAttempt(p)
      BY <1>3, <1>5, <2>1, <2>3, <3>2 DEF HasTicket
    <3> QED
      BY <2>4, <3>1, <3>2
  <2> QED
    BY <1>1, <1>3, <2>1, <2>2, <2>5, TicketGoes DEF Goes
<1>11. ASSUME NEW stage, proc[p].stage \in AtLedger \ {"ledger"}, Goes(p, stage),
              UNCHANGED <<task, queue, lock>>, \A j \in InviteId \ {i} : report'[j] = report[j],
              report'[i].status = "failed" =>
                report[i].status = "failed" \/ (stage = "ledger" /\ Job!LastAttempt(p))
       PROVE  Runs' /\ Tickets'
  <2>1. report'[i].status = "failed" => HasTicket(i)' \/ (stage = "ledger" /\ Job!LastAttempt(p))
    BY <1>5, <1>11 DEF HasTicket
  <2> QED
    BY <1>1, <1>4, <1>11, <2>1, TicketGoes DEF Goes
<1>12. ASSUME Job!Pend(p) PROVE Runs' /\ Tickets'
  <2> DEFINE r == [status |-> "pending", basis |-> None]
  <2>1. /\ proc[p].stage = "pend" /\ UNCHANGED <<task, queue, lock>> /\ Job!Goto(p, "ready")
        /\ report' = IF report[i].status = "none" THEN [report EXCEPT ![i] = r] ELSE report
    BY <1>1, <1>12 DEF Job!Pend, Job!At, Job!Job, Job!EnsurePending
  <2>2. r.status = "pending"
    OBVIOUS
  <2> HIDE DEF r
  <2>3. /\ \A j \in InviteId \ {i} : report'[j] = report[j]
        /\ report'[i].status = "failed" => report[i].status = "failed"
    BY <2>1, <2>2, PairingTypes
  <2> QED
    BY <1>11, <2>1, <2>3, GotoGoes DEF Job!Stages, AtLedger
<1>13. ASSUME NEW r, Job!SetReport(p, r)
       PROVE  /\ \A j \in InviteId \ {i} : report'[j] = report[j]
              /\ report'[i] = report[i] \/ report'[i] = r
  BY <1>1, <1>13, PairingTypes DEF Job!SetReport, Job!Job
<1>14. ASSUME Job!MarkReady(p) PROVE Runs' /\ Tickets'
  <2> DEFINE r == [status |-> "ready", basis |-> proc[p].basis]
  <2>1. /\ proc[p].stage = "ready" /\ UNCHANGED <<task, queue, lock>> /\ Job!Goto(p, "uncache")
        /\ Job!SetReport(p, r)
    BY <1>14 DEF Job!MarkReady, Job!At
  <2>2. r.status = "ready"
    OBVIOUS
  <2> HIDE DEF r
  <2> QED
    BY <1>11, <1>13, <2>1, <2>2, GotoGoes DEF Job!Stages, AtLedger
<1>15. ASSUME Job!RecordFailure(p) PROVE Runs' /\ Tickets'
  <2> DEFINE r == [status |-> IF Job!LastAttempt(p) THEN "failed" ELSE "pending",
                   basis  |-> report[proc[p].inv].basis]
  <2>1. /\ proc[p].stage = "catch" /\ UNCHANGED <<task, queue, lock>> /\ Job!Goto(p, "ledger")
        /\ Job!SetReport(p, r)
    BY <1>15 DEF Job!RecordFailure, Job!At, Job!Job
  <2>2. r.status = "failed" => Job!LastAttempt(p)
    OBVIOUS
  <2> HIDE DEF r
  <2> QED
    BY <1>11, <1>13, <2>1, <2>2, GotoGoes DEF Job!Stages, AtLedger
<1> QED
  BY <1>6, <1>8, <1>9, <1>10, <1>12, <1>14, <1>15

LEMMA TicketOutcomes ==
  ASSUME PairingInv, Runs, Tickets, NEW p \in Procs
  PROVE  /\ Job!Finish(p) => Runs' /\ Tickets'
         /\ Job!Rethrow(p) => Runs' /\ Tickets'
<1>1. ASSUME Job!Finish(p) PROVE Runs' /\ Tickets'
  <2>1. PICK i \in InviteId : proc[p].inv = i
    BY <1>1, RunInvite DEF Job!Finish, Job!At
  <2>2. lock[i] = p
    BY <2>1, NoneIsNoId DEF Runs, OneRun
  <2> QED
    BY <1>1, <2>1, <2>2, TicketEnds DEF Job!Finish, Job!Job, Job!At, Job!NoJob
<1>2. ASSUME Job!Rethrow(p) PROVE Runs' /\ Tickets'
  <2>1. PICK i \in InviteId : proc[p].inv = i
    BY <1>2, RunInvite DEF Job!Rethrow, Job!At
  <2>2. lock[i] = p
    BY <2>1, NoneIsNoId DEF Runs, OneRun
  <2> DEFINE made == queue[i].made + 1
             job == IF made >= Attempts THEN Job!NoJob
                    ELSE [queue[i] EXCEPT !.state = "waiting", !.made = made]
  <2>3. /\ UNCHANGED <<report, task>> /\ Job!Release(p) /\ proc[p].stage = "rethrow"
        /\ queue' = [queue EXCEPT ![i] = job] /\ lock' = [lock EXCEPT ![i] = None]
    BY <1>2, <2>1, <2>2 DEF Job!Rethrow, Job!Job, Job!At
  <2>4. job.state # "active"
    BY PairingTypes DEF BullJob, Job!NoJob
  <2> HIDE DEF job
  <2> QED
    BY <2>1, <2>3, <2>4, TicketEnds
<1> QED
  BY <1>1, <1>2

LEMMA TicketConsume ==
  ASSUME PairingInv, TicketInv, Consume
  PROVE  TicketInv'
<1>1. AllUp' <=> AllUp
  BY DEF Consume, handlerVars, AllUp
<1> SUFFICES ASSUME AllUp
             PROVE  Runs' /\ Tickets'
  BY <1>1 DEF TicketInv, Runs, Tickets
<1>2. Runs /\ Tickets
  BY DEF TicketInv, Runs, Tickets
<1>3. ASSUME NEW p \in Procs PROVE ~ Job!Throw(p) /\ ~ Job!Crash(p)
  BY DEF AllUp, Job!Throw, Job!Crash
<1>4. ASSUME NEW i \in InviteId PROVE ~ Job!Stall(i)
  BY <1>2 DEF AllUp, Job!Stall, Tickets, Ticketed
<1>5. ASSUME NEW p \in Procs, Job!Work(p) PROVE Runs' /\ Tickets'
  BY <1>2, <1>5, TicketReads, TicketWrites, TicketOutcomes DEF Job!Work
<1>6. ASSUME NEW p \in Procs, NEW i \in InviteId, Job!Take(p, i) PROVE Runs' /\ Tickets'
  BY <1>2, <1>6, TicketTake
<1> QED
  BY <1>3, <1>4, <1>5, <1>6 DEF Consume, Job!JobNext

LEMMA InitTicket == PairingInit => TicketInv
<1>1. PairingInit => (\A p \in Procs : OneRun(p)) /\ \A i \in InviteId : Ticketed(i)
  BY DEF PairingInit, Init, QueueInit, Job!JobInit, Job!NoRun, OneRun, AtLedger, Ticketed, NoReport, NoJob
<1> QED
  BY <1>1 DEF TicketInv

LEMMA NextTicket == PairingInv /\ TicketInv /\ [PairingNext]_pairingVars => TicketInv'
<1>1. TicketInv /\ UNCHANGED pairingVars => TicketInv'
  BY DEF pairingVars, vars, tables, queueVars, TicketInv, AllUp, OneRun, Ticketed, HasTicket,
         Job!AtWork, Job!LastAttempt
<1> QED
  BY <1>1, TicketHandle, TicketConsume DEF PairingNext

(* A report that failed for good has a failed ledger row, the work order   *)
(* of whoever mends it, for any number of consumers, handlers and attempts *)
(* while the database calls of the catch block go through.                 *)
THEOREM FailuresHaveTickets == PairingSpec => []FailedHasTicket
<1>1. TicketInv => FailedHasTicket
  BY DEF TicketInv, Ticketed, HasTicket, FailedHasTicket, Quiet
<1> QED
  BY <1>1, InitTicket, NextTicket, PairingAlways, PTL DEF PairingSpec
=============================================================================
