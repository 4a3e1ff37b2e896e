------------------------------ MODULE ReportJob ------------------------------
(***************************************************************************)
(* The consumer of the report queue: report-generate.processor.ts and the  *)
(* DoubleReportGeneratorService, ReportRecordService and JobTaskService    *)
(* calls it makes, as steps of consumer processes.  One step is one await. *)
(* It acts on the pairing's rows (invite, snapshot), which Invite owns;    *)
(* module Pairing runs the two together.                                   *)
(*                                                                         *)
(* BullMQ is external.  Modelled of it: a job is active for the consumer   *)
(* that holds its lock; a failed attempt goes back to the queue until the  *)
(* attempts are used up; a lock that is not renewed makes the job stalled, *)
(* and it is given out again once, the second time it is dropped without   *)
(* the processor being called; jobs are removed when they end.             *)
(***************************************************************************)
EXTENDS ReportQueue

CONSTANTS
  Procs,     (* Consumer processes, one per server instance.                *)
  Attempts   (* REPORT_GENERATE_ATTEMPTS                                    *)

(* generate: a rule, a template or a snapshot is unusable; database: any   *)
(* call to MySQL or Redis throws; crash: the process dies; stall: the lock *)
(* is lost while the process is still at work.                             *)
AllFaults == {"generate", "database", "crash", "stall"}

VARIABLES
  faults,    (* What may go wrong: a subset of AllFaults, never changed.    *)
  invite,    (* Table invite (the worker reads and moves the status).       *)
  snapshot,  (* Table answer_snapshot.                                      *)
  proc,      (* proc[p]: the run consumer p is in.                          *)
  lock       (* lock[i]: the consumer BullMQ considers at work on job i.    *)

jobVars == <<faults, queueVars, invite, snapshot, proc, lock>>

Stages == {"idle", "find", "insert", "running", "read", "collect", "compute",
           "pend", "ready", "uncache", "unlock", "done", "finish", "catch",
           "ledger", "rethrow"}

(* The stages inside the try block of process().                           *)
Guarded == {"read", "collect", "compute", "pend", "ready", "uncache", "unlock", "done"}

Run == [stage   : Stages,
        inv     : InviteId \cup {None},
        task    : Nat,
        attempt : Nat,
        basis   : Answers \cup {None}]

NoRun == [stage |-> "idle", inv |-> None, task |-> 0, attempt |-> 0, basis |-> None]

JobTypeOK ==
  /\ proc \in [Procs -> Run]
  /\ lock \in [InviteId -> Procs \cup {None}]

JobInit ==
  /\ proc = [p \in Procs |-> NoRun]
  /\ lock = [i \in InviteId |-> None]

At(p, stage) == proc[p].stage = stage
Goto(p, stage) == proc' = [proc EXCEPT ![p].stage = stage]
Job(p) == proc[p].inv
LastAttempt(p) == proc[p].attempt >= Attempts

-----------------------------------------------------------------------------
(* process(): take the job, find or open its ledger row, mark it running.  *)

Take(p, i) ==
  /\ proc[p] = NoRun
  /\ queue[i].state = "waiting"
  /\ queue' = [queue EXCEPT ![i].state = "active"]
  /\ lock' = [lock EXCEPT ![i] = p]
  /\ proc' = [proc EXCEPT ![p] =
       [NoRun EXCEPT !.stage = "find", !.inv = i, !.attempt = queue[i].made + 1]]
  /\ UNCHANGED <<invite, snapshot, report, task>>

(* The newest of the rows in progress, if there is one.                    *)
FindLedger(p) ==
  LET open == OpenTasks(Job(p)) IN
  /\ At(p, "find")
  /\ \/ open = {} /\ Goto(p, "insert")
     \/ \E k \in open :
          /\ \A m \in open : m <= k
          /\ proc' = [proc EXCEPT ![p].stage = "running", ![p].task = k]
  /\ UNCHANGED <<queueVars, invite, snapshot, lock>>

InsertLedger(p) ==
  /\ At(p, "insert")
  /\ InsertTask(Job(p))
  /\ proc' = [proc EXCEPT ![p].stage = "running", ![p].task = Len(task[Job(p)]) + 1]
  /\ UNCHANGED <<report, queue, invite, snapshot, lock>>

(* The ledger row is written by id, whatever its status has become.        *)
SetTask(p, status) == task' = [task EXCEPT ![Job(p)][proc[p].task] = status]

MarkRunning(p) ==
  /\ At(p, "running")
  /\ SetTask(p, "running")
  /\ Goto(p, "read")
  /\ UNCHANGED <<report, queue, invite, snapshot, lock>>

-----------------------------------------------------------------------------
(* generate()                                                              *)

(* Mutant: a report row is enough, whatever its status.                    *)
ReadReportExists(p) ==
  /\ At(p, "read")
  /\ Goto(p, IF report[Job(p)].status # "none" THEN "unlock" ELSE "collect")
  /\ UNCHANGED <<queueVars, invite, snapshot, lock>>

(* A ready report is not computed again, only the invite is unlocked.      *)
ReadReport(p) ==
  /\ At(p, "read")
  /\ Goto(p, IF report[Job(p)].status = "ready" THEN "unlock" ELSE "collect")
  /\ UNCHANGED <<queueVars, invite, snapshot, lock>>

(* Mutant: a missing snapshot does not stop the computation.               *)
CollectAnyway(p) ==
  /\ At(p, "collect")
  /\ proc' = [proc EXCEPT ![p].stage = "compute", ![p].basis = snapshot[Job(p)].invitee]
  /\ UNCHANGED <<queueVars, invite, snapshot, lock>>

(* The invite and both snapshots, or the attempt fails.                    *)
Collect(p) ==
  LET s == snapshot[Job(p)] IN
  /\ At(p, "collect")
  /\ IF invite[Job(p)].status # "none" /\ s.initiator /\ s.invitee # None
     THEN proc' = [proc EXCEPT ![p].stage = "compute", ![p].basis = s.invitee]
     ELSE Goto(p, "catch")
  /\ UNCHANGED <<queueVars, invite, snapshot, lock>>

(* Scale bundle, scoring rule, template, nicknames, buildDoubleReportData. *)
Compute(p) ==
  /\ At(p, "compute")
  /\ Goto(p, "pend") \/ ("generate" \in faults /\ Goto(p, "catch"))
  /\ UNCHANGED <<queueVars, invite, snapshot, lock>>

Pend(p) ==
  /\ At(p, "pend")
  /\ EnsurePending(Job(p))
  /\ Goto(p, "ready")
  /\ UNCHANGED <<task, queue, invite, snapshot, lock>>

(* An UPDATE: no row, nothing written, and nobody notices.                 *)
SetReport(p, r) ==
  report' = IF report[Job(p)].status = "none" THEN report
            ELSE [report EXCEPT ![Job(p)] = r]

MarkReady(p) ==
  /\ At(p, "ready")
  /\ SetReport(p, [status |-> "ready", basis |-> proc[p].basis])
  /\ Goto(p, "uncache")
  /\ UNCHANGED <<task, queue, invite, snapshot, lock>>

(* invalidateViewCache: the cached views are not modelled, the await is.   *)
InvalidateViewCache(p) ==
  /\ At(p, "uncache")
  /\ Goto(p, "unlock")
  /\ UNCHANGED <<queueVars, invite, snapshot, lock>>

MarkInviteUnlocked(p) ==
  LET i == Job(p) IN
  /\ At(p, "unlock")
  /\ invite' = IF invite[i].status = "completed"
               THEN [invite EXCEPT ![i].status = "report_unlocked"] ELSE invite
  /\ Goto(p, "done")
  /\ UNCHANGED <<queueVars, snapshot, lock>>

MarkDone(p) ==
  /\ At(p, "done")
  /\ SetTask(p, "done")
  /\ Goto(p, "finish")
  /\ UNCHANGED <<report, queue, invite, snapshot, lock>>

-----------------------------------------------------------------------------
(* The catch block, and what BullMQ does with the outcome.                 *)

(* Inside the try block a throw runs the catch block; before it and in it, *)
(* the error leaves process() with what was not written yet left unwritten.*)
Throw(p) ==
  /\ "database" \in faults
  /\ proc[p].stage \notin {"idle", "finish", "rethrow"}
  /\ Goto(p, IF proc[p].stage \in Guarded THEN "catch" ELSE "rethrow")
  /\ UNCHANGED <<queueVars, invite, snapshot, lock>>

(* Mutant: the last attempt leaves the report pending, like the others.    *)
RecordRetryAlways(p) ==
  /\ At(p, "catch")
  /\ SetReport(p, [report[Job(p)] EXCEPT !.status = "pending"])
  /\ Goto(p, "ledger")
  /\ UNCHANGED <<task, queue, invite, snapshot, lock>>

(* markFailed on the last attempt, markRetrying before it: the status is   *)
(* written whatever it is, the conclusions stay.                           *)
RecordFailure(p) ==
  LET basis == report[Job(p)].basis IN
  /\ At(p, "catch")
  /\ SetReport(p, [status |-> IF LastAttempt(p) THEN "failed" ELSE "pending",
                   basis  |-> basis])
  /\ Goto(p, "ledger")
  /\ UNCHANGED <<task, queue, invite, snapshot, lock>>

(* Mutant: the ledger row never reaches its final status.                  *)
RecordLedgerRunning(p) ==
  /\ At(p, "ledger")
  /\ SetTask(p, "running")
  /\ Goto(p, "rethrow")
  /\ UNCHANGED <<report, queue, invite, snapshot, lock>>

RecordLedger(p) ==
  /\ At(p, "ledger")
  /\ SetTask(p, IF LastAttempt(p) THEN "failed" ELSE "running")
  /\ Goto(p, "rethrow")
  /\ UNCHANGED <<report, queue, invite, snapshot, lock>>

Release(p) == proc' = [proc EXCEPT ![p] = NoRun]

(* BullMQ ignores the outcome of a run that lost its lock.                 *)
Finish(p) ==
  LET i == Job(p) IN
  /\ At(p, "finish")
  /\ IF lock[i] = p
     THEN /\ queue' = [queue EXCEPT ![i] = NoJob]
          /\ lock' = [lock EXCEPT ![i] = None]
     ELSE UNCHANGED <<queue, lock>>
  /\ Release(p)
  /\ UNCHANGED <<report, task, invite, snapshot>>

(* removeOnFail once attemptsMade reaches attempts, else another attempt.  *)
Rethrow(p) ==
  LET i == Job(p)  made == queue[i].made + 1 IN
  /\ At(p, "rethrow")
  /\ IF lock[i] = p
     THEN /\ queue' = [queue EXCEPT ![i] =
                IF made >= Attempts THEN NoJob
                ELSE [@ EXCEPT !.state = "waiting", !.made = made]]
          /\ lock' = [lock EXCEPT ![i] = None]
     ELSE UNCHANGED <<queue, lock>>
  /\ Release(p)
  /\ UNCHANGED <<report, task, invite, snapshot>>

-----------------------------------------------------------------------------

Crash(p) ==
  /\ "crash" \in faults
  /\ proc[p] # NoRun
  /\ Release(p)
  /\ UNCHANGED <<queueVars, invite, snapshot, lock>>

AtWork(i) == lock[i] # None /\ proc[lock[i]].inv = i

(* The stalled check finds an active job without a renewed lock.           *)
Stall(i) ==
  /\ queue[i].state = "active"
  /\ AtWork(i) => "stall" \in faults
  /\ queue' = [queue EXCEPT ![i] =
       IF @.stalls > 0 THEN NoJob ELSE [@ EXCEPT !.state = "waiting", !.stalls = 1]]
  /\ lock' = [lock EXCEPT ![i] = None]
  /\ UNCHANGED <<report, task, invite, snapshot, proc>>

(* The next await of consumer p.                                           *)
Work(p) ==
  \/ FindLedger(p) \/ InsertLedger(p) \/ MarkRunning(p)
  \/ ReadReport(p) \/ Collect(p)      \/ Compute(p)  \/ Pend(p)
  \/ MarkReady(p)  \/ InvalidateViewCache(p) \/ MarkInviteUnlocked(p) \/ MarkDone(p)
  \/ RecordFailure(p) \/ RecordLedger(p) \/ Finish(p) \/ Rethrow(p)

JobNext ==
  \/ \E p \in Procs, i \in InviteId : Take(p, i)
  \/ \E p \in Procs : Work(p)
  \/ \E p \in Procs : Throw(p)
  \/ \E p \in Procs : Crash(p)
  \/ \E i \in InviteId : Stall(i)
=============================================================================
