---------------------------- MODULE ReportQueue ----------------------------
(***************************************************************************)
(* What the invite handlers and the report worker share about one          *)
(* pairing's report: its row in table `report`, its ledger rows in table   *)
(* `job_task`, and the BullMQ job whose jobId is report-<inviteId>.        *)
(*                                                                         *)
(* The two modules that act on this state (Invite enqueues, ReportJob      *)
(* consumes) both extend this one.  BullMQ itself is external: AddJob is   *)
(* what the code relies on, that adding a job under an id that is still in *)
(* the queue does nothing.                                                 *)
(***************************************************************************)
EXTENDS Naturals, Sequences

CONSTANTS
  InviteId,  (* Ids of table invite; auto-increment never reuses one. *)
  None       (* SQL NULL, for an id, a user or a payload.             *)

ASSUME NoneIsNoId == None \notin InviteId

VARIABLES
  report,    (* report[i]: the report row of invite i (uk_invite).     *)
  task,      (* task[i]: statuses of the job_task rows of i, by id.    *)
  queue      (* queue[i]: the BullMQ job report-<i>.                   *)

queueVars == <<report, task, queue>>

-----------------------------------------------------------------------------

(* What an invitee's answers are: filled in on the invite sheet, or copied *)
(* from an earlier single-person sheet.                                    *)
Answers == {"own", "reused"}

ASSUME NoneIsNoAnswer == None \notin Answers

(* basis is the invitee snapshot the stored conclusions were computed      *)
(* from, None while the row only holds the empty structures.               *)
Report == [status : {"none", "pending", "ready", "failed"},
           basis  : Answers \cup {None}]

NoReport == [status |-> "none", basis |-> None]

TaskStatus == {"pending", "running", "done", "failed"}

(* made is BullMQ's attemptsMade, stalls its stalled counter.              *)
BullJob == [state  : {"absent", "waiting", "active"},
            made   : Nat,
            stalls : Nat]

NoJob == [state |-> "absent", made |-> 0, stalls |-> 0]

QueueTypeOK ==
  /\ report \in [InviteId -> Report]
  /\ task   \in [InviteId -> Seq(TaskStatus)]
  /\ queue  \in [InviteId -> BullJob]

QueueInit ==
  /\ report = [i \in InviteId |-> NoReport]
  /\ task   = [i \in InviteId |-> << >>]
  /\ queue  = [i \in InviteId |-> NoJob]

-----------------------------------------------------------------------------

(* ReportRecordService.ensurePending: the unique key turns a concurrent    *)
(* insert into a re-read, so find-or-insert has one outcome.               *)
EnsurePending(i) ==
  report' = IF report[i].status = "none"
            THEN [report EXCEPT ![i] = [status |-> "pending", basis |-> None]]
            ELSE report

(* The rows JobTaskService.open considers still in progress.               *)
OpenTasks(i) == {k \in DOMAIN task[i] : task[i][k] \in {"pending", "running"}}

(* The INSERT of JobTaskService.open; its SELECT is a step of the caller,  *)
(* and no unique key ties the two together.                                *)
InsertTask(i) == task' = [task EXCEPT ![i] = Append(@, "pending")]

(* reportQueue.add with jobId report-<i>.                                  *)
AddJob(i) ==
  queue' = IF queue[i].state = "absent"
           THEN [queue EXCEPT ![i] = [state |-> "waiting", made |-> 0, stalls |-> 0]]
           ELSE queue

=============================================================================
