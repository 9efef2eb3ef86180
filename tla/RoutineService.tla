---------------------------- MODULE RoutineService ----------------------------
(***************************************************************************)
(* Control services: RoutineService.mutateRoutine() and                    *)
(* JobService.mutate() of backend/src/control, called by concurrent        *)
(* clients over REST, MCP and a persona's own tools, with the start of the *)
(* process in server.ts.  Composes ControlOperations and RoutineScheduler. *)
(*                                                                         *)
(* A routine's transaction commits first; the cron task in memory follows  *)
(* when the call goes on.  A step is what runs between two awaits.         *)
(***************************************************************************)
EXTENDS ControlOperations, RoutineScheduler, Naturals

CONSTANTS
  Clients,      \* concurrent calls into the services
  EarlyClients, \* the worker's tools: they run as soon as worker.start() ran
  DbFails,      \* whether a statement may fail
  Crashes       \* whether the process may die

ASSUME ServiceAssumption ==
  /\ EarlyClients \subseteq Clients
  /\ DbFails \in BOOLEAN /\ Crashes \in BOOLEAN

VARIABLES
  row,    \* the routines table
  boot,   \* server.ts between worker.start() and createApp()
  rows,   \* the result of its listRoutines()
  call,   \* the locals of each call
  effect, \* ghost: durable effects of each key, commits or jobs queued
  drift   \* ghost: why tasks may differ from rows: a failed schedule, a race

serviceVars == <<row, boot, rows, call, effect, drift>>
vars == <<op, audit, schedulerVars, serviceVars>>

\* Actions of a request.  "job" stands for the four operations of JobService,
\* whose effect is one transaction of JobAttempts.
Actions == {"create", "create_paused", "pause", "resume", "update",
            "delete", "run", "job"}

Creations == {"create", "create_paused"}

ASSUME RequestAssumption ==
  Requests \subseteq [action : Actions, routine : Routines, cron : Crons]

NoRows == [r \in Routines |-> Absent]

Rows == [Routines -> Row \cup {Absent, Deleted}]

Frame(pc, key, read) == [pc |-> pc, key |-> key, read |-> read]

Idle == Frame("idle", "none", NoRows)

Points == {"idle", "claimed", "failing", "committed", "enqueue", "mark",
           "failRun", "failAudit", "scheduled", "settling", "threw", "replacing",
           "marking", "markingAudit", "retrying", "retryReplacing", "audit"}

\* Bound on effect: one more than a key may have.
MaxEffects == 2

ServiceTypeOK ==
  /\ OperationsTypeOK /\ SchedulerTypeOK
  /\ row \in Rows /\ rows \in Rows
  /\ boot \in {"starting", "listed", "up"}
  /\ call \in [Clients -> [pc : Points, key : Keys \cup {"none"}, read : Rows]]
  /\ effect \in [Keys -> 0 .. MaxEffects]
  /\ drift \in {"none", "owed", "raced"}

ServiceInit ==
  /\ OperationsInit /\ SchedulerInit
  /\ row = NoRows /\ rows = NoRows
  /\ boot = "starting"
  /\ call = [c \in Clients |-> Idle]
  /\ effect = [k \in Keys |-> 0]
  /\ drift = "none"

-----------------------------------------------------------------------------
Request(c) == op[call[c].key].request
Target(c)  == Request(c).routine
IsJob(c)   == Request(c).action = "job"

At(c, pc) == call[c].pc = pc
Goto(c, pc) == call' = [call EXCEPT ![c].pc = pc]
Return(c) == call' = [call EXCEPT ![c] = Idle]

CountEffect(c) == effect' = [effect EXCEPT ![call[c].key] = @ + 1]

\* Calls between a read or write of rows and the tasks they decide.
Scheduling(c) == At(c, "replacing") \/ At(c, "retryReplacing")
                 \/ (At(c, "committed") /\ Request(c).action \notin {"job", "run"})

\* Two calls between rows and tasks, or one while the process starts.
Overlap == \/ \E c, d \in Clients : c # d /\ Scheduling(c) /\ Scheduling(d)
           \/ boot # "up" /\ \E c \in Clients : Scheduling(c)

\* Only a step that begins to schedule can begin to overlap.
NoteOverlap == drift' = IF Overlap' THEN "raced" ELSE drift

NoteFailure == drift' = IF drift = "raced" THEN "raced" ELSE "owed"

-----------------------------------------------------------------------------
(* The call: claim, mutate, schedule, settle.                              *)

Begin(c, k, q) ==
  /\ At(c, "idle")
  /\ boot = "up" \/ c \in EarlyClients
  /\ \/ /\ ClaimControlOperation(k, q)
        /\ call' = [call EXCEPT ![c] = Frame("claimed", k, NoRows)]
     \/ /\ ReconciliationPending(k, q)
        /\ call' = [call EXCEPT ![c] = Frame("retrying", k, NoRows)]
        /\ UNCHANGED op
  /\ UNCHANGED <<audit, schedulerVars, row, boot, rows, effect, drift>>

\* The row after a request, as the callbacks of create(), updateAndSchedule()
\* and delete() leave it.
After(old, q) ==
  CASE q.action = "create" -> [enabled |-> TRUE, cron |-> q.cron]
    [] q.action = "create_paused" -> [enabled |-> FALSE, cron |-> q.cron]
    [] q.action = "pause"  -> [old EXCEPT !.enabled = FALSE]
    [] q.action = "resume" -> [old EXCEPT !.enabled = TRUE]
    [] q.action = "update" -> [old EXCEPT !.cron = q.cron]
    [] q.action = "delete" -> Deleted
    [] OTHER               -> old

\* create() inserts a row under a new id; every other request needs its row.
Applicable(q) ==
  IF q.action \in Creations THEN row[q.routine] = Absent ELSE Exists(row[q.routine])

\* Mutant: the audit row is written after the transaction, not in it.
AuditLater(c) == UNCHANGED audit

AuditInTransaction(c) == SetAudit(call[c].key, "pending")

\* The transaction of mutateRoutine().
Mutate(c) ==
  /\ At(c, "claimed") /\ ~IsJob(c)
  /\ \/ /\ Applicable(Request(c))
        /\ row' = [row EXCEPT ![Target(c)] = After(@, Request(c))]
        /\ call' = [call EXCEPT ![c] = Frame("committed", call[c].key,
                      [NoRows EXCEPT ![Target(c)] = After(row[Target(c)], Request(c))])]
        /\ AuditInTransaction(c)
        /\ IF Request(c).action = "run" THEN UNCHANGED effect ELSE CountEffect(c)
     \/ /\ ~Applicable(Request(c))
        /\ Goto(c, "failing")
        /\ UNCHANGED <<row, audit, effect>>
  /\ UNCHANGED <<op, schedulerVars, boot, rows>>
  /\ NoteOverlap

\* The callbacks that schedule: create() registers an enabled routine,
\* updates reschedule, delete unschedules; StopFails() throws.
Schedule(c) ==
  LET r == Target(c)
      after == call[c].read[r]
      action == Request(c).action
  IN  /\ At(c, "committed") /\ action \notin {"job", "run"}
      /\ \/ /\ CASE action = "create" -> Register(r, after)
                 [] action = "create_paused" -> UNCHANGED schedulerVars
                 [] action = "delete" -> Unschedule(r)
                 [] OTHER             -> Reschedule(r, after)
            /\ Goto(c, "scheduled")
            /\ UNCHANGED drift
         \/ /\ action \notin Creations /\ StopFails(r)
            /\ Goto(c, "threw")
            /\ NoteFailure
            /\ UNCHANGED schedulerVars
      /\ UNCHANGED <<op, audit, row, boot, rows, effect>>

\* PersonaScheduler.runNow() reads the routine again, ...
RunNow(c) ==
  /\ At(c, "committed") /\ Request(c).action = "run"
  /\ Goto(c, IF Exists(row[Target(c)]) THEN "enqueue" ELSE "scheduled")
  /\ UNCHANGED <<op, audit, schedulerVars, row, boot, rows, effect, drift>>

\* ... queues a job, which names the routine by a foreign key, ...
QueueRun(c) ==
  /\ At(c, "enqueue")
  /\ \/ /\ Exists(row[Target(c)])
        /\ CountEffect(c)
        /\ Goto(c, "mark")
     \/ /\ ~Exists(row[Target(c)])
        /\ Goto(c, "failRun")
        /\ UNCHANGED effect
  /\ UNCHANGED <<op, audit, schedulerVars, row, boot, rows, drift>>

\* ... and marks the routine as fired.
MarkFired(c) ==
  /\ At(c, "mark")
  /\ Goto(c, "scheduled")
  /\ UNCHANGED <<op, audit, schedulerVars, row, boot, rows, effect, drift>>

\* JobService.mutate(): run(), which commits or is refused, then the audit row.
RunJobOperation(c) ==
  /\ At(c, "claimed") /\ IsJob(c)
  /\ \/ /\ CountEffect(c)
        /\ Goto(c, "audit")
     \/ /\ Goto(c, "failing")
        /\ UNCHANGED effect
  /\ UNCHANGED <<op, audit, schedulerVars, row, boot, rows, drift>>

AuditJobOperation(c) ==
  /\ At(c, "audit")
  /\ SetAudit(call[c].key, "pending")
  /\ Goto(c, "scheduled")
  /\ UNCHANGED <<op, schedulerVars, row, boot, rows, effect, drift>>

Complete(c) ==
  /\ At(c, "scheduled")
  /\ CompleteControlOperation(call[c].key)
  /\ Goto(c, "settling")
  /\ UNCHANGED <<audit, schedulerVars, row, boot, rows, effect, drift>>

Settle(c) ==
  /\ At(c, "settling")
  /\ SetAudit(call[c].key, "succeeded")
  /\ Return(c)
  /\ UNCHANGED <<op, schedulerVars, row, boot, rows, effect, drift>>

-----------------------------------------------------------------------------
(* What failed.                                                            *)

Fail(c) ==
  /\ At(c, "failing") \/ At(c, "failRun")
  /\ FailControlOperation(call[c].key)
  /\ IF At(c, "failRun") THEN Goto(c, "failAudit") ELSE Return(c)
  /\ UNCHANGED <<audit, schedulerVars, row, boot, rows, effect, drift>>

FailAudit(c) ==
  /\ At(c, "failAudit")
  /\ SetAudit(call[c].key, "failed")
  /\ Return(c)
  /\ UNCHANGED <<op, schedulerVars, row, boot, rows, effect, drift>>

\* reconcileScheduler() lists the routines, ...
ListRoutines(c) ==
  /\ At(c, "threw") \/ At(c, "retrying")
  /\ call' = [call EXCEPT ![c] =
                Frame(IF At(c, "threw") THEN "replacing" ELSE "retryReplacing", call[c].key, row)]
  /\ UNCHANGED <<op, audit, schedulerVars, row, boot, rows, effect>>
  /\ NoteOverlap

\* ... then replaces every task.  schedulerFailure() swallows an error here,
\* retryReconciliation() reports it and leaves the operation as it is.
Reconcile(c) ==
  /\ \/ At(c, "replacing") /\ Goto(c, "marking")
     \/ At(c, "retryReplacing") /\ Goto(c, "scheduled")
  /\ ReplaceAll(call[c].read)
  /\ drift' = IF drift = "owed" THEN "none" ELSE drift
  /\ UNCHANGED <<op, audit, row, boot, rows, effect>>

ReconcileFails(c) ==
  /\ \/ At(c, "replacing") /\ Goto(c, "marking")
     \/ At(c, "retryReplacing") /\ Return(c)
  /\ ReplaceAllFails
  /\ NoteFailure
  /\ UNCHANGED <<op, audit, row, boot, rows, effect>>

MarkReconciliationPending(c) ==
  /\ At(c, "marking")
  /\ MarkControlOperationReconciliationPending(call[c].key)
  /\ Goto(c, "markingAudit")
  /\ UNCHANGED <<audit, schedulerVars, row, boot, rows, effect, drift>>

MarkAudit(c) ==
  /\ At(c, "markingAudit")
  /\ SetAudit(call[c].key, "reconciling")
  /\ Return(c)
  /\ UNCHANGED <<op, schedulerVars, row, boot, rows, effect, drift>>

\* A statement fails: the transaction before it was rolled back, and the
\* error goes to the catch clause the call is in, or out of the call.
DbError(c) ==
  /\ DbFails
  /\ \/ At(c, "claimed") /\ Goto(c, "failing")
     \/ call[c].pc \in {"audit", "scheduled", "settling"} /\ IsJob(c) /\ Goto(c, "failing")
     \/ At(c, "committed") /\ Request(c).action = "run" /\ Goto(c, "failRun")
     \/ call[c].pc \in {"enqueue", "mark"} /\ Goto(c, "failRun")
     \/ At(c, "threw") /\ Goto(c, "marking")
     \/ call[c].pc \in {"scheduled", "settling"} /\ ~IsJob(c) /\ Return(c)
     \/ call[c].pc \in {"failing", "failRun", "failAudit", "marking", "markingAudit", "retrying"}
        /\ Return(c)
  /\ UNCHANGED <<op, audit, schedulerVars, row, boot, rows, effect, drift>>

-----------------------------------------------------------------------------
(* The process.                                                            *)

BootList ==
  /\ boot = "starting"
  /\ boot' = "listed" /\ rows' = row
  /\ UNCHANGED <<op, audit, schedulerVars, row, call, effect, drift>>

BootRegister ==
  /\ boot = "listed"
  /\ boot' = "up" /\ rows' = NoRows
  /\ RegisterAllAndStart(rows)
  /\ UNCHANGED <<op, audit, row, call, effect, drift>>

Crash ==
  /\ Crashes
  /\ boot' = "starting" /\ rows' = NoRows
  /\ call' = [c \in Clients |-> Idle]
  /\ task' = [r \in Routines |-> NoTask] /\ stray' = {} /\ started' = FALSE
  /\ drift' = "none"
  /\ UNCHANGED <<op, audit, row, effect>>

Step(c) ==
  \/ \E k \in Keys, q \in Requests : Begin(c, k, q)
  \/ Mutate(c) \/ Schedule(c) \/ Complete(c) \/ Settle(c)
  \/ RunNow(c) \/ QueueRun(c) \/ MarkFired(c)
  \/ RunJobOperation(c) \/ AuditJobOperation(c)
  \/ Fail(c) \/ FailAudit(c)
  \/ ListRoutines(c) \/ Reconcile(c) \/ ReconcileFails(c)
  \/ MarkReconciliationPending(c) \/ MarkAudit(c)
  \/ DbError(c)

ServiceNext == (\E c \in Clients : Step(c)) \/ BootList \/ BootRegister \/ Crash

ServiceSpec == ServiceInit /\ [][ServiceNext]_vars

-----------------------------------------------------------------------------
(* Properties.                                                             *)

Action(k) == op[k].request.action

(* One key, one effect: however often a client repeats a request, and       *)
(* wherever the process died or a statement failed, the mutation commits,   *)
(* or the run is queued, at most once.                                      *)
OneEffectPerKey == \A k \in Keys : effect[k] <= 1

(* What a client is told is what happened: an operation that completed did  *)
(* its work (a run may find the routine deleted), a routine mutation that   *)
(* failed changed nothing.  A run or a job operation may fail after its     *)
(* effect is durable, and does not promise this.                            *)
StatusTellsTheEffect ==
  \A k \in Keys :
    /\ op[k].status = "completed" /\ Action(k) # "run" => effect[k] = 1
    /\ op[k].status = "failed" /\ Action(k) \notin {"run", "job"} => effect[k] = 0
    /\ op[k].status = "reconciling" => effect[k] = 1

(* The audit: no routine changes without its audit row, and a row says      *)
(* succeeded or failed only of an operation that did.                       *)
AuditTellsTheOutcome ==
  \A k \in Keys :
    /\ audit[k] = "succeeded" => op[k].status = "completed"
    /\ audit[k] = "failed" => op[k].status = "failed"
    /\ effect[k] = 1 /\ Action(k) # "job" => audit[k] # "none"
    /\ op[k].status = "completed" => audit[k] # "none"

Quiet == boot = "up" /\ \A c \in Clients : At(c, "idle")

(* Unless calls raced for the scheduler, or a failed reconciliation is      *)
(* still owed, the live tasks are those the committed rows ask for: through *)
(* failures, replays, restarts and reconciliation no routine fires that is  *)
(* paused or gone, by an old schedule, twice, or not at all.                *)
TasksFollowRows ==
  Quiet /\ drift = "none" => stray = {} /\ task = TasksOf(row)

(* OPERATING.md: a routine can be paused (schedule stops firing).           *)
PausedStopsFiring ==
  Quiet /\ drift # "owed" =>
    \A r \in Routines :
      Exists(row[r]) /\ ~row[r].enabled => r \notin stray /\ ~task[r].ticks
=============================================================================
