--------------------------- MODULE RoutineScheduler ---------------------------
(***************************************************************************)
(* PersonaScheduler of backend/src/orchestration/scheduler.ts: the cron    *)
(* tasks of one process, which its callers have to keep in step with the   *)
(* routines table.  Each method runs to its end without an await.          *)
(***************************************************************************)
CONSTANTS
  Routines,       \* routine ids
  Crons,          \* cron expressions, all valid
  SchedulerThrows \* whether node-cron may throw when a task is stopped

ASSUME SchedulerAssumption == SchedulerThrows \in BOOLEAN

VARIABLES
  task,    \* the tasks map: the task registered for a routine
  stray,   \* routines with a task that ticks and is in the map no more
  started  \* PersonaScheduler.started

schedulerVars == <<task, stray, started>>

Row == [enabled : BOOLEAN, cron : Crons]

Absent  == [there |-> "absent"]   \* not yet created
Deleted == [there |-> "deleted"]

NoTask == [cron |-> "none", ticks |-> FALSE]
Task   == [cron : Crons, ticks : BOOLEAN] \cup {NoTask}

SchedulerTypeOK ==
  /\ task \in [Routines -> Task]
  /\ stray \subseteq Routines
  /\ started \in BOOLEAN

\* A new process.
SchedulerInit ==
  /\ task = [r \in Routines |-> NoTask]
  /\ stray = {}
  /\ started = FALSE

Exists(row) == row \notin {Absent, Deleted}

WantsTask(row) == Exists(row) /\ row.enabled

\* registerAll() on one routine's row: a disabled routine gets no task, and
\* the map entry is replaced without a look at the task it held.
Registered(tasks, r, row, ticks) ==
  IF WantsTask(row) THEN [tasks EXCEPT ![r] = [cron |-> row.cron, ticks |-> ticks]]
                    ELSE tasks

Unstopped(tasks, r, row) == IF WantsTask(row) /\ tasks[r].ticks THEN {r} ELSE {}

AllTicking(tasks) ==
  [r \in Routines |-> IF tasks[r] = NoTask THEN NoTask
                      ELSE [tasks[r] EXCEPT !.ticks = TRUE]]

\* register(): registerAll([routine]) and start().
Register(r, row) ==
  /\ task' = AllTicking(Registered(task, r, row, started))
  /\ stray' = stray \cup Unstopped(task, r, row)
  /\ started' = TRUE

Unschedule(r) ==
  /\ task' = [task EXCEPT ![r] = NoTask]
  /\ UNCHANGED <<stray, started>>

\* Mutant: the running task is not stopped before the new one is registered.
RegisterOver(r, row) ==
  /\ task' = Registered(task, r, row, started)
  /\ stray' = stray \cup Unstopped(task, r, row)
  /\ UNCHANGED started

Reschedule(r, row) ==
  /\ task' = Registered([task EXCEPT ![r] = NoTask], r, row, started)
  /\ UNCHANGED <<stray, started>>

\* A task that cannot be stopped stays in the map.
StopFails(r) == SchedulerThrows /\ task[r] # NoTask

TasksOf(rows) ==
  [r \in Routines |-> IF WantsTask(rows[r]) THEN [cron |-> rows[r].cron, ticks |-> TRUE]
                      ELSE NoTask]

\* server.ts at start: registerAll(rows) and start(), over what is there.
RegisterAllAndStart(rows) ==
  /\ task' = [r \in Routines |-> IF WantsTask(rows[r]) THEN TasksOf(rows)[r]
                                 ELSE AllTicking(task)[r]]
  /\ stray' = stray \cup UNION {Unstopped(task, r, rows[r]) : r \in Routines}
  /\ started' = TRUE

\* replaceAll(): stop(), registerAll(rows), start().
ReplaceAll(rows) ==
  /\ task' = TasksOf(rows)
  /\ started' = TRUE
  /\ UNCHANGED stray

\* stop() throws at one task: those before it are stopped, all stay in the map.
ReplaceAllFails ==
  /\ \E r \in Routines : StopFails(r)
  /\ \E S \in SUBSET {r \in Routines : task[r] # NoTask} :
       task' = [r \in Routines |-> IF r \in S THEN [task[r] EXCEPT !.ticks = FALSE]
                                   ELSE task[r]]
  /\ started' = FALSE
  /\ UNCHANGED stray
=============================================================================
