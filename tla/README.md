# RetinueOS: a TLA+ verification project

RetinueOS is a self-hosted backend (`backend/src`, TypeScript over PostgreSQL) with a
web frontend (`frontend`) that runs a roster of LLM personas. The owner chats with a
persona; a persona calls tools, asks for approval where it must, delegates to other
personas, remembers things and fires on a schedule. This directory models the parts
of that program whose correctness depends on the order of steps nobody can see in a
test: the durable execution of a turn, the process that executes it, the gate that
holds a turn until the owner has answered, the services around the turns, and the
pages that show and change all of this. Paths below are relative to `backend/src`
unless they start with another directory.

Contents: [inventory](#1-inventory), [modules](#2-modules-and-how-they-correspond-to-the-code),
[runs](#3-runs-bounds-and-what-they-show), [fairness](#4-fairness),
[proofs](#5-what-is-proved), [findings](#6-where-code-and-documentation-disagree),
[not modelled](#7-what-is-not-modelled-and-why), [plan](#8-plan), [use](#9-how-to-run).

## 1. Inventory

| Component | State | Operations | Hard behaviour | Correct when |
| --- | --- | --- | --- | --- |
| Job attempts, `jobs/job-attempt-repo.ts` | `jobs`, `job_attempts`, `tool_calls`, `messages`, `notifications` | create, continue, retry, resume after approval, claim, heartbeat, release, cancel, effects, external-effect marker, settle, recover | leases, deadlines, stops, recovery and the owning worker race for the same rows | the job follows its newest attempt; ended turns are final; a stop is honoured; uncertainty is never hidden; the owner is told the truth once |
| Job worker, `orchestration/job-worker.ts`, `dispatcher.ts` | slots, the locals of `runClaimed`, `accepting`, abort controllers | claim, start, poll, abort, assert live, run tool, begin and complete an external call, execute child, settle, stop | crash at any step, database failures, timers between steps, an inline child | what a provider did is on record or marked unknown; no call is performed twice; a stop reaches the child |
| Approval gate, `graph/persona-graph.ts` `callTools`, `tools/autonomy.ts`, `tool-calls/tool-call-routes.ts` | checkpointed interrupts, tool rows, permissions | pause, replay, approve, decline, always allow, cancel | whole-node replay matched by position; permissions and tools edited while paused; two tabs | a declined call never runs; a destructive call runs on its own approval; nothing runs before every answer |
| Control operations, `control/control-repo.ts`, `job-service.ts` | `control_operations`, `control_audit_events` | claim a key, run, complete, fail, replay | crash or failure between the mutation and its completion | one key, one mutation; the audit tells what happened |
| Routines and scheduler, `control/routine-service.ts`, `orchestration/scheduler.ts` | `routines`, cron tasks in memory | create, update, pause, delete, reconcile, fire | tasks are changed after the commit, in another order | live tasks agree with the rows |
| Delegation limits, `orchestration/delegation.ts` | job tree | check depth and descendants | the check is outside the creating transaction | depth is bounded; the family outgrows its limit by less than the slots |
| Persona memory and notes, `personas/persona-memory-repo.ts`, `persona-state-repo.ts` | `persona_memories`, `persona_state` | remember, promote, forget, select for a prompt; read, write and forget a note | supersede-then-insert without a lock; a note is written whole | one live row per label; the best facts are injected; a turn's note stays |
| Personas, `personas/persona-repo.ts`, `persona-routes.ts` | reporting line, `assigned_tool_ids` | hire, PATCH, always allow | check then write; three writers of one array | no cycle; no permission lost |
| Thread hygiene, `graph/thread-hygiene.ts`, `state.ts` | checkpoint, summary, transcript | cut, summarise, select a summary, retry | three stores that disagree after a crash | nothing is left out; the newest prompt is asked |
| Event bus and streams, `orchestration/event-bus.ts`, `stream/stream-routes.ts`; the chat page and `sw.js` | `job_events`, subscriptions, caches | publish, snapshot, live, refetch, answer from the cache | several paths carry the same news | the page ends at the newest status |
| Notification delivery, `notifications/notify.ts` | `notification_deliveries`, push subscriptions | deliver, hold in quiet hours, release | crash after the POST; two senders | a held push is released, once |
| MCP servers as tools, `tools/mcp-*.ts`, `registry.ts` | `mcp_servers`, `mcp_server_tools`, the live registry | create, discover, approve, edit, OAuth, delete, restart | rows and registry change in different steps | the registry is what the rows allow; an approval is of this contract |
| Custom scripts, `tools/custom-tool-*.ts` | versions and reviews | propose, review | a review of what is on screen | what is approved was shown |
| Strict schemas, `tools/registry.ts` | - | compile a schema, turn arguments back | absent and null differ | what runs fits the tool's own schema |
| Control MCP server and clients, `control/client-repo.ts`, `mcp-server.ts` | `control_clients`, requests | authenticate, call, create, revoke | revocation between the statements of a request | only an active client is let in |
| Lists, `*Page` functions of the repositories | cursors | read the next page | rows come and go; two clock precisions | every row that stays is told once |
| Pages: chat composer, persona tools and forms, routines, memory, custom scripts, MCP connections, access (`frontend/`) | React state, requests under way | click, save, load, answer, fail | answers in any order, stale lists, remounts | once at rest the page tells the rows |
| Digests, models, HTTP, authentication, configuration, other pages | rows and I/O | calls | mostly none | - |

How they interact: producers (chat routes, control services, scheduler, approval
routes, delegation) insert a queued attempt; a worker slot claims it and runs the
persona graph; the graph's tool phase calls back into the worker for leases,
markers and results; the settlement writes the job, the attempt, the tool row, the
message and the notice in one transaction; only afterwards are buses told and
notices delivered. The database rows are the only state shared between processes.
A page keeps a copy of rows, which it replaces by what answers and events carry.

The hazards each of these parts is exposed to are listed, with their lines and the
properties aimed at them, in `PROJECT.json`.

## 2. Modules and how they correspond to the code

### JobLifecycle (abstract)

What a `jobs` row may do, as the owner sees it: eleven moves over one variable
`status`. It knows no attempts, leases, workers or crashes.

### JobAttempts (core)

One variable per table: `job` (`jobs.status`), `last` (the highest
`job_attempts.sequence`), `attempt` (rows by job and sequence), `call`
(`tool_calls`), `notice` (`notifications` that outcomes write), `message`. Every
exported function of `job-attempt-repo.ts` runs in one transaction that locks the
attempt, then the job, before it reads what it acts on, so each is one action with
the function's name; a transaction that throws rolls back and is a step not taken.
A row's `leaseLive` and `deadlinePassed` are the two comparisons with the database
clock; `LeaseExpires` and `DeadlinePasses` may flip either at any moment, which
covers every relative speed of clock and worker. `AbandonExpiredAttempts(S)`
recovers any set of expired attempts in one step, for `SKIP LOCKED` may leave some
out. `requestJobCancellation` selects its candidate before it locks it, and locks only
that row: `CancelCandidate` is whichever row of the job was its candidate at some
moment before, so a stop may end a paused turn although newer turns have run and
paused since (`CancelWaiting` looks at the status of the job, as line 1000 does). A
candidate that ended in between is returned without a change, a stutter here.

Abstractions: message and result contents, error texts, tokens and costs, thread ids
and event timestamps are dropped; a tool call is one of a few model values, split
into effectful and read-only by `EffectCalls`; persona-state and memory effects
of `applyEffects` are committed with the tool result and are not told apart.

### JobWorker (composes JobAttempts)

EXTENDS JobAttempts and adds what lives in a process: `up`, `accepting`, and a
`frame` per attempt that holds the locals of `runClaimed` (program counter, abort
reason, `leaseLost`, outcome, linked parent). `acts` is a ghost of the provider: how
often it really performed a call. `pollControl`, `abortAttempt` and the cascade to
a child are steps of their own that may fall between any two steps of the
execution. `Crash(w)` drops every frame of the process but not the call it had
already sent. With `DbFails`, any database call of a worker may fail.

### ApprovalGate

One batch of tool calls of one assistant message. `Build` loads the persona and the
tools in flight, `PhaseOne` replays the node and hands out the remembered answers by
position (`Asks` says which calls ask, `Place` where a call's question stands among
them, `Undecided` which calls are past the last answer), `PauseForApproval` settles the
turn as waiting, `PhaseTwo` carries out one call per step. The owner's side is
`Resolve` (approve, reject), always-allow in its two transactions, `CancelWaiting`, and edits of the persona or the tool registry at
any moment. `edits` counts what is not an answer to the request on screen, so that
properties can be stated for a careful owner and for everybody.
The model loop around the batch, and a retry that re-enters the graph at a
checkpoint, are left out.

### ControlOperations, RoutineScheduler, RoutineService

`ControlOperations` is `control-repo.ts`: a row of `control_operations` per
idempotency key (`op`) and its audit row (`audit`), and one operator per function,
each a single statement. `reconciling` stands for `in_progress` with the error
category `scheduler_reconciliation_pending`. A claim that is refused or answered
from the stored result changes nothing and is a stutter.

`RoutineScheduler` is the memory of `PersonaScheduler`: `task` is its map, `started`
its flag, and `stray` holds routines with a task that ticks but is in the map no
more, because `registerAll` overwrote its entry. Its methods have no `await`, so
each is one step. Only which tasks live is modelled; what a tick queues is
`JobAttempts`' `CreateQueuedJob`.

`RoutineService` composes both. Its actions are the stretches between two awaits of
`mutateRoutine`: claim (`Begin`), the transaction (`Mutate`), the cron task
(`Schedule`) or the run (`RunNow`, `QueueRun`, `MarkFired`), `Complete`, `Settle`,
and the catch clauses (`Fail`, `FailAudit`, `ListRoutines`, `Reconcile`,
`ReconcileFails`, `MarkReconciliationPending`, `MarkAudit`). `JobService.mutate` has
the same frame around one transaction of JobAttempts, here `RunJobOperation` for all
four of its operations. `DbError` lets any statement fail: its transaction is rolled
back and the error goes where the code sends it. `BootList`, `BootRegister` and
`Crash` are the process: `server.ts` starts the worker before it registers the
routines, so calls of a persona's tool (`EarlyClients`) may come in between. `effect`
counts what a key committed or queued; `drift` is a ghost that tells why tasks may
differ from rows: two calls overlapped (`raced`), or a reconciliation failed
(`owed`), so that `TasksFollowRows` can be exact for the rest.

Abstractions: a routine is its `enabled` flag and its schedule, always valid; a
request names its routine, so `create` of an existing one stands for a create that
is refused; ownership and scopes are checked before the claim and dropped; a
statement that commits although its acknowledgement is lost, and the orderly
shutdown (`stop`, `drain`), are left out.

### Services around the turns

* `PersonaMemory`: `memories` are the rows of `persona_memories`, `writer` what each
  transaction of `remember()` selected before it writes, at PostgreSQL's default
  isolation, where another may commit in between. `Injected` is the selection for a
  prompt: `Ranked` rows that fit the budget, at least one.
* `LoopNotes`: one key of `persona_state`. A turn reads the note, lets its model add
  an item, stages the whole new content as an effect, and the fenced
  `applyAttemptEffects` writes it; the Memory panel deletes the note by key, or a
  fact by id, and shows what the answers say. `upsets` is a ghost of what may
  separate the three.
* `ToolCatalog`: the row of an MCP server, the rows of its tools, the `registry` of
  the process, and the locals of each handler. A handler commits its statement, then
  reads the rows again, then registers: `request` holds where it is. A discovery
  fetches page by page, and a page may show a name that was shown before (`RowAfter`
  is the row that each upsert returns). Any statement may fail (`StatementFails`), also
  after the namespace was cleared; a token exchange may bring no refresh token. A
  version of a tool stands for the hash of its contract. `mishaps` is a ghost of what
  went wrong since the namespace was last cleared.
* `ToolSchemas`: `compileStrictSchema` and `executionValue` of `registry.ts` as
  operators over a small grammar of schemas (objects, lists, tuples, choices, enums,
  keywords without a type; a tuple's positions may have one schema or two), bounded by
  `Depth`, and the values a model can send under
  them. Names, descriptions, formats and `$ref` are dropped; `oneOf` and `allOf`
  become `anyOf` in the code and here.
* `Delegation`: the jobs of one family; `delegate_to` checks the limits in one step
  and creates the child in a later one. A turn holds a slot of its own or runs inline
  in its parent's.
* `Roster`: `reports_to` and the permission array of each persona. A PATCH checks and
  writes in separate statements, and always-allow writes back the array it read.
  `Above(p)`, whom the walk up the line meets, is the least set that holds `p` and the
  managers of all its members, so that it can be reasoned about without recursion.
* `Conversation`: the three stores of a chat (transcript rows, checkpoint, stored
  summary) and the graph run in memory. `WriteCheckpoint` is LangGraph's saver, which
  may lag behind when a turn dies. A message costs one token, so that thresholds are
  counts of messages.
* `Notifications`: one notice, the devices, quiet hours, and two senders, settlement
  and the recovery loop; per sender a step per await of `deliverNotification`.
* `ControlClients`: rows of `control_clients`; a request passes the three statements
  of `authenticateControlToken`, is offered the tools of its scopes, and claims and
  completes its key; the Access page of the owner beside it. `NewestFirst` is the order
  of the list, which the page merges with when a creation or a revocation overtook a
  load.
* `Paging`: nine list functions over one table whose rows come and go, with
  microseconds in the rows and milliseconds in most cursors.

### Pages

A page module has the rows, the page's copy, and the requests under way. The backend
carries out a request in a step of its own and the answer comes later: in any order,
as an error after the change was stored, or never. Ghosts record what came between
the page and the rows, and each property names exactly the excuses it needs.

* `LiveChat`: a job, the process's unpublished status, one SSE connection
  (subscription before the snapshot, buffered events, end at a terminal status), the
  refetch that each event causes, the paths by which pending approvals arrive
  (connection, poll, bus), and from the second load on the service worker, which
  answers from its cache and refreshes it afterwards. `Hasty` lets another device
  continue the chat before the page has caught up.
* `Composer`: the composer of the chat page, which holds a selected chat and a job
  that need not be the same, and the dialog that asks somebody from anywhere.
* `PersonaWorkspace`: the Tools section that saves every click, one request at a time
  with one choice waiting, and the forms that save on submit. A section that is left
  is unmounted while its request goes on. One PATCH of the charter stands for every
  form of the page.
* `RoutinePanel`: a routine's row with its menu, its edit form and the form that adds
  one; each action has a busy flag of its own.
* `CustomScripts`: versions with their reviews, and the page on which they are
  proposed, listed, opened and decided.
* `McpPage`: servers, counts of approved tools, and the tools of the selected server,
  merged from answers and not read again.

### Modules for TLC, and proof modules

`MCJobAttempts`, `MCJobWorker`, `MCApprovalGate` and `MCRoutineService` name model
values and bounds. `MCServices`, `MCOwner` and `MCProgress` put several modules
*side by side*: each EXTENDS its parts and has a variable `part`, fixed in the
initial state, so that in a behaviour one part moves and the others rest. These
parts share no state in the code but rows that each has for itself, so nothing is
lost, and the states of a run are the sum of the parts, not the product.
`PersonaPages` puts together what is promised about one persona: its facts and notes,
and the pages that manage it. `Rankings` has the two things the queries do with rows
(put them in order, add up a size in that order) as functions without recursion.

The theorems are in eight modules: `JobWorkerProofs` (the execution protocol, what a
turn leaves behind, the workers), `ApprovalGateProofs` (the gate, and what the model is
told of the thread), `RoutineServiceProofs`, `ToolCatalogProofs` (the registry, and the
page of the MCP servers), `ControlClientsProofs` (tokens, the Access page, lists read
page by page), `PersonaProofs` (facts, notes, tools, charter and routines of a persona),
`ServicesProofs` (notices, the tree of delegations, the reporting line, messages on
their way to a chat, custom scripts), and `RankingsProofs` (lemmas: the order of a
finite set, sums).

Operators marked `Mutant` in the modules are wrong on purpose: each stands for a
plausible bug at its place and is put in for the definition after it to see that the
property in question notices.

## 3. Runs, bounds and what they show

| Run | Instance | Shows |
| --- | --- | --- |
| `attempts_turns` | 1 chat: 2 turns, 2 workers, 2 calls (one effectful), or 3 turns, 1 worker, 1 call; or 2 chats of 1 turn (parent and child, or not) | invariants `TypeOK`, `AggregateAgrees`, `CancelHonoured`, `UncertaintyKept`, `OnePendingApproval`, `NoticesTellTheOutcome`, `TranscriptOnlyFromStandingTurns`; no step breaks `SettledIsFinal`, `DecisionsStand`, `FirstCancelWins`; the job implements `JobLifecycle` |
| `worker_turns` | 1 chat, 2 turns, 2 processes, 1 external call, or a parent and its delegated child on 1 worker; failing database | `EffectsAreAccountedFor`: what the provider did is on record or marked unknown, and was done once; `OneCallInFlight`: two turns of a chat, one of them perhaps of a worker that lost its lease, never wait for a provider at once |
| `progress` | 2 chats of 1 turn, or a parent and its inline child | `StopIsCarriedOut`, `EveryClaimEndsInTime`, `StopReachesTheChild` |
| `routine_calls` | 1 routine, 2 schedules, 3 keys, 2 clients, 8 kinds of request, failing statements and cron tasks, crashes | one key has one effect; status and audit tell the truth; outside of races and owed reconciliations the live tasks are those the rows ask for |
| `owner` | a batch of 5 calls (destructive, at Ask twice, at Allow, delegation) with 2 edits; a chat of 2 turns with a lost connection or a service worker; a notice with 3 changes of settings | `DecisionsAreCarriedOut`, `EveryBatchEnds`; `ScreenCatchesUp`; `PushedOnceUnlessRaced`, `HeldApprovalsAreReleased` |
| `services` | fifteen parts, below | fifteen properties, below |
| `worker_stop`, `gate_delegation`, `gate_tabs`, `routine_paused`, `notices_again`, `composer_lost` | the smallest instance | violations: see section 6 |

`DecisionsAreCarriedOut` says that, whatever is edited, nothing runs before every
question of the batch was answered and nothing runs twice; and that, where nothing is
edited, a declined call does not run, a destructive call runs on its own approval, and
an approved one has its result on record in the end.

The parts of `services`:

| Part | Instance | Property |
| --- | --- | --- |
| memory | 2 personas, one the other's manager, 2 writers, 2 labels, 3 rows | `MemoryIsAsTold` (facts): one live row per label unless transactions overlapped, a fact is retired by its successor only, the prompt holds the best facts that fit |
| notes | 2 turns, 2 items, 1 fact | `MemoryIsAsTold` (notes): what a turn was told is written stays; `WorkspaceTellsTheRows` (panel): an entry vanishes only with its row |
| catalog | 1 tool, 2 versions, 2 handlers, 2 pages of 1 entry, 1 token rotation, failing statements, restart | `SerialHandlersKeepRegistry`: handlers one after the other leave the registry as a restart would, but for three mishaps (section 6), two of which let nothing be called that a restart would not load; `ApprovalIsOfThisContract` |
| schemas | types `string`, nesting 2, tuples with one schema or two | `ArgumentsFitTheTool`: what is offered is strict; what runs is exactly what the model meant and fits the tool's own schema, but for the kinds of schema that section 6 names |
| delegation | depth 3, 3 descendants, 2 slots | `FamilyStaysSmall` |
| roster | 3 personas, 1 tool, 2 requests | `ChartHasNoCycleUnlessRaced` |
| conversation | 3 prompts, 3 runs, 9 messages, threshold 3, budget 2 | `ModelIsToldTheThread`: nothing is left out of what the model is shown, and the newest prompt is asked |
| endpoint | 1 client, 2 requests, 2 keys | `AdmittedWhileActive` |
| access | 3 clients, pages of 1 | `AccessKeepsAnswers` |
| mcp | 2 servers, 2 tools, 2 calls at once | `PatientPageIsCurrent` |
| paging | 3 rows, pages of 1, 3 instants of which 2 are in one millisecond, nine lists | `WalkTellsEveryRow` |
| workspace | 2 tools, 2 visits, 3 clicks | `WorkspaceTellsTheRows` (tools, forms) |
| routine | 3 requests | `WorkspaceTellsTheRows` (routines) |
| composer | 3 chats, 2 sends, 2 selections | `EachMessageInItsChat` |
| scripts | 2 scripts, 2 versions, 3 actions | `ReviewedAsShown` |

Why these bounds. The transactions of a job touch that job, its newest attempt and
one call; a second attempt is needed to see a stale owner meet a newer turn, and a
third to see what follows a resumed turn that itself ended (retry and continuation
look back one turn, a resume looks for the newest paused one). Two workers make
every pair of owner and stranger. A second call tells the marked call from another.
The constraint `Bounded` of `MCJobAttempts` keeps these sizes apart: the third turn
is taken by one worker and without the second call, and two chats have a turn each. Two jobs appear where a
transaction spans jobs: recovery and delegation; that of `MCJobWorker` keeps the
family to a turn each on one worker, without calls. In the gate, five calls hold two
requests for the same tool, one before and one after the destructive one, which is
what positions can get wrong; two edits are the smallest number that removes a tool
and brings it back. `MaxAttempts`, `MaxEdits` and `MaxRuns` are cut off by guards;
`acts` is above what the properties allow, so that a violation is not cut off with it.
Workers are symmetric in `attempts_turns` and `worker_turns`, and keys in
`routine_calls`; none of these checks liveness. In `routine_calls` two clients
suffice for a call and the replay or the rival it meets, and three keys for a
routine to be created, changed and changed back; routines do not influence each
other except through `replaceAll`, which treats every row alike.

In the services two actors are enough for one to read, the other to change, and the
first to act on what it read, and three rows or clicks for an old, a lost and a new
one. Three prompts of up to three messages pass the threshold twice, so that a
summary is summarised. A walk over three rows with a page of one has a page before,
at and after the row that moves. In a tree of depth three two slots are the least
that overlap. `MAX_DESCENDANTS` is 3 instead of 10: the argument is about the excess.
The page modules cut clicks, sends, visits and selections; two requests under way
and a third action are what the queues, flags and sequence numbers of the pages can
tell apart. `Bounded` of `MCServices` restricts four parts: one client makes the
requests; of note and fact one moves; at three rows of memory one writer rests; the
dialog of the composer is used before another chat is selected, and the selection
changes twice only between two chats.

`CHECK_DEADLOCK FALSE` everywhere: a chat may rest for ever, an owner may stop
clicking, and an instance whose bounds are used up has nothing left to do.

## 4. Fairness

* `Fairness` of JobAttempts assumes the database clock advances (deadlines pass, and
  an unrenewed lease runs out) and that some process runs the recovery loop
  (`recoveryLoop`, job-worker.ts, started with every worker). It assumes nothing of
  the worker that owns the turn: progress must hold when it is dead. A lease runs
  out once nobody may renew it: `heartbeatAttemptControl` renews only while no stop
  was requested and the deadline has not passed.
* `WorkerFairness` adds that timers of a living process fire (`setInterval` of the
  poll) and that the abort listener linked to the parent runs. It does not assume
  that a model, a tool or a provider ever answers. `ProgressFairness` is the two of
  them, each for the part that moves.
* `GateFairness` assumes that the turn goes on and that the owner answers in the
  end. `EveryBatchEnds` would be false of an owner who never answers.
* `ChatFairness` assumes that a committed status is published by a living process
  (one that dies publishes nothing, and the page must then learn it from a
  snapshot), that EventSource connects again, that requests return, and that the
  poll of the approvals keeps firing. It does not assume that a connection lasts.
* `NotificationsFairness` assumes that recovery passes keep coming and that a
  delivery under way goes on; the process may die at any step, and settings may
  change at any moment, up to the bound.

The services have no liveness property: what must happen there happens in the
request that asks for it, and a request may fail.

## 5. What is proved

TLAPS checks every theorem for all values of the constants that satisfy the module's
named assumptions (bounds are numbers, the sets of calls, tools and statuses are what
the code has). A theorem that is stated about a property of a run names it.

| Module | Theorem | Property |
| --- | --- | --- |
| JobWorkerProofs | `TypeCorrect` | `TypeOK` |
| | `StopsAreHonoured` | `CancelHonoured` |
| | `UncertaintyIsKept` | `UncertaintyKept` |
| | `JobIsItsNewestTurn` | `AggregateAgrees` |
| | `LifecycleIsImplemented` | `ImplementsLifecycle` (safety part of the refinement) |
| | `EndedTurnsAreFinal` | `SettledIsFinal` |
| | `FirstStopDecides` | `FirstCancelWins` |
| | `OneRequestIsPending` | `OnePendingApproval` |
| | `NoticesAreTrue` | `NoticesTellTheOutcome` |
| | `RepliesAreOfStandingTurns` | `TranscriptOnlyFromStandingTurns` |
| | `DecisionsAreFinal` | `DecisionsStand` |
| | `WorkerFollowsTheProtocol` | `WorkerSpec => Spec`: the workers implement the protocol |
| | `ExternalEffectsAreAccountedFor` | `EffectsAreAccountedFor` |
| | `OneCallAtATime` | `OneCallInFlight` |
| ApprovalGateProofs | `NothingRunsEarlyOrTwice` | `NothingRunsBeforeEveryAnswer` (first part of the next) |
| | `DecisionsReachTheirCalls` | `DecisionsAreCarriedOut`, if no delegation asks |
| | `TheThreadIsTold` | `ModelIsToldTheThread` |
| | `TheThreadIsTyped` | `ConversationTypeOK` (this and the like below: a part of `ServicesTypeOK`) |
| RoutineServiceProofs | `EffectsOnce` | `OneEffectPerKey` |
| | `StatusIsTrue` | `StatusTellsTheEffect` |
| | `AuditIsTrue` | `AuditTellsTheOutcome` |
| | `TasksAreTrue` | `TasksFollowRows` |
| ToolCatalogProofs | `SerialHandlersLoadTheRows` | `SerialHandlersKeepRegistry` |
| | `OnlyTheOwnerApproves` | `ApprovalIsOfThisContract` |
| | `ThePatientOwnerSeesTheRows` | `PatientPageIsCurrent` |
| | `TheRegistryIsTyped` | `CatalogTypeOK` |
| ControlClientsProofs | `OnlyActiveClientsAreLetIn` | `AdmittedWhileActive` |
| | `TheOwnerSeesWhatWasTold` | `AccessKeepsAnswers` |
| | `RevocationsAreCountedOnce` | `ClientsTypeOK` |
| | `WalksTellEveryRow` | `WalkTellsEveryRow` |
| PersonaProofs | `FactsAreTold` | `LiveFactsAreTold`: the part of the next about facts |
| | `MemoryOfAPersona` | `MemoryIsAsTold` |
| | `PagesOfAPersonaTell` | `WorkspaceTellsTheRows` |
| ServicesProofs | `NoSecondPush` | `PushedOnceUnlessRaced` |
| | `LimitsHoldButForTheSlots` | `FamilyStaysSmall` |
| | `OneChangeMakesNoCycle` | `ChartHasNoCycleUnlessRaced` |
| | `MessagesReachTheirChat` | `EachMessageInItsChat` |
| | `DecisionsAreOfWhatIsShown` | `ReviewedAsShown` |
| | `FamiliesAreTyped`, `RosterIsTyped`, `ComposerIsTyped`, `ScriptsAreTyped` | `DelegationTypeOK`, `RosterTypeOK`, `ComposerTypeOK`, `ScriptsTypeOK` |

### Job attempts and the worker

None of the invariants but the type invariant stands alone. A heartbeat, a stop or a
settlement looks at the *job* status to decide what to do to an *attempt* row, so the
job must be known to agree with the row; and it agrees only if that row is the newest,
hence `IInv` adds `Shape` (the rows up to `last` and no others have been inserted) and
takes `AggregateAgrees`, `CancelHonoured` and `UncertaintyKept` together. A stop that
hit an older paused row is the one way in which job and newest row part
(`StoppedBehind`): the newest row is paused then and the job cancelled, so both stay as
they are until another stop ends the row or a retry appends one after it.
`ActiveIsLatest` is the key: a queued or running row is the newest one of its job. With
it every transaction is one of two kinds, `OneRow` (replace the newest row and set the
job to what it says) or `NewRow` (append a row to a job with no turn in progress), and
only recovery has a proof of its own, because it moves many jobs at once. The
refinement and the action properties use the same invariant: a running row whose job
is `running` has no stop requested, so it may end as `done`; one whose job is
`cancelling` may not.

For what a turn leaves behind, `JobTurn(j)` says what one transaction may do to one
job's rows, request, notices and messages at once. Each action is shown to be a
`JobTurn` of one job that leaves the others as they were (recovery: of each job it
takes), and `RInv`, with the three invariants about records, and the two action
properties follow from `JobTurn` alone, without another look at the actions. `RInv` has
to add that a row not inserted yet carries no input (`Unused`): a resumed turn is told
by its input, and the row after a paused one must not be taken for it.

Each step of the executor is one of those transactions or leaves the database alone: so
`WorkerSpec` implements `Spec`, and `RInv` holds of the rows that workers write. What
ties the provider to the rows is the marker (`FramesFit`): a frame that waits for a
provider has the marker of that call on its turn, whoever holds the lease by now; only
the newest turn carries one (`MarkerIsNewest`), and a call that is about to be performed
never was. So a call that was sent is on record, or under its marker, or its turn ended
with the marker still set, which makes it `outcome_unknown`, and no turn follows that.

### The gate and the thread

That nothing runs early or twice follows from the phases and the position (`InOrder`)
with no assumption at all. That an answer reaches its call rests on the places of the
questions: `interrupt()` hands answers out by position, so the calls that ask must be
the same in each replay. `AskCalls` are those of the first pass, `Rank` a call's place
among them and `Verdict` what was said of it; `Undisturbed` says that rows follow the
verdicts and that a tool leaves the gate only with an approval of one of its calls, which
keeps the tool among those in flight and its calls gated (`GateStands`). The theorem
needs `DelegationIsUngated`: phase 2 starts a delegation before it looks at its
decision. The assumption is true of the instance of run `owner`, and run
`gate_delegation` shows what happens without it (section 6, 2).

That a summary found after a crash is still of this thread has one reason
(`SummariesTell`): old messages are cut off only before a prompt, and a run adds a prompt
only as its first message, so whatever a summary stands for was in the checkpoint from
which its run began (`Extends`), and the checkpoint only grows. What
`ValidAtSafeBoundary` adds is that the rest begins with a prompt, so that no result is
parted from its call. For the prompts a count is enough (`PromptsCounted`): no more
reach the thread than were asked, and if as many did, the newest is among them; so a
retry that trusts the count is right, and if a prompt is there twice another is missing.
For the bounds (`ThreadIsBounded`) each step of the graph keeps the room that the steps
after it need (`RoomAfter`).

### Routines

None of the first three is inductive: whether a step may count an effect depends on
where the call stands, and on who else works on the key. The invariant adds `Alone` (the
winner of a claim shares its key with nobody until the operation is completed or
reconciling), `CallsKnow` (what each point of the code knows of status, effect and
audit row) and `OperationsSettled` (what holds of an operation whoever works on it).
The only company a call may have is replays of a reconciling operation, and what
those write is tolerated at every point they can meet (`OthersKnow`, `Tolerated`).

`TasksAreTrue` adds the scheduler (`TInv`): while no two calls overlapped between a
commit and its task, what the one that is there has read is what is stored
(`ReadIsCurrent`), a start-up that has listed the rows has listed these rows, and each
routine but the one being scheduled has the task its row asks for, unless a failed
reconciliation is owed.

### Services and pages

* `NoticeInv`: a notice is in one pair of hands, the settlement that committed it or
  the recovery loop that listed it; a push comes after its delivery row; and a device a
  sender is still to push to was never pushed to.
* `FamilyInv`: turns form chains, one with a slot and below it the child each waiting
  turn waits for. So as many turns are at work as slots are taken, and the children that
  passed the check and are not inserted yet, which the invariant counts with the
  descendants, are no more than the slots.
* `RosterInv`: that nobody is above himself has a witness for each persona, a set that
  holds the line above him and not him. A change of one manager is checked against such
  a set, and each other persona's new witness is the union or the intersection of its
  own with that one.
* `ComposerInv`: a message is in one form at most, and until its request is served it is
  said nowhere, unless an answer to it was lost. The page holds the job of the selected
  chat except while it fetches it or after a late or failed fetch; those are the cases
  the property excuses, so a request takes along the chat that was on screen.
* `ScriptsInv`: as long as nothing is clicked while a request is under way, a proposal,
  a decision and the loading that follows exclude each other (`InTurn`), and what the page
  does not tell yet is about to be read (`CatchesUp`). That a decision is of what is shown
  needs less: requests and rows are of the script that is opened (`OneScript`).
* `CatalogInv`: while one handler works alone, the registry differs from what a restart
  would load by exactly what that handler has left to do, and its list still shows the
  rows, as long as nothing went wrong (`mishaps`). Whatever failed, what is registered
  lags behind the rows only by what is missing (`LagsAreCallable`), as long as the list
  does not show a tool with two contracts. That only the owner approves needs no more
  than what a handler's locals are.
* `DoorInv`: a request keeps the client it arrived for and no row takes a revocation
  back; so whichever statement lets the request in saw the client active.
* `AccessInv`: what the owner was told stays true. A load that no answer overtook holds
  each client he was told of, or has still to read it; one that was overtaken is merged
  behind the rows on screen. The proof needs that `NewestFirst` lists every row once and
  that a page is an interval of it.
* `PagingInv`: of the rows that stay, those told are not ahead of the cursor
  (`ToldIsPast`), and those not told are, or a cursor cut their millisecond short
  (`NoneLeftOut`). A page takes the first rows of the order, so it is enough to know of
  two rows which of them is behind a cursor made from the other: `MillisecondFacts` says
  that a row which a shortened cursor leaves out has the cursor's millisecond.
* `McpInv`: while the owner waits, one call is under way, or the two that follow a
  discovery; what the page does not tell yet is what that call's answer tells. Approvals
  are counted, not read: the count of a server is the cardinality of the tools that were
  approved when the call began (`CountsBefore`), and the answer moves it by those of its
  tools that were not.
* `MemoryInv`: a writer that is not marked as raced still finds what it read
  (`WriterKnows`), so it supersedes the one live row; each superseded row has a later row
  that points back to it, unless that one was forgotten (`RowFollows`). What the prompt
  is told needs no invariant but the types: the order of the candidates and the sum of
  their sizes decide it, whatever the rows are.
* `NotesInv`: while turns follow each other, the one that holds the note has read what
  the note says, and what it stages keeps what it read (`InHand`).
* `WorkspaceInv`: only the newest visit of the Tools section has a request under way
  unless the lists are stale (`OnlyTheLastSaves`); its answer brings the row, and the
  choice that waits, or else the one sent, is the owner's last (`WishKnows`).
* `RoutineInv`: each field of the row is what the page shows or what the answer of a
  request under way is about to show (`ShownOrToCome`); the toggle and the form write
  fields of their own (`OwnField`), the form also the switch it took over.

The type invariants of these parts hold more than types, and have parts of their own:
every job is younger than the one that asked for it (`ParentsFirst`), a revocation is
counted by the statement that makes it (`AuditInv`), a tool is registered only from an
approved row of a server that was connected (`RegistryInv`), a script has no more
versions than may be made (`VersionsAreFew`). `CallsAssumption` says of the constants of
`ControlClients` what the registry of control tools says: a call is of a tool it has.

The installed theorems on induction take an operator as a parameter and cannot be
instantiated. `RankingsProofs` inducts over *sets*: `EveryNumber` says that a set which
has 0 and with each number below m the next has all numbers up to m, from the least
member of a set of numbers (`LeastMember`), which the library's `WFMin` gives for sets. So that a finite set can
be put in order (`InOrderFacts`), and what a sum is, are proved and not assumed.

### Only model-checked

* All liveness (`StopIsCarriedOut`, `EveryClaimEndsInTime`, `StopReachesTheChild`,
  `EveryBatchEnds`, `ScreenCatchesUp`,
  `HeldApprovalsAreReleased`): out of the prover's reach.
* `ArgumentsFitTheTool`: `ToolSchemas` computes schemas and values by RECURSIVE
  operators on trees, and what they compute is an induction over schemas.
* `ServicesTypeOK` as one formula: it is put together in `MCServices`, which reaches
  those operators. Of its fourteen parts thirteen are theorems, alone or with the
  property of their component; the other is that of `ToolSchemas` (the value of a
  program counter).

The six formulas of the numbered items of section 6 are false of the code and have no
theorem.

## 6. Where code and documentation disagree

1. `worker_stop`. `assertLive` (job-worker.ts:335-341) asks `assertLiveAttempt`,
   which refuses an attempt whose stop was requested, and reports a lost lease. When
   this check, not the heartbeat, meets the stop first, the live owner walks away and
   leaves the turn to recovery, although job-attempt-repo.ts:910-916 says "the worker
   owns the final conservative classification" and job-worker.ts:311-313 "Keep
   settlement so the owner can commit cancelled instead of reporting lease loss".
   Nothing unsafe follows (`CancelHonoured` holds); the stop takes a lease longer.
2. `gate_delegation`. Phase 2 of `callTools` handles `delegate_to` before it looks at
   the decision (persona-graph.ts:494), so a delegation set to Ask pauses the turn and
   is carried out whatever the answer; docs/OPERATING.md:102-108 promises that the
   side effect only happens once the owner says so.
3. `gate_tabs`. A resumed turn decides again which calls are gated, from the stored
   permissions and from rows that are pending or approved (dispatcher.ts:438-440). A
   declined row is not among them: if the tool has become Allow meanwhile (Always
   allow in a second tab persists that in a transaction of its own), the declined
   call runs. Without an edit it does not (`DecisionsAreCarriedOut`, run `owner`).
4. `routine_paused`. `mutateRoutine` commits, and changes the cron task when the call
   continues, from the row its own transaction returned (routine-service.ts:268-290).
   Of a resume and a pause the first to commit may be the last to schedule: the
   routine is paused in the database and its task keeps firing until the next change
   or restart, although docs/OPERATING.md:83 says of a paused routine "schedule stops
   firing". `TasksFollowRows` holds where no two calls overlap so.
5. `notices_again`. The release of held pushes looks for approval notices without a
   `web_push` delivery row, and `deliverNotification` then posts the webhook too. A
   notice that the webhook delivered while there was no push is posted again by every
   recovery pass until the owner acts; tests/notify.test.ts:131 says that the release
   "does not release a delivered or currently held approval".
6. `composer_lost`. `submit()` mints an idempotency key per click. When the answer is
   lost while the browser is online, the text stays and sending it again mints a new
   key, so the message is stored and run twice; the comment at page.tsx:415-418 says
   that the key is there so that a lost response makes no second job or turn.

Disagreements that no run states, because a passing run has a property that names the
case and says what holds besides:

* *A stop that comes late* (`AggregateAgrees`, `OnePendingApproval`). The comment at
  job-attempt-repo.ts:911-912 says of a stop that "The active attempt is locked before the
  aggregate"; what is locked is the attempt that was the active one when it was read
  without a lock (924-935). Turn n is paused; a stop reads it; the request is approved,
  turn n+1 resumes and pauses for another request; then the stop locks row n, finds it and
  the job waiting (line 1000), and cancels row n, the job and the request of turn n+1. Turn n+1
  stays `waiting_approval` under a cancelled job. `StoppedBehind` is that case, of a stop
  read before any number of turns; in every other the job agrees with its newest turn.
  No request is left pending even then. The owner's stop is carried out; the row of the
  newest turn tells something else until a retry follows it.
* *The cap on descendants* (`FamilyStaysSmall`). docs/OPERATING.md:62-68 promises "two hard
  caps, checked on every delegate call", of which the second is "at most ten delegated jobs
  in total". The check counts in one statement (delegation.ts:14-41) and the child is
  created by a later one (dispatcher.ts:307-374), so parents of one family that delegate at
  once are all let in: with nine descendants and four slots there may be thirteen. The
  property proves that the excess stays below the number of slots. The cap on the depth is
  hard: it depends on the parent alone.
* *Tuples and nulls in strict schemas* (`ArgumentsFitTheTool`). `normalizeArrayItems`
  (registry.ts:207-210) offers `[string, number]` as a list of either, so that the model may
  send what the tool's own schema refuses (`MixesPositions`). `executionValue`
  (registry.ts:312-338) drops each null of a property that may be left out, also where
  the tool's own schema allows null there and null means something else than absence
  (`HasOptionalNull`). Nulls inside `anyOf`, `oneOf`, `allOf` and tuple items are not
  removed (`HidesOptional`). Everywhere else the tool gets exactly what the model meant.
* *The registry after a mishap* (`SerialHandlersKeepRegistry`). PATCH of a server clears the
  namespace and then reads and registers the rows (mcp-routes.ts:138-143), discovery
  likewise (170-171): a statement that fails in between leaves approved tools out until the
  next reload, and one that fails after a stored decision leaves the tool at its risk class
  of before. An OAuth exchange that brings the first refresh token after rows were approved
  registers nothing if its discovery fails. A catalogue that lists one name with two contracts
  (discoverTools has no test for it) upserts the row twice and returns both readings: the
  first, still approved, is registered, the second is refused because it is not, and
  `registerApprovedMcpTool` does not take the first one out. So the tool stays callable
  with a contract that is not stored and with an approval that its row no longer has,
  although the comment at mcp-server-repo.ts:246-247 says that "changed executable contracts
  return to the human-confirmation gate".

Smaller observations, met while modelling:

* *Worker and dispatcher.* A worker that lost its lease may still have a checkpoint
  write under way (dispatcher.ts:576-579). A retry may repeat a prompt that never
  reached the thread and one that did (dispatcher.ts:594-596).
* *Memory.* Overlapping `remember()` transactions can leave two live rows under one
  label, against the comment at persona-memory-repo.ts:70-72 (`OneLiveMemory` is
  false; `OneLiveUnlessRaced` is what holds). Loop notes are written whole, so two
  turns that hold a note at once, or a turn and the owner's deletion, lose or bring
  back items of each other. From a panel that is not fresh, forgetting a fact that
  was corrected meanwhile deletes the superseded row only; after a lost answer
  "Couldn't forget that." stays for good, for the row is gone.
* *Registry.* Of overlapping handlers the last to register decides: a tool revoked
  meanwhile may stay callable until something reads the rows again
  (`RevokedToolsAreGone` is false). Two raced PATCHes can close a reporting cycle;
  always-allow and the form can lose each other's permission (tool-call-routes.ts:71-97);
  two refreshes of one OAuth token may both use it (mcp-server-repo.ts:149-187).
* *Lists.* A cursor that tells milliseconds skips rows of its millisecond; the cursor
  of the routines is refused once its routine is deleted.
* *Chat page.* A chat that another device continues before the page has caught up is
  not followed (`ContinuedChatIsFollowed` is false with `Hasty`,
  use-job-transcript.ts:55-64). Behind the service worker answers are one behind, and
  the last `getJob` may show "running" for good. The page's job and the selected chat
  differ while `getJob` is under way, for good if it fails (page.tsx:300), or after a
  late answer; without `?chat=` a new list selects the newest chat; the branch that
  retries on reconnection is never taken; the dialogs send no key. A browser's
  reconnection replays nothing, because live messages carry no id.
* *Tools and routines.* A choice that waited and failed to be saved shows the list
  from before the first choice (`FailedEditIsRolledBack` is false, comment at
  persona-tools-section.tsx:9-18); a third choice replaces the waiting one; a section
  opened again while the earlier one still saves sends a stale list. The routine form
  sends `notifyRoutineRan` as it took it over. A scheduler error after the commit
  leaves the page on the old routine; asking again after a lost answer adds a second.
* *Scripts, MCP, Access.* Loads are shown in the order of their answers: an older
  list of versions, or another script's, may be shown. A discovery of a server that
  is not selected shows its tools under the selected one, and approvals may be counted
  twice. A created client may appear twice, and its token is lost when the page is
  left. A request under way keeps the scopes it was admitted with after a revocation.

## 7. What is not modelled and why

Calls to models and providers, HTTP routing, sessions, web push encryption, the
LangGraph library (its replay and checkpoint contracts are modelled), SQL below the
statement, generated migrations, prompt texts, cost accounting. Digests and model
bookkeeping keep rows nothing else depends on. Of the frontend, the pages that only
show rows (Today, the roster, logs, the audit list, notifications, settings of this
device) and the hiring form. Of the modelled parts: the text search of memories, token
and tool events of a stream, the arithmetic of the quiet window, the replacement of
results over 64 KiB by a digest, stored credentials, and the I/O of the tools.
`PROJECT.json` lists each part with its reason.

Hazards that were seen and are covered by no property: a registration at start-up
that overlaps a handler (server.ts:53); an operation and its audit row settled in two
statements, when both fail; a crash between a queued run and the mark of its firing;
the release of an attempt that was claimed and not started while a stop arrives
(checked as an action, stated by no property of its own); the order of the row locks
of deletion, settlement and recovery, a deadlock PostgreSQL breaks by an error; two
broadcasts of pending approvals that overlap and cross (`Broadcast` of LiveChat holds one
reading at a time, which may cross a poll or a new connection). On the MCP page a list that
fails to load after a server was added still selects the new server, and on the page of
custom scripts Cancel may be clicked while a request is under way; neither is modelled.

## 8. Plan

Done: 1 JobLifecycle and JobAttempts with their proofs, 2 JobWorker, 3 ApprovalGate,
4 ControlOperations, 5 RoutineScheduler and RoutineService with their proofs,
6 Notifications, 7 LiveChat (streams, snapshot buses, service worker), 8 Delegation,
PersonaMemory, Roster, LoopNotes, 9 Conversation, ToolSchemas, ToolCatalog,
10 ControlClients, Paging and the page modules.

Theorems done: every safety property of JobAttempts, JobWorker's `EffectsAreAccountedFor`, `OneCallInFlight`
and that it implements JobAttempts, the gate's `DecisionsAreCarriedOut`, all four of
RoutineService, `SerialHandlersKeepRegistry` and `ApprovalIsOfThisContract`,
`AdmittedWhileActive` and `AccessKeepsAnswers`, `PushedOnceUnlessRaced`,
`FamilyStaysSmall`, `ChartHasNoCycleUnlessRaced`, `EachMessageInItsChat`,
`ReviewedAsShown`, `ModelIsToldTheThread`, `PatientPageIsCurrent`, `WalkTellsEveryRow`,
`MemoryIsAsTold` and `WorkspaceTellsTheRows`: every safety property of the runs that
holds, but `ArgumentsFitTheTool`.

Left to prove: `ArgumentsFitTheTool`, over schemas as functions on paths in place of
recursive operators. Left to model: LockOrder (attempt, job and routine rows), the
hiring form.

## 9. How to run

    tlc -config JobAttempts_turns.cfg MCJobAttempts
    tlapm JobWorkerProofs.tla

Each run's configuration is named after its module; the largest, `services`, takes
about three minutes on two cores.
