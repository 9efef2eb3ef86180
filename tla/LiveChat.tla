------------------------------ MODULE LiveChat ------------------------------
(***************************************************************************)
(* How an open chat follows its job: the in-process buses (event-bus.ts,   *)
(* pending-approval-bus.ts), their durable log, the streams of             *)
(* stream-routes.ts, and the hooks of the page (use-job-transcript.ts,     *)
(* use-pending-approvals.tsx, roster/[personaId]/page.tsx).                *)
(*                                                                         *)
(* The rows of the database change first; what reaches the screen was read *)
(* or published later, travels on several paths, and may overtake or be    *)
(* lost.  Only the status of the job and its pending call are told apart.  *)
(*                                                                         *)
(* From the second load on the page is controlled by its service worker    *)
(* (sw.js), which answers a GET from its cache and asks the backend only   *)
(* to refresh the cache, in the background.                                *)
(***************************************************************************)
EXTENDS Naturals, Sequences, SequencesExt

CONSTANTS
  Fetches,    \* bound: GET /jobs/:id requests in flight at once, numbered
  Hasty,      \* BOOLEAN: is the chat moved on before this page has caught up?
  MaxTurns,   \* bound: how often the chat is queued
  MaxReads,   \* bound: background reads of one address under way at once
  MaxDrops    \* bound: connections that break, processes that die

ASSUME ChatAssumption == {MaxTurns, MaxReads, MaxDrops} \cup Fetches \subseteq Nat /\ Hasty \in BOOLEAN

VARIABLES
  job,        \* the jobs row, and how often it was queued
  unpublished,\* the status the worker committed, and has not yet published
  conn,       \* the page's connection to /jobs/:id/stream
  page,       \* what the page holds
  fetch,      \* GET /jobs/:id: asked, or answered with what was read
  snapshot,   \* reads of the pending approvals on their way to the page
  worker,     \* the service worker: its cache, and reads that will refresh it
  drops       \* how often a connection broke

chatVars == <<job, unpublished, conn, page, fetch, snapshot, worker, drops>>

Terminal == {"waiting_approval", "done"}
Statuses == {"queued", "running"} \cup Terminal
Paths == {"broadcast", "poll"}

Approvals == {"pending", "clear"}
ApprovalsOf(status) == IF status = "waiting_approval" THEN "pending" ELSE "clear"

NoConn == [pc |-> "none", row |-> "none", buffer |-> <<>>, wire |-> <<>>]

ChatTypeOK ==
  /\ job \in [status : Statuses, turns : 0 .. MaxTurns]
  /\ unpublished \in Statuses \cup {"none"}
  /\ conn.pc \in {"none", "snapshot", "live"} /\ conn.row \in Statuses \cup {"none"}
  /\ conn.buffer \in Seq(Statuses) /\ conn.wire \in Seq(Statuses)
  /\ page \in [shown : Statuses, source : {"open", "closed"}, pending : BOOLEAN]
  /\ fetch \in [Fetches -> {"none", "asked"} \cup Statuses]
  /\ snapshot \in [Paths -> {"none", "asked"} \cup Approvals]
  /\ worker \in [controls : BOOLEAN, job : Statuses \cup {"none"},
                 list : Approvals \cup {"none"}, jobReads : Nat, listReads : Nat]
  /\ drops \in 0 .. MaxDrops

ChatInit ==
  /\ job \in [status : {"queued"}, turns : 1 .. MaxTurns]
  /\ unpublished = "none"
  /\ conn = NoConn
  /\ page = [shown |-> "queued", source |-> "open", pending |-> FALSE]
  /\ fetch = [f \in Fetches |-> "none"]
  /\ snapshot = [s \in Paths |-> "none"]
  /\ worker \in [controls : BOOLEAN, job : {"none"}, list : {"none"},
                 jobReads : {0}, listReads : {0}]
  /\ drops \in 0 .. MaxDrops

FreeFetch(f) == fetch[f] = "none" /\ \A g \in Fetches : g < f => fetch[g] # "none"

-----------------------------------------------------------------------------
(* The job moves: the worker commits, and then publishes.                   *)

Move(from, to) ==
  /\ job.status = from /\ unpublished = "none"
  /\ job' = [job EXCEPT !.status = to]
  /\ UNCHANGED <<conn, page, worker, drops>>

\* The page shows what the rows say, and nothing it still has to hear closes it.
CaughtUp ==
  /\ page.shown = job.status \/ worker.controls
  /\ page.pending = (job.status = "waiting_approval")
  /\ unpublished = "none" /\ Terminal \cap ToSet(<<conn.row>> \o conn.buffer \o conn.wire) = {}

Requeue(from) ==
  /\ job.status = from /\ job.turns < MaxTurns
  /\ Hasty \/ CaughtUp
  /\ job' = [status |-> "queued", turns |-> job.turns + 1]
  /\ UNCHANGED <<conn, page, worker, drops>>

\* broadcastPendingApprovals: the rows are read, and then published.
Broadcast ==
  /\ snapshot["broadcast"] = "none"
  /\ snapshot' = [snapshot EXCEPT !["broadcast"] = "asked"]

ClaimTurn ==
  /\ Move("queued", "running")
  /\ unpublished' = "running"
  /\ UNCHANGED <<snapshot, fetch>>

SettleTurn ==
  /\ \E to \in Terminal : Move("running", to) /\ unpublished' = to
  /\ Broadcast
  /\ UNCHANGED fetch

\* Approved or declined, on this device or another: queued again, unannounced.
ResolveApproval ==
  /\ Requeue("waiting_approval")
  /\ Broadcast
  /\ UNCHANGED <<unpublished, fetch>>

\* POST /jobs/:id/continue: its answer to the page that asked is the new row.
\* A page elsewhere asks only in a hasty world: nothing tells this one.
Continue(f) ==
  /\ Requeue("done")
  /\ FreeFetch(f)
  /\ \E here \in {TRUE, ~ Hasty} :
       fetch' = IF here THEN [fetch EXCEPT ![f] = "queued"] ELSE fetch
  /\ UNCHANGED <<unpublished, snapshot>>

\* JobEventBus.publish, to a stream that has subscribed.
PublishStatus ==
  /\ unpublished # "none"
  /\ conn' = CASE conn.pc = "live" -> [conn EXCEPT !.wire = Append(@, unpublished)]
               [] conn.pc = "snapshot" -> [conn EXCEPT !.buffer = Append(@, unpublished)]
               [] OTHER -> conn
  /\ unpublished' = "none"
  /\ UNCHANGED <<job, page, fetch, snapshot, worker, drops>>

-----------------------------------------------------------------------------
(* GET /jobs/:id/stream.                                                    *)

\* Subscribes before it reads anything.
OpenStream ==
  /\ page.source = "open" /\ conn.pc = "none"
  /\ conn' = [NoConn EXCEPT !.pc = "snapshot"]
  /\ UNCHANGED <<job, unpublished, page, fetch, snapshot, worker, drops>>

\* What was buffered is replayed unless the snapshot is terminal.
Replay(status, buffer) == IF status \in Terminal THEN <<>> ELSE buffer

\* The row is read, and sent when the answer of the database arrives.
ReadRow ==
  /\ conn.pc = "snapshot" /\ conn.row = "none"
  /\ conn' = [conn EXCEPT !.row = job.status]
  /\ UNCHANGED <<job, unpublished, page, fetch, snapshot, worker, drops>>

SendSnapshot ==
  /\ conn.pc = "snapshot" /\ conn.row # "none"
  /\ conn' = [pc |-> "live", row |-> "none", buffer |-> <<>>,
              wire |-> <<conn.row>> \o Replay(conn.row, conn.buffer)]
  /\ UNCHANGED <<job, unpublished, page, fetch, snapshot, worker, drops>>

\* EventSource connects again on its own.
DropConnection ==
  /\ conn.pc # "none" /\ drops < MaxDrops
  /\ conn' = NoConn /\ drops' = drops + 1
  /\ UNCHANGED <<job, unpublished, page, fetch, snapshot, worker>>

\* What was not yet published is lost with the process.
ProcessDies ==
  /\ drops < MaxDrops
  /\ unpublished' = "none"
  /\ conn' = NoConn /\ drops' = drops + 1
  /\ snapshot' = [snapshot EXCEPT !["broadcast"] = "none"]
  /\ UNCHANGED <<job, page, fetch, worker>>

-----------------------------------------------------------------------------
(* The page.                                                                *)

\* useJobTranscript: a status event only says that the row is worth a read;
\* a terminal one closes the source, for the server ends the response.
ReceiveEvent(f) ==
  /\ conn.wire # <<>> /\ FreeFetch(f)
  /\ LET ends == Head(conn.wire) \in Terminal
     IN  /\ conn' = IF ends THEN NoConn ELSE [conn EXCEPT !.wire = Tail(@)]
         /\ page' = [page EXCEPT !.source = IF ends THEN "closed" ELSE @]
  /\ fetch' = [fetch EXCEPT ![f] = "asked"]
  /\ UNCHANGED <<job, unpublished, snapshot, worker, drops>>

ReadJob(f) ==
  /\ fetch[f] = "asked" /\ worker.job = "none"
  /\ fetch' = [fetch EXCEPT ![f] = job.status]
  /\ worker' = IF worker.controls THEN [worker EXCEPT !.job = job.status] ELSE worker
  /\ UNCHANGED <<job, unpublished, conn, page, snapshot, drops>>

\* staleWhileRevalidate: what is cached is the answer, and the backend is asked.
AnswerJobFromCache(f) ==
  /\ fetch[f] = "asked" /\ worker.job # "none" /\ worker.jobReads < MaxReads
  /\ fetch' = [fetch EXCEPT ![f] = worker.job]
  /\ worker' = [worker EXCEPT !.jobReads = @ + 1]
  /\ UNCHANGED <<job, unpublished, conn, page, snapshot, drops>>

\* The background reads are put in the order in which they were made.
RefreshJob ==
  /\ worker.jobReads > 0
  /\ worker' = [worker EXCEPT !.job = job.status, !.jobReads = @ - 1]
  /\ UNCHANGED <<job, unpublished, conn, page, fetch, snapshot, drops>>

\* Mutant: the effect does not depend on the status.
NeverResubscribe(shown, status) == FALSE

\* The effect depends on [ready, jobId, status]: a new status, and only a
\* new one, opens a new source.
Resubscribe(shown, status) == shown # status

\* setActiveJob with whatever answer arrives, in the order of arrival.
ShowJob(f) ==
  /\ fetch[f] \in Statuses
  /\ page' = [page EXCEPT !.shown = fetch[f],
                          !.source = IF Resubscribe(page.shown, fetch[f]) THEN "open" ELSE @]
  /\ conn' = IF Resubscribe(page.shown, fetch[f]) THEN NoConn ELSE conn
  /\ fetch' = [fetch EXCEPT ![f] = "none"]
  /\ UNCHANGED <<job, unpublished, snapshot, worker, drops>>

\* The pending approvals: from a broadcast, or from the poll of every 15 s,
\* which also stands for the first load and the snapshot of a reconnection.
PollApprovals ==
  /\ snapshot["poll"] = "none"
  /\ \/ page.pending # (job.status = "waiting_approval")
     \/ worker.list \notin {"none", ApprovalsOf(job.status)}
  /\ snapshot' = [snapshot EXCEPT !["poll"] = "asked"]
  /\ UNCHANGED <<job, unpublished, conn, page, fetch, worker, drops>>

\* A broadcast is read by the backend itself.
ReadApprovals(s) ==
  /\ snapshot[s] = "asked" /\ (s = "poll" => worker.list = "none")
  /\ snapshot' = [snapshot EXCEPT ![s] = ApprovalsOf(job.status)]
  /\ worker' = IF s = "poll" /\ worker.controls
               THEN [worker EXCEPT !.list = ApprovalsOf(job.status)] ELSE worker
  /\ UNCHANGED <<job, unpublished, conn, page, fetch, drops>>

AnswerPollFromCache ==
  /\ snapshot["poll"] = "asked" /\ worker.list # "none" /\ worker.listReads < MaxReads
  /\ snapshot' = [snapshot EXCEPT !["poll"] = worker.list]
  /\ worker' = [worker EXCEPT !.listReads = @ + 1]
  /\ UNCHANGED <<job, unpublished, conn, page, fetch, drops>>

RefreshList ==
  /\ worker.listReads > 0
  /\ worker' = [worker EXCEPT !.list = ApprovalsOf(job.status), !.listReads = @ - 1]
  /\ UNCHANGED <<job, unpublished, conn, page, fetch, snapshot, drops>>

\* A snapshot replaces what the page holds; when the pending ids of this chat
\* change, its row is fetched again (page.tsx).  A broadcast may miss a page
\* whose stream is down.
ShowApprovals(s, f) ==
  /\ snapshot[s] \in Approvals /\ FreeFetch(f)
  /\ LET pending == snapshot[s] = "pending"
         seen == page.pending # pending
     IN  \/ /\ page' = [page EXCEPT !.pending = pending]
            /\ fetch' = IF seen THEN [fetch EXCEPT ![f] = "asked"] ELSE fetch
         \/ s = "broadcast" /\ UNCHANGED <<page, fetch>>
  /\ snapshot' = [snapshot EXCEPT ![s] = "none"]
  /\ UNCHANGED <<job, unpublished, conn, worker, drops>>

ChatNext ==
  \/ ClaimTurn \/ SettleTurn \/ ResolveApproval \/ PublishStatus
  \/ OpenStream \/ ReadRow \/ SendSnapshot \/ DropConnection \/ ProcessDies
  \/ PollApprovals \/ AnswerPollFromCache \/ RefreshJob \/ RefreshList
  \/ \E f \in Fetches : \/ Continue(f) \/ ReceiveEvent(f)
                        \/ ReadJob(f) \/ AnswerJobFromCache(f) \/ ShowJob(f)
  \/ \E s \in Paths : ReadApprovals(s) \/ \E f \in Fetches : ShowApprovals(s, f)

\* The process publishes what it has committed, a connection is opened and
\* answered, requests return, and the interval of the poll keeps firing.
ChatFairness ==
  /\ WF_chatVars(PublishStatus) /\ WF_chatVars(OpenStream)
  /\ WF_chatVars(ReadRow) /\ WF_chatVars(SendSnapshot)
  /\ WF_chatVars(PollApprovals) /\ WF_chatVars(AnswerPollFromCache)
  /\ WF_chatVars(RefreshJob) /\ WF_chatVars(RefreshList)
  /\ WF_chatVars(\E f \in Fetches : ReceiveEvent(f))
  /\ \A f \in Fetches : /\ WF_chatVars(ReadJob(f) \/ AnswerJobFromCache(f))
                         /\ WF_chatVars(ShowJob(f))
  /\ \A s \in Paths : /\ WF_chatVars(ReadApprovals(s))
                       /\ WF_chatVars(\E f \in Fetches : ShowApprovals(s, f))

ChatSpec == ChatInit /\ [][ChatNext]_chatVars /\ ChatFairness

-----------------------------------------------------------------------------
\* Whatever overtakes or is lost on the way, the page ends up showing the
\* pending call of the rows and, read past the service worker, their status,
\* where nobody moves the chat on before the page has caught up
\* (use-job-transcript.ts, use-pending-approvals.tsx, page.tsx).
ScreenCatchesUp ==
  <>[](/\ page.pending = (job.status = "waiting_approval")
       /\ page.shown = job.status \/ worker.controls)

\* A status event says that the row is worth a read ("Refetch instead",
\* use-job-transcript.ts), so that a chat is shown finished without a reload.
RefetchShowsTheRow == <>[](page.shown = job.status)

\* A chat that another device continues is followed too: use-job-transcript.ts
\* re-runs its effect on every status so that no continued chat is a black hole.
ContinuedChatIsFollowed == RefetchShowsTheRow

=============================================================================
