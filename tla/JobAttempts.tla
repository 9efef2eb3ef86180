----------------------------- MODULE JobAttempts -----------------------------
(***************************************************************************)
(* The durable execution protocol of backend/src/jobs/job-attempt-repo.ts. *)
(*                                                                         *)
(* A job (one chat) is an aggregate over its attempts (one per turn).      *)
(* Every exported function of the repository runs in one database          *)
(* transaction that locks the rows it changes and reads them again once it *)
(* holds them, so each is one action here.  What it only picked before it  *)
(* had the locks is a choice among all that it could have picked: see      *)
(* CancelCandidate.  A transaction that throws AttemptConflict rolls back: *)
(* it is a step that is not taken.                                         *)
(*                                                                         *)
(* Time is abstracted to the two comparisons the code makes against the    *)
(* database clock: leaseLive (lease_expires_at > now) and deadlinePassed   *)
(* (deadline_at <= now).  LeaseExpires and DeadlinePasses let either flip  *)
(* at any moment, so every relative order of lease, deadline and worker    *)
(* steps is covered.                                                       *)
(***************************************************************************)
EXTENDS Naturals, FiniteSets

CONSTANTS
  Jobs,         \* job ids
  Workers,      \* WorkerIds: one per slot of one live process incarnation
  Calls,        \* the model's tool-call ids within one job
  EffectCalls,  \* those of them whose tool is reversible or destructive
  MaxAttempts,  \* bound on the attempts of one job
  None          \* SQL null

ASSUME ConstantsAssumption ==
  /\ MaxAttempts \in Nat \ {0}
  /\ EffectCalls \subseteq Calls
  /\ None \notin Workers
  /\ None \notin Calls

VARIABLES
  job,       \* jobs.status
  last,      \* max(job_attempts.sequence) of each job, 0 when it has none
  attempt,   \* job_attempts rows, by job and sequence
  call,      \* tool_calls rows, by job and call id
  notice,    \* notifications rows written by outcomes, by job
  message    \* messages rows, by job

vars == <<job, last, attempt, call, notice, message>>

Seqs == 1 .. MaxAttempts

JobStatus == {"none", "queued", "running", "cancelling", "waiting_approval",
              "done", "failed", "cancelled", "timed_out", "outcome_unknown"}

Settled == {"done", "failed", "cancelled", "timed_out", "outcome_unknown"}

AttemptStatus == {"none", "queued", "running", "waiting_approval"} \cup Settled

CallStatus == {"none", "pending_approval", "approved", "rejected",
               "executed", "failed", "cancelled"}

Reasons == {"user", "deadline"}

Attempt ==
  [status         : AttemptStatus,
   input          : {"none", "user_message", "approval_resume", "retry"},
   worker         : Workers \cup {None},
   leaseLive      : BOOLEAN,
   deadlinePassed : BOOLEAN,
   cancel         : Reasons \cup {"none"},   \* cancel_reason
   marker         : Calls \cup {None},       \* external_effect_call_id
   notify         : BOOLEAN]                 \* notify_on_outcome

Notice  == [attempt : Seqs, status : Settled \cup {"waiting_approval"}]
Message == [attempt : Seqs, role : {"user", "assistant"}]

NoAttempt ==
  [status |-> "none", input |-> "none", worker |-> None, leaseLive |-> FALSE,
   deadlinePassed |-> FALSE, cancel |-> "none", marker |-> None,
   notify |-> FALSE]

QueuedAttempt(input, notify) ==
  [NoAttempt EXCEPT !.status = "queued", !.input = input, !.notify = notify]

Running(a, w) ==
  [a EXCEPT !.status = "running", !.worker = w, !.leaseLive = TRUE,
            !.deadlinePassed = FALSE]

TypeOK ==
  /\ job \in [Jobs -> JobStatus]
  /\ last \in [Jobs -> 0 .. MaxAttempts]
  /\ attempt \in [Jobs -> [Seqs -> Attempt]]
  /\ call \in [Jobs -> [Calls -> [status : CallStatus, attempt : 0 .. MaxAttempts]]]
  /\ notice \in [Jobs -> SUBSET Notice]
  /\ message \in [Jobs -> SUBSET Message]

Init ==
  /\ job = [j \in Jobs |-> "none"]
  /\ last = [j \in Jobs |-> 0]
  /\ attempt = [j \in Jobs |-> [n \in Seqs |-> NoAttempt]]
  /\ call = [j \in Jobs |-> [c \in Calls |-> [status |-> "none", attempt |-> 0]]]
  /\ notice = [j \in Jobs |-> {}]
  /\ message = [j \in Jobs |-> {}]

-----------------------------------------------------------------------------
(* Shared row operations.                                                  *)

\* Mutant: the fence forgets that the attempt may have ended.
OwnedOnce(j, n, w) == attempt[j][n].worker = w

\* lockLiveAttempt(): the fence every in-flight write passes.
Owned(j, n, w) ==
  /\ attempt[j][n].status = "running"
  /\ attempt[j][n].worker = w

LiveAttempt(j, n, w) ==
  /\ Owned(j, n, w)
  /\ job[j] = "running"
  /\ attempt[j][n].leaseLive
  /\ attempt[j][n].cancel = "none"
  /\ ~attempt[j][n].deadlinePassed

LiveOrCancelling(j, n, w) ==
  /\ Owned(j, n, w)
  /\ job[j] \in {"running", "cancelling"}
  /\ attempt[j][n].leaseLive \/ attempt[j][n].cancel # "none"

\* nextSequence() and the insert of the new job_attempts row.
InsertAttempt(j, a) ==
  /\ last[j] < MaxAttempts
  /\ last' = [last EXCEPT ![j] = @ + 1]
  /\ attempt' = [attempt EXCEPT ![j][last[j] + 1] = a]

SetAttempt(j, n, a) == attempt' = [attempt EXCEPT ![j][n] = a]

SetJob(j, s) == job' = [job EXCEPT ![j] = s]

AppendMessage(j, n, role) ==
  message' = [message EXCEPT ![j] = @ \cup {[attempt |-> n, role |-> role]}]

\* Mutant: notify_on_outcome is ignored.
NotifyAlways(cond, j, n, s) ==
  notice' = [notice EXCEPT ![j] = @ \cup {[attempt |-> n, status |-> s]}]

\* insertOutcomeNotification(), when the caller's condition holds.
NotifyIf(cond, j, n, s) ==
  notice' = IF cond
              THEN [notice EXCEPT ![j] = @ \cup {[attempt |-> n, status |-> s]}]
              ELSE notice

-----------------------------------------------------------------------------
(* Producers of queued work.                                               *)

CreateQueuedJob(j, notify) ==
  /\ job[j] = "none"
  /\ SetJob(j, "queued")
  /\ InsertAttempt(j, QueuedAttempt("user_message", notify))
  /\ AppendMessage(j, 1, "user")
  /\ UNCHANGED <<call, notice>>

\* A delegated child is born claimed by its parent's worker; the parent's
\* lease is live at both samples and both leases are renewed.
CreateClaimedChild(p, n, w, j) ==
  /\ LiveAttempt(p, n, w)
  /\ job[j] = "none"
  /\ SetJob(j, "running")
  /\ InsertAttempt(j, Running(QueuedAttempt("user_message", FALSE), w))
  /\ AppendMessage(j, 1, "user")
  /\ UNCHANGED <<call, notice>>

EnqueueContinuation(j, notify) ==
  /\ job[j] \in {"done", "failed"}
  /\ attempt[j][last[j]].status \notin {"queued", "running"}
  /\ InsertAttempt(j, QueuedAttempt("user_message", notify))
  /\ AppendMessage(j, last[j] + 1, "user")
  /\ SetJob(j, "queued")
  /\ UNCHANGED <<call, notice>>

RanAnEffect(j, n) ==
  \E c \in EffectCalls : /\ call[j][c].attempt = n
                         /\ call[j][c].status \in {"executed", "failed"}

\* Mutant: an unknown outcome is retried when no marker is left.
RetryEligibleUnlessMarked(j) ==
  /\ job[j] \in {"failed", "cancelled", "timed_out", "outcome_unknown"}
  /\ last[j] > 0
  /\ attempt[j][last[j]].marker = None
  /\ ~RanAnEffect(j, last[j])

RetryEligible(j) ==
  /\ job[j] \in {"failed", "cancelled", "timed_out"}
  /\ last[j] > 0
  /\ attempt[j][last[j]].marker = None
  /\ ~RanAnEffect(j, last[j])

EnqueueRetry(j) ==
  /\ RetryEligible(j)
  /\ InsertAttempt(j, QueuedAttempt("retry", attempt[j][last[j]].notify))
  /\ SetJob(j, "queued")
  /\ UNCHANGED <<call, notice, message>>

\* The notify flag is copied from the newest attempt still waiting_approval;
\* that paused row itself is left as it is.
PausedAttempt(j, n) ==
  /\ attempt[j][n].status = "waiting_approval"
  /\ \A m \in Seqs : m > n => attempt[j][m].status # "waiting_approval"

ResumeNotify(j) == \E n \in Seqs : PausedAttempt(j, n) /\ attempt[j][n].notify

EnqueueApprovalResume(j, c, approved) ==
  /\ call[j][c].status = "pending_approval"
  /\ job[j] = "waiting_approval"
  /\ InsertAttempt(j, QueuedAttempt("approval_resume", ResumeNotify(j)))
  /\ call' = [call EXCEPT ![j][c].status =
                            IF approved THEN "approved" ELSE "rejected"]
  /\ SetJob(j, "queued")
  /\ UNCHANGED <<notice, message>>

-----------------------------------------------------------------------------
(* Claim, heartbeat, release.                                              *)

\* claimAttemptById() and claimNextAttempt(), which end in
\* claimLockedAttempt(); any queued attempt may be the oldest unlocked one.
ClaimAttempt(j, n, w) ==
  /\ attempt[j][n].status = "queued"
  /\ job[j] = "queued"
  /\ SetAttempt(j, n, Running(attempt[j][n], w))
  /\ SetJob(j, "running")
  /\ UNCHANGED <<last, call, notice, message>>

\* Mutant: the attempt row is given the status that only a job row has.
BeginCancelOnBothRows(j, n, reason) ==
  /\ SetAttempt(j, n, [attempt[j][n] EXCEPT !.status = "cancelling",
                                            !.cancel = reason, !.leaseLive = TRUE])
  /\ SetJob(j, "cancelling")
  /\ UNCHANGED <<last, call, notice, message>>

\* The cancel columns, the job status and the lease move together: the lease
\* becomes the abort grace, live again even when it had already expired.
BeginCancel(j, n, reason) ==
  /\ SetAttempt(j, n, [attempt[j][n] EXCEPT !.cancel = reason, !.leaseLive = TRUE])
  /\ SetJob(j, "cancelling")
  /\ UNCHANGED <<last, call, notice, message>>

\* The heartbeat that observes the deadline turns it into a cancellation; a
\* requested cancellation is only reported; otherwise a live lease is renewed,
\* which changes nothing here.
HeartbeatAttemptControl(j, n, w) ==
  /\ Owned(j, n, w)
  /\ job[j] \in {"running", "cancelling"}
  /\ attempt[j][n].cancel = "none"
  /\ attempt[j][n].leaseLive
  /\ attempt[j][n].deadlinePassed
  /\ BeginCancel(j, n, "deadline")

\* Mutant: the job row is forgotten.
ReleaseAttemptOnly(j, n, w) ==
  /\ Owned(j, n, w)
  /\ job[j] = "running"
  /\ SetAttempt(j, n, QueuedAttempt(attempt[j][n].input, attempt[j][n].notify))
  /\ UNCHANGED <<job, last, call, notice, message>>

ReleaseUnstartedAttempt(j, n, w) ==
  /\ Owned(j, n, w)
  /\ job[j] = "running"
  /\ SetAttempt(j, n, QueuedAttempt(attempt[j][n].input, attempt[j][n].notify))
  /\ SetJob(j, "queued")
  /\ UNCHANGED <<last, call, notice, message>>

-----------------------------------------------------------------------------
(* Cancellation.                                                           *)

Cancellable == {"queued", "running", "waiting_approval"}

\* The request picks the newest cancellable attempt before it holds any lock,
\* then locks that row, whatever newer turns were queued, ran and paused in
\* between.  A row is queued as the newest, so each row that is cancellable
\* now may be the one it picked.  One that ended meanwhile changes nothing.
CancelCandidate(j, n) == attempt[j][n].status \in Cancellable

CancelIdle(j, n, reason) ==
  /\ SetAttempt(j, n, [attempt[j][n] EXCEPT !.status = "cancelled",
                                            !.cancel = reason])
  /\ SetJob(j, "cancelled")
  /\ NotifyIf(attempt[j][n].notify, j, n, "cancelled")
  /\ UNCHANGED <<last, message>>

CancelQueued(j, n, reason) ==
  /\ attempt[j][n].status = "queued"
  /\ job[j] = "queued"
  /\ CancelIdle(j, n, reason)
  /\ UNCHANGED call

\* Mutant: a second request is not idempotent.
CancelRunningAgain(j, n, reason) ==
  /\ attempt[j][n].status = "running"
  /\ job[j] \in {"running", "cancelling"}
  /\ BeginCancel(j, n, reason)

CancelRunning(j, n, reason) ==
  /\ attempt[j][n].status = "running"
  /\ job[j] \in {"running", "cancelling"}
  /\ attempt[j][n].cancel = "none"
  /\ BeginCancel(j, n, reason)

\* Mutant: the pending request outlives its turn.
CancelWaitingAttemptOnly(j, n, reason) ==
  /\ attempt[j][n].status = "waiting_approval"
  /\ job[j] = "waiting_approval"
  /\ CancelIdle(j, n, reason)
  /\ UNCHANGED call

CancelWaiting(j, n, reason) ==
  /\ attempt[j][n].status = "waiting_approval"
  /\ job[j] = "waiting_approval"
  /\ CancelIdle(j, n, reason)
  /\ call' = [call EXCEPT ![j] =
       [c \in Calls |-> IF @[c].status = "pending_approval"
                          THEN [@[c] EXCEPT !.status = "cancelled"]
                          ELSE @[c]]]

RequestJobCancellation(j, reason) ==
  \E n \in Seqs :
    /\ CancelCandidate(j, n)
    /\ \/ CancelQueued(j, n, reason)
       \/ CancelRunning(j, n, reason)
       \/ CancelWaiting(j, n, reason)

-----------------------------------------------------------------------------
(* Effects of a running attempt.                                           *)

\* Mutant: a replayed result overwrites the row instead of having to match it.
OverwriteToolResult(j, n, c, s, gated) ==
  /\ call[j][c].status \in {"executed", "failed", "none", "approved"}
  /\ call' = [call EXCEPT ![j][c] = [status |-> s, attempt |-> n]]

\* applyEffects(), case record_tool_result: an approved row is completed and
\* re-attributed, an absent row is inserted for an ungated call, a terminal
\* row must already say the same; every other combination throws.
RecordToolResult(j, n, c, s, gated) ==
  \/ /\ call[j][c].status = s
     /\ UNCHANGED call
  \/ /\ call[j][c].status = "approved" /\ gated
     /\ call' = [call EXCEPT ![j][c] = [status |-> s, attempt |-> n]]
  \/ /\ call[j][c].status = "none" /\ ~gated
     /\ call' = [call EXCEPT ![j][c] = [status |-> s, attempt |-> n]]

\* Mutant: the marker is written without looking at the lease and the owner.
BeginUnfencedEffect(j, n, w, c) ==
  /\ attempt[j][n].marker = None
  /\ SetAttempt(j, n, [attempt[j][n] EXCEPT !.marker = c])
  /\ UNCHANGED <<job, last, call, notice, message>>

BeginExternalAttemptEffect(j, n, w, c) ==
  /\ LiveAttempt(j, n, w)
  /\ attempt[j][n].marker = None
  /\ SetAttempt(j, n, [attempt[j][n] EXCEPT !.marker = c])
  /\ UNCHANGED <<job, last, call, notice, message>>

\* The one write that is allowed after a cancellation was requested; its last
\* clock sample still needs an unexpired lease.
CompleteExternalAttemptEffect(j, n, w, c, s, gated) ==
  /\ LiveOrCancelling(j, n, w)
  /\ attempt[j][n].marker = c
  /\ attempt[j][n].leaseLive
  /\ RecordToolResult(j, n, c, s, gated)
  /\ SetAttempt(j, n, [attempt[j][n] EXCEPT !.marker = None])
  /\ UNCHANGED <<job, last, notice, message>>

\* A result that completes an external call together with staged effects also
\* clears the marker, which must be that call's.
ApplyAttemptEffects(j, n, w, c, s, gated, completed) ==
  /\ LiveAttempt(j, n, w)
  /\ completed => attempt[j][n].marker = c
  /\ RecordToolResult(j, n, c, s, gated)
  /\ IF completed
       THEN SetAttempt(j, n, [attempt[j][n] EXCEPT !.marker = None])
       ELSE UNCHANGED attempt
  /\ UNCHANGED <<job, last, notice, message>>

-----------------------------------------------------------------------------
(* Settlement and recovery.                                                *)

\* settleAttempt() reads the clock: a passed deadline counts as a
\* cancellation even when no heartbeat noticed it.
SettleReason(a) ==
  IF a.cancel = "none" /\ a.deadlinePassed THEN "deadline" ELSE a.cancel

\* Mutants: the worker's verdict survives a stop; a stop hides a marker.
SettledAsReported(a, outcome) ==
  IF a.marker # None THEN "outcome_unknown" ELSE outcome

SettledStopFirst(a, outcome) ==
  CASE SettleReason(a) = "deadline" -> "timed_out"
    [] SettleReason(a) = "user"     -> "cancelled"
    [] OTHER -> IF a.marker # None THEN "outcome_unknown" ELSE outcome

SettledStatus(a, outcome) ==
  IF a.marker # None THEN "outcome_unknown"
  ELSE CASE SettleReason(a) = "deadline" -> "timed_out"
         [] SettleReason(a) = "user"     -> "cancelled"
         [] OTHER                        -> outcome

\* Mutant: a failed turn leaves its text in the transcript too.
SettleEffectsWithAnyReply(j, n, s, c, content) ==
  /\ s # "waiting_approval"
  /\ UNCHANGED call
  /\ IF content THEN AppendMessage(j, n, "assistant") ELSE UNCHANGED message

\* The settlement effects are applied only when the worker's outcome stands.
\* A pause creates the approval request; its row may not exist with any other
\* status.
SettleEffects(j, n, s, c, content) ==
  /\ IF s = "waiting_approval"
       THEN /\ call[j][c].status \in {"none", "pending_approval"}
            /\ call' = IF call[j][c].status = "none"
                         THEN [call EXCEPT ![j][c] =
                                 [status |-> "pending_approval", attempt |-> n]]
                         ELSE call
       ELSE UNCHANGED call
  /\ IF s \in {"done", "waiting_approval"} /\ content
       THEN AppendMessage(j, n, "assistant")
       ELSE UNCHANGED message

SettleAttempt(j, n, w, outcome, c, content) ==
  LET a == attempt[j][n]
      s == SettledStatus(a, outcome)
  IN  /\ LiveOrCancelling(j, n, w)
      /\ IF s = outcome THEN SettleEffects(j, n, s, c, content)
                        ELSE UNCHANGED <<call, message>>
      /\ SetAttempt(j, n, [a EXCEPT !.status = s, !.cancel = SettleReason(a)])
      /\ SetJob(j, s)
      /\ NotifyIf(a.notify \/ s = "waiting_approval", j, n, s)
      /\ UNCHANGED last

RecoveredStatus(a) ==
  IF a.marker # None THEN "outcome_unknown"
  ELSE IF a.cancel = "user" THEN "cancelled"
  ELSE IF a.cancel = "deadline" \/ a.deadlinePassed THEN "timed_out"
  ELSE "outcome_unknown"

\* Mutants: recovery scans running jobs only, or unmarked attempts only.
ExpiredOfRunningJobs ==
  {x \in Jobs \X Seqs : /\ attempt[x[1]][x[2]].status = "running"
                        /\ job[x[1]] = "running"
                        /\ ~attempt[x[1]][x[2]].leaseLive}

ExpiredUnmarked ==
  {x \in Jobs \X Seqs : /\ attempt[x[1]][x[2]].status = "running"
                        /\ attempt[x[1]][x[2]].marker = None
                        /\ ~attempt[x[1]][x[2]].leaseLive}

Expired == {x \in Jobs \X Seqs : /\ attempt[x[1]][x[2]].status = "running"
                                 /\ ~attempt[x[1]][x[2]].leaseLive}

\* Mutant: only one job of the batch is moved with its attempt.
AbandonWithOneJob(S) ==
  /\ S # {} /\ S \subseteq Expired
  /\ attempt' = [j \in Jobs |-> [n \in Seqs |->
       IF <<j, n>> \in S
         THEN [attempt[j][n] EXCEPT !.status = RecoveredStatus(attempt[j][n])]
         ELSE attempt[j][n]]]
  /\ LET x == CHOOSE x \in S : TRUE
     IN  SetJob(x[1], RecoveredStatus(attempt[x[1]][x[2]]))
  /\ UNCHANGED <<last, call, notice, message>>

\* One recovery transaction takes the expired attempts whose rows nobody else
\* has locked; an attempt whose job is in an unexpected status is settled
\* alone (the code's quarantine).
AbandonExpiredAttempts(S) ==
  /\ S # {} /\ S \subseteq Expired
  /\ attempt' = [j \in Jobs |-> [n \in Seqs |->
       IF <<j, n>> \in S
         THEN [attempt[j][n] EXCEPT !.status = RecoveredStatus(attempt[j][n])]
         ELSE attempt[j][n]]]
  /\ job' = [j \in Jobs |->
       IF job[j] \in {"running", "cancelling"} /\ \E n \in Seqs : <<j, n>> \in S
         THEN RecoveredStatus(attempt[j][CHOOSE n \in Seqs : <<j, n>> \in S])
         ELSE job[j]]
  /\ notice' = [j \in Jobs |->
       IF job[j] \in {"running", "cancelling"}
         THEN notice[j] \cup
              {[attempt |-> n, status |-> RecoveredStatus(attempt[j][n])] :
                 n \in {m \in Seqs : <<j, m>> \in S /\ attempt[j][m].notify}}
         ELSE notice[j]]
  /\ UNCHANGED <<last, call, message>>

-----------------------------------------------------------------------------
(* The clock.                                                              *)

LeaseExpires(j, n) ==
  /\ attempt[j][n].status = "running"
  /\ attempt[j][n].leaseLive
  /\ SetAttempt(j, n, [attempt[j][n] EXCEPT !.leaseLive = FALSE])
  /\ UNCHANGED <<job, last, call, notice, message>>

DeadlinePasses(j, n) ==
  /\ attempt[j][n].status = "running"
  /\ ~attempt[j][n].deadlinePassed
  /\ SetAttempt(j, n, [attempt[j][n] EXCEPT !.deadlinePassed = TRUE])
  /\ UNCHANGED <<job, last, call, notice, message>>

-----------------------------------------------------------------------------

Outcome == {"done", "waiting_approval", "failed"}
Result  == {"executed", "failed"}

Produce(j) ==
  \/ \E notify \in BOOLEAN : CreateQueuedJob(j, notify)
  \/ \E p \in Jobs, n \in Seqs, w \in Workers : CreateClaimedChild(p, n, w, j)
  \/ \E notify \in BOOLEAN : EnqueueContinuation(j, notify)
  \/ EnqueueRetry(j)
  \/ \E c \in Calls, approved \in BOOLEAN : EnqueueApprovalResume(j, c, approved)
  \/ \E reason \in Reasons : RequestJobCancellation(j, reason)

Work(j, n, w) ==
  \/ ClaimAttempt(j, n, w)
  \/ HeartbeatAttemptControl(j, n, w)
  \/ ReleaseUnstartedAttempt(j, n, w)
  \/ \E c \in Calls :
       \/ BeginExternalAttemptEffect(j, n, w, c)
       \/ \E s \in Result, gated \in BOOLEAN :
            \/ CompleteExternalAttemptEffect(j, n, w, c, s, gated)
            \/ \E completed \in BOOLEAN :
                 ApplyAttemptEffects(j, n, w, c, s, gated, completed)
       \/ \E outcome \in Outcome, content \in BOOLEAN :
            SettleAttempt(j, n, w, outcome, c, content)

Clock(j, n) == LeaseExpires(j, n) \/ DeadlinePasses(j, n)

Next ==
  \/ \E j \in Jobs : Produce(j)
  \/ \E j \in Jobs, n \in Seqs, w \in Workers : Work(j, n, w)
  \/ \E j \in Jobs, n \in Seqs : Clock(j, n)
  \/ \E S \in SUBSET Expired : AbandonExpiredAttempts(S)

Spec == Init /\ [][Next]_vars

-----------------------------------------------------------------------------
(* Safety.                                                                 *)

Latest(j) == attempt[j][last[j]]

AggregateOf(a) ==
  IF a.status = "running" /\ a.cancel # "none" THEN "cancelling" ELSE a.status

\* A stop picked a paused attempt, newer turns ran, and the last of them paused
\* too: the stop is on the older row and on the job.
StoppedBehind(j) ==
  /\ job[j] = "cancelled" /\ Latest(j).status = "waiting_approval"
  /\ \E n \in Seqs : /\ n < last[j]
                     /\ attempt[j][n].status = "cancelled" /\ attempt[j][n].cancel # "none"

(* The status of a job is a function of its newest attempt, and no older   *)
(* attempt is queued or running: every transaction that moves one row      *)
(* moves the other (settleAttempt, requestJobCancellation,                 *)
(* releaseUnstartedAttempt, abandonExpiredAttempts), so two turns of one   *)
(* chat never run at once and recovery never finds a job to quarantine.    *)
(* The one disagreement that any order of them can leave is that of a      *)
(* paused newest turn behind a stop that hit an older paused one.          *)
AggregateAgrees ==
  \A j \in Jobs :
    /\ IF last[j] = 0 THEN job[j] = "none"
                      ELSE job[j] = AggregateOf(Latest(j)) \/ StoppedBehind(j)
    /\ \A n \in Seqs : n < last[j] => attempt[j][n].status \in
                                         Settled \cup {"waiting_approval"}

(* Once a stop was requested the turn never ends as done or failed, and a  *)
(* user's stop is never reported as a timeout, whichever of the worker's   *)
(* settlement and the recovery loop gets there first.                      *)
CancelHonoured ==
  \A j \in Jobs, n \in Seqs :
    /\ attempt[j][n].cancel # "none" =>
         attempt[j][n].status \in {"running", "cancelled", "timed_out", "outcome_unknown"}
    /\ attempt[j][n].cancel = "user" => attempt[j][n].status # "timed_out"

(* An attempt that ended while an external call was in flight is           *)
(* outcome_unknown: neither the worker's own verdict, a cancellation, a    *)
(* deadline nor a retry may hide that the provider may have acted.         *)
UncertaintyKept ==
  \A j \in Jobs, n \in Seqs :
    attempt[j][n].marker # None => attempt[j][n].status \in {"running", "outcome_unknown"}

PendingCalls(j) == {c \in Calls : call[j][c].status = "pending_approval"}

\* The turn that resumes as attempt n follows the one that asked: it is still
\* paused, or a late stop ended it while it was.
AskedBefore(j, n) ==
  \/ attempt[j][n - 1].status = "waiting_approval"
  \/ /\ attempt[j][n - 1].status = "cancelled" /\ attempt[j][n - 1].cancel # "none"
     /\ [attempt |-> n - 1, status |-> "waiting_approval"] \in notice[j]

(* A job waits for approval exactly while one request of it is pending, and*)
(* that request was made by its newest attempt: no request can be left     *)
(* pending behind a job that moved on, and no job waits with nothing to    *)
(* decide, a stop that hit an older row included.  The turn that resumes   *)
(* directly follows the one that asked, which stays paused unless such a   *)
(* late stop ends it: settling, cancelling or recovering the resumed turn  *)
(* never rewrites it (settleAttempt, enqueueApprovalResume,                *)
(* requestJobCancellation).                                                *)
OnePendingApproval ==
  \A j \in Jobs :
    /\ IF job[j] = "waiting_approval"
         THEN \E c \in Calls : PendingCalls(j) = {c} /\ call[j][c].attempt = last[j]
         ELSE PendingCalls(j) = {}
    /\ \A n \in Seqs : attempt[j][n].input = "approval_resume" =>
         n > 1 /\ AskedBefore(j, n)

(* The owner is told once, and the truth: an opted-in attempt that ended   *)
(* has exactly one outcome notice and it names the status the attempt      *)
(* ended in; an attempt that did not opt in has none; a paused attempt     *)
(* always has its approval notice.                                         *)
OutcomeNotices(j, n) ==
  {m \in notice[j] : m.attempt = n /\ m.status # "waiting_approval"}

NoticesTellTheOutcome ==
  \A j \in Jobs, n \in Seqs :
    /\ OutcomeNotices(j, n) =
         IF attempt[j][n].notify /\ attempt[j][n].status \in Settled
           THEN {[attempt |-> n, status |-> attempt[j][n].status]}
           ELSE {}
    /\ attempt[j][n].status = "waiting_approval" =>
         [attempt |-> n, status |-> "waiting_approval"] \in notice[j]

(* A reply reaches the transcript only from a turn whose settlement stood: *)
(* one that is done, or paused (and perhaps cancelled while paused).  A    *)
(* turn that was stopped, timed out, failed or got lost leaves no reply.   *)
TranscriptOnlyFromStandingTurns ==
  \A j \in Jobs : \A m \in message[j] :
    m.role = "assistant" =>
      \/ attempt[j][m.attempt].status \in {"done", "waiting_approval"}
      \/ /\ attempt[j][m.attempt].status = "cancelled"
         /\ [attempt |-> m.attempt, status |-> "waiting_approval"] \in notice[j]

-----------------------------------------------------------------------------
(* What no step may do.                                                    *)

(* A settled attempt is final, whoever still believes to own it, and a job *)
(* whose outcome is unknown is never continued, retried or cancelled.      *)
SettledIsFinal ==
  [][\A j \in Jobs :
       /\ job[j] = "outcome_unknown" => job'[j] = "outcome_unknown"
       /\ \A n \in Seqs :
            attempt[j][n].status \in Settled => attempt'[j][n] = attempt[j][n]]_vars

(* The first request to stop decides: neither a second request nor the     *)
(* deadline rewrites the reason of a cancellation that is under way.       *)
FirstCancelWins ==
  [][\A j \in Jobs, n \in Seqs :
       attempt[j][n].cancel # "none" => attempt'[j][n].cancel = attempt[j][n].cancel]_vars

(* A tool row that needed a decision is completed only after it was        *)
(* approved, decided rows never become pending again and a completed row   *)
(* never changes: replays of record_tool_result and                        *)
(* create_pending_tool_call cannot reopen a decision.  After a stop was    *)
(* requested, the only row the turn may still change is the one of the     *)
(* external call that was in flight, and settling it clears the marker.    *)
DecisionsStand ==
  [][\A j \in Jobs, c \in Calls :
       LET old == call[j][c].status
           new == call'[j][c].status
       IN  /\ old # new =>
                CASE old = "none"             -> new \in Result \cup {"pending_approval"}
                  [] old = "pending_approval" -> new \in {"approved", "rejected", "cancelled"}
                  [] old = "approved"         -> new \in Result
                  [] OTHER                    -> FALSE
           /\ job[j] = "cancelling" /\ call'[j][c] # call[j][c] =>
                attempt[j][last[j]].marker = c /\ attempt'[j][last[j]].marker = None]_vars

-----------------------------------------------------------------------------
(* Progress.  Deadlines pass; nobody renews a lease once the deadline has  *)
(* passed or a stop was requested, so that lease runs out; and some worker *)
(* keeps running the recovery loop.                                        *)

LeaseRunsOut(j, n) ==
  /\ attempt[j][n].deadlinePassed \/ attempt[j][n].cancel # "none"
  /\ LeaseExpires(j, n)

Fairness ==
  /\ \A j \in Jobs, n \in Seqs : /\ WF_vars(DeadlinePasses(j, n))
                                 /\ WF_vars(LeaseRunsOut(j, n))
  /\ WF_vars(AbandonExpiredAttempts(Expired))

FairSpec == Spec /\ Fairness

(* A stop request on a running turn is carried out even when the worker    *)
(* died, hangs, or keeps heartbeating.                                     *)
StopIsCarriedOut ==
  \A j \in Jobs : job[j] = "cancelling" ~>
    job[j] \in {"cancelled", "timed_out", "outcome_unknown"}

(* Every claimed turn comes to an end or goes back to the queue, with no   *)
(* help from the worker that claimed it.                                   *)
EveryClaimEnds ==
  \A j \in Jobs, n \in Seqs :
    attempt[j][n].status = "running" ~> attempt[j][n].status # "running"

(* The job row follows the lifecycle the owner was promised.               *)
Lifecycle == INSTANCE JobLifecycle WITH status <- job

ImplementsLifecycle == Lifecycle!Safety

=============================================================================
