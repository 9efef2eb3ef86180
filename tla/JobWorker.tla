------------------------------ MODULE JobWorker ------------------------------
(***************************************************************************)
(* The executor of backend/src/orchestration/job-worker.ts over the durable*)
(* protocol of JobAttempts: what one process does, between its database    *)
(* transactions, with an attempt it claimed.                               *)
(*                                                                         *)
(* A worker id is one slot of one process incarnation.  A claimed attempt  *)
(* has a frame (the local variables of runClaimed); the heartbeat timer,   *)
(* the deadline timer and the listener that passes a parent's abort on to  *)
(* an inline delegated child run between the steps of the execution.  A    *)
(* process may die at any step, and a database call may fail at any step.  *)
(***************************************************************************)
EXTENDS JobAttempts

CONSTANTS
  RootJobs,   \* jobs the owner may open; the others are only delegated
  DbFails     \* whether a database call of a worker may fail

ASSUME WorkerAssumption ==
  RootJobs \subseteq Jobs /\ DbFails \in BOOLEAN /\ Calls # {}

VARIABLES
  up,         \* processes that have not died
  accepting,  \* JobWorker.accepting
  frame,      \* the invocation of runClaimed for each attempt
  acts        \* how often the provider performed each external call

workerVars == <<up, accepting, frame, acts>>
allVars == <<vars, workerVars>>

MaxActs == 2

Aborts == {"no", "user", "deadline", "lease"}

\* claimed: between the claim and the accepting check.  run: before the next
\* lease assertion.  live: one has just succeeded.  calling: the external
\* call is marked and in flight; acted: the provider has performed it.
\* child: awaiting a delegated child.  finish:
\* execute() returned or threw.
Pcs == {"none", "claimed", "run", "live", "calling", "acted", "child", "finish"}

Frame ==
  [pc        : Pcs,
   worker    : Workers \cup {None},
   aborted   : Aborts,               \* controller.signal and its reason
   leaseLost : BOOLEAN,
   outcome   : Outcome,
   target    : Calls \cup {None},    \* the external or pending call
   parent    : (Jobs \X Seqs) \cup {None}, \* whose parentSignal is linked
   cascaded  : BOOLEAN]              \* parentCancellationInFlight is set

NoFrame ==
  [pc |-> "none", worker |-> None, aborted |-> "no", leaseLost |-> FALSE,
   outcome |-> "failed", target |-> None, parent |-> None, cascaded |-> FALSE]

WorkerTypeOK ==
  /\ up \subseteq Workers /\ accepting \subseteq Workers
  /\ frame \in [Jobs -> [Seqs -> Frame]]
  /\ acts \in [Jobs -> [Calls -> 0 .. MaxActs]]

WorkerInit ==
  /\ Init
  /\ up = Workers /\ accepting = Workers
  /\ frame = [j \in Jobs |-> [n \in Seqs |-> NoFrame]]
  /\ acts = [j \in Jobs |-> [c \in Calls |-> 0]]

-----------------------------------------------------------------------------

F(j, n) == frame[j][n]

\* The frame's process is alive and control is at pc.
At(j, n, pc) == F(j, n).pc = pc /\ F(j, n).worker \in up

\* Timers and listeners of the frame may still act; a poll or a cascade that
\* is under way when the execution ends is awaited before settlement.
TimersOn(j, n) ==
  \E pc \in {"run", "live", "calling", "acted", "child", "finish"} : At(j, n, pc)

SetFrame(j, n, f) == frame' = [frame EXCEPT ![j][n] = f]

Goto(j, n, pc) == SetFrame(j, n, [F(j, n) EXCEPT !.pc = pc, !.target = None])

\* runClaimed()'s catch: whatever was thrown, the local outcome is "failed".
Throw(j, n, lost) ==
  SetFrame(j, n, [F(j, n) EXCEPT !.pc = "finish", !.outcome = "failed", !.target = None,
                                 !.leaseLost = @ \/ lost])

\* Mutant: the abort keeps no reason.
AbortedUnexplained(f, reason) == [f EXCEPT !.aborted = "aborted"]

\* AbortController.abort(): the first reason stays.
Aborted(f, reason) == IF f.aborted = "no" THEN [f EXCEPT !.aborted = reason] ELSE f

LoseLease(f) == [Aborted(f, "lease") EXCEPT !.leaseLost = TRUE]

SlotFree(w) == \A j \in Jobs, n \in Seqs : F(j, n).worker # w

-----------------------------------------------------------------------------
(* slotLoop().                                                             *)

Claim(j, n, w) ==
  /\ w \in up \cap accepting
  /\ SlotFree(w)
  /\ ClaimAttempt(j, n, w)
  /\ SetFrame(j, n, [NoFrame EXCEPT !.pc = "claimed", !.worker = w])
  /\ UNCHANGED <<up, accepting, acts>>

StartClaimed(j, n) ==
  /\ At(j, n, "claimed")
  /\ F(j, n).worker \in accepting
  /\ Goto(j, n, "run")
  /\ UNCHANGED <<vars, up, accepting, acts>>

\* Mutant: stop() drops the turn where it stands, started or not.
ReleaseAnyClaim(j, n) ==
  /\ F(j, n).pc \in {"claimed", "run"} /\ F(j, n).worker \in up \ accepting
  /\ \/ ReleaseUnstartedAttempt(j, n, F(j, n).worker)
     \/ ~(Owned(j, n, F(j, n).worker) /\ job[j] = "running") /\ UNCHANGED vars
  /\ SetFrame(j, n, NoFrame)
  /\ UNCHANGED <<up, accepting, acts>>

\* stop() came between the claim and its check: the claim goes back to the
\* queue, or is left to recovery when the release fails or it is no longer this
\* worker's to release.
ReleaseClaimed(j, n) ==
  /\ At(j, n, "claimed")
  /\ F(j, n).worker \notin accepting
  /\ \/ ReleaseUnstartedAttempt(j, n, F(j, n).worker)
     \/ /\ DbFails \/ ~(Owned(j, n, F(j, n).worker) /\ job[j] = "running")
        /\ UNCHANGED vars
  /\ SetFrame(j, n, NoFrame)
  /\ UNCHANGED <<up, accepting, acts>>

-----------------------------------------------------------------------------
(* Timers and listeners, which run between any two steps of the execution. *)

\* pollControl(): a requested stop or an observed deadline aborts the
\* controller and keeps the settlement; anything else that is not live, and
\* a failing heartbeat, gives the attempt up.
PollControl(j, n) ==
  LET f == F(j, n)
      w == f.worker
  IN  /\ TimersOn(j, n)
      /\ \/ /\ HeartbeatAttemptControl(j, n, w)
            /\ SetFrame(j, n, Aborted(f, "deadline"))
         \/ /\ Owned(j, n, w) /\ attempt[j][n].cancel # "none"
            /\ SetFrame(j, n, Aborted(f, attempt[j][n].cancel))
            /\ UNCHANGED vars
         \/ /\ ~Owned(j, n, w) \/ (attempt[j][n].cancel = "none" /\ ~attempt[j][n].leaseLive)
            /\ SetFrame(j, n, LoseLease(f))
            /\ UNCHANGED vars
      /\ UNCHANGED <<up, accepting, acts>>

HeartbeatFails(j, n) ==
  /\ DbFails
  /\ TimersOn(j, n)
  /\ SetFrame(j, n, LoseLease(F(j, n)))
  /\ UNCHANGED <<vars, up, accepting, acts>>

\* abortAttempt(), called by the process that committed the owner's request.
AbortAttempt(j, n) ==
  /\ TimersOn(j, n)
  /\ attempt[j][n].cancel = "user"
  /\ SetFrame(j, n, Aborted(F(j, n), "user"))
  /\ UNCHANGED <<vars, up, accepting, acts>>

ParentFrame(j, n) == LET p == F(j, n).parent IN F(p[1], p[2])

\* requestJobCancellation() answers "accepted" with nothing left to do.
StopAccepted(j) ==
  \/ job[j] = "cancelling"
  \/ /\ job[j] \in {"cancelled", "timed_out"}
     /\ \A n \in Seqs : attempt[j][n].status \notin Cancellable

\* Mutant: the listener is never linked.
NoCascade(j, n) == FALSE

\* cascadeParentCancellation(): a durable request for the child's own job
\* with the parent's reason, then the local abort; once per child.  A request
\* that had picked the child's turn just before it ended is refused.
CascadeParentCancellation(j, n) ==
  LET f == F(j, n)
      r == ParentFrame(j, n).aborted
      reason == IF r = "lease" THEN "user" ELSE r
  IN  /\ TimersOn(j, n)
      /\ f.parent # None /\ ~f.cascaded /\ ParentFrame(j, n).aborted # "no"
      /\ \/ /\ RequestJobCancellation(j, reason)
            /\ SetFrame(j, n, [Aborted(f, reason) EXCEPT !.cascaded = TRUE])
         \/ /\ StopAccepted(j)
            /\ SetFrame(j, n, [Aborted(f, reason) EXCEPT !.cascaded = TRUE])
            /\ UNCHANGED vars
         \/ /\ attempt[j][n].status # "running"
            /\ SetFrame(j, n, [f EXCEPT !.cascaded = TRUE])
            /\ UNCHANGED vars
         \/ /\ DbFails
            /\ SetFrame(j, n, [LoseLease(f) EXCEPT !.cascaded = TRUE])
            /\ UNCHANGED vars
      /\ UNCHANGED <<up, accepting, acts>>

-----------------------------------------------------------------------------
(* The execution: one turn of the graph, seen from its database calls.     *)

\* assertLive(): passed before the model, every tool, and settlement.
AssertLive(j, n) ==
  LET f == F(j, n)
  IN  /\ At(j, n, "run")
      /\ IF f.aborted = "no" /\ ~f.leaseLost /\ LiveAttempt(j, n, f.worker)
           THEN SetFrame(j, n, [f EXCEPT !.pc = "live"])
           ELSE Throw(j, n, f.aborted = "no")
      /\ UNCHANGED <<vars, up, accepting, acts>>

\* Calls the model may make now: new ones, and those the owner approved.
Runnable(j, c) == call[j][c].status \in {"none", "approved"}
Gated(j, c) == call[j][c].status = "approved"

\* applyEffects() found the attempt not live (or rolled back on a conflict),
\* or the database failed.
NotRecorded(j, n, live) ==
  /\ \/ ~live /\ Throw(j, n, TRUE)
     \/ DbFails /\ Throw(j, n, FALSE)
  /\ UNCHANGED vars

\* A tool without an external effect: run() and then its one transaction.
RunTool(j, n, c, s) ==
  LET w == F(j, n).worker
  IN  /\ At(j, n, "live")
      /\ Runnable(j, c)
      /\ \/ ApplyAttemptEffects(j, n, w, c, s, Gated(j, c), FALSE) /\ Goto(j, n, "run")
         \/ NotRecorded(j, n, LiveAttempt(j, n, w))
      /\ UNCHANGED <<up, accepting, acts>>

\* The same tool when the abort arrived first: runAndReport() catches what
\* assertLease() throws and records it like any failure of the tool.
ReportAborted(j, n, c) ==
  /\ At(j, n, "run")
  /\ F(j, n).aborted # "no"
  /\ Runnable(j, c)
  /\ LET w == F(j, n).worker
     IN  \/ /\ ApplyAttemptEffects(j, n, w, c, "failed", Gated(j, c), FALSE)
            /\ Goto(j, n, "run")
         \/ NotRecorded(j, n, LiveAttempt(j, n, w))
  /\ UNCHANGED <<up, accepting, acts>>

\* Mutant: the provider is called without a marker.
BeginUnmarkedEffect(j, n, c) ==
  /\ At(j, n, "live")
  /\ Runnable(j, c)
  /\ SetFrame(j, n, [F(j, n) EXCEPT !.pc = "calling", !.target = c])
  /\ UNCHANGED <<vars, up, accepting, acts>>

\* beginExternalEffect(): the marker is committed before the provider is
\* called; when it cannot be, the refusal is recorded as a failed call.
BeginExternalEffect(j, n, c) ==
  LET w == F(j, n).worker
      marked == LiveAttempt(j, n, w) /\ attempt[j][n].marker = None
  IN  /\ At(j, n, "live")
      /\ Runnable(j, c)
      /\ \/ /\ BeginExternalAttemptEffect(j, n, w, c)
            /\ SetFrame(j, n, [F(j, n) EXCEPT !.pc = "calling", !.target = c])
         \/ /\ ~marked
            /\ \/ /\ ApplyAttemptEffects(j, n, w, c, "failed", Gated(j, c), FALSE)
                  /\ Goto(j, n, "run")
               \/ NotRecorded(j, n, LiveAttempt(j, n, w))
      /\ UNCHANGED <<up, accepting, acts>>

\* The provider performs the call it was sent, perhaps after the process that
\* sent it has died.
ProviderActs(j, n) ==
  LET c == F(j, n).target
  IN  /\ F(j, n).pc = "calling"
      /\ acts[j][c] < MaxActs
      /\ acts' = [acts EXCEPT ![j][c] = @ + 1]
      /\ SetFrame(j, n, [F(j, n) EXCEPT !.pc = "acted"])
      /\ UNCHANGED <<vars, up, accepting>>

\* run() returned or threw.  An answer, or an error the tool vouches for
\* (externalOutcomeKnown), completes the call and clears the marker; any
\* other error is recorded and the marker stays.  A result with staged
\* persona writes takes applyAttemptEffects instead.
CallReturns(j, n, s, known) ==
  LET w == F(j, n).worker
      c == F(j, n).target
      g == Gated(j, c)
  IN  /\ At(j, n, "calling") \/ At(j, n, "acted")
      /\ s = "executed" => known /\ At(j, n, "acted")
      /\ \/ /\ known
            /\ \/ CompleteExternalAttemptEffect(j, n, w, c, s, g)
               \/ ApplyAttemptEffects(j, n, w, c, s, g, TRUE)
            /\ Goto(j, n, "run")
         \/ /\ ~known
            /\ ApplyAttemptEffects(j, n, w, c, s, g, FALSE)
            /\ Goto(j, n, "run")
         \/ NotRecorded(j, n, IF known THEN LiveOrCancelling(j, n, w)
                                       ELSE LiveAttempt(j, n, w))
      /\ UNCHANGED <<up, accepting, acts>>

\* executeChild(): the child runs inline, on its parent's worker id, even
\* when stop() was called; a refusal becomes the tool's result.
ExecuteChild(p, m, j) ==
  LET f == F(p, m)
  IN  /\ At(p, m, "live")
      /\ \/ /\ CreateClaimedChild(p, m, f.worker, j)
            /\ frame' = [[frame EXCEPT ![p][m] = [f EXCEPT !.pc = "child"]] EXCEPT
                 ![j][1] = [NoFrame EXCEPT !.pc = "run", !.worker = f.worker,
                                           !.parent = <<p, m>>]]
         \/ /\ ~LiveAttempt(p, m, f.worker)
            /\ Goto(p, m, "run")
            /\ UNCHANGED vars
      /\ UNCHANGED <<up, accepting, acts>>

\* The graph ends: an answer, an error, or an interrupt on a new gated call.
EndTurn(j, n, outcome, c) ==
  /\ At(j, n, "live")
  /\ IF outcome = "waiting_approval" THEN c # None /\ call[j][c].status = "none"
                                     ELSE c = None
  /\ SetFrame(j, n, [F(j, n) EXCEPT !.pc = "finish", !.outcome = outcome, !.target = c])
  /\ UNCHANGED <<vars, up, accepting, acts>>

-----------------------------------------------------------------------------
(* The end of runClaimed().                                                *)

\* The frame is gone; a parent that awaited it goes on.
Leave(j, n) ==
  frame' = [k \in Jobs |-> [m \in Seqs |->
    CASE k = j /\ m = n               -> NoFrame
      [] F(j, n).parent = <<k, m>>    -> [F(k, m) EXCEPT !.pc = "run"]
      [] OTHER                        -> F(k, m)]]

Settle(j, n) ==
  LET f == F(j, n)
  IN  /\ At(j, n, "finish")
      /\ ~f.leaseLost
      /\ SettleAttempt(j, n, f.worker, f.outcome, f.target, FALSE)
      /\ Leave(j, n)
      /\ UNCHANGED <<up, accepting, acts>>

\* leaseLost, a settlement that matched nothing, or one that failed: the
\* attempt is left to recovery.
LeaveUnsettled(j, n) ==
  /\ At(j, n, "finish")
  /\ DbFails \/ F(j, n).leaseLost \/ ~LiveOrCancelling(j, n, F(j, n).worker)
  /\ Leave(j, n)
  /\ UNCHANGED <<vars, up, accepting, acts>>

-----------------------------------------------------------------------------
(* Process lifecycle and the owner.                                        *)

Stop(w) ==
  /\ w \in accepting
  /\ accepting' = accepting \ {w}
  /\ UNCHANGED <<vars, up, frame, acts>>

\* Nothing of the process survives but the call it had already sent.
Crash(w) ==
  /\ w \in up
  /\ up' = up \ {w}
  /\ accepting' = accepting \ {w}
  /\ frame' = [j \in Jobs |-> [n \in Seqs |->
       IF F(j, n).worker = w /\ F(j, n).pc # "calling" THEN NoFrame ELSE F(j, n)]]
  /\ UNCHANGED <<vars, acts>>

\* recoverOnce(), by any process.
RecoverOnce(S) ==
  /\ AbandonExpiredAttempts(S)
  /\ UNCHANGED workerVars

Owner(j) ==
  /\ \/ j \in RootJobs /\ CreateQueuedJob(j, FALSE)
     \/ EnqueueRetry(j)
     \/ \E c \in Calls, approved \in BOOLEAN : EnqueueApprovalResume(j, c, approved)
     \/ RequestJobCancellation(j, "user")
  /\ UNCHANGED workerVars

Timer(j, n) ==
  \/ PollControl(j, n)  \/ HeartbeatFails(j, n)
  \/ AbortAttempt(j, n) \/ CascadeParentCancellation(j, n)

Execute(j, n) ==
  \/ StartClaimed(j, n) \/ ReleaseClaimed(j, n)
  \/ AssertLive(j, n)
  \/ \E c \in Calls : \/ ReportAborted(j, n, c)
                      \/ \E s \in Result : RunTool(j, n, c, s)
                      \/ BeginExternalEffect(j, n, c)
  \/ \E outcome \in Outcome, c \in Calls \cup {None} : EndTurn(j, n, outcome, c)
  \/ ProviderActs(j, n)
  \/ \E s \in Result, known \in BOOLEAN : CallReturns(j, n, s, known)
  \/ \E k \in Jobs : ExecuteChild(j, n, k)
  \/ Settle(j, n)       \/ LeaveUnsettled(j, n)

WorkerNext ==
  \/ \E w \in Workers : Stop(w) \/ Crash(w)
  \/ \E j \in Jobs : Owner(j)
  \/ \E j \in Jobs, n \in Seqs : Timer(j, n) \/ Execute(j, n)
  \/ \E j \in Jobs, n \in Seqs, w \in Workers : Claim(j, n, w)
  \/ \E j \in Jobs, n \in Seqs : Clock(j, n) /\ UNCHANGED workerVars
  \/ \E S \in SUBSET Expired : RecoverOnce(S)

WorkerSpec == WorkerInit /\ [][WorkerNext]_allVars

-----------------------------------------------------------------------------
(* Safety.                                                                 *)

(* What the provider did is never lost: either its result is on record, or *)
(* the attempt that sent the call is still running with the call's marker, *)
(* or that attempt ended as outcome_unknown.  Crashes, lost leases, stops, *)
(* deadlines and failing transactions between the call and its record are  *)
(* all on the way (runAndReport, beginExternalEffect, settleAttempt).  And *)
(* no interleaving of retries, approvals, restarts and stale workers makes *)
(* the provider perform one call twice.                                    *)
EffectsAreAccountedFor ==
  \A j \in Jobs, c \in Calls :
    /\ acts[j][c] <= 1
    /\ acts[j][c] = 1 =>
         \/ call[j][c].status \in Result
         \/ \E n \in Seqs : /\ attempt[j][n].marker = c
                            /\ attempt[j][n].status \in {"running", "outcome_unknown"}

(* A worker that lost its attempt may still be waiting for a provider, but *)
(* no other turn of the same chat then gets as far as a call of its own.   *)
OneCallInFlight ==
  \A j \in Jobs, m, n \in Seqs :
    F(j, m).pc \in {"calling", "acted"} /\ F(j, n).pc \in {"calling", "acted"} => m = n

(* "The worker owns the final conservative classification" of a stopped    *)
(* turn: a living worker whose attempt is still its own settles it before  *)
(* it turns to other work.                                                 *)
OwnerClassifiesTheStop ==
  [][\A j \in Jobs, n \in Seqs :
       /\ At(j, n, "finish") /\ up' = up
       /\ frame'[j][n].pc = "none"
       /\ LiveOrCancelling(j, n, F(j, n).worker) /\ attempt[j][n].cancel # "none"
       => attempt'[j][n].status # "running"]_allVars

-----------------------------------------------------------------------------
(* Progress of delegation.  The timers and listeners of a living process   *)
(* fire, a lease that nobody renews runs out, and some process recovers.   *)
(* No deadline needs to pass, and no model or provider needs to answer.    *)

\* Nobody renews it: the process or its frame is gone, or a stop was asked.
Unrenewed(j, n) ==
  \/ F(j, n).pc = "none" \/ F(j, n).worker \notin up \/ F(j, n).leaseLost
  \/ attempt[j][n].cancel # "none"

WorkerFairness ==
  /\ \A j \in Jobs, n \in Seqs :
       /\ WF_allVars(PollControl(j, n))
       /\ WF_allVars(CascadeParentCancellation(j, n))
       /\ WF_allVars(Unrenewed(j, n) /\ LeaseExpires(j, n) /\ UNCHANGED workerVars)
  /\ WF_allVars(RecoverOnce(Expired))

FairWorkerSpec == WorkerSpec /\ WorkerFairness

(* A stop of the parent reaches the delegated child it waits for, on its   *)
(* own job row: the child does not run on until its own deadline.          *)
StopReachesTheChild ==
  \A p, j \in Jobs, m, n \in Seqs :
    /\ F(j, n).parent = <<p, m>> /\ F(p, m).pc = "child"
    /\ attempt[p][m].cancel # "none"
    ~> attempt[j][n].status # "running"

=============================================================================
