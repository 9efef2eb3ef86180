----------------------------- MODULE MCProgress -----------------------------
(* Progress without help, and progress of a family, side by side: in each  *)
(* behaviour either the durable protocol moves alone under a live clock    *)
(* and a live recovery loop, or a living worker runs a parent that awaits  *)
(* its inline delegated child, whose deadlines need not pass.              *)
EXTENDS MCJobWorker

VARIABLE part

progressVars == <<part, allVars>>

ProgressInit == part \in {"attempts", "family"} /\ WorkerInit

\* Bound: the family makes no call.
NoCall == \A j \in Jobs, n \in Seqs : frame[j][n].target = None

ProgressNext ==
  \/ part = "attempts" /\ Next /\ UNCHANGED <<part, workerVars>>
  \/ part = "family" /\ UNCHANGED <<part, call>> /\ WorkerNext /\ NoCall'

ProgressFairness ==
  /\ \A j \in Jobs, n \in Seqs :
       /\ WF_progressVars(part = "attempts" /\ DeadlinePasses(j, n) /\ UNCHANGED <<part, workerVars>>)
       /\ WF_progressVars(part = "attempts" /\ LeaseRunsOut(j, n) /\ UNCHANGED <<part, workerVars>>)
       /\ WF_progressVars(part = "family" /\ PollControl(j, n) /\ UNCHANGED part)
       /\ WF_progressVars(part = "family" /\ CascadeParentCancellation(j, n) /\ UNCHANGED part)
       /\ WF_progressVars(part = "family" /\ Unrenewed(j, n) /\ LeaseExpires(j, n)
                            /\ UNCHANGED <<part, workerVars>>)
  /\ WF_progressVars(part = "attempts" /\ AbandonExpiredAttempts(Expired)
                       /\ UNCHANGED <<part, workerVars>>)
  /\ WF_progressVars(part = "family" /\ RecoverOnce(Expired) /\ UNCHANGED part)

ProgressSpec == ProgressInit /\ [][ProgressNext]_progressVars /\ ProgressFairness

\* Every claimed turn comes to an end or goes back to the queue, with no help
\* from the worker that claimed it, where the clock runs (job-worker.ts).
EveryClaimEndsInTime == part = "attempts" => EveryClaimEnds

=============================================================================
