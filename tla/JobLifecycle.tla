---------------------------- MODULE JobLifecycle ----------------------------
(***************************************************************************)
(* What RetinueOS promises the owner about one chat (a row of jobs): the   *)
(* statuses a job may move between, whatever workers, crashes, leases and  *)
(* retries do underneath.  JobAttempts implements this specification.      *)
(***************************************************************************)
CONSTANT Jobs

VARIABLE status

(* A turn that is over, and what the owner is told about it.               *)
Outcomes == {"done", "failed", "cancelled", "timed_out", "outcome_unknown"}

Statuses == {"none", "queued", "running", "cancelling", "waiting_approval"}
              \cup Outcomes

Init == status = [j \in Jobs |-> "none"]

Move(j, from, to) ==
  /\ status[j] \in from
  /\ \E s \in to : status' = [status EXCEPT ![j] = s]

(* A new chat is queued; a delegated child is born running.                *)
Open(j) == Move(j, {"none"}, {"queued", "running"})

(* A worker takes the turn, or gives it back before touching anything.     *)
Start(j)  == Move(j, {"queued"}, {"running"})
Return(j) == Move(j, {"running"}, {"queued"})

(* Nobody asked to stop: the turn ends or pauses, but is never "cancelled".*)
Finish(j) ==
  Move(j, {"running"},
       {"done", "failed", "waiting_approval", "timed_out", "outcome_unknown"})

(* A stop request on a running turn is a promise: done and failed are out. *)
AskToStop(j) == Move(j, {"running"}, {"cancelling"})
Stop(j) == Move(j, {"cancelling"}, {"cancelled", "timed_out", "outcome_unknown"})

(* A turn that is not running stops at once.                               *)
StopIdle(j) == Move(j, {"queued", "waiting_approval"}, {"cancelled"})

(* An approval decision, a new user message or a retry queues the next     *)
(* turn.  Nothing ever leaves outcome_unknown.                             *)
Decide(j) == Move(j, {"waiting_approval"}, {"queued"})
Again(j)  == Move(j, {"done", "failed", "cancelled", "timed_out"}, {"queued"})

(* Recovery may declare several dead turns over in one transaction.        *)
Recover(S) ==
  /\ S # {}
  /\ \A j \in S : status[j] \in {"running", "cancelling"}
  /\ \E to \in [S -> {"cancelled", "timed_out", "outcome_unknown"}] :
       /\ \A j \in S : to[j] = "cancelled" => status[j] = "cancelling"
       /\ status' = [j \in Jobs |-> IF j \in S THEN to[j] ELSE status[j]]

Next ==
  \/ \E j \in Jobs :
       \/ Open(j)      \/ Start(j)    \/ Return(j)  \/ Finish(j)
       \/ AskToStop(j) \/ Stop(j)     \/ StopIdle(j)
       \/ Decide(j)    \/ Again(j)
  \/ \E S \in SUBSET Jobs : Recover(S)

Safety == Init /\ [][Next]_status

=============================================================================
